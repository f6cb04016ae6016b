----------------------------- MODULE UdpTunnel ------------------------------
(***************************************************************************)
(* One SOCKS UDP association through a tunnel: handleUDPAssociate          *)
(* (cmd/slppc/main.go), the UDP cases of both frame handlers               *)
(* (cmd/slppc/main.go, internal/transport/server.go) and the UDP relay     *)
(* (internal/relay/udp.go), on top of TunnelLink.tla, from the moment the  *)
(* client is authenticated.                                                *)
(*                                                                         *)
(* A key is the remote an application's datagram is for; the association   *)
(* opens a channel for a key and remembers it.  Datagrams are numbered in  *)
(* the order the association reads them.  A frame's n is the datagram's    *)
(* number, the key in OPENUDP, and in an answer the key of the remote that *)
(* sent it.  The deadline of a datagram, two clocks apart, is a choice.    *)
(***************************************************************************)
EXTENDS TunnelLink

CONSTANTS
    Key,           \* the remotes
    MaxDatagrams,  \* bound of the model: datagrams the application sends
    MaxReplies     \* bound of the model: datagrams the remotes send

NoKey == 0

ASSUME UdpAssumption ==
    Key \subseteq Nat \ {NoKey} /\ MaxDatagrams \in Nat /\ MaxReplies \in Nat

VARIABLES
    assoc,        \* client: handleUDPAssociate, reading or opening a channel
    cached,       \* client: channelForRemote
    routes,       \* client: routes[ch]: the key in c.udpRoutes, NoKey if none
    used,         \* client: the channels nextChannel has returned
    resCh,        \* client: the answer waiting in openUDPChannel's resCh
    openResults,  \* client: the channels in c.openResults
    dest,         \* server: the key whose address was dialled for ch
    assocs,       \* server: the channels in the relay's assocs
    relay,        \* server: relay[ch]: the goroutine readLoop of the relay
    sock,         \* server: the socket: "refused" has an error pending
    sentTo,       \* the keys of the datagrams 1, 2, ... read so far
    got,          \* got[k]: the datagrams the remote k was sent
    replied,      \* datagrams the relay has received so far
    replies,      \* the answers the application got: as what, and from whom
    refused       \* the channels whose remote has been unreachable

clientVars == <<assoc, cached, routes, used, resCh, openResults>>
serverVars == <<dest, assocs, relay, sock>>
historyVars == <<sentTo, got, replied, replies, refused>>
vars == <<linkVars, clientVars, serverVars, historyVars>>

Idle == [pc |-> "read", ch |-> NoCh]

Init ==
    /\ LinkInit(<< >>)
    /\ assoc = Idle
    /\ cached = [k \in Key |-> NoCh]
    /\ routes = [ch \in Ch |-> NoKey]
    /\ used = {}
    /\ resCh = [ch \in Ch |-> "empty"] /\ openResults = {}
    /\ dest = [ch \in Ch |-> NoKey] /\ assocs = {}
    /\ relay = [ch \in Ch |-> "none"] /\ sock = [ch \in Ch |-> "none"]
    /\ sentTo = << >> /\ got = [k \in Key |-> << >>]
    /\ replied = 0 /\ replies = {} /\ refused = {}

-----------------------------------------------------------------------------
(* The client: handleUDPAssociate *)

\* ReadFromUDP returns a datagram for a remote whose channel is remembered.  The
\* error of QueueData is ignored.
AssocSends(k) ==
    /\ assoc = Idle /\ Len(sentTo) < MaxDatagrams
    /\ cached[k] # NoCh
    /\ sentTo' = Append(sentTo, k)
    /\ TryQueueData("client", Frame("UDPDATA", cached[k], Len(sentTo) + 1))
    /\ UNCHANGED <<control, phase, wire, endVars, clientVars, serverVars, got, replied, replies, refused>>

\* Mutant: the number of a channel that was given up is used again.
MutFresh == {ch \in Ch : \A k \in Key : cached[k] # ch}

Fresh == Ch \ used

\* ... or for another one: openUDPChannel registers the route and its resCh and
\* queues OPENUDP.  If the queue is full the datagram is dropped.
AssocOpens(k, ch) ==
    /\ assoc = Idle /\ Len(sentTo) < MaxDatagrams
    /\ cached[k] = NoCh /\ ch \in Fresh
    /\ sentTo' = Append(sentTo, k)
    /\ used' = used \union {ch}
    /\ routes' = [routes EXCEPT ![ch] = k]
    /\ openResults' = openResults \union {ch}
    /\ IF ControlFull("client")
       THEN UNCHANGED <<assoc, control>>
       ELSE /\ QueueControl("client", Frame("OPENUDP", ch, k))
            /\ assoc' = [pc |-> "opening", ch |-> ch]
    /\ UNCHANGED <<data, phase, wire, endVars, cached, resCh, serverVars,
                   got, replied, replies, refused>>

\* The association reads nothing else until it has its answer; its datagram is
\* the last one read.
AssocAnswered ==
    /\ assoc.pc = "opening" /\ resCh[assoc.ch] # "empty"
    /\ assoc' = Idle
    /\ IF resCh[assoc.ch] = "ok"
       THEN /\ cached' = [cached EXCEPT ![sentTo[Len(sentTo)]] = assoc.ch]
            /\ TryQueueData("client", Frame("UDPDATA", assoc.ch, Len(sentTo)))
       ELSE UNCHANGED <<cached, data>>
    /\ resCh' = [resCh EXCEPT ![assoc.ch] = "empty"]
    /\ UNCHANGED <<control, phase, wire, endVars, routes, used, openResults,
                   serverVars, historyVars>>

\* Mutant: the error of a timeout is taken for a nil error.
MutAssocTimesOut ==
    /\ assoc.pc = "opening"
    /\ assoc' = Idle
    /\ cached' = [cached EXCEPT ![sentTo[Len(sentTo)]] = assoc.ch]
    /\ UNCHANGED <<linkVars, routes, used, resCh, openResults, serverVars, historyVars>>

\* After ten seconds it drops the datagram, and keeps the route.
AssocTimesOut ==
    /\ assoc.pc = "opening"
    /\ assoc' = Idle
    /\ UNCHANGED <<linkVars, cached, routes, used, resCh, openResults, serverVars, historyVars>>

-----------------------------------------------------------------------------
(* The client: the UDP cases of tunnelClient.HandleFrame *)

SignalOpen(type, answer) ==
    /\ Receive("client", type)
    /\ LET ch == Received("client").ch IN
         /\ openResults' = openResults \ {ch}
         /\ resCh' = IF ch \in openResults THEN [resCh EXCEPT ![ch] = answer] ELSE resCh
    /\ UNCHANGED <<control, data, phase, endVars, assoc, cached, routes, used,
                   serverVars, historyVars>>

\* UDPDATA: the route is looked up and the datagram written to the application,
\* under the name of the route's target.  A failing write ends the session.
ClientData ==
    /\ Receive("client", "UDPDATA")
    /\ LET k == routes[Received("client").ch] IN
         \/ /\ k # NoKey
            /\ replies' = replies \union {<<k, Received("client").n>>}
            /\ UNCHANGED <<reader, cause>>
         \/ /\ k # NoKey
            /\ ReaderFailsOn("client", "channel write", Received("client").ch, Received("client").n)
            /\ UNCHANGED replies
         \/ /\ k = NoKey
            /\ UNCHANGED <<reader, cause, replies>>
    /\ UNCHANGED <<control, data, phase, closed, clientVars, serverVars,
                   sentTo, got, replied, refused>>

\* UDPCLOSE: closeUDP takes the route away; channelForRemote keeps the channel.
ClientClose ==
    /\ Receive("client", "UDPCLOSE")
    /\ routes' = [routes EXCEPT ![Received("client").ch] = NoKey]
    /\ UNCHANGED <<control, data, phase, endVars, assoc, cached, used, resCh, openResults,
                   serverVars, historyVars>>

-----------------------------------------------------------------------------
(* The server: the UDP cases of HandleFrame and the UDP relay *)

\* OPENUDP: readLoop itself resolves the address and makes the socket.
ServerOpen ==
    /\ Receive("server", "OPENUDP")
    /\ reader' = [reader EXCEPT !["server"] =
                    At("dial", Received("server").ch, Received("server").n)]
    /\ UNCHANGED <<control, data, phase, cause, closed, clientVars, serverVars, historyVars>>

ServerDialFails ==
    /\ reader["server"].pc = "dial"
    /\ Answer(Frame("OPENERR", reader["server"].ch, 0))
    /\ UNCHANGED <<data, phase, wire, closed, clientVars, serverVars, historyVars>>

\* UDPRelay.Open: the socket is in assocs and its readLoop runs before HandleFrame
\* gets to its answer.
ServerDials ==
    /\ reader["server"].pc = "dial"
    /\ LET ch == reader["server"].ch IN
         /\ dest' = [dest EXCEPT ![ch] = reader["server"].n]
         /\ assocs' = assocs \union {ch}
         /\ relay' = [relay EXCEPT ![ch] = "copy"]
         /\ sock' = [sock EXCEPT ![ch] = "open"]
         /\ reader' = [reader EXCEPT !["server"] = At("opened", ch, 0)]
    /\ UNCHANGED <<sessionVars, cause, closed, clientVars, historyVars>>

ServerOpened ==
    /\ reader["server"].pc = "opened"
    /\ Answer(Frame("OPENOK", reader["server"].ch, 0))
    /\ UNCHANGED <<data, phase, wire, closed, clientVars, serverVars, historyVars>>

\* UDPDATA: a datagram past its deadline is dropped; otherwise UDPRelay.Write
\* looks the socket up under its lock, and without one its error ends the session.
ServerData ==
    /\ Receive("server", "UDPDATA")
    /\ LET f == Received("server") IN
         \/ UNCHANGED <<reader, cause>>
         \/ /\ f.ch \in assocs
            /\ reader' = [reader EXCEPT !["server"] = At("write", f.ch, f.n)]
            /\ UNCHANGED cause
         \/ /\ f.ch \notin assocs
            /\ ReaderFailsOn("server", "unknown channel", f.ch, f.n)
    /\ UNCHANGED <<control, data, phase, closed, clientVars, serverVars, historyVars>>

\* Mutant: a write is tried again whatever the first try returned.
MutServerWrites ==
    /\ reader["server"].pc = "write"
    /\ LET ch == reader["server"].ch IN
         /\ sock[ch] = "open"
         /\ got' = [got EXCEPT ![dest[ch]] = @ \o <<reader["server"].n, reader["server"].n>>]
         /\ ReaderGoesOn("server")
    /\ UNCHANGED <<sessionVars, closed, clientVars, serverVars, sentTo, replied, replies, refused>>

\* conn.Write, after the lock, on a connected socket: it fails on one closed
\* meanwhile, it returns and clears a pending error, and an open one may refuse
\* the datagram for a reason of its own (no route, a firewall's rule).  Whatever
\* the error is, HandleFrame returns it.
ServerWrites ==
    /\ reader["server"].pc = "write"
    /\ LET ch == reader["server"].ch IN
         \/ /\ sock[ch] = "open"
            /\ got' = [got EXCEPT ![dest[ch]] = Append(@, reader["server"].n)]
            /\ ReaderGoesOn("server")
            /\ UNCHANGED sock
         \/ /\ ReaderFailsOn("server", "channel write", ch, reader["server"].n)
            /\ sock' = [sock EXCEPT ![ch] = IF @ = "refused" THEN "open" ELSE @]
            /\ UNCHANGED got
    /\ UNCHANGED <<sessionVars, closed, clientVars, dest, assocs, relay,
                   sentTo, replied, replies, refused>>

\* External: the remote answers a datagram with "port unreachable", an error that
\* the kernel keeps for the next call on the connected socket.
RemoteRefuses(ch) ==
    /\ sock[ch] = "open" /\ relay[ch] = "copy" /\ got[dest[ch]] # << >>
    /\ sock' = [sock EXCEPT ![ch] = "refused"]
    /\ refused' = refused \union {ch}
    /\ UNCHANGED <<linkVars, clientVars, dest, assocs, relay, sentTo, got, replied, replies>>

\* readLoop reads a datagram of the remote: never longer than a fragment, so it
\* is one frame, which a full queue refuses.
RelayCopies(ch) ==
    /\ relay[ch] = "copy" /\ sock[ch] = "open" /\ replied < MaxReplies
    /\ replied' = replied + 1
    /\ TryQueueData("server", Frame("UDPDATA", ch, dest[ch]))
    /\ UNCHANGED <<control, phase, wire, endVars, clientVars, serverVars,
                   sentTo, got, replies, refused>>

\* Its Read fails: UDPCLOSE, then Close.
RelayEnds(ch) ==
    /\ relay[ch] = "copy" /\ sock[ch] = "refused"
    /\ sock' = [sock EXCEPT ![ch] = "open"]
    /\ TryQueueControl("server", Frame("UDPCLOSE", ch, 0))
    /\ relay' = [relay EXCEPT ![ch] = "closing"]
    /\ UNCHANGED <<data, phase, wire, endVars, clientVars, dest, assocs, historyVars>>

RelayCloses(ch) ==
    /\ relay[ch] = "closing"
    /\ assocs' = assocs \ {ch}
    /\ sock' = [sock EXCEPT ![ch] = "closed"]
    /\ relay' = [relay EXCEPT ![ch] = "done"]
    /\ UNCHANGED <<linkVars, clientVars, dest, historyVars>>

-----------------------------------------------------------------------------

Next ==
    \/ LinkStep /\ UNCHANGED <<clientVars, serverVars, historyVars>>
    \/ \E k \in Key : AssocSends(k) \/ \E ch \in Ch : AssocOpens(k, ch)
    \/ AssocAnswered \/ AssocTimesOut
    \/ SignalOpen("OPENOK", "ok") \/ SignalOpen("OPENERR", "err") \/ ClientData \/ ClientClose
    \/ ServerOpen \/ ServerDialFails \/ ServerDials \/ ServerOpened \/ ServerData \/ ServerWrites
    \/ \E ch \in Ch : RemoteRefuses(ch) \/ RelayCopies(ch) \/ RelayEnds(ch) \/ RelayCloses(ch)

Spec == Init /\ [][Next]_vars

-----------------------------------------------------------------------------
(* Properties *)

\* The state of the association and of the relay keeps to its types, and the
\* server knows only channels the client has drawn.
TypeOK ==
    /\ LinkTypeOK({"OPENUDP", "OPENOK", "OPENERR", "UDPDATA", "UDPCLOSE"},
                  {"dial", "opened", "write"}, {"unknown channel", "channel write"})
    /\ assoc \in [pc : {"read", "opening"}, ch : Ch \union {NoCh}]
    /\ cached \in [Key -> Ch \union {NoCh}]
    /\ routes \in [Ch -> Key \union {NoKey}] /\ dest \in [Ch -> Key \union {NoKey}]
    /\ resCh \in [Ch -> {"empty", "ok", "err"}] /\ openResults \subseteq used
    /\ used \subseteq Ch /\ assocs \subseteq used
    /\ relay \in [Ch -> {"none", "copy", "closing", "done"}]
    /\ sock \in [Ch -> {"none", "open", "refused", "closed"}]
    /\ sentTo \in Seq(Key) /\ got \in [Key -> Seq(Nat)]
    /\ replied \in Nat /\ replies \subseteq Key \X Key /\ refused \subseteq used

\* A remote gets only datagrams meant for it, in the order the application sent
\* them and none twice, although a datagram may wait for its channel while the
\* answers of earlier channels come late (main.go:401-423, udp.go:61-70).
DatagramsReachTheirRemote ==
    \A k \in Key : \A i \in 1 .. Len(got[k]) :
      /\ sentTo[got[k][i]] = k
      /\ i > 1 => got[k][i - 1] < got[k][i]

\* What the application gets under the name of a remote was sent by that remote,
\* whatever channels were given up before (main.go:142-151, 410-423,
\* udp.go:72-87).
RepliesAreLabelled == \A r \in replies : r[1] = r[2]

\* The association remembers for a remote only a channel the server opened for
\* that very remote, and one that is open still unless its remote has been
\* unreachable: an answer that comes after the ten seconds is never taken for
\* another channel's, and nothing else closes a socket (main.go:159-168, 210-232,
\* 401-409, udp.go:88-92).
CachedChannelsWereOpened ==
    \A k \in Key : cached[k] # NoCh =>
      /\ dest[cached[k]] = k /\ relay[cached[k]] # "none"
      /\ cached[k] \in assocs \/ cached[k] \in refused

\* A datagram can end a session (which it should not, but does).  The one that
\* ended the server's was on a channel opened for its own remote, before the
\* datagram was queued; if the channel was unknown, its remote had been
\* unreachable and the relay had closed its socket.  The answer that ended the
\* client's came from the remote its channel is connected to (main.go:142-151,
\* 401-423, server.go:122-131, udp.go:61-70, 88-92).
DatagramErrorsAreOfOpenedChannels ==
    LET up == reader["server"]
        down == reader["client"] IN
    /\ cause["server"] \in {"unknown channel", "channel write"} =>
         relay[up.ch] # "none" /\ dest[up.ch] = sentTo[up.n]
    /\ cause["server"] = "unknown channel" => up.ch \in refused /\ relay[up.ch] = "done"
    /\ cause["client"] = "channel write" => relay[down.ch] # "none" /\ dest[down.ch] = down.n

\* SLPP_Design_Refined.md:825-830: an unreachable remote fails only the affected
\* channel, so the datagram after it does not end the session.
UnreachableFailsItsChannelOnly ==
    cause["server"] = "unknown channel" => reader["server"].ch \notin refused
=============================================================================
