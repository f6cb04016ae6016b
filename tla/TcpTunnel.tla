----------------------------- MODULE TcpTunnel ------------------------------
(***************************************************************************)
(* TCP channels through one tunnel: the SOCKS client (cmd/slppc/main.go),  *)
(* the server's frame handler (internal/transport/server.go), its TCP      *)
(* relay (internal/relay/tcp.go), on top of the two sessions and the link  *)
(* of TunnelLink.tla.                                                      *)
(*                                                                         *)
(* A channel ch stands for one SOCKS connection and its CONNECT request:   *)
(* handler[ch] is the goroutine handleSocksConn, relay[ch] the goroutine   *)
(* copyRemoteToTunnel.  The application and the target are the two         *)
(* outsiders; they send the chunks 1, 2, ... and may close at any time.    *)
(*                                                                         *)
(* PING and PONG, which touch no channel, are in Session.tla.              *)
(***************************************************************************)
EXTENDS TunnelLink

CONSTANTS
    UpChunks,     \* chunks an application sends on a channel, at most
    DownChunks    \* chunks a target sends on a channel, at most

ASSUME TunnelAssumption == UpChunks \in Nat /\ DownChunks \in Nat

VARIABLES
    authFirst,    \* the client queues AUTH before anything else, as slppc does
    handler,      \* client: handler[ch]
    resCh,        \* client: the answer waiting in openTCPChannel's resCh
    openResults,  \* client: the channels in c.openResults
    tcpConns,     \* client: the channels in c.tcpConns
    appConn,      \* client: the application's connection
    authOK,       \* server: h.authOK
    conns,        \* server: the channels in the relay's conns
    relay,        \* server: relay[ch]
    tgtConn,      \* server: the connection to the target
    active,       \* server: Stats.activeChannels
    appSent, tgtSent,  \* chunks the two copiers have read so far
    appIn,        \* what the application has received: 0 is the SOCKS reply
    tgtIn,        \* the chunks the target has received
    dropped,      \* dropped[s]: the chunks a full data queue of s refused
    closeSeen     \* the channels whose TCPCLOSE the server has handled

clientVars == <<handler, resCh, openResults, tcpConns, appConn>>
serverVars == <<authOK, conns, relay, tgtConn, active>>
historyVars == <<appSent, tgtSent, appIn, tgtIn, dropped, closeSeen>>
vars == <<authFirst, linkVars, clientVars, serverVars, historyVars>>

\* The client has dialled the tunnel and, if it is slppc, queued its AUTH frame
\* (cmd/slppc/main.go:638); the server has made the session (server.go:43-54)
\* and must expect a client that does not.
Init ==
    /\ authFirst \in BOOLEAN
    /\ LinkInit(IF authFirst THEN << Frame("AUTH", NoCh, 0) >> ELSE << >>)
    /\ handler = [ch \in Ch |-> "start"]
    /\ resCh = [ch \in Ch |-> "empty"]
    /\ openResults = {} /\ tcpConns = {}
    /\ appConn = [ch \in Ch |-> "open"]
    /\ authOK = FALSE
    /\ conns = {}
    /\ relay = [ch \in Ch |-> "none"]
    /\ tgtConn = [ch \in Ch |-> "none"]
    /\ active = 0
    /\ appSent = [ch \in Ch |-> 0] /\ tgtSent = [ch \in Ch |-> 0]
    /\ appIn = [ch \in Ch |-> << >>] /\ tgtIn = [ch \in Ch |-> << >>]
    /\ dropped = [s \in Side |-> {}]
    /\ closeSeen = {}

-----------------------------------------------------------------------------
(* The server: serverSessionHandler.HandleFrame and the TCP relay *)

\* Every frame but AUTH needs authOK.
ServerRefuses ==
    /\ ~authOK
    /\ \E type \in {"OPENTCP", "TCPDATA", "TCPCLOSE"} : Receive("server", type)
    /\ ReaderFails("server", "auth required")
    /\ UNCHANGED <<control, data, phase, closed, clientVars, serverVars, historyVars>>

\* Mutant: authOK is not set.
MutServerAuth ==
    /\ Receive("server", "AUTH")
    /\ \/ Answer(Frame("AUTHOK", NoCh, 0))
       \/ /\ TryQueueControl("server", Frame("AUTHERR", NoCh, 0))
          /\ ReaderFails("server", "auth")
    /\ UNCHANGED <<data, phase, closed, clientVars, serverVars, historyVars>>

\* Validate accepts or rejects the token (TokenStore.tla has the rules).
ServerAuth ==
    /\ Receive("server", "AUTH")
    /\ \/ /\ authOK' = TRUE
          /\ Answer(Frame("AUTHOK", NoCh, 0))
       \/ /\ TryQueueControl("server", Frame("AUTHERR", NoCh, 0))
          /\ ReaderFails("server", "auth")
          /\ UNCHANGED authOK
    /\ UNCHANGED <<data, phase, closed, clientVars, conns, relay, tgtConn, active, historyVars>>

\* OPENTCP: readLoop itself dials the target.
ServerOpen ==
    /\ authOK /\ Receive("server", "OPENTCP")
    /\ reader' = [reader EXCEPT !["server"] = At("dial", Received("server").ch, 0)]
    /\ UNCHANGED <<control, data, phase, cause, closed, clientVars, serverVars, historyVars>>

\* Mutant: the error of the dial is lost.
MutServerDialFails ==
    /\ reader["server"].pc = "dial"
    /\ Answer(Frame("OPENOK", reader["server"].ch, 0))
    /\ UNCHANGED <<data, phase, wire, closed, clientVars, serverVars, historyVars>>

ServerDialFails ==
    /\ reader["server"].pc = "dial"
    /\ Answer(Frame("OPENERR", reader["server"].ch, 0))
    /\ UNCHANGED <<data, phase, wire, closed, clientVars, serverVars, historyVars>>

\* TCPRelay.Open: the connection is registered and its copier is running before
\* HandleFrame gets to its answer.
ServerDials ==
    /\ reader["server"].pc = "dial"
    /\ LET ch == reader["server"].ch IN
         /\ tgtConn' = [tgtConn EXCEPT ![ch] = "open"]
         /\ conns' = conns \union {ch}
         /\ relay' = [relay EXCEPT ![ch] = "copy"]
         /\ reader' = [reader EXCEPT !["server"] = At("opened", ch, 0)]
    /\ UNCHANGED <<sessionVars, cause, closed, clientVars, authOK, active, historyVars>>

ServerOpened ==
    /\ reader["server"].pc = "opened"
    /\ active' = active + 1
    /\ Answer(Frame("OPENOK", reader["server"].ch, 0))
    /\ UNCHANGED <<data, phase, wire, closed, clientVars, authOK, conns, relay, tgtConn, historyVars>>

\* TCPRelay.Write looks the connection up under the lock; without one the error
\* is io.EOF, which HandleFrame returns.
ServerData ==
    /\ authOK /\ Receive("server", "TCPDATA")
    /\ IF Received("server").ch \in conns
       THEN /\ reader' = [reader EXCEPT !["server"] =
                            At("write", Received("server").ch, Received("server").n)]
            /\ UNCHANGED cause
       ELSE ReaderFailsOn("server", "unknown channel",
                          Received("server").ch, Received("server").n)
    /\ UNCHANGED <<control, data, phase, closed, clientVars, serverVars, historyVars>>

\* conn.Write, after the lock: it fails on a connection closed meanwhile, and a
\* target that has closed may still take it.
ServerWrites ==
    /\ reader["server"].pc = "write"
    /\ LET ch == reader["server"].ch IN
         \/ /\ tgtConn[ch] = "open"
            /\ tgtIn' = [tgtIn EXCEPT ![ch] = Append(@, reader["server"].n)]
            /\ ReaderGoesOn("server")
         \/ /\ tgtConn[ch] = "eof"
            /\ ReaderGoesOn("server")
            /\ UNCHANGED tgtIn
         \/ /\ tgtConn[ch] # "open"
            /\ ReaderFailsOn("server", "channel write", ch, reader["server"].n)
            /\ UNCHANGED tgtIn
    /\ UNCHANGED <<sessionVars, closed, clientVars, serverVars,
                   appSent, tgtSent, appIn, dropped, closeSeen>>

\* TCPRelay.Close: out of conns and closed, if it was there.
CloseTarget(ch) ==
    /\ conns' = conns \ {ch}
    /\ tgtConn' = IF ch \in conns THEN [tgtConn EXCEPT ![ch] = "closed"] ELSE tgtConn

ServerClose ==
    /\ authOK /\ Receive("server", "TCPCLOSE")
    /\ CloseTarget(Received("server").ch)
    /\ active' = active - 1
    /\ closeSeen' = closeSeen \union {Received("server").ch}
    /\ UNCHANGED <<control, data, phase, endVars, clientVars, authOK, relay,
                   appSent, tgtSent, appIn, tgtIn, dropped>>

\* A copier hands the chunk n of ch to QueueData and ignores its error.
CopyChunk(s, ch, n) ==
    /\ TryQueueData(s, Frame("TCPDATA", ch, n))
    /\ dropped' = IF DataFull(s) THEN [dropped EXCEPT ![s] = @ \union {<<ch, n>>}] ELSE dropped

\* copyRemoteToTunnel reads a chunk.  It runs until the connection fails, also
\* when the session has ended.
RelayCopies(ch) ==
    /\ relay[ch] = "copy" /\ tgtConn[ch] = "open" /\ tgtSent[ch] < DownChunks
    /\ tgtSent' = [tgtSent EXCEPT ![ch] = @ + 1]
    /\ CopyChunk("server", ch, tgtSent[ch] + 1)
    /\ UNCHANGED <<control, phase, wire, endVars, clientVars, serverVars,
                   appSent, appIn, tgtIn, closeSeen>>

\* Mutant: the copier ends without telling the client.
MutRelayEnds(ch) ==
    /\ relay[ch] = "copy" /\ tgtConn[ch] # "open"
    /\ relay' = [relay EXCEPT ![ch] = "closing"]
    /\ UNCHANGED <<linkVars, clientVars, authOK, conns, tgtConn, active, historyVars>>

\* Its Read fails: TCPCLOSE, then Close.
RelayEnds(ch) ==
    /\ relay[ch] = "copy" /\ tgtConn[ch] # "open"
    /\ TryQueueControl("server", Frame("TCPCLOSE", ch, 0))
    /\ relay' = [relay EXCEPT ![ch] = "closing"]
    /\ UNCHANGED <<data, phase, wire, endVars, clientVars, authOK, conns, tgtConn, active, historyVars>>

\* Mutant: the copier ends without closing its connection.
MutRelayCloses(ch) ==
    /\ relay[ch] = "closing"
    /\ relay' = [relay EXCEPT ![ch] = "done"]
    /\ UNCHANGED <<linkVars, clientVars, authOK, conns, tgtConn, active, historyVars>>

RelayCloses(ch) ==
    /\ relay[ch] = "closing"
    /\ CloseTarget(ch)
    /\ relay' = [relay EXCEPT ![ch] = "done"]
    /\ UNCHANGED <<linkVars, clientVars, authOK, active, historyVars>>

\* External: the target closes its end.
TargetCloses(ch) ==
    /\ tgtConn[ch] = "open"
    /\ tgtConn' = [tgtConn EXCEPT ![ch] = "eof"]
    /\ UNCHANGED <<linkVars, clientVars, authOK, conns, relay, active, historyVars>>

-----------------------------------------------------------------------------
(* The client: tunnelClient.HandleFrame *)

\* signalOpen: the answer goes to the handler that asked, if it is still listed.
SignalOpen(type, answer) ==
    /\ Receive("client", type)
    /\ LET ch == Received("client").ch IN
         /\ openResults' = openResults \ {ch}
         /\ resCh' = IF ch \in openResults THEN [resCh EXCEPT ![ch] = answer] ELSE resCh
    /\ UNCHANGED <<control, data, phase, endVars, handler, tcpConns, appConn,
                   serverVars, historyVars>>

ClientOpenOK == SignalOpen("OPENOK", "ok")
ClientOpenErr == SignalOpen("OPENERR", "err")

ClientAuthOK ==
    /\ Receive("client", "AUTHOK")
    /\ UNCHANGED <<control, data, phase, endVars, clientVars, serverVars, historyVars>>

ClientAuthErr ==
    /\ Receive("client", "AUTHERR")
    /\ ReaderFails("client", "auth")
    /\ UNCHANGED <<control, data, phase, closed, clientVars, serverVars, historyVars>>

\* TCPDATA: the connection is looked up under the lock; a frame for an unknown
\* channel is ignored.
ClientData ==
    /\ Receive("client", "TCPDATA")
    /\ reader' = IF Received("client").ch \in tcpConns
                 THEN [reader EXCEPT !["client"] =
                         At("write", Received("client").ch, Received("client").n)]
                 ELSE reader
    /\ UNCHANGED <<control, data, phase, cause, closed, clientVars, serverVars, historyVars>>

ClientWrites ==
    /\ reader["client"].pc = "write"
    /\ LET ch == reader["client"].ch IN
         \/ /\ appConn[ch] = "open"
            /\ appIn' = [appIn EXCEPT ![ch] = Append(@, reader["client"].n)]
            /\ ReaderGoesOn("client")
         \/ /\ appConn[ch] = "eof"
            /\ ReaderGoesOn("client")
            /\ UNCHANGED appIn
         \/ /\ appConn[ch] # "open"
            /\ ReaderFailsOn("client", "channel write", ch, reader["client"].n)
            /\ UNCHANGED appIn
    /\ UNCHANGED <<sessionVars, closed, clientVars, serverVars,
                   appSent, tgtSent, tgtIn, dropped, closeSeen>>

\* closeTCP: out of tcpConns and closed, if it was there.
CloseApp(ch) ==
    /\ tcpConns' = tcpConns \ {ch}
    /\ appConn' = IF ch \in tcpConns THEN [appConn EXCEPT ![ch] = "closed"] ELSE appConn

ClientClose ==
    /\ Receive("client", "TCPCLOSE")
    /\ CloseApp(Received("client").ch)
    /\ UNCHANGED <<control, data, phase, endVars, handler, resCh, openResults,
                   serverVars, historyVars>>

-----------------------------------------------------------------------------
(* The client: handleSocksConn.  In "start" it reads the greeting and the request *)

\* It cannot read them, or the request is not one it serves: it returns, and the
\* deferred conn.Close runs.
HandlerGivesUp(ch) ==
    /\ handler[ch] = "start"
    /\ handler' = [handler EXCEPT ![ch] = "done"]
    /\ appConn' = [appConn EXCEPT ![ch] = "closed"]
    /\ UNCHANGED <<linkVars, resCh, openResults, tcpConns, serverVars, historyVars>>

\* openTCPChannel registers the connection and its resCh, then queues OPENTCP.
HandlerOpens(ch) ==
    /\ handler[ch] = "start"
    /\ tcpConns' = tcpConns \union {ch}
    /\ openResults' = openResults \union {ch}
    /\ IF ControlFull("client")
       THEN handler' = [handler EXCEPT ![ch] = "refuse"] /\ UNCHANGED control
       ELSE /\ handler' = [handler EXCEPT ![ch] = "opening"]
            /\ QueueControl("client", Frame("OPENTCP", ch, 0))
    /\ UNCHANGED <<data, phase, wire, endVars, resCh, appConn, serverVars, historyVars>>

\* It returns the answer, or gives up after ten seconds; in neither case does
\* it take ch out of tcpConns.
HandlerAnswered(ch) ==
    /\ handler[ch] = "opening" /\ resCh[ch] # "empty"
    /\ handler' = [handler EXCEPT ![ch] = IF resCh[ch] = "ok" THEN "reply" ELSE "refuse"]
    /\ resCh' = [resCh EXCEPT ![ch] = "empty"]
    /\ UNCHANGED <<linkVars, openResults, tcpConns, appConn, serverVars, historyVars>>

\* Mutant: a handler that gives up closes a channel that may not exist.
MutHandlerTimesOut(ch) ==
    /\ handler[ch] = "opening"
    /\ handler' = [handler EXCEPT ![ch] = "refuse"]
    /\ TryQueueControl("client", Frame("TCPCLOSE", ch, 0))
    /\ UNCHANGED <<data, phase, wire, endVars, resCh, openResults, tcpConns, appConn,
                   serverVars, historyVars>>

\* Mutant: the error of a timeout is taken for a nil error.
MutTimeoutOpens(ch) ==
    /\ handler[ch] = "opening"
    /\ handler' = [handler EXCEPT ![ch] = "reply"]
    /\ UNCHANGED <<linkVars, resCh, openResults, tcpConns, appConn, serverVars, historyVars>>

HandlerTimesOut(ch) ==
    /\ handler[ch] = "opening"
    /\ handler' = [handler EXCEPT ![ch] = "refuse"]
    /\ UNCHANGED <<linkVars, resCh, openResults, tcpConns, appConn,
                   serverVars, historyVars>>

\* The failure reply, and the deferred conn.Close.
HandlerRefuses(ch) ==
    /\ handler[ch] = "refuse"
    /\ handler' = [handler EXCEPT ![ch] = "done"]
    /\ appConn' = [appConn EXCEPT ![ch] = "closed"]
    /\ UNCHANGED <<linkVars, resCh, openResults, tcpConns, serverVars, historyVars>>

\* The success reply; its error is ignored.
HandlerReplies(ch) ==
    /\ handler[ch] = "reply"
    /\ handler' = [handler EXCEPT ![ch] = "copy"]
    /\ appIn' = IF appConn[ch] = "open" THEN [appIn EXCEPT ![ch] = Append(@, 0)] ELSE appIn
    /\ UNCHANGED <<linkVars, resCh, openResults, tcpConns, appConn, serverVars,
                   appSent, tgtSent, tgtIn, dropped, closeSeen>>

\* copyTCPToTunnel reads a chunk.
HandlerCopies(ch) ==
    /\ handler[ch] = "copy" /\ appConn[ch] = "open" /\ appSent[ch] < UpChunks
    /\ appSent' = [appSent EXCEPT ![ch] = @ + 1]
    /\ CopyChunk("client", ch, appSent[ch] + 1)
    /\ UNCHANGED <<control, phase, wire, endVars, clientVars, serverVars,
                   tgtSent, appIn, tgtIn, closeSeen>>

\* Mutant: the handler ends without telling the server.
MutHandlerEnds(ch) ==
    /\ handler[ch] = "copy" /\ appConn[ch] # "open"
    /\ handler' = [handler EXCEPT ![ch] = "closing"]
    /\ UNCHANGED <<linkVars, resCh, openResults, tcpConns, appConn,
                   serverVars, historyVars>>

\* Its Read fails: TCPCLOSE, closeTCP, and the deferred conn.Close.
HandlerEnds(ch) ==
    /\ handler[ch] = "copy" /\ appConn[ch] # "open"
    /\ TryQueueControl("client", Frame("TCPCLOSE", ch, 0))
    /\ handler' = [handler EXCEPT ![ch] = "closing"]
    /\ UNCHANGED <<data, phase, wire, endVars, resCh, openResults, tcpConns, appConn,
                   serverVars, historyVars>>

HandlerCloses(ch) ==
    /\ handler[ch] = "closing"
    /\ handler' = [handler EXCEPT ![ch] = "done"]
    /\ tcpConns' = tcpConns \ {ch}
    /\ appConn' = [appConn EXCEPT ![ch] = "closed"]
    /\ UNCHANGED <<linkVars, resCh, openResults, serverVars, historyVars>>

\* External: the application closes its end.
AppCloses(ch) ==
    /\ appConn[ch] = "open" /\ handler[ch] # "start"
    /\ appConn' = [appConn EXCEPT ![ch] = "eof"]
    /\ UNCHANGED <<linkVars, handler, resCh, openResults, tcpConns,
                   serverVars, historyVars>>

-----------------------------------------------------------------------------

ServerReads ==
    \/ ServerRefuses \/ ServerAuth \/ ServerOpen \/ ServerDialFails \/ ServerDials
    \/ ServerOpened \/ ServerData \/ ServerWrites \/ ServerClose
ClientReads ==
    \/ ClientAuthOK \/ ClientAuthErr \/ ClientOpenOK \/ ClientOpenErr
    \/ ClientData \/ ClientWrites \/ ClientClose
RelayRuns(ch) == RelayCopies(ch) \/ RelayEnds(ch) \/ RelayCloses(ch)
HandlerRuns(ch) ==
    \/ HandlerOpens(ch) \/ HandlerAnswered(ch) \/ HandlerRefuses(ch) \/ HandlerReplies(ch)
    \/ HandlerCopies(ch) \/ HandlerEnds(ch) \/ HandlerCloses(ch)

Link == LinkStep /\ UNCHANGED <<clientVars, serverVars, historyVars>>

Step ==
    \/ ServerReads \/ ClientReads \/ Link
    \/ \E ch \in Ch :
         \/ RelayRuns(ch) \/ TargetCloses(ch)
         \/ HandlerRuns(ch) \/ HandlerGivesUp(ch) \/ HandlerTimesOut(ch) \/ AppCloses(ch)

Next == Step /\ UNCHANGED authFirst

\* The link does A and nothing else happens.
LinkOnly(A) == A /\ UNCHANGED <<authFirst, clientVars, serverVars, historyVars>>

\* Goroutines that can run do, dials and writes end.  Nobody has to close,
\* time out or break the link.
Fairness ==
    /\ WF_vars(ServerReads /\ UNCHANGED authFirst)
    /\ WF_vars(ClientReads /\ UNCHANGED authFirst) /\ WF_vars(LinkOnly(ClientSeesEnd))
    /\ \A s \in Side : WF_vars(LinkOnly(Writes(s))) /\ WF_vars(LinkOnly(RunCloses(s)))
    /\ \A ch \in Ch : /\ WF_vars(RelayRuns(ch) /\ UNCHANGED authFirst)
                     /\ WF_vars(HandlerRuns(ch) /\ UNCHANGED authFirst)

Spec == Init /\ [][Next]_vars
FairSpec == Spec /\ Fairness

-----------------------------------------------------------------------------
(* Properties *)

Types == {"AUTH", "AUTHOK", "AUTHERR", "OPENTCP", "OPENOK", "OPENERR", "TCPDATA", "TCPCLOSE"}

\* The state of both ends keeps to its types, and the queues and the wire to
\* their bounds.
TypeOK ==
    /\ LinkTypeOK(Types, {"dial", "opened", "write"},
                  {"auth", "auth required", "unknown channel", "channel write"})
    /\ handler \in [Ch -> {"start", "opening", "reply", "refuse", "copy", "closing", "done"}]
    /\ resCh \in [Ch -> {"empty", "ok", "err"}]
    /\ openResults \subseteq Ch /\ tcpConns \subseteq Ch /\ conns \subseteq Ch
    /\ appConn \in [Ch -> {"open", "eof", "closed"}]
    /\ tgtConn \in [Ch -> {"none", "open", "eof", "closed"}]
    /\ relay \in [Ch -> {"none", "copy", "closing", "done"}]
    /\ authFirst \in BOOLEAN /\ authOK \in BOOLEAN /\ active \in Int
    /\ appSent \in [Ch -> Nat] /\ tgtSent \in [Ch -> Nat]
    /\ appIn \in [Ch -> Seq(Nat)] /\ tgtIn \in [Ch -> Seq(Nat)]
    /\ dropped \in [Side -> SUBSET (Ch \X Nat)]
    /\ closeSeen \subseteq Ch

\* What has been received are the chunks 1, 2, 3, ... in that order, but for those
\* a full queue of s refused.  0 is not a chunk.
InOrderBut(s, ch, received) ==
    \A i \in 1 .. Len(received) : received[i] # 0 =>
      /\ \A j \in 1 .. i - 1 : received[j] < received[i]
      /\ \A n \in 1 .. received[i] - 1 :
           <<ch, n>> \in dropped[s] \/ \E j \in 1 .. i - 1 : received[j] = n

\* Each end of a channel receives the other end's chunks in the order they were
\* sent, none twice, and between two of them misses only what QueueData refused:
\* the two queues, the writer's race and the closes never reorder or punch a
\* hole (session.go:96-119, tcp.go:58-86, main.go:127-136, 352-367).
StreamsInOrder ==
    \A ch \in Ch :
      InOrderBut("client", ch, tgtIn[ch]) /\ InOrderBut("server", ch, appIn[ch])

\* No channel is opened for a client that has not authenticated, and no client
\* that queues its AUTH first is ever told "auth required": nothing it queues
\* gets ahead of the AUTH (server.go:77-93, main.go:638-641).
AuthGate ==
    /\ conns # {} \/ active # 0 => authOK
    /\ authOK => authFirst
    /\ authFirst => cause["server"] # "auth required"

\* openTCPChannel is answered with what happened to its own channel, and a
\* late answer never blocks the reader on resCh, which has room for one
\* (main.go:159-168, 186-208, server.go:96-105).
AnswersAreTrue ==
    \A ch \in Ch :
      /\ resCh[ch] = "ok" \/ handler[ch] \in {"reply", "copy", "closing"}
           => relay[ch] # "none" /\ reader["server"] # At("opened", ch, 0)
      /\ resCh[ch] = "err" => relay[ch] = "none"
      /\ resCh[ch] # "empty" => ch \notin openResults

Opened == {ch \in Ch : relay[ch] # "none" /\ reader["server"] # At("opened", ch, 0)}

\* activeChannels is the number of channels opened and not yet closed by the
\* client: a TCPCLOSE is handled once for a channel, and only after its OPENTCP,
\* whichever end closes first, so the gauge is never short and never negative
\* (server.go:103, 108-111).
GaugeIsExact ==
    /\ closeSeen \subseteq Opened
    /\ active = Cardinality(Opened \ closeSeen)

\* Every connection in the relay's map has its copier, which will close it; a
\* copier that is gone has left no open connection behind (tcp.go:32-56, 69-86).
RelayConnsHaveCopiers ==
    \A ch \in Ch :
      /\ ch \in conns => relay[ch] \in {"copy", "closing"}
      /\ relay[ch] = "done" => tgtConn[ch] = "closed"

\* A chunk ends a session (which it should not, but does) only by a race with a
\* close of its own channel: never a chunk of a channel that was not opened, nor
\* of one whose connections are both still open, whatever other channels do
\* (main.go:131-134, tcp.go:58-67, server.go:106-107).
ChannelErrorsAreRaces ==
    LET up == reader["server"].ch
        down == reader["client"].ch IN
    /\ cause["server"] = "unknown channel" =>
         relay[up] # "none" /\ (relay[up] = "done" \/ up \in closeSeen)
    /\ cause["server"] = "channel write" => tgtConn[up] \in {"eof", "closed"}
    /\ cause["client"] = "channel write" => relay[down] # "none" /\ appConn[down] # "open"

\* When the client's end of a channel is closed, the target's connection is
\* closed, or a session has ended, provided TCPCLOSE is not refused by a full
\* queue (main.go:363-367, server.go:108-111).
CloseReachesTarget ==
    \A ch \in Ch :
      (handler[ch] = "closing") ~> (tgtConn[ch] = "closed" \/ closed["server"] \/ closed["client"])

\* When the target's end is closed, so is the application's connection, or a
\* session has ended (tcp.go:80-84, main.go:135-136).
CloseReachesApp ==
    \A ch \in Ch :
      (relay[ch] = "closing") ~> (appConn[ch] = "closed" \/ closed["server"] \/ closed["client"])

\* cmd/slppc/main_test.go:225-230 reads the reply to CONNECT as the first bytes
\* of the connection.
SocksReplyFirst == \A ch \in Ch : appIn[ch] # << >> => appIn[ch][1] = 0

\* SLPP_Design_Refined.md:288-290: a TCP channel whose queue overflows blocks
\* or fails; it does not go on with a chunk missing.
NoHoleInStream ==
    \A ch \in Ch : \A i \in 1 .. Len(tgtIn[ch]) : tgtIn[ch][i] = i
=============================================================================
