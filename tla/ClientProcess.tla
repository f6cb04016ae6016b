--------------------------- MODULE ClientProcess ----------------------------
(***************************************************************************)
(* slppc as a process (cmd/slppc/main.go, connectMain, socks5Main and      *)
(* handleSocksConn; internal/transport/client.go) with the server process  *)
(* at the other end: what is left of a session, of the SOCKS listener and  *)
(* of its connections when one of them ends before the others.             *)
(*                                                                         *)
(* socks5Main returns as soon as its goroutines run.  It has two callers:  *)
(* the command `slppc socks5`, and programs that go on (main_test.go, the  *)
(* benchmarks), here "caller".  TcpTunnel.tla has what happens on a        *)
(* session; this module has a step of it for each of its outcomes.         *)
(***************************************************************************)
EXTENDS ServerProcess

CONSTANTS
    Modes,  \* of "connect", "socks5" and "caller", the ways the client is run
    Conn    \* the connections of applications to the SOCKS listener

ASSUME ModesAssumption == Modes \subseteq {"connect", "socks5", "caller"}

VARIABLES
    mode,     \* how the client is run
    client,   \* its main: "off", "dial", "dialed", "started", "waiting",
              \* "printed", "caller" or "exited"
    stopping, \* the client's context is done
    listener, \* the SOCKS listener is open
    session,  \* the client's session: "none", "running" or "ended"
    conn,     \* a connection: "none", "greeting", "opening", "open", "assoc",
              \* or "closed"
    channel   \* the server's side of it: "none", "opened" or "refused"

clientVars == <<mode, client, stopping, listener, session, conn, channel>>

ClientInit ==
    /\ mode \in Modes /\ client = "off" /\ stopping = FALSE
    /\ listener = FALSE /\ session = "none"
    /\ conn = [k \in Conn |-> "none"]
    /\ channel = [k \in Conn |-> "none"]

ClientAlive == client \notin {"off", "exited"}

\* The end of the process takes its session, its listener and its connections.
ClientExit ==
    /\ client' = "exited"
    /\ session' = IF session = "running" THEN "ended" ELSE session
    /\ listener' = FALSE
    /\ conn' = [k \in Conn |-> IF conn[k] = "none" THEN "none" ELSE "closed"]
    /\ UNCHANGED <<mode, stopping, channel>>

-----------------------------------------------------------------------------
(* main *)

Begins ==
    /\ client = "off"
    /\ client' = "dial"
    /\ UNCHANGED <<mode, stopping, listener, session, conn, channel>>

\* DialClientTunnel succeeds at a server that serves: its handler has answered.
Dials ==
    /\ client = "dial" /\ port # Nobody
    /\ client' = "dialed" /\ tunnel' = port
    /\ UNCHANGED <<mode, stopping, listener, session, conn, channel>>
    /\ UNCHANGED <<main, ctl, interrupted, shut, port, path, met>>

\* Mutant: the request is made without the context.
MutDialFails == client = "dial" /\ port = Nobody /\ ClientExit

\* No server, the end of the context, or any other error of the request.
DialFails == client = "dial" /\ ClientExit

\* The AUTH frame is queued and Run is started.  Nobody waits for the answer to
\* AUTH, or for what Run returns.
StartsSession ==
    /\ client = "dialed"
    /\ client' = "started" /\ session' = "running"
    /\ UNCHANGED <<mode, stopping, listener, conn, channel>>

\* connectMain waits for its context, whatever becomes of the session.
Waits ==
    /\ client = "started" /\ mode = "connect"
    /\ client' = "waiting"
    /\ UNCHANGED <<mode, stopping, listener, session, conn, channel>>

ConnectReturns == client = "waiting" /\ stopping /\ ClientExit

\* socks5Main opens its listener and returns; the command prints.
SocksListens ==
    /\ client = "started" /\ mode # "connect"
    /\ client' = IF mode = "socks5" THEN "printed" ELSE "caller"
    /\ listener' = TRUE
    /\ UNCHANGED <<mode, stopping, session, conn, channel>>

\* The address is in use.  A caller is left with a session it cannot close.
SocksListenFails ==
    /\ client = "started" /\ mode # "connect"
    /\ IF mode = "socks5"
       THEN ClientExit
       ELSE /\ client' = "caller"
            /\ UNCHANGED <<mode, stopping, listener, session, conn, channel>>

\* socks5Cmd returns after printing, and main with it.
Socks5Returns == client = "printed" /\ ClientExit

\* External: the signal, or the caller's cancel.
ClientInterrupt ==
    /\ ClientAlive /\ ~stopping
    /\ stopping' = TRUE
    /\ UNCHANGED <<mode, client, listener, session, conn, channel>>

\* The goroutine that waits for the context.
ListenerCloses ==
    /\ listener /\ stopping
    /\ listener' = FALSE
    /\ UNCHANGED <<mode, client, stopping, session, conn, channel>>

-----------------------------------------------------------------------------
(* The session, seen from outside *)

\* Its reader or writer fails, AUTH is refused, or the context is done.  Run's
\* error is dropped: the listener and the connections stay as they are.
SessionEnds ==
    /\ session = "running"
    /\ session' = "ended"
    /\ UNCHANGED <<mode, client, stopping, listener, conn, channel>>

-----------------------------------------------------------------------------
(* handleSocksConn *)

Set(k, state) ==
    /\ conn' = [conn EXCEPT ![k] = state]
    /\ UNCHANGED <<mode, client, stopping, listener, session, channel>>

\* The accept loop looks at nothing but the listener.
Accepts(k) == conn[k] = "none" /\ listener /\ Set(k, "greeting")

\* A read fails, or the command is not one of the two.
GreetingFails(k) == conn[k] = "greeting" /\ Set(k, "closed")

\* openTCPChannel queues OPENTCP, whether or not anybody takes it out again.
Opens(k) == conn[k] = "greeting" /\ Set(k, "opening")

\* The queue is full.
OpenRefused(k) == conn[k] = "opening" /\ channel[k] = "none" /\ Set(k, "closed")

\* The server dials the target: OPENOK or OPENERR.
ServerAnswers(k) ==
    /\ conn[k] = "opening" /\ channel[k] = "none"
    /\ session = "running" /\ tunnel # Nobody
    /\ \E answer \in {"opened", "refused"} : channel' = [channel EXCEPT ![k] = answer]
    /\ UNCHANGED <<mode, client, stopping, listener, session, conn>>

Answered(k) ==
    /\ conn[k] = "opening" /\ channel[k] # "none" /\ session = "running"
    /\ Set(k, IF channel[k] = "opened" THEN "open" ELSE "closed")

\* The ten seconds of openTCPChannel.
TimesOut(k) == conn[k] = "opening" /\ Set(k, "closed")

\* The application or the target closes, or the copier reads once more after the
\* end of its context.  The end of the session closes nothing.
ConnCloses(k) == conn[k] = "open" /\ Set(k, "closed")

\* UDP ASSOCIATE: the handler waits for the context and not for its connection.
Associates(k) == conn[k] = "greeting" /\ Set(k, "assoc")
AssociationEnds(k) == conn[k] = "assoc" /\ stopping /\ Set(k, "closed")

ConnStep(k) ==
    \/ Accepts(k) \/ GreetingFails(k) \/ Opens(k) \/ OpenRefused(k)
    \/ ServerAnswers(k) \/ Answered(k) \/ TimesOut(k) \/ ConnCloses(k)
    \/ Associates(k) \/ AssociationEnds(k)

ClientStep ==
    \/ Begins \/ DialFails \/ StartsSession \/ Waits \/ ConnectReturns
    \/ SocksListens \/ SocksListenFails \/ Socks5Returns
    \/ ClientInterrupt \/ ListenerCloses \/ SessionEnds
    \/ \E k \in Conn : ConnStep(k)

ProcessInit == ServerInit /\ ClientInit

ProcessNext ==
    \/ \E p \in Server : ServerStep(p) /\ UNCHANGED clientVars
    \/ HandlerEnds /\ UNCHANGED clientVars
    \/ Dials
    \/ ClientStep /\ UNCHANGED serverVars

processVars == <<serverVars, clientVars>>

\* Main goes on, whoever waits for the interrupt wakes up, and timers end.
\* Nothing else has to happen: sessions, connections and a request without an
\* answer may last for ever, until the context of the process ends.
ServerProgress(p) ==
    /\ Listens(p) \/ ListenFails(p) \/ ShutsDown(p) \/ MainReturns(p)
    /\ UNCHANGED clientVars

MainProgress ==
    /\ \/ DialFails /\ stopping
       \/ StartsSession \/ Waits \/ ConnectReturns
       \/ SocksListens \/ SocksListenFails \/ Socks5Returns
    /\ UNCHANGED serverVars
ListenerProgress == ListenerCloses /\ UNCHANGED serverVars
SessionProgress == SessionEnds /\ stopping /\ UNCHANGED serverVars
ConnProgress(k) == (TimesOut(k) \/ AssociationEnds(k)) /\ UNCHANGED serverVars

ProcessSpec ==
    /\ ProcessInit /\ [][ProcessNext]_processVars
    /\ \A p \in Server : WF_processVars(ServerProgress(p))
    /\ WF_processVars(MainProgress)
    /\ WF_processVars(ListenerProgress) /\ WF_processVars(SessionProgress)
    /\ \A k \in Conn : WF_processVars(ConnProgress(k))

-----------------------------------------------------------------------------
(* Properties *)

\* An interrupt ends slppc, also while the server leaves its request without an
\* answer; and where socks5Main has a caller that goes on, it takes the listener,
\* also one that is opened after it, the session and the associations for good,
\* and leaves no application waiting for an answer.  Connections that are open
\* stay: their copier looks at the context only between two reads
\* (client.go:30, main.go:308, 368-373, 616-618, 641-650).
InterruptEndsClient ==
    stopping ~> [](\/ client = "exited"
                   \/ /\ client = "caller" /\ ~listener /\ session = "ended"
                      /\ \A k \in Conn : conn[k] \notin {"opening", "assoc"})

\* "Applications can then use `127.0.0.1:1080` as a SOCKS5 proxy", says the manual
\* of `slppc socks5` (docs/USER_MANUAL.md:62): an open listener is closed when the
\* user interrupts the command, and not before.  It does not hold: socks5Main
\* returns at once, and with its caller the process (main.go:255-259, 659).
SocksStaysUp == [][listener /\ ~stopping => listener']_processVars
=============================================================================
