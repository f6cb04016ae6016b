--------------------------- MODULE ServerProcess ----------------------------
(***************************************************************************)
(* slppd as a process (cmd/slppd/main.go, runServerMain and statsMain;     *)
(* internal/control/server.go): runs of it on one machine, after each      *)
(* other or at once, with one TCP port and one path of the control socket. *)
(*                                                                         *)
(* Four goroutines matter: main in ListenAndServeTLS, the control server's *)
(* Run, and one for each of them that waits for the interrupt.  When main  *)
(* returns the process is gone, whatever the others are doing.             *)
(***************************************************************************)
EXTENDS Integers, FiniteSets

CONSTANTS
    Server,  \* the runs of slppd
    Nobody

ASSUME ServerAssumption == Nobody \notin Server

VARIABLES
    main,         \* main of each run: "off", "listen", "serving" or "exited"
    ctl,          \* its control server: "off", "remove", "bind", "serving" or "returned"
    interrupted,  \* the runs whose context is done
    shut,         \* the runs whose Shutdown has closed their listener
    port,         \* the run that listens on the port
    path,         \* the run whose socket is at the path
    tunnel,       \* the run with a handler for the client's session, or Nobody
    met           \* history: runs that were alive at the same time as another

serverVars == <<main, ctl, interrupted, shut, port, path, tunnel, met>>

ServerInit ==
    /\ main = [p \in Server |-> "off"]
    /\ ctl = [p \in Server |-> "off"]
    /\ interrupted = {} /\ shut = {}
    /\ port = Nobody /\ path = Nobody /\ tunnel = Nobody
    /\ met = {}

Alive(p) == main[p] \in {"listen", "serving"}

\* The end of a process frees its port and cuts its session, and leaves the
\* file of its socket behind.
Exit(p) ==
    /\ main' = [main EXCEPT ![p] = "exited"]
    /\ ctl' = [ctl EXCEPT ![p] = "off"]
    /\ port' = IF port = p THEN Nobody ELSE port
    /\ tunnel' = IF tunnel = p THEN Nobody ELSE tunnel

-----------------------------------------------------------------------------
(* main *)

\* runServerMain up to ListenAndServeTLS.
Starts(p) ==
    /\ main[p] = "off"
    /\ main' = [main EXCEPT ![p] = "listen"]
    /\ ctl' = [ctl EXCEPT ![p] = "remove"]
    /\ LET others == {q \in Server : Alive(q)} IN
         met' = IF others = {} THEN met ELSE met \cup others \cup {p}
    /\ UNCHANGED <<interrupted, shut, port, path, tunnel>>

Listens(p) ==
    /\ main[p] = "listen" /\ p \notin shut /\ port = Nobody
    /\ main' = [main EXCEPT ![p] = "serving"]
    /\ port' = p
    /\ UNCHANGED <<ctl, interrupted, shut, path, tunnel, met>>

\* Another process has the port, or Shutdown came first.
ListenFails(p) ==
    /\ main[p] = "listen" /\ (p \in shut \/ port # Nobody)
    /\ Exit(p)
    /\ UNCHANGED <<interrupted, shut, path, met>>

\* The goroutine that waits for the interrupt closes the listener first and
\* waits for the requests afterwards.
ShutsDown(p) ==
    /\ Alive(p) /\ p \in interrupted \ shut
    /\ shut' = shut \cup {p}
    /\ port' = IF port = p THEN Nobody ELSE port
    /\ UNCHANGED <<main, ctl, interrupted, path, tunnel, met>>

\* Mutant: main waits for the requests to end.
MutMainReturns(p) ==
    /\ main[p] = "serving" /\ p \in shut /\ tunnel # p
    /\ Exit(p)
    /\ UNCHANGED <<interrupted, shut, path, met>>

\* ListenAndServeTLS returns as soon as the listener is closed, and main with
\* it: the five seconds of Shutdown are not waited for.
MainReturns(p) ==
    /\ main[p] = "serving" /\ p \in shut
    /\ Exit(p)
    /\ UNCHANGED <<interrupted, shut, path, met>>

\* handleTunnel returns with its session, for any reason a session has.
HandlerEnds ==
    /\ tunnel # Nobody
    /\ tunnel' = Nobody
    /\ UNCHANGED <<main, ctl, interrupted, shut, port, path, met>>

\* External: a signal that ends the context, and one that ends the process.
Interrupt(p) ==
    /\ Alive(p) /\ p \notin interrupted
    /\ interrupted' = interrupted \cup {p}
    /\ UNCHANGED <<main, ctl, shut, port, path, tunnel, met>>

Killed(p) ==
    /\ Alive(p)
    /\ Exit(p)
    /\ UNCHANGED <<interrupted, shut, path, met>>

-----------------------------------------------------------------------------
(* The control server *)

\* Mutant: the file of an earlier run is left where it is.
MutCtlRemoves(p) ==
    /\ ctl[p] = "remove"
    /\ ctl' = [ctl EXCEPT ![p] = "bind"]
    /\ UNCHANGED <<main, interrupted, shut, port, path, tunnel, met>>

\* Whoever the file at the path belongs to.
CtlRemoves(p) ==
    /\ ctl[p] = "remove"
    /\ ctl' = [ctl EXCEPT ![p] = "bind"]
    /\ path' = Nobody
    /\ UNCHANGED <<main, interrupted, shut, port, tunnel, met>>

CtlBinds(p) ==
    /\ ctl[p] = "bind" /\ path = Nobody
    /\ ctl' = [ctl EXCEPT ![p] = "serving"]
    /\ path' = p
    /\ UNCHANGED <<main, interrupted, shut, port, tunnel, met>>

\* A file is there again: Run returns, and the server goes on without it.
CtlBindFails(p) ==
    /\ ctl[p] = "bind" /\ path # Nobody
    /\ ctl' = [ctl EXCEPT ![p] = "returned"]
    /\ UNCHANGED <<main, interrupted, shut, port, path, tunnel, met>>

\* To close a Unix listener removes the file at its path, also when it is
\* another's by now.
CtlStops(p) ==
    /\ ctl[p] = "serving" /\ p \in interrupted
    /\ ctl' = [ctl EXCEPT ![p] = "returned"]
    /\ path' = Nobody
    /\ UNCHANGED <<main, interrupted, shut, port, tunnel, met>>

\* statsMain: the run whose counters it prints, or Nobody for the empty snapshot
\* it prints, as a success, when nobody answers.
StatsAnswer == IF path # Nobody /\ ctl[path] = "serving" THEN path ELSE Nobody

ServerStep(p) ==
    \/ Starts(p) \/ Listens(p) \/ ListenFails(p)
    \/ ShutsDown(p) \/ MainReturns(p)
    \/ Interrupt(p) \/ Killed(p)
    \/ CtlRemoves(p) \/ CtlBinds(p) \/ CtlBindFails(p) \/ CtlStops(p)

-----------------------------------------------------------------------------
(* Properties *)

\* As long as no two runs of slppd are alive at once, `slppd stats` shows the
\* counters of the run that serves, once its control server is up, and the
\* control server never fails to come up: also after a run that was killed, or
\* that was gone before its control server removed its socket
\* (control/server.go:43-47, main.go:198-202, 247-271).
SocketIsTheServers ==
    \A p \in Server \ met :
        Alive(p) /\ ctl[p] \in {"serving", "returned"} /\ p \notin interrupted
            => StatsAnswer = p

\* An interrupted slppd ends, also while it is starting, and with sessions that
\* would go on for ever (main.go:203-214).
InterruptEndsServer ==
    \A p \in Server : p \in interrupted ~> main[p] = "exited"
=============================================================================
