------------------------ MODULE ServerProcess_proofs ------------------------
(***************************************************************************)
(* For any number of runs of slppd and of connections to slppc: the socket *)
(* at the path is that of the server.                                      *)
(***************************************************************************)
EXTENDS ClientProcess, TLAPS

ProcessTypes ==
    /\ main \in [Server -> {"off", "listen", "serving", "exited"}]
    /\ ctl \in [Server -> {"off", "remove", "bind", "serving", "returned"}]
    /\ path \in Server \cup {Nobody}
    /\ interrupted \subseteq Server

\* The control server of a process ends with it.
DeadAreSilent == \A p \in Server : ~Alive(p) => ctl[p] = "off"

\* A run that never met another one is alone while it is alive.
LonersAreAlone ==
    \A p \in Server \ met : Alive(p) => \A q \in Server : Alive(q) => q = p

\* Alone, its control server finds the path free when it binds and keeps it.
LonerHasThePath ==
    \A p \in Server \ met : Alive(p) /\ p \notin interrupted =>
        /\ ctl[p] = "bind" => path = Nobody
        /\ ctl[p] = "serving" => path = p
        /\ ctl[p] # "returned"

SocketInv == ProcessTypes /\ DeadAreSilent /\ LonersAreAlone /\ LonerHasThePath

-----------------------------------------------------------------------------
\* What the loners have, which the socket of the server is.
LEMMA SocketInvImplies == SocketInv => SocketIsTheServers
BY ServerAssumption
   DEF SocketInv, ProcessTypes, LonerHasThePath, SocketIsTheServers, StatsAnswer

LEMMA SocketInitially == ProcessInit => SocketInv
BY DEF ProcessInit, ServerInit, SocketInv, ProcessTypes, DeadAreSilent, LonersAreAlone,
       LonerHasThePath, Alive

\* A step that leaves these alone keeps the invariant.
LEMMA SocketUndisturbed ==
    SocketInv /\ UNCHANGED <<main, ctl, interrupted, path, met>> => SocketInv'
BY DEF SocketInv, ProcessTypes, DeadAreSilent, LonersAreAlone, LonerHasThePath, Alive

\* The end of a process (main.go:210-215) takes nothing from the others.
LEMMA SocketAfterExit ==
    ASSUME SocketInv, NEW p \in Server, Exit(p), UNCHANGED <<interrupted, path, met>>
    PROVE  SocketInv'
<1> USE DEF SocketInv, ProcessTypes
<1>1. /\ main' = [main EXCEPT ![p] = "exited"]
      /\ ctl' = [ctl EXCEPT ![p] = "off"]
  BY DEF Exit
<1>2. \A q \in Server : Alive(q)' <=> Alive(q) /\ q # p
  BY <1>1 DEF Alive
<1>3. \A q \in Server : ctl'[q] = IF q = p THEN "off" ELSE ctl[q]
  BY <1>1
<1>4. ProcessTypes'
  BY <1>1
<1>5. DeadAreSilent'
  BY <1>2, <1>3 DEF DeadAreSilent
<1>6. LonersAreAlone'
  BY <1>2 DEF LonersAreAlone
<1>7. LonerHasThePath'
  BY <1>2, <1>3 DEF LonerHasThePath
<1> QED BY <1>4, <1>5, <1>6, <1>7

\* A run that starts is alone, or has met all that are alive (main.go:180-208).
LEMMA SocketAfterStart ==
    ASSUME SocketInv, NEW p \in Server, Starts(p)
    PROVE  SocketInv'
<1> USE DEF SocketInv, ProcessTypes
<1> DEFINE others == {q \in Server : Alive(q)}
<1>1. /\ ~Alive(p)
      /\ main' = [main EXCEPT ![p] = "listen"]
      /\ ctl' = [ctl EXCEPT ![p] = "remove"]
      /\ met' = IF others = {} THEN met ELSE met \cup others \cup {p}
      /\ UNCHANGED <<interrupted, path>>
  BY DEF Starts, Alive
<1>2. \A q \in Server : Alive(q)' <=> Alive(q) \/ q = p
  BY <1>1 DEF Alive
<1>3. \A q \in Server : ctl'[q] = IF q = p THEN "remove" ELSE ctl[q]
  BY <1>1
<1>4. ProcessTypes'
  BY <1>1
<1>5. DeadAreSilent'
  BY <1>2, <1>3 DEF DeadAreSilent
<1>6. \A q \in Server \ met' : Alive(q)' => q = p /\ others = {}
  BY <1>1, <1>2
<1>7. LonersAreAlone'
  BY <1>2, <1>6 DEF LonersAreAlone
<1>8. LonerHasThePath'
  BY <1>3, <1>6 DEF LonerHasThePath
<1> QED BY <1>4, <1>5, <1>7, <1>8

\* The control server removes, binds and gives up the path only while its process
\* is alive, and a loner is the only one that is (control/server.go:38-59).
LEMMA SocketAfterControl ==
    ASSUME SocketInv, NEW p \in Server,
           CtlRemoves(p) \/ CtlBinds(p) \/ CtlBindFails(p) \/ CtlStops(p)
    PROVE  SocketInv'
<1> USE DEF SocketInv, ProcessTypes
<1>1. PICK state \in {"bind", "serving", "returned"} : ctl' = [ctl EXCEPT ![p] = state]
  BY DEF CtlRemoves, CtlBinds, CtlBindFails, CtlStops
<1>2. UNCHANGED <<main, interrupted, met>> /\ ctl[p] # "off"
  BY DEF CtlRemoves, CtlBinds, CtlBindFails, CtlStops
<1>3. Alive(p)
  BY <1>2 DEF DeadAreSilent
<1>4. \A q \in Server : Alive(q)' <=> Alive(q)
  BY <1>2 DEF Alive
<1>5. \A q \in Server : ctl'[q] = IF q = p THEN state ELSE ctl[q]
  BY <1>1
<1>6. ProcessTypes'
  BY <1>1, <1>2 DEF CtlRemoves, CtlBinds, CtlBindFails, CtlStops
<1>7. DeadAreSilent'
  BY <1>3, <1>4, <1>5 DEF DeadAreSilent
<1>8. LonersAreAlone'
  BY <1>2, <1>4 DEF LonersAreAlone
<1>9. LonerHasThePath'
  <2> SUFFICES ASSUME NEW q \in Server \ met, Alive(q), q \notin interrupted
               PROVE  /\ ctl'[q] = "bind" => path' = Nobody
                      /\ ctl'[q] = "serving" => path' = q
                      /\ ctl'[q] # "returned"
    BY <1>2, <1>4 DEF LonerHasThePath
  <2>1. q = p
    BY <1>3 DEF LonersAreAlone
  <2>2. /\ ctl[p] = "bind" => path = Nobody
        /\ ctl[p] = "serving" => path = p
    BY <2>1 DEF LonerHasThePath
  <2>3. ~CtlBindFails(p) /\ ~CtlStops(p)
    BY <2>1, <2>2 DEF CtlBindFails, CtlStops
  <2>4. CASE CtlRemoves(p)
    BY <2>1, <2>4 DEF CtlRemoves
  <2>5. CASE CtlBinds(p)
    BY <2>1, <2>5 DEF CtlBinds
  <2> QED BY <2>3, <2>4, <2>5
<1> QED BY <1>6, <1>7, <1>8, <1>9

\* Every step of the servers, and of the client, which sees nothing of the path.
LEMMA SocketStep == SocketInv /\ [ProcessNext]_processVars => SocketInv'
<1> SUFFICES ASSUME SocketInv, [ProcessNext]_processVars PROVE SocketInv'
  OBVIOUS
<1>1. CASE \/ HandlerEnds /\ UNCHANGED clientVars
           \/ Dials
           \/ ClientStep /\ UNCHANGED serverVars
           \/ UNCHANGED processVars
  <2>1. UNCHANGED <<main, ctl, interrupted, path, met>>
    BY <1>1 DEF Dials, HandlerEnds, serverVars, processVars
  <2> QED BY <2>1, SocketUndisturbed
<1>2. ASSUME NEW p \in Server, ServerStep(p)
      PROVE  SocketInv'
  <2> USE DEF SocketInv, ProcessTypes
  <2>1. CASE Starts(p)
    BY <2>1, SocketAfterStart
  <2>2. CASE CtlRemoves(p) \/ CtlBinds(p) \/ CtlBindFails(p) \/ CtlStops(p)
    BY <2>2, SocketAfterControl
  <2>3. CASE ListenFails(p) \/ MainReturns(p) \/ Killed(p)
    <3>1. Exit(p) /\ UNCHANGED <<interrupted, path, met>>
      BY <2>3 DEF ListenFails, MainReturns, Killed
    <3> QED BY <3>1, SocketAfterExit
  <2>4. CASE Listens(p)
    <3>1. /\ Alive(p) /\ main' = [main EXCEPT ![p] = "serving"]
          /\ UNCHANGED <<ctl, interrupted, path, met>>
      BY <2>4 DEF Listens, Alive
    <3>2. \A q \in Server : Alive(q)' <=> Alive(q)
      BY <3>1 DEF Alive
    <3>3. ProcessTypes'
      BY <3>1
    <3> QED BY <3>1, <3>2, <3>3 DEF DeadAreSilent, LonersAreAlone, LonerHasThePath
  <2>5. CASE Interrupt(p)
    <3>1. /\ interrupted' = interrupted \cup {p}
          /\ UNCHANGED <<main, ctl, path, met>>
      BY <2>5 DEF Interrupt
    <3>2. \A q \in Server : Alive(q)' <=> Alive(q)
      BY <3>1 DEF Alive
    <3> QED BY <3>1, <3>2 DEF DeadAreSilent, LonersAreAlone, LonerHasThePath
  <2>6. CASE ShutsDown(p)
    <3>1. UNCHANGED <<main, ctl, interrupted, path, met>>
      BY <2>6 DEF ShutsDown
    <3> QED BY <3>1, SocketUndisturbed
  <2> QED BY <1>2, <2>1, <2>2, <2>3, <2>4, <2>5, <2>6 DEF ServerStep
<1> QED BY <1>1, <1>2 DEF ProcessNext

-----------------------------------------------------------------------------
\* While no two runs of slppd are alive at once, `slppd stats` gets its answer from
\* the run that serves (control/server.go:43-47).  The property looks at control
\* servers that are up; that one comes up needs LonerHasThePath of the step before,
\* when the path is free, and that needs LonersAreAlone, so that nobody else has
\* taken it meanwhile.
THEOREM SocketStaysTheServers == ProcessSpec => []SocketIsTheServers
BY SocketInitially, SocketInvImplies, SocketStep, PTL DEF ProcessSpec
=============================================================================
