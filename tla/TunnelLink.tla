----------------------------- MODULE TunnelLink ------------------------------
(***************************************************************************)
(* The two sessions of a tunnel and the link between them, as the channel  *)
(* protocols on top of them see it: two bounded queues and a writer at     *)
(* each side, a bounded FIFO in each direction, a reader that hands one    *)
(* frame at a time to its handler, and the end of the session.             *)
(* Session.tla has one session in full, with its heartbeat and its errors; *)
(* TcpTunnel.tla and UdpTunnel.tla extend this module.                     *)
(*                                                                         *)
(* For a side s, control[s], data[s] and wire[s] hold what s is sending.   *)
(* The actions here leave the variables of the extending module alone; it  *)
(* says so where it uses them.                                             *)
(***************************************************************************)
EXTENDS Integers, Sequences, FiniteSets

CONSTANTS
    Ch,           \* the channels, as nextChannel numbers them
    ControlCap,   \* frames a control queue holds
    DataCap,      \* frames a data queue holds
    WireCap       \* frames the transport holds in each direction

ASSUME LinkAssumption ==
    ControlCap \in Nat \ {0} /\ DataCap \in Nat \ {0} /\ WireCap \in Nat \ {0}

VARIABLES
    control,      \* control[s]: s's controlQ
    data,         \* data[s]: s's dataQ
    phase,        \* phase[s]: s's writeLoop, at "select" or past it, at "data",
                  \*   or "stopped"
    wire,         \* wire[s]: frames s has written and its peer has not read
    reader,       \* reader[s]: where s's readLoop is, and with which frame; at "done",
                  \*   the one it failed on, kept for the properties and read by no action
    cause,        \* cause[s]: the error s's readLoop returned
    closed        \* closed[s]: s's session is closed

sessionVars == <<control, data, phase, wire>>
endVars == <<reader, cause, closed>>
linkVars == <<sessionVars, endVars>>

Side == {"client", "server"}
Peer(s) == IF s = "client" THEN "server" ELSE "client"

Frame(type, ch, n) == [type |-> type, ch |-> ch, n |-> n]
NoCh == "none"
Reading == [pc |-> "read", ch |-> NoCh, n |-> 0]
At(pc, ch, n) == [pc |-> pc, ch |-> ch, n |-> n]

\* Both sessions run; the client has queued first before anything else.
LinkInit(first) ==
    /\ control = [s \in Side |-> IF s = "client" THEN first ELSE << >>]
    /\ data = [s \in Side |-> << >>]
    /\ phase = [s \in Side |-> "select"]
    /\ wire = [s \in Side |-> << >>]
    /\ reader = [s \in Side |-> Reading]
    /\ cause = [s \in Side |-> "none"]
    /\ closed = [s \in Side |-> FALSE]

-----------------------------------------------------------------------------
(* The queues *)

ControlFull(s) == Len(control[s]) = ControlCap

\* Mutant: the queue takes one frame too many.
MutDataFull(s) == Len(data[s]) > DataCap

DataFull(s) == Len(data[s]) = DataCap

QueueControl(s, f) == control' = [control EXCEPT ![s] = Append(@, f)]

\* QueueControl with its error ignored, as the copiers call it.
TryQueueControl(s, f) ==
    IF ControlFull(s) THEN UNCHANGED control ELSE QueueControl(s, f)

\* QueueData with its error ignored: the frame is gone when the queue is full.
TryQueueData(s, f) ==
    IF DataFull(s) THEN UNCHANGED data ELSE data' = [data EXCEPT ![s] = Append(@, f)]

-----------------------------------------------------------------------------
(* The writers *)

WireOpen(s) == Len(wire[s]) < WireCap
Send(s, f) == wire' = [wire EXCEPT ![s] = Append(@, f)]

\* writeLoop: the select, then a control frame if there is one.
WriteControl(s) ==
    /\ phase[s] = "select"
    /\ \/ /\ closed[s]
          /\ phase' = [phase EXCEPT ![s] = "stopped"]
          /\ UNCHANGED <<control, wire>>
       \/ /\ ~closed[s] /\ control[s] # << >> /\ WireOpen(s)
          /\ Send(s, Head(control[s]))
          /\ control' = [control EXCEPT ![s] = Tail(@)]
          /\ UNCHANGED phase
       \/ /\ ~closed[s] /\ control[s] = << >> /\ data[s] # << >>
          /\ phase' = [phase EXCEPT ![s] = "data"]
          /\ UNCHANGED <<control, wire>>
    /\ UNCHANGED <<data, endVars>>

\* Mutant: a data frame overtaken by a control frame is sent again.
MutWriteData(s) ==
    /\ phase[s] = "data" /\ WireOpen(s)
    /\ Send(s, Head(data[s]))
    /\ data' = IF control[s] = << >> THEN [data EXCEPT ![s] = Tail(@)] ELSE data
    /\ phase' = [phase EXCEPT ![s] = "select"]
    /\ UNCHANGED <<control, endVars>>

\* writeLoop has found controlQ empty; it takes the next data frame, whatever
\* has been queued since.
WriteData(s) ==
    /\ phase[s] = "data" /\ WireOpen(s)
    /\ Send(s, Head(data[s]))
    /\ data' = [data EXCEPT ![s] = Tail(@)]
    /\ phase' = [phase EXCEPT ![s] = "select"]
    /\ UNCHANGED <<control, endVars>>

Writes(s) == WriteControl(s) \/ WriteData(s)

-----------------------------------------------------------------------------
(* The readers, and how a session ends *)

\* s's readLoop takes the next frame, one of the given type.
Receive(s, type) ==
    /\ reader[s].pc = "read"
    /\ wire[Peer(s)] # << >>
    /\ Head(wire[Peer(s)]).type = type
    /\ wire' = [wire EXCEPT ![Peer(s)] = Tail(@)]
Received(s) == Head(wire[Peer(s)])

\* HandleFrame returns nil, and the readLoop of s goes on.
ReaderGoesOn(s) ==
    /\ reader' = [reader EXCEPT ![s] = Reading]
    /\ UNCHANGED cause

\* HandleFrame returns err for the chunk or datagram n of ch, and so does the
\* readLoop of s.
ReaderFailsOn(s, err, ch, n) ==
    /\ reader' = [reader EXCEPT ![s] = At("done", ch, n)]
    /\ cause' = [cause EXCEPT ![s] = err]

\* HandleFrame for a frame of another kind, or Decode, returns err.
ReaderFails(s, err) == ReaderFailsOn(s, err, NoCh, 0)

\* The server's handler ends with QueueControl: a full queue is its error.
Answer(f) ==
    IF ControlFull("server")
    THEN ReaderFails("server", "queue full") /\ UNCHANGED control
    ELSE QueueControl("server", f) /\ ReaderGoesOn("server")

\* Run sees the error and closes the session.
RunCloses(s) ==
    /\ reader[s].pc = "done" /\ ~closed[s]
    /\ closed' = [closed EXCEPT ![s] = TRUE]
    /\ UNCHANGED <<sessionVars, reader, cause>>

\* The end of the server's session ends the request, so the client's Decode
\* fails once it has read what was written.
ClientSeesEnd ==
    /\ reader["client"].pc = "read"
    /\ closed["server"] /\ phase["server"] = "stopped" /\ wire["server"] = << >>
    /\ ReaderFails("client", "eof")
    /\ UNCHANGED <<sessionVars, closed>>

\* The client's next write fails, and Run closes its session while its reader
\* may still be handling frames.
ClientWriteFails ==
    /\ closed["server"] /\ ~closed["client"]
    /\ phase["client"] = "select"
    /\ control["client"] # << >> \/ data["client"] # << >>
    /\ closed' = [closed EXCEPT !["client"] = TRUE]
    /\ phase' = [phase EXCEPT !["client"] = "stopped"]
    /\ UNCHANGED <<control, data, wire, reader, cause>>

\* The request's context ends under the server while it waits for a frame.
LinkBreaks ==
    /\ reader["server"].pc = "read"
    /\ ReaderFails("server", "link")
    /\ UNCHANGED <<sessionVars, closed>>

\* What the link does by itself.
LinkStep ==
    \/ ClientSeesEnd \/ ClientWriteFails \/ LinkBreaks
    \/ \E s \in Side : Writes(s) \/ RunCloses(s)

\* The two queues and the wire keep to their bounds and hold frames of the
\* given types; readers are at one of the given places.
LinkTypeOK(types, pcs, causes) ==
    LET Frames == [type : types, ch : Ch \union {NoCh}, n : Nat] IN
    /\ control \in [Side -> Seq(Frames)] /\ \A s \in Side : Len(control[s]) <= ControlCap
    /\ data \in [Side -> Seq(Frames)] /\ \A s \in Side : Len(data[s]) <= DataCap
    /\ wire \in [Side -> Seq(Frames)] /\ \A s \in Side : Len(wire[s]) <= WireCap
    /\ phase \in [Side -> {"select", "data", "stopped"}]
    /\ \A s \in Side : phase[s] = "data" => data[s] # << >>
    /\ reader \in [Side -> [pc : pcs \union {"read", "done"}, ch : Ch \union {NoCh}, n : Nat]]
    /\ cause \in [Side -> causes \union {"none", "eof", "link", "queue full"}]
    /\ closed \in [Side -> BOOLEAN]
=============================================================================
