------------------------------ MODULE Session -------------------------------
(***************************************************************************)
(* One endpoint of a tunnel session: core.Session (internal/core/          *)
(* session.go) with the goroutines that share it.                          *)
(*                                                                         *)
(*   - readLoop, writeLoop and heartbeatLoop, each with a program counter; *)
(*   - Run, which starts them and waits for the first to fail;             *)
(*   - the callers of QueueControl and QueueData (relay and SOCKS          *)
(*     goroutines), as the actions CallerQueues*;                          *)
(*   - the owner of Run: on the server net/http, which ends the request    *)
(*     when handleTunnel returns; on the client nobody.                    *)
(*                                                                         *)
(* A frame is its class, its number in its class (the order of             *)
(* acceptance), its kind, its Seq with its place among the draws of the    *)
(* counter, and, for a control frame, how many data frames the writer had  *)
(* popped when it was accepted.  The two FrameQueues are sequences with a  *)
(* bound in frames: FrameQueue.tla shows that this is what they are.       *)
(* HandleFrame is any handler: it may do nothing, queue a control reply,   *)
(* or fail.                                                                *)
(***************************************************************************)
EXTENDS Integers, Sequences

CONSTANTS
    ControlCap,   \* frames controlQ holds (256)
    DataCap,      \* frames dataQ holds (1024)
    SeqSpace,     \* the values of a Seq, a uint32 (2^32)
    MaxControl,   \* bound of the model: control frames accepted in all
    MaxData,      \* bound of the model: data frames accepted in all
    Roles         \* the roles to consider, among "server" and "client"

ASSUME CapAssumption == ControlCap \in Nat \ {0} /\ DataCap \in Nat \ {0}
ASSUME SeqAssumption == SeqSpace \in Nat \ {0}
ASSUME BoundAssumption == MaxControl \in Nat /\ MaxData \in Nat
ASSUME RoleAssumption == Roles \subseteq {"server", "client"}

VARIABLES
    role,        \* which end of the tunnel this is
    controlQ,    \* s.controlQ
    dataQ,       \* s.dataQ
    closed,      \* s.closed is closed
    lastErr,     \* s.lastErr
    ctxDone,     \* the context given to Run is done
    errCh,       \* the results the loops have sent to Run
    rpc,         \* readLoop: "select", "decode", "handle" or "done"
    wpc,         \* writeLoop: "select", "control", "data", "write", "sleep",
                 \*   "done", or "panic": a write to a finished response
    hpc,         \* heartbeatLoop: "wait" or "done"
    run,         \* Run: "running" or "returned"
    owner,       \* the owner of Run: "waiting", or "finished" with the request
    inBroken,    \* Decode can only fail from now on
    outBroken,   \* Encode can only fail from now on
    hand,        \* the frame writeLoop has popped and not yet written
    written,     \* written[c]: number of the last frame of class c written
    usedSeqs,    \* history: the Seqs of the frames written, each with its draw
    nextSeq,     \* s.nextSeq
    draws,       \* history: how many Seqs were drawn from it
    accepted,    \* accepted[c]: frames of class c pushed so far
    popped,      \* popped[c]: frames of class c popped so far
    afterClose   \* frames written after Close

queueVars == <<controlQ, dataQ, accepted, popped, nextSeq, draws>>
linkVars == <<inBroken, outBroken, written, usedSeqs, afterClose>>
endVars == <<closed, lastErr, ctxDone, errCh, run, owner>>
vars == <<role, queueVars, linkVars, endVars, rpc, wpc, hpc, hand>>

Class == {"control", "data"}
Kinds == {"PING", "PONG", "OTHER"}
Failures == {"ctx", "read", "handler", "queue full", "write"}
NoError == "nil"

Seqs == 0 .. SeqSpace - 1

\* draw: which draw gave the frame its Seq, or 0 if it has none.
Frame == [class : Class, n : Nat, kind : Kinds, seq : Seqs, draw : Nat, at : Nat]
NoHand == [class |-> "none", n |-> 0, kind |-> "OTHER", seq |-> 0, draw |-> 0, at |-> 0]

\* NewSession, then Run up to its select: the loops have just been started.
\* On the client the AUTH frame is queued before Run (cmd/slppc/main.go:638).
Init ==
    /\ role \in Roles
    /\ dataQ = << >>
    /\ accepted = [c \in Class |-> IF c = "control" /\ role = "client" THEN 1 ELSE 0]
    /\ controlQ = IF role = "client"
                  THEN << [class |-> "control", n |-> 1, kind |-> "OTHER",
                           seq |-> 0, draw |-> 0, at |-> 0] >>
                  ELSE << >>
    /\ popped = [c \in Class |-> 0]
    /\ nextSeq = 0 /\ draws = 0
    /\ inBroken = FALSE /\ outBroken = FALSE
    /\ written = [c \in Class |-> 0] /\ usedSeqs = {} /\ afterClose = 0
    /\ closed = FALSE /\ lastErr = NoError /\ ctxDone = FALSE /\ errCh = << >>
    /\ run = "running" /\ owner = "waiting"
    /\ rpc = "select" /\ wpc = "select" /\ hpc = "wait"
    /\ hand = NoHand

-----------------------------------------------------------------------------
(* QueueControl and QueueData: Push.  The gauge they set is not modelled. *)

NewFrame(c, kind, seq, draw) ==
    [class |-> c, n |-> accepted[c] + 1, kind |-> kind, seq |-> seq, draw |-> draw,
     at |-> IF c = "control" THEN popped["data"] ELSE 0]

\* Mutant: the queue takes one frame too many.
MutControlFull == Len(controlQ) > ControlCap

ControlFull == Len(controlQ) = ControlCap
DataFull == Len(dataQ) = DataCap

AcceptControl(kind, seq, draw) ==
    /\ ~ControlFull
    /\ accepted["control"] < MaxControl
    /\ controlQ' = Append(controlQ, NewFrame("control", kind, seq, draw))
    /\ accepted' = [accepted EXCEPT !["control"] = @ + 1]
    /\ UNCHANGED <<dataQ, popped>>

RefuseControl ==
    /\ ControlFull
    /\ UNCHANGED <<controlQ, dataQ, accepted, popped>>

\* Mutant: a full queue swallows the frame.
MutAcceptData ==
    /\ accepted["data"] < MaxData
    /\ dataQ' = IF DataFull THEN dataQ ELSE Append(dataQ, NewFrame("data", "OTHER", 0, 0))
    /\ accepted' = [accepted EXCEPT !["data"] = @ + 1]
    /\ UNCHANGED <<controlQ, popped>>

AcceptData ==
    /\ ~DataFull
    /\ accepted["data"] < MaxData
    /\ dataQ' = Append(dataQ, NewFrame("data", "OTHER", 0, 0))
    /\ accepted' = [accepted EXCEPT !["data"] = @ + 1]
    /\ UNCHANGED <<controlQ, popped>>

RefuseData ==
    /\ DataFull
    /\ UNCHANGED <<controlQ, dataQ, accepted, popped>>

\* A relay or SOCKS goroutine queues a frame.  Nothing tells it that the
\* session has closed.
CallerQueuesControl ==
    /\ AcceptControl("OTHER", 0, 0) \/ RefuseControl
    /\ UNCHANGED <<role, nextSeq, draws, linkVars, endVars, rpc, wpc, hpc, hand>>

CallerQueuesData ==
    /\ AcceptData \/ RefuseData
    /\ UNCHANGED <<role, nextSeq, draws, linkVars, endVars, rpc, wpc, hpc, hand>>

\* A loop returns: its result goes to errCh, which has room for all three.
\* Nobody looks at the channel once Run has returned.
LoopResult(result) ==
    errCh' = IF run = "returned" THEN errCh ELSE Append(errCh, result)

-----------------------------------------------------------------------------
(* readLoop: it looks at ctx, not at closed. *)

\* Mutant: readLoop returns nil when the context ends.
MutReadSelect ==
    /\ rpc = "select"
    /\ \/ /\ ctxDone
          /\ LoopResult(NoError)
          /\ rpc' = "done"
       \/ /\ ~ctxDone
          /\ rpc' = "decode"
          /\ UNCHANGED errCh
    /\ UNCHANGED <<role, queueVars, linkVars, wpc, hpc, hand,
                   closed, lastErr, ctxDone, run, owner>>

ReadSelect ==
    /\ rpc = "select"
    /\ \/ /\ ctxDone
          /\ LoopResult("ctx")
          /\ rpc' = "done"
       \/ /\ ~ctxDone
          /\ rpc' = "decode"
          /\ UNCHANGED errCh
    /\ UNCHANGED <<role, queueVars, linkVars, wpc, hpc, hand,
                   closed, lastErr, ctxDone, run, owner>>

\* Decode returns a frame the peer sent.
ReadFrame ==
    /\ rpc = "decode"
    /\ ~inBroken
    /\ rpc' = "handle"
    /\ UNCHANGED <<role, queueVars, linkVars, endVars, wpc, hpc, hand>>

\* Decode fails: end of stream, a reset, or a malformed frame.
ReadFails ==
    /\ rpc = "decode"
    /\ inBroken
    /\ LoopResult("read")
    /\ rpc' = "done"
    /\ UNCHANGED <<role, queueVars, linkVars, wpc, hpc, hand,
                   closed, lastErr, ctxDone, run, owner>>

\* HandleFrame succeeds without queueing anything.
HandleQuietly ==
    /\ rpc = "handle"
    /\ rpc' = "select"
    /\ UNCHANGED <<role, queueVars, linkVars, endVars, wpc, hpc, hand>>

\* HandleFrame answers (PONG, OPENOK, ...) and returns QueueControl's error.
HandleReplies(kind) ==
    /\ rpc = "handle"
    /\ \/ /\ AcceptControl(kind, 0, 0)
          /\ rpc' = "select"
          /\ UNCHANGED errCh
       \/ /\ RefuseControl
          /\ LoopResult("queue full")
          /\ rpc' = "done"
    /\ UNCHANGED <<role, nextSeq, draws, linkVars, wpc, hpc, hand,
                   closed, lastErr, ctxDone, run, owner>>

HandleFails ==
    /\ rpc = "handle"
    /\ LoopResult("handler")
    /\ rpc' = "done"
    /\ UNCHANGED <<role, queueVars, linkVars, wpc, hpc, hand,
                   closed, lastErr, ctxDone, run, owner>>

-----------------------------------------------------------------------------
(* writeLoop: control frames first, then data frames, else sleep. *)

\* Mutant: the select without the case of closed.
MutWriteIgnoresClose ==
    /\ wpc = "select"
    /\ \/ /\ ctxDone
          /\ LoopResult("ctx")
          /\ wpc' = "done"
       \/ /\ ~ctxDone
          /\ wpc' = "control"
          /\ UNCHANGED errCh
    /\ UNCHANGED <<role, queueVars, linkVars, rpc, hpc, hand,
                   closed, lastErr, ctxDone, run, owner>>

\* Mutant: Load where Add is needed.
MutSeqOf(f) ==
    IF f.seq = 0 /\ f.kind \notin {"PING", "PONG"} THEN nextSeq ELSE f.seq

\* The select: when both channels are ready Go takes either.
WriteSelect ==
    /\ wpc = "select"
    /\ \/ /\ ctxDone
          /\ LoopResult("ctx")
          /\ wpc' = "done"
       \/ /\ closed
          /\ LoopResult(NoError)
          /\ wpc' = "done"
       \/ /\ ~ctxDone /\ ~closed
          /\ wpc' = "control"
          /\ UNCHANGED errCh
    /\ UNCHANGED <<role, queueVars, linkVars, rpc, hpc, hand,
                   closed, lastErr, ctxDone, run, owner>>

\* s.nextSeq.Add(1)
NextSeq == (nextSeq + 1) % SeqSpace
DrawSeq == nextSeq' = NextSeq /\ draws' = draws + 1

\* writeFrame numbers a frame that has no Seq, unless it is a PING or PONG.
Numbered(f) == f.seq = 0 /\ f.kind \notin {"PING", "PONG"}
SeqOf(f) == IF Numbered(f) THEN NextSeq ELSE f.seq

TakeInHand(f) ==
    /\ hand' = [f EXCEPT !.seq = SeqOf(f), !.draw = IF Numbered(f) THEN draws + 1 ELSE @]
    /\ IF Numbered(f) THEN DrawSeq ELSE UNCHANGED <<nextSeq, draws>>
    /\ popped' = [popped EXCEPT ![f.class] = @ + 1]
    /\ wpc' = "write"

WritePopControl ==
    /\ wpc = "control"
    /\ \/ /\ controlQ # << >>
          /\ TakeInHand(Head(controlQ))
          /\ controlQ' = Tail(controlQ)
       \/ /\ controlQ = << >>
          /\ wpc' = "data"
          /\ UNCHANGED <<controlQ, popped, nextSeq, draws, hand>>
    /\ UNCHANGED <<role, dataQ, accepted, linkVars, endVars, rpc, hpc>>

WritePopData ==
    /\ wpc = "data"
    /\ \/ /\ dataQ # << >>
          /\ TakeInHand(Head(dataQ))
          /\ dataQ' = Tail(dataQ)
       \/ /\ dataQ = << >>
          /\ wpc' = "sleep"
          /\ UNCHANGED <<dataQ, popped, nextSeq, draws, hand>>
    /\ UNCHANGED <<role, controlQ, accepted, linkVars, endVars, rpc, hpc>>

\* Mutant: after the sleep, controlQ is not looked at.
MutWriteSleeps ==
    /\ wpc = "sleep"
    /\ wpc' = "data"
    /\ UNCHANGED <<role, queueVars, linkVars, endVars, rpc, hpc, hand>>

WriteSleeps ==
    /\ wpc = "sleep"
    /\ wpc' = "select"
    /\ UNCHANGED <<role, queueVars, linkVars, endVars, rpc, hpc, hand>>

\* Once handleTunnel has returned, net/http has taken its ResponseWriter back.
ResponseFinished == role = "server" /\ owner = "finished"

\* Mutant: data frames are drained before the next look at controlQ.
MutAfterWrite == "data"

\* After a successful write the loop starts again from its select.
AfterWrite == "select"

WriteFrame ==
    /\ wpc = "write"
    /\ ~outBroken /\ ~ResponseFinished
    /\ written' = [written EXCEPT ![hand.class] = hand.n]
    /\ usedSeqs' = usedSeqs \union
         (IF hand.draw = 0 THEN {} ELSE {[seq |-> hand.seq, draw |-> hand.draw]})
    /\ afterClose' = IF closed THEN afterClose + 1 ELSE afterClose
    /\ hand' = NoHand
    /\ wpc' = AfterWrite
    /\ UNCHANGED <<role, queueVars, endVars, inBroken, outBroken, rpc, hpc>>

WriteFails ==
    /\ wpc = "write"
    /\ outBroken /\ ~ResponseFinished
    /\ LoopResult("write")
    /\ wpc' = "done"
    /\ UNCHANGED <<role, queueVars, linkVars, rpc, hpc, hand,
                   closed, lastErr, ctxDone, run, owner>>

\* External: net/http (HTTP/2) panics in a Write to a finished response, and
\* nothing recovers a panic of the goroutine that Run started.
WriteToFinishedResponse ==
    /\ wpc = "write"
    /\ ResponseFinished
    /\ wpc' = "panic"
    /\ UNCHANGED <<role, queueVars, linkVars, endVars, rpc, hpc, hand>>

-----------------------------------------------------------------------------
(* heartbeatLoop *)

HeartbeatTick ==
    /\ hpc = "wait"
    /\ DrawSeq
    /\ \/ /\ AcceptControl("PING", NextSeq, draws + 1)
          /\ UNCHANGED <<hpc, errCh>>
       \/ /\ RefuseControl
          /\ LoopResult("queue full")
          /\ hpc' = "done"
    /\ UNCHANGED <<role, linkVars, rpc, wpc, hand,
                   closed, lastErr, ctxDone, run, owner>>

HeartbeatEnds ==
    /\ hpc = "wait"
    /\ \/ ctxDone /\ LoopResult("ctx")
       \/ closed /\ LoopResult(NoError)
    /\ hpc' = "done"
    /\ UNCHANGED <<role, queueVars, linkVars, rpc, wpc, hand,
                   closed, lastErr, ctxDone, run, owner>>

-----------------------------------------------------------------------------
(* Run, its owner, and the world outside *)

Close(err) ==
    /\ ~closed
    /\ closed' = TRUE
    /\ lastErr' = err

\* Mutant: Run waits for the context only.
MutRunReturns ==
    /\ run = "running"
    /\ ctxDone /\ Close("ctx")
    /\ run' = "returned"
    /\ errCh' = << >>
    /\ UNCHANGED <<role, queueVars, linkVars, rpc, wpc, hpc, hand, ctxDone, owner>>

\* Run waits for ctx or the first result, closes the session and returns its
\* error.  It does not wait for the other loops.
RunReturns ==
    /\ run = "running"
    /\ \/ ctxDone /\ Close("ctx")
       \/ errCh # << >> /\ Close(Head(errCh))
    /\ run' = "returned"
    /\ errCh' = << >>
    /\ UNCHANGED <<role, queueVars, linkVars, rpc, wpc, hpc, hand, ctxDone, owner>>

\* Mutant: the body is left open.
MutOwnerFinishes ==
    /\ role = "server" /\ run = "returned" /\ owner = "waiting"
    /\ owner' = "finished"
    /\ ctxDone' = TRUE
    /\ UNCHANGED <<role, queueVars, linkVars, closed, lastErr,
                   errCh, run, rpc, wpc, hpc, hand>>

\* handleTunnel returns: net/http cancels the request's context and closes its
\* body.  On the client the goroutine that called Run just ends.
OwnerFinishes ==
    /\ role = "server" /\ run = "returned" /\ owner = "waiting"
    /\ owner' = "finished"
    /\ ctxDone' = TRUE
    /\ inBroken' = TRUE
    /\ UNCHANGED <<role, queueVars, outBroken, written, usedSeqs, afterClose, closed, lastErr,
                   errCh, run, rpc, wpc, hpc, hand>>

\* The process is told to stop, or the request is cancelled.
ContextEnds ==
    /\ ~ctxDone
    /\ ctxDone' = TRUE
    /\ UNCHANGED <<role, queueVars, linkVars, closed, lastErr, errCh, run, owner,
                   rpc, wpc, hpc, hand>>

InputBreaks ==
    /\ ~inBroken
    /\ inBroken' = TRUE
    /\ UNCHANGED <<role, queueVars, outBroken, written, usedSeqs, afterClose, endVars,
                   rpc, wpc, hpc, hand>>

OutputBreaks ==
    /\ ~outBroken
    /\ outBroken' = TRUE
    /\ UNCHANGED <<role, queueVars, inBroken, written, usedSeqs, afterClose, endVars,
                   rpc, wpc, hpc, hand>>

Reader ==
    \/ ReadSelect \/ ReadFrame \/ ReadFails
    \/ HandleQuietly \/ HandleReplies("PONG") \/ HandleReplies("OTHER") \/ HandleFails
Writer ==
    \/ WriteSelect \/ WritePopControl \/ WritePopData \/ WriteSleeps
    \/ WriteFrame \/ WriteFails \/ WriteToFinishedResponse
Heartbeat == HeartbeatTick \/ HeartbeatEnds
Environment == ContextEnds \/ InputBreaks \/ OutputBreaks

\* A panic ends the process, and every goroutine with it.
Next ==
    /\ wpc # "panic"
    /\ \/ Reader \/ Writer \/ Heartbeat \/ RunReturns \/ OwnerFinishes
       \/ CallerQueuesControl \/ CallerQueuesData \/ Environment

Alive(A) == wpc # "panic" /\ A

\* The scheduler runs every goroutine that can run, and a write to a working
\* transport ends.  Frames, ticks, callers and failures may never come.
Fairness ==
    /\ WF_vars(Alive(ReadSelect)) /\ WF_vars(Alive(ReadFails))
    /\ WF_vars(Alive(HandleQuietly))
    /\ WF_vars(Alive(Writer))
    /\ WF_vars(Alive(HeartbeatEnds))
    /\ WF_vars(Alive(RunReturns)) /\ WF_vars(Alive(OwnerFinishes))

Spec == Init /\ [][Next]_vars
FairSpec == Spec /\ Fairness

-----------------------------------------------------------------------------
(* Properties *)

\* The fields of the session keep to their types and the queues to their caps.
TypeOK ==
    /\ role \in Roles
    /\ controlQ \in Seq(Frame) /\ Len(controlQ) <= ControlCap
    /\ dataQ \in Seq(Frame) /\ Len(dataQ) <= DataCap
    /\ closed \in BOOLEAN /\ ctxDone \in BOOLEAN
    /\ inBroken \in BOOLEAN /\ outBroken \in BOOLEAN
    /\ lastErr \in Failures \union {NoError}
    /\ errCh \in Seq(Failures \union {NoError})
    /\ rpc \in {"select", "decode", "handle", "done"}
    /\ wpc \in {"select", "control", "data", "write", "sleep", "done", "panic"}
    /\ hpc \in {"wait", "done"}
    /\ run \in {"running", "returned"} /\ owner \in {"waiting", "finished"}
    /\ hand \in Frame \union {NoHand}
    /\ written \in [Class -> Nat] /\ usedSeqs \subseteq [seq : Seqs, draw : Nat]
    /\ nextSeq \in Seqs /\ draws \in Nat /\ afterClose \in Nat
    /\ accepted \in [Class -> Nat] /\ popped \in [Class -> Nat]

QueueOf(c) == IF c = "control" THEN controlQ ELSE dataQ

\* How many frames of class c the writer holds.
InHand(c) == IF hand.class = c THEN 1 ELSE 0

\* A frame accepted by QueueControl or QueueData is in exactly one place: still
\* queued, in the writer's hand, or written once; and each class leaves in the
\* order it was accepted, whatever the two queues and three loops do
\* (session.go:96-119, 154-164).
FramesAccounted ==
    \A c \in Class :
      /\ accepted[c] = popped[c] + Len(QueueOf(c))
      /\ \A i \in 1 .. Len(QueueOf(c)) :
           QueueOf(c)[i].class = c /\ QueueOf(c)[i].n = popped[c] + i
      /\ written[c] = popped[c] - InHand(c)
      /\ hand.class = c => hand.n = popped[c]

\* Control frames go first (SLPP_Design_Refined.md:297), up to the writer's own
\* race: it looks at controlQ and then at dataQ under two different locks, so a
\* control frame pushed in between waits for one data frame, and never for two
\* (session.go:105-116).
ControlWaitsForOneDataFrame ==
    \A i \in 1 .. Len(controlQ) : popped["data"] - controlQ[i].at <= 1

\* The frames that wait in controlQ or in the writer's hand.
Sequenced ==
    {controlQ[i] : i \in 1 .. Len(controlQ)} \union
    (IF hand = NoHand THEN {} ELSE {hand})

\* Two frames draw SeqSpace times or more apart.
FarApart(f, g) == f.draw - g.draw >= SeqSpace \/ g.draw - f.draw >= SeqSpace

\* writeLoop and heartbeatLoop draw from one counter, the one when it writes and
\* the other when it queues: a frame ready to be written carries the Seq of
\* another one, written or not, only when the counter has come round between the
\* two, that is after 2^32 frames; and the writer holds a frame that has drawn no
\* Seq only if it is a PONG (session.go:131, 143-145).
SeqUnique ==
    /\ \A f \in Sequenced : f.draw # 0 =>
         /\ \A u \in usedSeqs : u.seq = f.seq => FarApart(f, u)
         /\ \A g \in Sequenced \ {f} : g.draw # 0 /\ g.seq = f.seq => FarApart(f, g)
    /\ hand # NoHand => (hand.draw = 0 <=> hand.kind = "PONG")

\* writeLoop may be past its select when Run closes the session; it then writes
\* the frame it reaches, and no second one (session.go:96-119, 166-173).
AtMostOneFrameAfterClose == afterClose <= 1

\* Run returns the reason the session ended, one that is really there, and never
\* the nil that a loop returns because the session is closed
\* (session.go:61-74, 101-102, 128-129).
RunReturnsTheCause ==
    /\ run = "returned" <=> closed
    /\ closed => lastErr \in Failures
    /\ lastErr = "ctx" => ctxDone
    /\ lastErr = "read" => inBroken /\ rpc = "done"
    /\ lastErr = "write" => outBroken /\ wpc = "done"
    /\ lastErr = "handler" => rpc = "done"
    /\ lastErr = "queue full" => rpc = "done" \/ hpc = "done"

\* Whichever loop fails first, or when the context ends, Run returns
\* (session.go:66-73).
FailureEndsRun == (errCh # << >> \/ ctxDone) ~> (run = "returned" \/ wpc = "panic")

\* On the server no goroutine of the session outlives its request for ever:
\* the cancelled context and the closed body reach all three loops, the reader
\* too although it never looks at closed (session.go:76-137, server.go:29-55).
ServerLoopsEnd ==
    (role = "server" /\ run = "returned")
        ~> (wpc = "panic" \/ (rpc = "done" /\ hpc = "done" /\ wpc = "done"))

\* A control frame that was accepted is written, or the session ends: neither
\* the data frames nor the sleep of writeLoop hold it for ever
\* (session.go:96-119).
QueuedControlLeaves ==
    \A n \in 1 .. MaxControl :
      (accepted["control"] >= n)
        ~> (popped["control"] >= n \/ closed \/ wpc \in {"done", "panic"})

\* SLPP_Design_Refined.md:817-823 ends the session, and the session only, when
\* it fails: no failure of a session takes the process down.
SessionFailureIsContained == wpc # "panic"
=============================================================================
