-------------------------- MODULE Session_proofs ----------------------------
(***************************************************************************)
(* For every capacity of the two queues, every number of frames and both   *)
(* roles: the safety invariants of one endpoint of a session, under every  *)
(* interleaving of its three loops, Run, the callers, the owner and the    *)
(* failures of the world outside.                                          *)
(*                                                                         *)
(* None of the invariants is inductive alone.  What they need besides is   *)
(* where the writer stands (HandInv), what it knew of controlQ when it     *)
(* went on to dataQ (PassOver), which draws the queued frames can have     *)
(* (DrawInv) and what Seqs these gave (SeqInv), when a frame can still be  *)
(* written (CloseInv) and why a loop reported what it did (CauseInv).      *)
(***************************************************************************)
EXTENDS Session, TLAPS

USE CapAssumption, BoundAssumption, RoleAssumption DEF Class, Kinds

-----------------------------------------------------------------------------
(* The inductive invariants *)

\* The writer holds a frame exactly while it writes it, or when it died of it.
HandInv ==
    /\ wpc \in {"select", "control", "data", "sleep"} => hand = NoHand
    /\ wpc = "write" => hand \in Frame

\* A queued control frame has been passed over by at most one data frame, and
\* by none while the writer is about to look at dataQ.
PassOver ==
    \A i \in 1 .. Len(controlQ) :
      /\ controlQ[i].at <= popped["data"]
      /\ popped["data"] <= controlQ[i].at + 1
      /\ wpc = "data" => controlQ[i].at = popped["data"]

\* In the queues only a PING has drawn a Seq.  The count of the draws bounds them
\* all, and no draw is in two places.
UsedDraws == {u.draw : u \in usedSeqs}

DrawInv ==
    /\ \A i \in 1 .. Len(dataQ) : dataQ[i].kind = "OTHER" /\ dataQ[i].draw = 0
    /\ \A i \in 1 .. Len(controlQ) :
         /\ controlQ[i].draw <= draws
         /\ controlQ[i].draw # 0 <=> controlQ[i].kind = "PING"
         /\ controlQ[i].draw \notin UsedDraws
    /\ \A i, j \in 1 .. Len(controlQ) :
         controlQ[i].draw # 0 /\ controlQ[i].draw = controlQ[j].draw => i = j
    /\ UsedDraws \subseteq 1 .. draws
    /\ hand # NoHand =>
         /\ hand.draw <= draws
         /\ hand.draw = 0 <=> hand.kind = "PONG"
         /\ hand.draw \notin UsedDraws
         /\ hand.draw # 0 => \A i \in 1 .. Len(controlQ) : controlQ[i].draw # hand.draw

\* The counter has come round once in SeqSpace draws, and so have the Seqs.
SeqInv ==
    /\ nextSeq = draws % SeqSpace
    /\ \A i \in 1 .. Len(dataQ) : dataQ[i].seq = dataQ[i].draw % SeqSpace
    /\ \A i \in 1 .. Len(controlQ) : controlQ[i].seq = controlQ[i].draw % SeqSpace
    /\ hand.seq = hand.draw % SeqSpace
    /\ \A u \in usedSeqs : u.seq = u.draw % SeqSpace

\* A writer that is past its select has not yet written a frame after Close.
CloseInv ==
    /\ ~closed => afterClose = 0
    /\ wpc \in {"control", "data", "write"} => afterClose = 0
    /\ afterClose <= 1

\* What has happened when a loop, or the context, gives e as the reason.
Caused(e) ==
    /\ e \in Failures
    /\ e = "ctx" => ctxDone
    /\ e = "read" => inBroken /\ rpc = "done"
    /\ e = "write" => outBroken /\ wpc = "done"
    /\ e = "handler" => rpc = "done"
    /\ e = "queue full" => rpc = "done" \/ hpc = "done"

CauseInv ==
    /\ run = "returned" <=> closed
    /\ \A i \in 1 .. Len(errCh) : Caused(errCh[i])
    /\ closed => Caused(lastErr)
    /\ ~closed => lastErr = NoError

-----------------------------------------------------------------------------
(* Types *)

\* What a number is to the counter: so many rounds, and the place in the last.
LEMMA Rounds ==
    ASSUME NEW a \in Nat
    PROVE  /\ a % SeqSpace \in Seqs
           /\ \E q \in Nat : SeqSpace * q \in Nat /\ a = (SeqSpace * q) + (a % SeqSpace)
<1>1. SeqSpace \in Nat \ {0}
  BY SeqAssumption
<1>2. a % SeqSpace \in 0 .. SeqSpace - 1 /\ a \div SeqSpace \in Nat
  BY <1>1
<1>3. a = (SeqSpace * (a \div SeqSpace)) + (a % SeqSpace)
  BY <1>1
<1>4. SeqSpace * (a \div SeqSpace) \in Nat
  BY <1>1, <1>2
<1> QED BY <1>2, <1>3, <1>4 DEF Seqs

\* 0 is a Seq, and so is the one after any.
LEMMA SeqTypes == 0 \in Seqs /\ (nextSeq \in Seqs => NextSeq \in Seqs)
<1>1. SeqSpace \in Nat \ {0}
  BY SeqAssumption
<1>2. ASSUME nextSeq \in Seqs
      PROVE  NextSeq \in Seqs
  <2>1. nextSeq + 1 \in Nat
    BY <1>1, <1>2 DEF Seqs
  <2> QED BY <2>1, Rounds DEF NextSeq
<1> QED BY <1>1, <1>2 DEF Seqs

LEMMA InitTyped == Init => TypeOK /\ HandInv
<1> SUFFICES ASSUME Init PROVE TypeOK /\ HandInv
  OBVIOUS
<1>1. controlQ \in Seq(Frame) /\ Len(controlQ) <= ControlCap
  <2> DEFINE auth == [class |-> "control", n |-> 1, kind |-> "OTHER", seq |-> 0, draw |-> 0, at |-> 0]
  <2>1. auth \in Frame
    BY SeqTypes DEF Frame
  <2>2. controlQ = << >> \/ controlQ = << auth >>
    BY DEF Init
  <2> HIDE DEF auth
  <2>3. CASE controlQ = << >>
    BY <2>3
  <2>4. CASE controlQ = << auth >>
    BY <2>1, <2>4
  <2> QED BY <2>2, <2>3, <2>4
<1>2. dataQ \in Seq(Frame) /\ Len(dataQ) <= DataCap
  BY DEF Init
<1>3. errCh \in Seq(Failures \union {NoError})
  BY DEF Init
<1> QED BY <1>1, <1>2, <1>3, SeqTypes DEF Init, TypeOK, HandInv

\* A pushed frame is a frame.
LEMMA NewFrameIsFrame ==
    ASSUME TypeOK, NEW c \in Class, NEW kind \in Kinds, NEW seq \in Seqs, NEW draw \in Nat
    PROVE  NewFrame(c, kind, seq, draw) \in Frame
BY DEF TypeOK, NewFrame, Frame

\* A push keeps the queues to their types and caps.
LEMMA PushTyped ==
    ASSUME TypeOK
    PROVE  /\ \A kind \in Kinds, seq \in Seqs, draw \in Nat : AcceptControl(kind, seq, draw) =>
                /\ controlQ' \in Seq(Frame) /\ Len(controlQ') <= ControlCap
                /\ accepted' \in [Class -> Nat]
           /\ AcceptData =>
                /\ dataQ' \in Seq(Frame) /\ Len(dataQ') <= DataCap
                /\ accepted' \in [Class -> Nat]
<1>1. ASSUME NEW kind \in Kinds, NEW seq \in Seqs, NEW draw \in Nat, AcceptControl(kind, seq, draw)
      PROVE  /\ controlQ' \in Seq(Frame) /\ Len(controlQ') <= ControlCap
             /\ accepted' \in [Class -> Nat]
  <2>1. NewFrame("control", kind, seq, draw) \in Frame
    BY NewFrameIsFrame
  <2> QED BY <1>1, <2>1 DEF AcceptControl, ControlFull, TypeOK
<1>2. ASSUME AcceptData
      PROVE  /\ dataQ' \in Seq(Frame) /\ Len(dataQ') <= DataCap
             /\ accepted' \in [Class -> Nat]
  <2>1. NewFrame("data", "OTHER", 0, 0) \in Frame
    BY NewFrameIsFrame, SeqTypes
  <2> QED BY <1>2, <2>1 DEF AcceptData, DataFull, TypeOK
<1> QED BY <1>1, <1>2

\* A result that is one of the loops' keeps errCh to its type.
LEMMA ResultTyped ==
    ASSUME TypeOK
    PROVE  \A e \in Failures \union {NoError} :
             LoopResult(e) \/ UNCHANGED errCh => errCh' \in Seq(Failures \union {NoError})
<1> DEFINE Results == Failures \union {NoError}
<1>1. errCh \in Seq(Results)
  BY DEF TypeOK
<1> HIDE DEF Results
<1>2. \A e \in Results : LoopResult(e) \/ UNCHANGED errCh => errCh' \in Seq(Results)
  BY <1>1 DEF LoopResult
<1> QED BY <1>2 DEF Results

\* The frame popped is a frame, and its queue is left with the rest.
LEMMA TakeTyped ==
    ASSUME TypeOK, NEW f \in Frame, TakeInHand(f)
    PROVE  /\ hand' \in Frame /\ nextSeq' \in Seqs /\ draws' \in Nat
           /\ popped' \in [Class -> Nat]
<1>1. nextSeq \in Seqs /\ draws \in Nat /\ popped \in [Class -> Nat]
  BY DEF TypeOK
<1>2. NextSeq \in Seqs
  BY <1>1, SeqTypes
<1>3. SeqOf(f) \in Seqs /\ nextSeq' \in Seqs /\ draws' \in Nat
  BY <1>1, <1>2 DEF TakeInHand, DrawSeq, SeqOf, Frame
<1>4. hand' \in Frame
  <2>1. (IF Numbered(f) THEN draws + 1 ELSE f.draw) \in Nat
    BY <1>1 DEF Frame
  <2> QED BY <1>3, <2>1 DEF TakeInHand, Frame
<1>5. popped' \in [Class -> Nat]
  <2>1. f.class \in Class
    BY DEF Frame
  <2> QED BY <1>1, <2>1 DEF TakeInHand
<1> QED BY <1>3, <1>4, <1>5

LEMMA ReaderTyped ==
    ASSUME TypeOK, HandInv, Reader
    PROVE  TypeOK' /\ HandInv'
<1> USE DEF queueVars, linkVars, endVars
<1>1. CASE ReadSelect
  <2>1. errCh' \in Seq(Failures \union {NoError})
    BY <1>1, ResultTyped DEF ReadSelect, Failures
  <2> QED BY <1>1, <2>1 DEF ReadSelect, TypeOK, HandInv
<1>2. CASE ReadFrame
  BY <1>2 DEF ReadFrame, TypeOK, HandInv
<1>3. CASE ReadFails
  <2>1. errCh' \in Seq(Failures \union {NoError})
    BY <1>3, ResultTyped DEF ReadFails, Failures
  <2> QED BY <1>3, <2>1 DEF ReadFails, TypeOK, HandInv
<1>4. CASE HandleQuietly
  BY <1>4 DEF HandleQuietly, TypeOK, HandInv
<1>5. ASSUME NEW kind \in {"PONG", "OTHER"}, HandleReplies(kind)
      PROVE  TypeOK' /\ HandInv'
  <2>1. CASE AcceptControl(kind, 0, 0) /\ rpc' = "select" /\ UNCHANGED errCh
    <3>1. /\ controlQ' \in Seq(Frame) /\ Len(controlQ') <= ControlCap
          /\ accepted' \in [Class -> Nat]
      BY <2>1, PushTyped, SeqTypes
    <3> QED BY <1>5, <2>1, <3>1 DEF HandleReplies, AcceptControl, TypeOK, HandInv
  <2>2. CASE RefuseControl /\ LoopResult("queue full") /\ rpc' = "done"
    <3>1. errCh' \in Seq(Failures \union {NoError})
      BY <2>2, ResultTyped DEF Failures
    <3>2. UNCHANGED queueVars
      BY <1>5, <2>2 DEF HandleReplies, RefuseControl
    <3>3. UNCHANGED <<role, nextSeq, draws, linkVars, wpc, hpc, hand, closed, lastErr,
                      ctxDone, run, owner>>
      BY <1>5 DEF HandleReplies
    <3>4. rpc' = "done"
      BY <2>2
    <3>5. HandInv'
      BY <3>3 DEF HandInv
    <3>6. TypeOK'
      BY <3>1, <3>2, <3>3, <3>4 DEF TypeOK
    <3> QED BY <3>5, <3>6
  <2> QED BY <1>5, <2>1, <2>2 DEF HandleReplies
<1>6. CASE HandleFails
  <2>1. errCh' \in Seq(Failures \union {NoError})
    BY <1>6, ResultTyped DEF HandleFails, Failures
  <2> QED BY <1>6, <2>1 DEF HandleFails, TypeOK, HandInv
<1> QED BY <1>1, <1>2, <1>3, <1>4, <1>5, <1>6 DEF Reader

LEMMA WriterTyped ==
    ASSUME TypeOK, HandInv, Writer
    PROVE  TypeOK' /\ HandInv'
<1> USE DEF queueVars, linkVars, endVars
<1>1. CASE WriteSelect
  <2>1. errCh' \in Seq(Failures \union {NoError})
    BY <1>1, ResultTyped DEF WriteSelect, Failures
  <2> QED BY <1>1, <2>1 DEF WriteSelect, TypeOK, HandInv
<1>2. CASE WritePopControl
  <2>1. CASE controlQ # << >> /\ TakeInHand(Head(controlQ)) /\ controlQ' = Tail(controlQ)
    <3>1. /\ Head(controlQ) \in Frame
          /\ controlQ' \in Seq(Frame) /\ Len(controlQ') <= ControlCap
      BY <2>1 DEF TypeOK
    <3>2. /\ hand' \in Frame /\ nextSeq' \in Seqs /\ draws' \in Nat
          /\ popped' \in [Class -> Nat]
      BY <2>1, <3>1, TakeTyped
    <3>3. wpc' = "write"
      BY <2>1 DEF TakeInHand
    <3> QED BY <1>2, <3>1, <3>2, <3>3 DEF WritePopControl, TypeOK, HandInv
  <2>2. CASE wpc' = "data" /\ UNCHANGED <<controlQ, popped, nextSeq, draws, hand>>
    BY <1>2, <2>2 DEF WritePopControl, TypeOK, HandInv
  <2> QED BY <1>2, <2>1, <2>2 DEF WritePopControl
<1>3. CASE WritePopData
  <2>1. CASE dataQ # << >> /\ TakeInHand(Head(dataQ)) /\ dataQ' = Tail(dataQ)
    <3>1. /\ Head(dataQ) \in Frame
          /\ dataQ' \in Seq(Frame) /\ Len(dataQ') <= DataCap
      BY <2>1 DEF TypeOK
    <3>2. /\ hand' \in Frame /\ nextSeq' \in Seqs /\ draws' \in Nat
          /\ popped' \in [Class -> Nat]
      BY <2>1, <3>1, TakeTyped
    <3>3. wpc' = "write"
      BY <2>1 DEF TakeInHand
    <3> QED BY <1>3, <3>1, <3>2, <3>3 DEF WritePopData, TypeOK, HandInv
  <2>2. CASE wpc' = "sleep" /\ UNCHANGED <<dataQ, popped, nextSeq, draws, hand>>
    BY <1>3, <2>2 DEF WritePopData, TypeOK, HandInv
  <2> QED BY <1>3, <2>1, <2>2 DEF WritePopData
<1>4. CASE WriteSleeps
  BY <1>4 DEF WriteSleeps, TypeOK, HandInv
<1>5. CASE WriteFrame
  <2>1. hand \in Frame
    BY <1>5 DEF WriteFrame, HandInv
  <2>2. /\ written' \in [Class -> Nat] /\ usedSeqs' \subseteq [seq : Seqs, draw : Nat]
        /\ afterClose' \in Nat /\ hand' = NoHand /\ wpc' = "select"
    <3>1. written' \in [Class -> Nat]
      BY <1>5, <2>1 DEF WriteFrame, TypeOK, Frame
    <3>2. usedSeqs' \subseteq [seq : Seqs, draw : Nat]
      BY <1>5, <2>1 DEF WriteFrame, TypeOK, Frame
    <3> QED BY <1>5, <3>1, <3>2 DEF WriteFrame, AfterWrite, TypeOK
  <2> QED BY <1>5, <2>2 DEF WriteFrame, TypeOK, HandInv
<1>6. CASE WriteFails
  <2>1. errCh' \in Seq(Failures \union {NoError})
    BY <1>6, ResultTyped DEF WriteFails, Failures
  <2> QED BY <1>6, <2>1 DEF WriteFails, TypeOK, HandInv
<1>7. CASE WriteToFinishedResponse
  BY <1>7 DEF WriteToFinishedResponse, TypeOK, HandInv
<1> QED BY <1>1, <1>2, <1>3, <1>4, <1>5, <1>6, <1>7 DEF Writer

LEMMA HeartbeatTyped ==
    ASSUME TypeOK, HandInv, Heartbeat
    PROVE  TypeOK' /\ HandInv'
<1> USE DEF queueVars, linkVars, endVars
<1>1. CASE HeartbeatTick
  <2>1. /\ nextSeq' = NextSeq /\ NextSeq \in Seqs
        /\ draws' = draws + 1 /\ draws + 1 \in Nat
    <3>1. nextSeq \in Seqs /\ draws \in Nat
      BY DEF TypeOK
    <3>2. nextSeq' = NextSeq /\ draws' = draws + 1
      BY <1>1 DEF HeartbeatTick, DrawSeq
    <3> QED BY <3>1, <3>2, SeqTypes
  <2>2. UNCHANGED <<role, linkVars, rpc, wpc, hand, closed, lastErr, ctxDone, run, owner>>
    BY <1>1 DEF HeartbeatTick
  <2>3. HandInv'
    BY <2>2 DEF HandInv
  <2>4. CASE AcceptControl("PING", NextSeq, draws + 1) /\ UNCHANGED <<hpc, errCh>>
    <3>1. /\ controlQ' \in Seq(Frame) /\ Len(controlQ') <= ControlCap
          /\ accepted' \in [Class -> Nat]
      BY <2>1, <2>4, PushTyped
    <3>2. UNCHANGED <<dataQ, popped>>
      BY <2>4 DEF AcceptControl
    <3>3. TypeOK'
      BY <2>1, <2>2, <2>4, <3>1, <3>2 DEF TypeOK
    <3> QED BY <2>3, <3>3
  <2>5. CASE RefuseControl /\ LoopResult("queue full") /\ hpc' = "done"
    <3>1. errCh' \in Seq(Failures \union {NoError})
      BY <2>5, ResultTyped DEF Failures
    <3>2. UNCHANGED <<controlQ, dataQ, accepted, popped>> /\ hpc' = "done"
      BY <2>5 DEF RefuseControl
    <3>3. TypeOK'
      BY <2>1, <2>2, <3>1, <3>2 DEF TypeOK
    <3> QED BY <2>3, <3>3
  <2> QED BY <1>1, <2>4, <2>5 DEF HeartbeatTick
<1>2. CASE HeartbeatEnds
  <2>1. errCh' \in Seq(Failures \union {NoError})
    BY <1>2, ResultTyped DEF HeartbeatEnds, Failures
  <2> QED BY <1>2, <2>1 DEF HeartbeatEnds, TypeOK, HandInv
<1> QED BY <1>1, <1>2 DEF Heartbeat

LEMMA CallersTyped ==
    ASSUME TypeOK, HandInv, CallerQueuesControl \/ CallerQueuesData
    PROVE  TypeOK' /\ HandInv'
<1> USE DEF queueVars, linkVars, endVars
<1>1. UNCHANGED <<role, nextSeq, draws, linkVars, endVars, rpc, wpc, hpc, hand>>
  BY DEF CallerQueuesControl, CallerQueuesData
<1>2. HandInv'
  BY <1>1 DEF HandInv
<1>3. UNCHANGED popped
  BY DEF CallerQueuesControl, CallerQueuesData, AcceptControl, RefuseControl,
         AcceptData, RefuseData
<1>4. /\ controlQ' \in Seq(Frame) /\ Len(controlQ') <= ControlCap
      /\ dataQ' \in Seq(Frame) /\ Len(dataQ') <= DataCap
      /\ accepted' \in [Class -> Nat]
  <2>1. CASE AcceptControl("OTHER", 0, 0)
    BY <2>1, PushTyped, SeqTypes DEF AcceptControl, TypeOK
  <2>2. CASE AcceptData
    BY <2>2, PushTyped DEF AcceptData, TypeOK
  <2>3. CASE RefuseControl \/ RefuseData
    BY <2>3 DEF RefuseControl, RefuseData, TypeOK
  <2> QED BY <2>1, <2>2, <2>3 DEF CallerQueuesControl, CallerQueuesData
<1>5. TypeOK'
  BY <1>1, <1>3, <1>4 DEF TypeOK
<1> QED BY <1>2, <1>5

LEMMA WorldTyped ==
    ASSUME TypeOK, HandInv, RunReturns \/ OwnerFinishes \/ Environment
    PROVE  TypeOK' /\ HandInv'
<1> USE DEF queueVars, linkVars, endVars
<1>1. CASE RunReturns
  <2>1. errCh # << >> => Head(errCh) \in Failures \union {NoError}
    <3> DEFINE Results == Failures \union {NoError}
    <3>1. errCh \in Seq(Results)
      BY DEF TypeOK
    <3> HIDE DEF Results
    <3>2. errCh # << >> => Head(errCh) \in Results
      BY <3>1
    <3> QED BY <3>2 DEF Results
  <2>2. lastErr' \in Failures \union {NoError} /\ closed' = TRUE
    BY <1>1, <2>1 DEF RunReturns, Close, Failures
  <2>3. errCh' \in Seq(Failures \union {NoError})
    BY <1>1 DEF RunReturns
  <2> QED BY <1>1, <2>2, <2>3 DEF RunReturns, TypeOK, HandInv
<1>2. CASE OwnerFinishes
  BY <1>2 DEF OwnerFinishes, TypeOK, HandInv
<1>3. CASE ContextEnds
  BY <1>3 DEF ContextEnds, TypeOK, HandInv
<1>4. CASE InputBreaks
  BY <1>4 DEF InputBreaks, TypeOK, HandInv
<1>5. CASE OutputBreaks
  BY <1>5 DEF OutputBreaks, TypeOK, HandInv
<1> QED BY <1>1, <1>2, <1>3, <1>4, <1>5 DEF Environment

LEMMA NextTyped ==
    ASSUME TypeOK, HandInv, Next
    PROVE  TypeOK' /\ HandInv'
BY ReaderTyped, WriterTyped, HeartbeatTyped, CallersTyped, WorldTyped DEF Next

Typed == TypeOK /\ HandInv

LEMMA SpecTyped == Spec => []Typed
<1>1. Init => Typed
  BY InitTyped DEF Typed
<1>2. Typed /\ [Next]_vars => Typed'
  <2>1. CASE UNCHANGED vars
    BY <2>1 DEF Typed, TypeOK, HandInv, vars, queueVars, linkVars, endVars
  <2> QED BY <2>1, NextTyped DEF Typed
<1> QED BY <1>1, <1>2, PTL DEF Spec

\* The fields of the session keep to their types and the queues to their caps,
\* whoever pushes, pops or fails (session.go:25-60).
THEOREM SessionTypes == Spec => []TypeOK
<1>1. Typed => TypeOK
  BY DEF Typed
<1> QED BY <1>1, SpecTyped, PTL

-----------------------------------------------------------------------------
(* What any step does to the frames *)

\* Every step leaves queued, held and written frames alone, pushes one frame,
\* pops one, or writes one.
LEMMA FrameStep ==
    ASSUME Next
    PROVE  \/ /\ UNCHANGED <<controlQ, dataQ, accepted, popped, hand, written, usedSeqs>>
              /\ UNCHANGED <<nextSeq, draws>> \/ DrawSeq
              /\ wpc' = "data" => wpc = "data"
           \/ /\ \E kind \in {"PONG", "OTHER"} : AcceptControl(kind, 0, 0)
              /\ UNCHANGED <<nextSeq, draws, wpc, hand, written, usedSeqs>>
           \/ /\ AcceptControl("PING", NextSeq, draws + 1)
              /\ DrawSeq
              /\ UNCHANGED <<wpc, hand, written, usedSeqs>>
           \/ AcceptData /\ UNCHANGED <<nextSeq, draws, wpc, hand, written, usedSeqs>>
           \/ WritePopControl \/ WritePopData \/ WriteFrame
<1> USE DEF queueVars, linkVars, endVars
<1>1. CASE Reader
  BY <1>1 DEF Reader, ReadSelect, ReadFrame, ReadFails, HandleQuietly, HandleReplies,
              HandleFails, RefuseControl
<1>2. CASE Writer
  BY <1>2 DEF Writer, WriteSelect, WriteSleeps, WriteFails, WriteToFinishedResponse
<1>3. CASE Heartbeat
  BY <1>3 DEF Heartbeat, HeartbeatTick, HeartbeatEnds, RefuseControl
<1>4. CASE RunReturns \/ OwnerFinishes \/ Environment
  BY <1>4 DEF RunReturns, OwnerFinishes, Environment, ContextEnds, InputBreaks, OutputBreaks
<1>5. CASE CallerQueuesControl
  BY <1>5 DEF CallerQueuesControl, RefuseControl
<1>6. CASE CallerQueuesData
  BY <1>6 DEF CallerQueuesData, RefuseData
<1> QED BY <1>1, <1>2, <1>3, <1>4, <1>5, <1>6 DEF Next

\* A control frame is pushed at the end of its queue.
LEMMA ControlPushed ==
    ASSUME TypeOK, NEW kind \in Kinds, NEW seq \in Seqs, NEW draw \in Nat, AcceptControl(kind, seq, draw)
    PROVE  /\ Len(controlQ') = Len(controlQ) + 1
           /\ \A i \in 1 .. Len(controlQ) : controlQ'[i] = controlQ[i]
           /\ controlQ'[Len(controlQ) + 1] = NewFrame("control", kind, seq, draw)
           /\ accepted' = [accepted EXCEPT !["control"] = @ + 1]
           /\ UNCHANGED <<dataQ, popped>>
<1>1. controlQ \in Seq(Frame)
  BY DEF TypeOK
<1>2. controlQ' = Append(controlQ, NewFrame("control", kind, seq, draw))
  BY DEF AcceptControl
<1> QED BY <1>1, <1>2, NewFrameIsFrame DEF AcceptControl

\* A data frame is pushed at the end of its queue.
LEMMA DataPushed ==
    ASSUME TypeOK, AcceptData
    PROVE  /\ Len(dataQ') = Len(dataQ) + 1
           /\ \A i \in 1 .. Len(dataQ) : dataQ'[i] = dataQ[i]
           /\ dataQ'[Len(dataQ) + 1] = NewFrame("data", "OTHER", 0, 0)
           /\ accepted' = [accepted EXCEPT !["data"] = @ + 1]
           /\ UNCHANGED <<controlQ, popped>>
<1>1. dataQ \in Seq(Frame)
  BY DEF TypeOK
<1>2. dataQ' = Append(dataQ, NewFrame("data", "OTHER", 0, 0))
  BY DEF AcceptData
<1> QED BY <1>1, <1>2, NewFrameIsFrame DEF AcceptData

\* What the writer's hand is after a pop.
TakenFrom(f) ==
    /\ wpc' = "write"
    /\ hand' \in Frame
    /\ hand'.class = f.class /\ hand'.n = f.n /\ hand'.kind = f.kind
    /\ hand'.seq = SeqOf(f)
    /\ hand'.draw = IF Numbered(f) THEN draws + 1 ELSE f.draw
    /\ IF Numbered(f) THEN DrawSeq ELSE UNCHANGED <<nextSeq, draws>>
    /\ popped' = [popped EXCEPT ![f.class] = @ + 1]

LEMMA Taken ==
    ASSUME TypeOK, NEW f \in Frame, TakeInHand(f)
    PROVE  TakenFrom(f)
<1>1. hand' \in Frame
  BY TakeTyped
<1>2. hand' = [f EXCEPT !.seq = SeqOf(f), !.draw = IF Numbered(f) THEN draws + 1 ELSE @]
  BY DEF TakeInHand
<1>3. /\ hand'.class = f.class /\ hand'.n = f.n /\ hand'.kind = f.kind
      /\ hand'.seq = SeqOf(f)
      /\ hand'.draw = IF Numbered(f) THEN draws + 1 ELSE f.draw
  BY <1>2 DEF Frame
<1> QED BY <1>1, <1>3 DEF TakenFrom, TakeInHand

\* The writer takes the first control frame, or goes on to dataQ.
LEMMA ControlPopped ==
    ASSUME TypeOK, WritePopControl
    PROVE  /\ wpc = "control"
           /\ UNCHANGED <<dataQ, accepted, written, usedSeqs>>
           /\ \/ /\ Len(controlQ) > 0 /\ controlQ[1] \in Frame /\ TakenFrom(controlQ[1])
                 /\ Len(controlQ') = Len(controlQ) - 1
                 /\ \A i \in 1 .. Len(controlQ') : controlQ'[i] = controlQ[i + 1]
              \/ /\ Len(controlQ) = 0 /\ wpc' = "data"
                 /\ UNCHANGED <<controlQ, popped, nextSeq, draws, hand>>
<1>1. wpc = "control" /\ UNCHANGED <<dataQ, accepted, written, usedSeqs>>
  BY DEF WritePopControl, linkVars
<1>2. controlQ \in Seq(Frame)
  BY DEF TypeOK
<1>3. CASE controlQ # << >> /\ TakeInHand(Head(controlQ)) /\ controlQ' = Tail(controlQ)
  <2>1. Len(controlQ) > 0 /\ controlQ[1] = Head(controlQ) /\ controlQ[1] \in Frame
    BY <1>2, <1>3
  <2>2. TakenFrom(controlQ[1])
    BY <1>3, <2>1, Taken
  <2>3. /\ Len(controlQ') = Len(controlQ) - 1
        /\ \A i \in 1 .. Len(controlQ') : controlQ'[i] = controlQ[i + 1]
    BY <1>2, <1>3, <2>1
  <2> QED BY <1>1, <2>1, <2>2, <2>3
<1>4. CASE controlQ = << >> /\ wpc' = "data" /\ UNCHANGED <<controlQ, popped, nextSeq, draws, hand>>
  BY <1>1, <1>4
<1> QED BY <1>3, <1>4 DEF WritePopControl

\* The writer takes the first data frame, or goes to sleep.
LEMMA DataPopped ==
    ASSUME TypeOK, WritePopData
    PROVE  /\ wpc = "data"
           /\ UNCHANGED <<controlQ, accepted, written, usedSeqs>>
           /\ \/ /\ Len(dataQ) > 0 /\ dataQ[1] \in Frame /\ TakenFrom(dataQ[1])
                 /\ Len(dataQ') = Len(dataQ) - 1
                 /\ \A i \in 1 .. Len(dataQ') : dataQ'[i] = dataQ[i + 1]
              \/ /\ Len(dataQ) = 0 /\ wpc' = "sleep"
                 /\ UNCHANGED <<dataQ, popped, nextSeq, draws, hand>>
<1>1. wpc = "data" /\ UNCHANGED <<controlQ, accepted, written, usedSeqs>>
  BY DEF WritePopData, linkVars
<1>2. dataQ \in Seq(Frame)
  BY DEF TypeOK
<1>3. CASE dataQ # << >> /\ TakeInHand(Head(dataQ)) /\ dataQ' = Tail(dataQ)
  <2>1. Len(dataQ) > 0 /\ dataQ[1] = Head(dataQ) /\ dataQ[1] \in Frame
    BY <1>2, <1>3
  <2>2. TakenFrom(dataQ[1])
    BY <1>3, <2>1, Taken
  <2>3. /\ Len(dataQ') = Len(dataQ) - 1
        /\ \A i \in 1 .. Len(dataQ') : dataQ'[i] = dataQ[i + 1]
    BY <1>2, <1>3, <2>1
  <2> QED BY <1>1, <2>1, <2>2, <2>3
<1>4. CASE dataQ = << >> /\ wpc' = "sleep" /\ UNCHANGED <<dataQ, popped, nextSeq, draws, hand>>
  BY <1>1, <1>4
<1> QED BY <1>3, <1>4 DEF WritePopData

-----------------------------------------------------------------------------
(* Every accepted frame is in one place *)

\* The two classes, written out.
Accounted(c, q) ==
    /\ accepted[c] = popped[c] + Len(q)
    /\ \A i \in 1 .. Len(q) : q[i].class = c /\ q[i].n = popped[c] + i
    /\ written[c] = popped[c] - InHand(c)
    /\ hand.class = c => hand.n = popped[c]

LEMMA AccountedTwice ==
    FramesAccounted <=> Accounted("control", controlQ) /\ Accounted("data", dataQ)
BY DEF FramesAccounted, Accounted, QueueOf

LEMMA PushKeepsAccounts ==
    ASSUME Typed, FramesAccounted, UNCHANGED <<hand, written>>,
           \/ \E kind \in Kinds, seq \in Seqs, draw \in Nat : AcceptControl(kind, seq, draw)
           \/ AcceptData
    PROVE  FramesAccounted'
<1>1. /\ accepted["control"] \in Nat /\ accepted["data"] \in Nat
      /\ popped["control"] \in Nat /\ popped["data"] \in Nat
      /\ accepted \in [Class -> Nat]
      /\ Len(controlQ) \in Nat /\ Len(dataQ) \in Nat
  BY DEF Typed, TypeOK
<1>2. ASSUME NEW kind \in Kinds, NEW seq \in Seqs, NEW draw \in Nat, AcceptControl(kind, seq, draw)
      PROVE  FramesAccounted'
  <2>1. /\ Len(controlQ') = Len(controlQ) + 1
        /\ \A i \in 1 .. Len(controlQ) : controlQ'[i] = controlQ[i]
        /\ controlQ'[Len(controlQ) + 1] = NewFrame("control", kind, seq, draw)
        /\ accepted'["control"] = accepted["control"] + 1
        /\ accepted'["data"] = accepted["data"]
        /\ UNCHANGED <<dataQ, popped>>
    BY <1>1, <1>2, ControlPushed DEF Typed
  <2>2. /\ NewFrame("control", kind, seq, draw).class = "control"
        /\ NewFrame("control", kind, seq, draw).n = accepted["control"] + 1
    BY DEF NewFrame
  <2>3. Accounted("control", controlQ)'
    <3>1. /\ accepted["control"] = popped["control"] + Len(controlQ)
          /\ \A i \in 1 .. Len(controlQ) : controlQ[i].class = "control" /\ controlQ[i].n = popped["control"] + i
          /\ written["control"] = popped["control"] - InHand("control")
          /\ hand.class = "control" => hand.n = popped["control"]
      BY AccountedTwice DEF Accounted
    <3>2. ASSUME NEW i \in 1 .. Len(controlQ')
          PROVE  controlQ'[i].class = "control" /\ controlQ'[i].n = popped["control"] + i
      <4>1. CASE i \in 1 .. Len(controlQ)
        BY <2>1, <3>1, <4>1
      <4>2. CASE i = Len(controlQ) + 1
        <5>1. controlQ'[i] = NewFrame("control", kind, seq, draw)
          BY <2>1, <4>2
        <5>2. accepted["control"] + 1 = popped["control"] + i
          BY <1>1, <3>1, <4>2
        <5> QED BY <2>2, <5>1, <5>2
      <4> QED BY <1>1, <2>1, <4>1, <4>2
    <3>3. accepted'["control"] = popped["control"] + Len(controlQ')
      <4>1. accepted'["control"] = accepted["control"] + 1 /\ Len(controlQ') = Len(controlQ) + 1
        BY <2>1
      <4>2. accepted["control"] = popped["control"] + Len(controlQ)
        BY <3>1
      <4> QED BY <1>1, <4>1, <4>2
    <3> QED BY <2>1, <3>1, <3>2, <3>3 DEF Accounted, InHand
  <2>4. Accounted("data", dataQ)'
    BY <2>1, AccountedTwice DEF Accounted, InHand
  <2> QED BY <2>3, <2>4 DEF FramesAccounted, Accounted, QueueOf
<1>3. ASSUME AcceptData
      PROVE  FramesAccounted'
  <2>1. /\ Len(dataQ') = Len(dataQ) + 1
        /\ \A i \in 1 .. Len(dataQ) : dataQ'[i] = dataQ[i]
        /\ dataQ'[Len(dataQ) + 1] = NewFrame("data", "OTHER", 0, 0)
        /\ accepted'["data"] = accepted["data"] + 1
        /\ accepted'["control"] = accepted["control"]
        /\ UNCHANGED <<controlQ, popped>>
    BY <1>1, <1>3, DataPushed DEF Typed
  <2>2. /\ NewFrame("data", "OTHER", 0, 0).class = "data"
        /\ NewFrame("data", "OTHER", 0, 0).n = accepted["data"] + 1
    BY DEF NewFrame
  <2>3. Accounted("data", dataQ)'
    <3>1. /\ accepted["data"] = popped["data"] + Len(dataQ)
          /\ \A i \in 1 .. Len(dataQ) : dataQ[i].class = "data" /\ dataQ[i].n = popped["data"] + i
          /\ written["data"] = popped["data"] - InHand("data")
          /\ hand.class = "data" => hand.n = popped["data"]
      BY AccountedTwice DEF Accounted
    <3>2. ASSUME NEW i \in 1 .. Len(dataQ')
          PROVE  dataQ'[i].class = "data" /\ dataQ'[i].n = popped["data"] + i
      <4>1. CASE i \in 1 .. Len(dataQ)
        BY <2>1, <3>1, <4>1
      <4>2. CASE i = Len(dataQ) + 1
        <5>1. dataQ'[i] = NewFrame("data", "OTHER", 0, 0)
          BY <2>1, <4>2
        <5>2. accepted["data"] + 1 = popped["data"] + i
          BY <1>1, <3>1, <4>2
        <5> QED BY <2>2, <5>1, <5>2
      <4> QED BY <1>1, <2>1, <4>1, <4>2
    <3>3. accepted'["data"] = popped["data"] + Len(dataQ')
      <4>1. accepted'["data"] = accepted["data"] + 1 /\ Len(dataQ') = Len(dataQ) + 1
        BY <2>1
      <4>2. accepted["data"] = popped["data"] + Len(dataQ)
        BY <3>1
      <4> QED BY <1>1, <4>1, <4>2
    <3> QED BY <2>1, <3>1, <3>2, <3>3 DEF Accounted, InHand
  <2>4. Accounted("control", controlQ)'
    BY <2>1, AccountedTwice DEF Accounted, InHand
  <2> QED BY <2>3, <2>4 DEF FramesAccounted, Accounted, QueueOf
<1> QED BY <1>2, <1>3

LEMMA PopKeepsAccounts ==
    ASSUME Typed, FramesAccounted, WritePopControl \/ WritePopData
    PROVE  FramesAccounted'
<1>1. /\ popped["control"] \in Nat /\ popped["data"] \in Nat
      /\ popped \in [Class -> Nat]
      /\ Len(controlQ) \in Nat /\ Len(dataQ) \in Nat
  BY DEF Typed, TypeOK
<1>2. CASE WritePopControl
  <2>1. hand = NoHand /\ UNCHANGED <<dataQ, accepted, written, usedSeqs>>
    BY <1>2, ControlPopped DEF Typed, HandInv
  <2>2. CASE /\ Len(controlQ) > 0 /\ controlQ[1] \in Frame /\ TakenFrom(controlQ[1])
             /\ Len(controlQ') = Len(controlQ) - 1
             /\ \A i \in 1 .. Len(controlQ') : controlQ'[i] = controlQ[i + 1]
    <3>1. controlQ[1].class = "control" /\ controlQ[1].n = popped["control"] + 1
      <4>1. 1 \in 1 .. Len(controlQ)
        BY <1>1, <2>2
      <4> QED BY <4>1, AccountedTwice DEF Accounted
    <3>2. /\ hand'.class = "control" /\ hand'.n = popped["control"] + 1
          /\ popped'["control"] = popped["control"] + 1
          /\ popped'["data"] = popped["data"]
      BY <1>1, <2>2, <3>1 DEF TakenFrom
    <3>3. Accounted("control", controlQ)'
      <4>1. /\ accepted["control"] = popped["control"] + Len(controlQ)
            /\ \A i \in 1 .. Len(controlQ) : controlQ[i].class = "control" /\ controlQ[i].n = popped["control"] + i
            /\ written["control"] = popped["control"] - InHand("control") /\ InHand("control") = 0
        BY <2>1, AccountedTwice DEF Accounted, InHand, NoHand
      <4>2. ASSUME NEW i \in 1 .. Len(controlQ')
            PROVE  controlQ'[i].class = "control" /\ controlQ'[i].n = popped'["control"] + i
        <5>1. i + 1 \in 1 .. Len(controlQ) /\ controlQ'[i] = controlQ[i + 1]
          BY <1>1, <2>2
        <5>2. controlQ[i + 1].class = "control" /\ controlQ[i + 1].n = popped["control"] + (i + 1)
          BY <4>1, <5>1
        <5>3. popped["control"] + (i + 1) = (popped["control"] + 1) + i
          BY <1>1
        <5> QED BY <3>2, <5>1, <5>2, <5>3
      <4>3. accepted'["control"] = popped'["control"] + Len(controlQ')
        BY <1>1, <2>1, <2>2, <3>2, <4>1
      <4>4. InHand("control")' = 1 /\ written'["control"] = popped'["control"] - 1
        BY <1>1, <2>1, <3>2, <4>1 DEF InHand
      <4> QED BY <3>2, <4>2, <4>3, <4>4 DEF Accounted
    <3>4. Accounted("data", dataQ)'
      BY <1>1, <2>1, <3>2, AccountedTwice DEF Accounted, InHand, NoHand
    <3> QED BY <3>3, <3>4 DEF FramesAccounted, Accounted, QueueOf
  <2>3. CASE UNCHANGED <<controlQ, popped, nextSeq, draws, hand>>
    BY <2>1, <2>3 DEF FramesAccounted, QueueOf, InHand
  <2> QED BY <1>2, <2>2, <2>3, ControlPopped DEF Typed
<1>3. CASE WritePopData
  <2>1. hand = NoHand /\ UNCHANGED <<controlQ, accepted, written, usedSeqs>>
    BY <1>3, DataPopped DEF Typed, HandInv
  <2>2. CASE /\ Len(dataQ) > 0 /\ dataQ[1] \in Frame /\ TakenFrom(dataQ[1])
             /\ Len(dataQ') = Len(dataQ) - 1
             /\ \A i \in 1 .. Len(dataQ') : dataQ'[i] = dataQ[i + 1]
    <3>1. dataQ[1].class = "data" /\ dataQ[1].n = popped["data"] + 1
      <4>1. 1 \in 1 .. Len(dataQ)
        BY <1>1, <2>2
      <4> QED BY <4>1, AccountedTwice DEF Accounted
    <3>2. /\ hand'.class = "data" /\ hand'.n = popped["data"] + 1
          /\ popped'["data"] = popped["data"] + 1
          /\ popped'["control"] = popped["control"]
      BY <1>1, <2>2, <3>1 DEF TakenFrom
    <3>3. Accounted("data", dataQ)'
      <4>1. /\ accepted["data"] = popped["data"] + Len(dataQ)
            /\ \A i \in 1 .. Len(dataQ) : dataQ[i].class = "data" /\ dataQ[i].n = popped["data"] + i
            /\ written["data"] = popped["data"] - InHand("data") /\ InHand("data") = 0
        BY <2>1, AccountedTwice DEF Accounted, InHand, NoHand
      <4>2. ASSUME NEW i \in 1 .. Len(dataQ')
            PROVE  dataQ'[i].class = "data" /\ dataQ'[i].n = popped'["data"] + i
        <5>1. i + 1 \in 1 .. Len(dataQ) /\ dataQ'[i] = dataQ[i + 1]
          BY <1>1, <2>2
        <5>2. dataQ[i + 1].class = "data" /\ dataQ[i + 1].n = popped["data"] + (i + 1)
          BY <4>1, <5>1
        <5>3. popped["data"] + (i + 1) = (popped["data"] + 1) + i
          BY <1>1
        <5> QED BY <3>2, <5>1, <5>2, <5>3
      <4>3. accepted'["data"] = popped'["data"] + Len(dataQ')
        BY <1>1, <2>1, <2>2, <3>2, <4>1
      <4>4. InHand("data")' = 1 /\ written'["data"] = popped'["data"] - 1
        BY <1>1, <2>1, <3>2, <4>1 DEF InHand
      <4> QED BY <3>2, <4>2, <4>3, <4>4 DEF Accounted
    <3>4. Accounted("control", controlQ)'
      BY <1>1, <2>1, <3>2, AccountedTwice DEF Accounted, InHand, NoHand
    <3> QED BY <3>3, <3>4 DEF FramesAccounted, Accounted, QueueOf
  <2>3. CASE UNCHANGED <<dataQ, popped, nextSeq, draws, hand>>
    BY <2>1, <2>3 DEF FramesAccounted, QueueOf, InHand
  <2> QED BY <1>3, <2>2, <2>3, DataPopped DEF Typed
<1> QED BY <1>2, <1>3

LEMMA WriteKeepsAccounts ==
    ASSUME Typed, FramesAccounted, WriteFrame
    PROVE  FramesAccounted'
<1>1. hand \in Frame /\ hand.class \in Class
  BY DEF Typed, HandInv, WriteFrame, Frame
<1>2. /\ written \in [Class -> Nat] /\ popped \in [Class -> Nat]
  BY DEF Typed, TypeOK
<1>3. /\ written' = [written EXCEPT ![hand.class] = hand.n]
      /\ hand' = NoHand
      /\ UNCHANGED <<controlQ, dataQ, accepted, popped>>
  BY DEF WriteFrame, queueVars
<1>4. \A c \in Class : written'[c] = popped[c] /\ InHand(c)' = 0 /\ hand'.class # c
  BY <1>1, <1>2, <1>3 DEF FramesAccounted, InHand, NoHand
<1> QED BY <1>2, <1>3, <1>4 DEF FramesAccounted, QueueOf

LEMMA NextAccounted ==
    ASSUME Typed, FramesAccounted, Next
    PROVE  FramesAccounted'
<1>1. NextSeq \in Seqs /\ 0 \in Seqs /\ draws + 1 \in Nat
  BY SeqTypes DEF Typed, TypeOK
<1>2. CASE UNCHANGED <<controlQ, dataQ, accepted, popped, hand, written, usedSeqs>>
  BY <1>2 DEF FramesAccounted, QueueOf, InHand
<1> QED BY <1>1, <1>2, FrameStep, PushKeepsAccounts, PopKeepsAccounts, WriteKeepsAccounts

\* Every frame QueueControl or QueueData accepted is queued, in the writer's
\* hand or written, once, and each class leaves in the order of acceptance
\* (session.go:96-119, 154-164).
THEOREM NoFrameLost == Spec => []FramesAccounted
<1>1. Init => FramesAccounted
  <2> SUFFICES ASSUME Init PROVE FramesAccounted
    OBVIOUS
  <2>1. Accounted("data", dataQ)
    BY DEF Init, Accounted, InHand, NoHand
  <2>2. Accounted("control", controlQ)
    <3>1. CASE role = "client"
      BY <3>1 DEF Init, Accounted, InHand, NoHand
    <3>2. CASE role # "client"
      BY <3>2 DEF Init, Accounted, InHand, NoHand
    <3> QED BY <3>1, <3>2
  <2> QED BY <2>1, <2>2, AccountedTwice
<1>2. Typed /\ FramesAccounted /\ [Next]_vars => FramesAccounted'
  <2>1. CASE UNCHANGED vars
    BY <2>1 DEF FramesAccounted, QueueOf, InHand, vars, queueVars, linkVars
  <2> QED BY <2>1, NextAccounted
<1> QED BY <1>1, <1>2, SpecTyped, PTL DEF Spec

-----------------------------------------------------------------------------
(* Control frames go first *)

LEMMA PushPassesNothing ==
    ASSUME Typed, PassOver, UNCHANGED wpc, NEW kind \in Kinds, NEW seq \in Seqs, NEW draw \in Nat,
           AcceptControl(kind, seq, draw)
    PROVE  PassOver'
<1>1. popped["data"] \in Nat /\ Len(controlQ) \in Nat
  BY DEF Typed, TypeOK
<1>2. /\ Len(controlQ') = Len(controlQ) + 1
      /\ \A i \in 1 .. Len(controlQ) : controlQ'[i] = controlQ[i]
      /\ controlQ'[Len(controlQ) + 1].at = popped["data"]
      /\ popped' = popped
  <2>1. NewFrame("control", kind, seq, draw).at = popped["data"]
    BY DEF NewFrame
  <2> QED BY <2>1, ControlPushed DEF Typed
<1> SUFFICES ASSUME NEW i \in 1 .. Len(controlQ')
             PROVE  /\ controlQ'[i].at <= popped["data"]
                    /\ popped["data"] <= controlQ'[i].at + 1
                    /\ wpc = "data" => controlQ'[i].at = popped["data"]
  BY <1>2 DEF PassOver
<1>3. CASE i \in 1 .. Len(controlQ)
  BY <1>2, <1>3 DEF PassOver
<1>4. CASE i = Len(controlQ) + 1
  BY <1>1, <1>2, <1>4
<1> QED BY <1>1, <1>2, <1>3, <1>4

LEMMA ControlPopPassesNothing ==
    ASSUME Typed, FramesAccounted, PassOver, WritePopControl
    PROVE  PassOver'
<1>1. /\ popped["data"] \in Nat /\ popped \in [Class -> Nat]
      /\ Len(controlQ) \in Nat
  BY DEF Typed, TypeOK
<1>2. CASE /\ Len(controlQ) > 0 /\ TakenFrom(controlQ[1])
           /\ Len(controlQ') = Len(controlQ) - 1
           /\ \A i \in 1 .. Len(controlQ') : controlQ'[i] = controlQ[i + 1]
  <2>1. controlQ[1].class = "control"
    <3>1. 1 \in 1 .. Len(controlQ)
      BY <1>1, <1>2
    <3> QED BY <3>1, AccountedTwice DEF Accounted
  <2>2. popped'["data"] = popped["data"] /\ wpc' = "write"
    BY <1>1, <1>2, <2>1 DEF TakenFrom
  <2>3. ASSUME NEW i \in 1 .. Len(controlQ')
        PROVE  /\ controlQ'[i].at <= popped["data"]
               /\ popped["data"] <= controlQ'[i].at + 1
    <3>1. i + 1 \in 1 .. Len(controlQ) /\ controlQ'[i] = controlQ[i + 1]
      BY <1>1, <1>2
    <3> QED BY <3>1 DEF PassOver
  <2> QED BY <2>2, <2>3 DEF PassOver
<1>3. CASE Len(controlQ) = 0 /\ UNCHANGED <<controlQ, popped>>
  BY <1>3 DEF PassOver
<1> QED BY <1>2, <1>3, ControlPopped DEF Typed

\* A data frame is popped only after a look at an empty controlQ: what is in
\* there now has come since.
LEMMA DataPopPassesOnce ==
    ASSUME Typed, FramesAccounted, PassOver, WritePopData
    PROVE  PassOver'
<1>1. /\ popped["data"] \in Nat /\ popped \in [Class -> Nat]
      /\ Len(dataQ) \in Nat
  BY DEF Typed, TypeOK
<1>2. wpc = "data" /\ controlQ' = controlQ
  BY DataPopped DEF Typed
<1>3. CASE Len(dataQ) > 0 /\ TakenFrom(dataQ[1])
  <2>1. dataQ[1].class = "data"
    <3>1. 1 \in 1 .. Len(dataQ)
      BY <1>1, <1>3
    <3> QED BY <3>1, AccountedTwice DEF Accounted
  <2>2. popped'["data"] = popped["data"] + 1 /\ wpc' = "write"
    BY <1>1, <1>3, <2>1 DEF TakenFrom
  <2>3. ASSUME NEW i \in 1 .. Len(controlQ)
        PROVE  /\ controlQ[i].at <= popped["data"] + 1
               /\ popped["data"] + 1 <= controlQ[i].at + 1
    <3>1. controlQ[i].at = popped["data"]
      BY <1>2 DEF PassOver
    <3> QED BY <1>1, <3>1
  <2> QED BY <1>2, <2>2, <2>3 DEF PassOver
<1>4. CASE wpc' = "sleep" /\ UNCHANGED popped
  BY <1>2, <1>4 DEF PassOver
<1> QED BY <1>3, <1>4, DataPopped DEF Typed

LEMMA NextPassOver ==
    ASSUME Typed, FramesAccounted, PassOver, Next
    PROVE  PassOver'
<1>1. NextSeq \in Seqs /\ 0 \in Seqs /\ draws + 1 \in Nat
  BY SeqTypes DEF Typed, TypeOK
<1>2. CASE UNCHANGED <<controlQ, popped>> /\ (wpc' = "data" => wpc = "data")
  BY <1>2 DEF PassOver
<1>3. CASE \E kind \in {"PONG", "OTHER"} : AcceptControl(kind, 0, 0) /\ UNCHANGED wpc
  BY <1>1, <1>3, PushPassesNothing
<1>4. CASE AcceptControl("PING", NextSeq, draws + 1) /\ UNCHANGED wpc
  BY <1>1, <1>4, PushPassesNothing
<1>5. CASE AcceptData /\ UNCHANGED wpc
  BY <1>5 DEF PassOver, AcceptData
<1>6. CASE WriteFrame
  BY <1>6 DEF WriteFrame, AfterWrite, queueVars, PassOver
<1> QED BY <1>2, <1>3, <1>4, <1>5, <1>6, FrameStep, ControlPopPassesNothing,
           DataPopPassesOnce

\* A control frame waits for one data frame at most, although writeLoop looks
\* at its two queues under two locks (session.go:105-116).
THEOREM ControlFirst == Spec => []ControlWaitsForOneDataFrame
<1>1. Init => PassOver
  <2> SUFFICES ASSUME Init PROVE PassOver
    OBVIOUS
  <2>1. CASE role = "client"
    BY <2>1 DEF Init, PassOver
  <2>2. CASE role # "client"
    BY <2>2 DEF Init, PassOver
  <2> QED BY <2>1, <2>2
<1>2. Typed /\ FramesAccounted /\ PassOver /\ [Next]_vars => PassOver'
  <2>1. CASE UNCHANGED vars
    BY <2>1 DEF PassOver, vars, queueVars
  <2> QED BY <2>1, NextPassOver
<1>3. Typed /\ PassOver => ControlWaitsForOneDataFrame
  <2> SUFFICES ASSUME Typed, PassOver, NEW i \in 1 .. Len(controlQ)
               PROVE  popped["data"] - controlQ[i].at <= 1
    BY DEF ControlWaitsForOneDataFrame
  <2>1. popped["data"] \in Nat /\ controlQ[i].at \in Nat
    <3>1. controlQ \in Seq(Frame) /\ popped["data"] \in Nat
      BY DEF Typed, TypeOK
    <3>2. controlQ[i] \in Frame
      BY <3>1
    <3> QED BY <3>1, <3>2 DEF Frame
  <2> QED BY <2>1 DEF PassOver
<1> QED BY <1>1, <1>2, <1>3, SpecTyped, NoFrameLost, PTL DEF Spec

-----------------------------------------------------------------------------
(* One frame at most after Close, and the cause *)

LEMMA NextClose ==
    ASSUME Typed, CloseInv, Next
    PROVE  CloseInv'
<1> USE DEF queueVars, linkVars, endVars, CloseInv
<1>1. CASE WriteFrame
  <2>1. afterClose = 0
    BY <1>1 DEF WriteFrame
  <2>2. wpc' = "select" /\ closed' = closed
    BY <1>1 DEF WriteFrame, AfterWrite
  <2>3. afterClose' = IF closed THEN 1 ELSE 0
    BY <1>1, <2>1 DEF WriteFrame
  <2> QED BY <2>2, <2>3
<1>2. CASE WriteSelect
  BY <1>2 DEF WriteSelect
<1>3. CASE WritePopControl
  <2>1. wpc = "control" /\ UNCHANGED <<closed, afterClose>>
    BY <1>3 DEF WritePopControl
  <2> QED BY <2>1
<1>4. CASE WritePopData
  <2>1. wpc = "data" /\ UNCHANGED <<closed, afterClose>>
    BY <1>4 DEF WritePopData
  <2> QED BY <2>1
<1>5. CASE WriteSleeps \/ WriteFails \/ WriteToFinishedResponse
  BY <1>5 DEF WriteSleeps, WriteFails, WriteToFinishedResponse
<1>6. CASE Reader
  BY <1>6 DEF Reader, ReadSelect, ReadFrame, ReadFails, HandleQuietly, HandleReplies,
              HandleFails
<1>7. CASE Heartbeat
  BY <1>7 DEF Heartbeat, HeartbeatTick, HeartbeatEnds
<1>8. CASE RunReturns
  BY <1>8 DEF RunReturns, Close
<1>9. CASE OwnerFinishes \/ Environment
  BY <1>9 DEF OwnerFinishes, Environment, ContextEnds, InputBreaks, OutputBreaks
<1>10. CASE CallerQueuesControl \/ CallerQueuesData
  BY <1>10 DEF CallerQueuesControl, CallerQueuesData
<1> QED BY <1>1, <1>2, <1>3, <1>4, <1>5, <1>6, <1>7, <1>8, <1>9, <1>10 DEF Next, Writer

\* The writer is at most one frame late when Run closes the session
\* (session.go:96-119, 166-173).
THEOREM OneFrameAfterClose == Spec => []AtMostOneFrameAfterClose
<1>1. Init => CloseInv
  BY DEF Init, CloseInv
<1>2. Typed /\ CloseInv /\ [Next]_vars => CloseInv'
  <2>1. CASE UNCHANGED vars
    BY <2>1 DEF CloseInv, vars, linkVars, endVars
  <2> QED BY <2>1, NextClose
<1>3. CloseInv => AtMostOneFrameAfterClose
  BY DEF CloseInv, AtMostOneFrameAfterClose
<1> QED BY <1>1, <1>2, <1>3, SpecTyped, PTL DEF Spec

\* What has ended or broken stays so: a reason that holds goes on holding.
LEMMA CauseStays ==
    ASSUME Next
    PROVE  /\ ctxDone => ctxDone'
           /\ inBroken => inBroken'
           /\ outBroken => outBroken'
           /\ rpc = "done" => rpc' = "done"
           /\ wpc = "done" => wpc' = "done"
           /\ hpc = "done" => hpc' = "done"
<1> USE DEF queueVars, linkVars, endVars
<1>1. CASE Reader
  <2>1. rpc # "done" /\ UNCHANGED <<ctxDone, inBroken, outBroken, wpc, hpc>>
    BY <1>1 DEF Reader, ReadSelect, ReadFrame, ReadFails, HandleQuietly, HandleReplies,
                HandleFails
  <2> QED BY <2>1
<1>2. CASE WritePopControl \/ WritePopData
  BY <1>2 DEF WritePopControl, WritePopData
<1>3. CASE Writer /\ ~WritePopControl /\ ~WritePopData
  BY <1>3 DEF Writer, WriteSelect, WriteSleeps, WriteFrame, WriteFails,
              WriteToFinishedResponse
<1>4. CASE Heartbeat
  <2>1. hpc # "done" /\ UNCHANGED <<ctxDone, inBroken, outBroken, rpc, wpc>>
    BY <1>4 DEF Heartbeat, HeartbeatTick, HeartbeatEnds
  <2> QED BY <2>1
<1>5. CASE RunReturns \/ OwnerFinishes \/ Environment
  BY <1>5 DEF RunReturns, OwnerFinishes, Environment, ContextEnds, InputBreaks, OutputBreaks
<1>6. CASE CallerQueuesControl \/ CallerQueuesData
  BY <1>6 DEF CallerQueuesControl, CallerQueuesData
<1> QED BY <1>1, <1>2, <1>3, <1>4, <1>5, <1>6 DEF Next

\* A loop reports only what is there, and nil only when the session is closed.
Reports(e) == LoopResult(e) /\ (closed \/ Caused(e)')

LEMMA ReasonsThatHold ==
    /\ ctxDone' => Caused("ctx")'
    /\ inBroken' /\ rpc' = "done" => Caused("read")'
    /\ outBroken' /\ wpc' = "done" => Caused("write")'
    /\ rpc' = "done" => Caused("handler")'
    /\ rpc' = "done" \/ hpc' = "done" => Caused("queue full")'
BY DEF Caused, Failures

LEMMA ResultsAreCaused ==
    ASSUME Next
    PROVE  \/ /\ UNCHANGED <<closed, lastErr, run>>
              /\ UNCHANGED errCh \/ \E e \in Failures \union {NoError} : Reports(e)
           \/ RunReturns
<1> USE DEF queueVars, linkVars, endVars
<1> DEFINE Kept == UNCHANGED <<closed, lastErr, run>>
<1> DEFINE Goal == Kept /\ (UNCHANGED errCh \/ \E e \in Failures \union {NoError} : Reports(e))
<1>0. ASSUME Kept, \/ UNCHANGED errCh \/ Reports("ctx") \/ Reports("read") \/ Reports("write")
                   \/ Reports("handler") \/ Reports("queue full") \/ Reports(NoError)
      PROVE  Goal
  BY <1>0 DEF Failures
<1>1. CASE Reader
  <2>1. CASE ReadSelect
    <3>1. Kept /\ UNCHANGED ctxDone
      BY <2>1 DEF ReadSelect
    <3>2. UNCHANGED errCh \/ (LoopResult("ctx") /\ ctxDone)
      BY <2>1 DEF ReadSelect
    <3> QED BY <1>0, <3>1, <3>2, ReasonsThatHold DEF Reports
  <2>2. CASE ReadFrame \/ HandleQuietly
    BY <2>2 DEF ReadFrame, HandleQuietly
  <2>3. CASE ReadFails
    <3>1. Kept /\ LoopResult("read") /\ inBroken' /\ rpc' = "done"
      BY <2>3 DEF ReadFails
    <3> QED BY <1>0, <3>1, ReasonsThatHold DEF Reports
  <2>4. ASSUME NEW kind \in {"PONG", "OTHER"}, HandleReplies(kind)
        PROVE  Goal
    <3>1. Kept /\ UNCHANGED ctxDone
      BY <2>4 DEF HandleReplies
    <3>2. UNCHANGED errCh \/ (LoopResult("queue full") /\ rpc' = "done")
      BY <2>4 DEF HandleReplies
    <3> QED BY <1>0, <3>1, <3>2, ReasonsThatHold DEF Reports
  <2>5. CASE HandleFails
    <3>1. Kept /\ LoopResult("handler") /\ rpc' = "done"
      BY <2>5 DEF HandleFails
    <3> QED BY <1>0, <3>1, ReasonsThatHold DEF Reports
  <2> QED BY <1>1, <2>1, <2>2, <2>3, <2>4, <2>5 DEF Reader
<1>2. CASE Writer
  <2>1. CASE WriteSelect
    <3>1. /\ Kept
          /\ \/ UNCHANGED errCh
             \/ LoopResult("ctx") /\ ctxDone'
             \/ LoopResult(NoError) /\ closed
      BY <2>1 DEF WriteSelect
    <3> QED BY <1>0, <3>1, ReasonsThatHold DEF Reports
  <2>2. CASE WriteFails
    <3>1. Kept /\ LoopResult("write") /\ outBroken' /\ wpc' = "done"
      BY <2>2 DEF WriteFails
    <3> QED BY <1>0, <3>1, ReasonsThatHold DEF Reports
  <2> QED BY <1>2, <2>1, <2>2 DEF Writer, WritePopControl, WritePopData, WriteSleeps,
             WriteFrame, WriteToFinishedResponse
<1>3. CASE Heartbeat
  <2>1. CASE HeartbeatTick
    <3>1. Kept /\ UNCHANGED ctxDone
      BY <2>1 DEF HeartbeatTick
    <3>2. UNCHANGED errCh \/ (LoopResult("queue full") /\ hpc' = "done")
      BY <2>1 DEF HeartbeatTick
    <3> QED BY <1>0, <3>1, <3>2, ReasonsThatHold DEF Reports
  <2>2. CASE HeartbeatEnds
    <3>1. Kept /\ UNCHANGED ctxDone
      BY <2>2 DEF HeartbeatEnds
    <3>2. (LoopResult("ctx") /\ ctxDone) \/ (LoopResult(NoError) /\ closed)
      BY <2>2 DEF HeartbeatEnds
    <3> QED BY <1>0, <3>1, <3>2, ReasonsThatHold DEF Reports
  <2> QED BY <1>3, <2>1, <2>2 DEF Heartbeat
<1>4. CASE OwnerFinishes \/ Environment
  BY <1>4 DEF OwnerFinishes, Environment, ContextEnds, InputBreaks, OutputBreaks
<1>5. CASE CallerQueuesControl \/ CallerQueuesData
  BY <1>5 DEF CallerQueuesControl, CallerQueuesData
<1> QED BY <1>1, <1>2, <1>3, <1>4, <1>5 DEF Next

LEMMA NextCause ==
    ASSUME TypeOK, CauseInv, Next
    PROVE  CauseInv'
<1> DEFINE Results == Failures \union {NoError}
<1>1. \A e : Caused(e) => Caused(e)'
  BY CauseStays DEF Caused
<1>2. errCh \in Seq(Results)
  BY DEF TypeOK
<1>3. CASE UNCHANGED <<closed, lastErr, run, errCh>>
  BY <1>1, <1>3 DEF CauseInv
<1>4. ASSUME UNCHANGED <<closed, lastErr, run>>, NEW e \in Results, Reports(e)
      PROVE  CauseInv'
  <2> HIDE DEF Results
  <2>1. ASSUME NEW i \in 1 .. Len(errCh')
        PROVE  Caused(errCh[i])'
    <3>1. CASE run = "returned"
      <4>1. errCh' = errCh
        BY <1>4, <3>1 DEF Reports, LoopResult
      <4>2. i \in 1 .. Len(errCh) /\ errCh'[i] = errCh[i] /\ Caused(errCh[i])
        BY <4>1 DEF CauseInv
      <4>3. Caused(errCh[i]) <=> Caused(errCh'[i])
        BY <4>2
      <4> QED BY <4>2, CauseStays DEF Caused
    <3>2. CASE run # "returned"
      <4>1. errCh' = Append(errCh, e) /\ Caused(e)'
        BY <1>4, <3>2 DEF Reports, LoopResult, CauseInv
      <4>2. (i \in 1 .. Len(errCh) /\ errCh'[i] = errCh[i]) \/ errCh'[i] = e
        BY <1>2, <4>1
      <4>3. CASE i \in 1 .. Len(errCh) /\ errCh'[i] = errCh[i]
        <5>1. Caused(errCh[i])
          BY <4>3 DEF CauseInv
        <5> QED BY <4>3, <5>1, CauseStays DEF Caused
      <4>4. CASE errCh'[i] = e
        BY <4>1, <4>4 DEF Caused
      <4> QED BY <4>2, <4>3, <4>4
    <3> QED BY <3>1, <3>2
  <2>2. closed => Caused(lastErr)'
    BY <1>4, CauseStays DEF Caused, CauseInv
  <2> QED BY <1>4, <2>1, <2>2 DEF CauseInv
<1>5. CASE RunReturns
  <2>1. closed' = TRUE /\ run' = "returned" /\ errCh' = << >>
    BY <1>5 DEF RunReturns, Close
  <2>2. Caused(lastErr)'
    <3>1. CASE ctxDone /\ Close("ctx")
      <4>1. ctxDone' /\ lastErr' = "ctx"
        BY <3>1, CauseStays DEF Close
      <4> QED BY <4>1 DEF Caused, Failures
    <3>2. CASE errCh # << >> /\ Close(Head(errCh))
      <4> HIDE DEF Results
      <4>1. 1 \in 1 .. Len(errCh) /\ Head(errCh) = errCh[1]
        BY <1>2, <3>2
      <4>2. Caused(errCh[1]) /\ lastErr' = errCh[1]
        BY <3>2, <4>1 DEF CauseInv, Close
      <4> QED BY <4>2, CauseStays DEF Caused
    <3> QED BY <1>5, <3>1, <3>2 DEF RunReturns
  <2> QED BY <2>1, <2>2 DEF CauseInv
<1> QED BY <1>3, <1>4, <1>5, ResultsAreCaused

\* Run returns a reason that is really there, and never the nil of a loop that
\* ended because the session is closed (session.go:61-74, 101-102, 128-129).
THEOREM RunNamesTheCause == Spec => []RunReturnsTheCause
<1>1. Init => CauseInv
  BY DEF Init, CauseInv
<1>2. Typed /\ CauseInv /\ [Next]_vars => CauseInv'
  <2>1. CASE UNCHANGED vars
    BY <2>1 DEF CauseInv, Caused, vars, linkVars, endVars
  <2> QED BY <2>1, NextCause DEF Typed
<1>3. CauseInv => RunReturnsTheCause
  BY DEF CauseInv, Caused, RunReturnsTheCause, NoError
<1> QED BY <1>1, <1>2, <1>3, SpecTyped, PTL DEF Spec

-----------------------------------------------------------------------------
(* No draw in two places *)

LEMMA QueuedTypes ==
    ASSUME TypeOK
    PROVE  /\ Len(controlQ) \in Nat /\ Len(dataQ) \in Nat /\ draws \in Nat
           /\ \A i \in 1 .. Len(controlQ) : controlQ[i] \in Frame /\ controlQ[i].draw \in Nat
           /\ \A i \in 1 .. Len(dataQ) : dataQ[i] \in Frame /\ dataQ[i].draw \in Nat
           /\ hand # NoHand => hand \in Frame /\ hand.draw \in Nat
<1>1. /\ controlQ \in Seq(Frame) /\ dataQ \in Seq(Frame) /\ draws \in Nat
      /\ hand \in Frame \union {NoHand}
  BY DEF TypeOK
<1>2. \A f \in Frame : f.draw \in Nat
  BY DEF Frame
<1>3. \A i \in 1 .. Len(controlQ) : controlQ[i] \in Frame
  BY <1>1
<1>4. \A i \in 1 .. Len(dataQ) : dataQ[i] \in Frame
  BY <1>1
<1> QED BY <1>1, <1>2, <1>3, <1>4

\* A frame pushed without a draw, or with the next one, meets no other.
LEMMA PushKeepsDraws ==
    ASSUME TypeOK, DrawInv, NEW kind \in Kinds, NEW seq \in Seqs, NEW d \in Nat,
           AcceptControl(kind, seq, d), UNCHANGED <<hand, UsedDraws>>,
           draws' \in Nat, draws' >= draws, d <= draws',
           d # 0 <=> kind = "PING", d # 0 => d = draws + 1
    PROVE  DrawInv'
<1>1. /\ Len(controlQ) \in Nat /\ draws \in Nat
      /\ \A i \in 1 .. Len(controlQ) : controlQ[i].draw \in Nat
      /\ hand # NoHand => hand.draw \in Nat
  BY QueuedTypes
<1>2. /\ Len(controlQ') = Len(controlQ) + 1
      /\ \A i \in 1 .. Len(controlQ) : controlQ'[i] = controlQ[i]
      /\ UNCHANGED dataQ
  BY ControlPushed
<1>3. /\ controlQ'[Len(controlQ) + 1].draw = d
      /\ controlQ'[Len(controlQ) + 1].kind = kind
  <2>1. /\ NewFrame("control", kind, seq, d).draw = d
        /\ NewFrame("control", kind, seq, d).kind = kind
    BY DEF NewFrame
  <2> QED BY <2>1, ControlPushed
<1>4. \A i \in 1 .. Len(controlQ') : i \in 1 .. Len(controlQ) \/ i = Len(controlQ) + 1
  BY <1>1, <1>2
<1>5. /\ \A i \in 1 .. Len(controlQ) : controlQ[i].draw <= draws
      /\ hand # NoHand => hand.draw <= draws
      /\ UsedDraws \subseteq 1 .. draws
  BY DEF DrawInv
<1>6. d # 0 => /\ \A i \in 1 .. Len(controlQ) : controlQ[i].draw # d
               /\ hand # NoHand => hand.draw # d
  BY <1>1, <1>5
<1>7. d \notin UsedDraws
  BY <1>1, <1>5
<1>8. ASSUME NEW i \in 1 .. Len(controlQ')
      PROVE  /\ controlQ'[i].draw <= draws'
             /\ controlQ'[i].draw # 0 <=> controlQ'[i].kind = "PING"
             /\ controlQ'[i].draw \notin UsedDraws
             /\ hand # NoHand /\ hand.draw # 0 => controlQ'[i].draw # hand.draw
  <2>1. CASE i \in 1 .. Len(controlQ)
    <3>1. /\ controlQ'[i] = controlQ[i] /\ controlQ[i].draw \in Nat
          /\ controlQ[i].draw <= draws
          /\ controlQ[i].draw # 0 <=> controlQ[i].kind = "PING"
          /\ controlQ[i].draw \notin UsedDraws
          /\ hand # NoHand /\ hand.draw # 0 => controlQ[i].draw # hand.draw
      BY <1>1, <1>2, <2>1 DEF DrawInv
    <3>2. controlQ[i].draw <= draws'
      BY <1>1, <3>1
    <3> QED BY <3>1, <3>2
  <2>2. CASE i = Len(controlQ) + 1
    <3>1. controlQ'[i].draw = d /\ controlQ'[i].kind = kind
      BY <1>3, <2>2
    <3> QED BY <1>6, <1>7, <3>1
  <2> QED BY <1>4, <2>1, <2>2
<1>9. ASSUME NEW i \in 1 .. Len(controlQ'), NEW j \in 1 .. Len(controlQ'),
             controlQ'[i].draw # 0, controlQ'[i].draw = controlQ'[j].draw
      PROVE  i = j
  <2>1. CASE i \in 1 .. Len(controlQ) /\ j \in 1 .. Len(controlQ)
    <3>1. controlQ'[i] = controlQ[i] /\ controlQ'[j] = controlQ[j]
      BY <1>2, <2>1
    <3> QED BY <1>9, <2>1, <3>1 DEF DrawInv
  <2>2. CASE i \in 1 .. Len(controlQ) /\ j = Len(controlQ) + 1
    BY <1>2, <1>3, <1>6, <1>9, <2>2
  <2>3. CASE i = Len(controlQ) + 1 /\ j \in 1 .. Len(controlQ)
    BY <1>2, <1>3, <1>6, <1>9, <2>3
  <2> QED BY <1>4, <2>1, <2>2, <2>3
<1>10. UsedDraws \subseteq 1 .. draws'
  BY <1>1, <1>5
<1>11. hand # NoHand => hand.draw <= draws'
  BY <1>1, <1>5
<1> QED BY <1>2, <1>8, <1>9, <1>10, <1>11 DEF DrawInv

\* The frame taken from either queue has a draw no other frame has.
LEMMA TakeKeepsDraws ==
    ASSUME TypeOK, DrawInv, NEW f \in Frame, TakenFrom(f), hand = NoHand,
           UNCHANGED UsedDraws, Numbered(f) <=> f.kind = "OTHER",
           f.draw # 0 <=> f.kind = "PING", f.draw <= draws, f.draw \notin UsedDraws
    PROVE  /\ draws' \in Nat /\ draws' >= draws
           /\ UsedDraws' \subseteq 1 .. draws'
           /\ hand'.draw <= draws'
           /\ hand'.draw = 0 <=> hand'.kind = "PONG"
           /\ hand'.draw \notin UsedDraws'
           /\ hand'.draw = f.draw \/ hand'.draw = draws + 1
<1>1. /\ draws \in Nat /\ f.draw \in Nat /\ f.kind \in Kinds
      /\ UsedDraws \subseteq 1 .. draws
  BY DEF TypeOK, DrawInv, Frame
<1>2. CASE Numbered(f)
  <2>1. hand'.draw = draws + 1 /\ draws' = draws + 1 /\ hand'.kind = "OTHER"
    BY <1>2 DEF TakenFrom, DrawSeq
  <2> QED BY <1>1, <2>1
<1>3. CASE ~Numbered(f)
  <2>1. hand'.draw = f.draw /\ draws' = draws /\ hand'.kind = f.kind
    BY <1>3 DEF TakenFrom
  <2>2. f.draw = 0 <=> f.kind = "PONG"
    BY <1>1, <1>3
  <2> QED BY <1>1, <2>1, <2>2
<1> QED BY <1>2, <1>3

\* Only frames that are no PING and no PONG are numbered when they are written.
LEMMA QueuedNumbered ==
    ASSUME TypeOK, DrawInv, SeqInv
    PROVE  /\ \A i \in 1 .. Len(controlQ) :
                Numbered(controlQ[i]) <=> controlQ[i].kind = "OTHER"
           /\ \A i \in 1 .. Len(dataQ) : Numbered(dataQ[i])
<1>1. 0 % SeqSpace = 0
  BY SeqAssumption
<1>2. ASSUME NEW i \in 1 .. Len(controlQ)
      PROVE  Numbered(controlQ[i]) <=> controlQ[i].kind = "OTHER"
  <2>1. controlQ[i].kind \in Kinds
    BY QueuedTypes DEF Frame
  <2>2. /\ controlQ[i].draw # 0 <=> controlQ[i].kind = "PING"
        /\ controlQ[i].seq = controlQ[i].draw % SeqSpace
    BY DEF DrawInv, SeqInv
  <2> QED BY <1>1, <2>1, <2>2 DEF Numbered
<1>3. ASSUME NEW i \in 1 .. Len(dataQ)
      PROVE  Numbered(dataQ[i])
  BY <1>1 DEF DrawInv, SeqInv, Numbered
<1> QED BY <1>2, <1>3

LEMMA ControlPopKeepsDraws ==
    ASSUME Typed, DrawInv, SeqInv, WritePopControl
    PROVE  DrawInv'
<1>1. /\ Len(controlQ) \in Nat /\ draws \in Nat
      /\ \A i \in 1 .. Len(controlQ) : controlQ[i].draw \in Nat
  BY QueuedTypes DEF Typed
<1>2. hand = NoHand /\ UNCHANGED <<dataQ, UsedDraws>>
  BY ControlPopped DEF Typed, HandInv, UsedDraws
<1>3. CASE /\ Len(controlQ) > 0 /\ controlQ[1] \in Frame /\ TakenFrom(controlQ[1])
           /\ Len(controlQ') = Len(controlQ) - 1
           /\ \A i \in 1 .. Len(controlQ') : controlQ'[i] = controlQ[i + 1]
  <2> DEFINE f == controlQ[1]
  <2>1. 1 \in 1 .. Len(controlQ)
    BY <1>1, <1>3
  <2>2. /\ f.draw # 0 <=> f.kind = "PING"
        /\ f.draw <= draws
        /\ f.draw \notin UsedDraws
        /\ Numbered(f) <=> f.kind = "OTHER"
    BY <2>1, QueuedNumbered DEF DrawInv, Typed
  <2>3. f \in Frame /\ TakenFrom(f)
    BY <1>3
  <2> HIDE DEF f
  <2>4. /\ draws' \in Nat /\ draws' >= draws
        /\ UsedDraws' \subseteq 1 .. draws'
        /\ hand'.draw <= draws'
        /\ hand'.draw = 0 <=> hand'.kind = "PONG"
        /\ hand'.draw \notin UsedDraws'
        /\ hand'.draw = f.draw \/ hand'.draw = draws + 1
    BY <1>2, <2>2, <2>3, TakeKeepsDraws DEF Typed
  <2>5. ASSUME NEW i \in 1 .. Len(controlQ')
        PROVE  /\ i + 1 \in 1 .. Len(controlQ) /\ controlQ'[i] = controlQ[i + 1]
               /\ controlQ[i + 1].draw <= draws
               /\ controlQ[i + 1].draw # 0 <=> controlQ[i + 1].kind = "PING"
               /\ controlQ[i + 1].draw \notin UsedDraws
               /\ controlQ[i + 1].draw # 0 => controlQ[i + 1].draw # f.draw
    <3>1. i + 1 \in 1 .. Len(controlQ) /\ controlQ'[i] = controlQ[i + 1] /\ i + 1 # 1
      BY <1>1, <1>3
    <3> QED BY <2>1, <3>1 DEF DrawInv, f
  <2>6. ASSUME NEW i \in 1 .. Len(controlQ')
        PROVE  /\ controlQ'[i].draw <= draws'
               /\ controlQ'[i].draw # 0 <=> controlQ'[i].kind = "PING"
               /\ controlQ'[i].draw \notin UsedDraws'
               /\ hand'.draw # 0 => controlQ'[i].draw # hand'.draw
    <3>1. controlQ[i + 1].draw \in Nat
      BY <1>1, <2>5
    <3>2. controlQ'[i].draw <= draws' /\ controlQ'[i].draw # draws + 1
      BY <1>1, <2>4, <2>5, <3>1
    <3> QED BY <1>2, <2>4, <2>5, <3>2
  <2>7. ASSUME NEW i \in 1 .. Len(controlQ'), NEW j \in 1 .. Len(controlQ'),
               controlQ'[i].draw # 0, controlQ'[i].draw = controlQ'[j].draw
        PROVE  i = j
    <3>1. /\ i + 1 \in 1 .. Len(controlQ) /\ j + 1 \in 1 .. Len(controlQ)
          /\ controlQ[i + 1].draw # 0 /\ controlQ[i + 1].draw = controlQ[j + 1].draw
      BY <2>5, <2>7
    <3>2. \A k, l \in 1 .. Len(controlQ) :
            controlQ[k].draw # 0 /\ controlQ[k].draw = controlQ[l].draw => k = l
      BY DEF DrawInv
    <3>3. i + 1 = j + 1
      BY <3>1, <3>2
    <3> QED BY <1>1, <3>3
  <2> QED BY <1>2, <2>4, <2>6, <2>7 DEF DrawInv
<1>4. CASE UNCHANGED <<controlQ, draws, hand>>
  BY <1>2, <1>4 DEF DrawInv
<1> QED BY <1>3, <1>4, ControlPopped DEF Typed

LEMMA DataPopKeepsDraws ==
    ASSUME Typed, DrawInv, SeqInv, WritePopData
    PROVE  DrawInv'
<1>1. /\ Len(controlQ) \in Nat /\ Len(dataQ) \in Nat /\ draws \in Nat
      /\ \A i \in 1 .. Len(controlQ) : controlQ[i].draw \in Nat
  BY QueuedTypes DEF Typed
<1>2. hand = NoHand /\ UNCHANGED <<controlQ, UsedDraws>>
  BY DataPopped DEF Typed, HandInv, UsedDraws
<1>3. CASE /\ Len(dataQ) > 0 /\ dataQ[1] \in Frame /\ TakenFrom(dataQ[1])
           /\ Len(dataQ') = Len(dataQ) - 1
           /\ \A i \in 1 .. Len(dataQ') : dataQ'[i] = dataQ[i + 1]
  <2> DEFINE f == dataQ[1]
  <2>1. f.draw = 0 /\ f.kind = "OTHER" /\ Numbered(f)
    <3>1. 1 \in 1 .. Len(dataQ)
      BY <1>1, <1>3
    <3> QED BY <3>1, QueuedNumbered DEF DrawInv, Typed
  <2>2. UsedDraws \subseteq 1 .. draws
    BY DEF DrawInv
  <2>3. f \in Frame /\ TakenFrom(f)
    BY <1>3
  <2> HIDE DEF f
  <2>4. 0 <= draws /\ 0 \notin UsedDraws
    BY <1>1, <2>2
  <2>5. /\ draws' \in Nat /\ draws' >= draws
        /\ UsedDraws' \subseteq 1 .. draws'
        /\ hand'.draw <= draws'
        /\ hand'.draw = 0 <=> hand'.kind = "PONG"
        /\ hand'.draw \notin UsedDraws'
        /\ hand'.draw = 0 \/ hand'.draw = draws + 1
    BY <1>2, <2>1, <2>3, <2>4, TakeKeepsDraws DEF Typed
  <2>6. ASSUME NEW i \in 1 .. Len(controlQ)
        PROVE  /\ controlQ[i].draw <= draws'
               /\ hand'.draw # 0 => controlQ[i].draw # hand'.draw
    <3>1. controlQ[i].draw \in Nat /\ controlQ[i].draw <= draws
      BY <1>1 DEF DrawInv
    <3> QED BY <1>1, <2>5, <3>1
  <2>7. ASSUME NEW i \in 1 .. Len(dataQ')
        PROVE  dataQ'[i].kind = "OTHER" /\ dataQ'[i].draw = 0
    <3>1. i + 1 \in 1 .. Len(dataQ) /\ dataQ'[i] = dataQ[i + 1]
      BY <1>1, <1>3
    <3> QED BY <3>1 DEF DrawInv
  <2> QED BY <1>2, <2>5, <2>6, <2>7 DEF DrawInv
<1>4. CASE UNCHANGED <<dataQ, draws, hand>>
  BY <1>2, <1>4 DEF DrawInv
<1> QED BY <1>3, <1>4, DataPopped DEF Typed

LEMMA NextDrawInv ==
    ASSUME Typed, DrawInv, SeqInv, Next
    PROVE  DrawInv'
<1>1. draws \in Nat /\ draws + 1 \in Nat /\ Len(dataQ) \in Nat
  BY QueuedTypes DEF Typed
<1>0. UNCHANGED usedSeqs => UNCHANGED UsedDraws
  BY DEF UsedDraws
<1>2. CASE /\ UNCHANGED <<controlQ, dataQ, hand, usedSeqs>>
           /\ draws' = draws \/ draws' = draws + 1
  <2>1. /\ \A i \in 1 .. Len(controlQ) : controlQ[i].draw <= draws'
        /\ hand # NoHand => hand.draw <= draws'
        /\ UsedDraws \subseteq 1 .. draws'
    BY <1>1, <1>2, QueuedTypes DEF DrawInv, Typed
  <2> QED BY <1>0, <1>2, <2>1 DEF DrawInv
<1>3. CASE /\ \E kind \in {"PONG", "OTHER"} : AcceptControl(kind, 0, 0)
           /\ UNCHANGED <<draws, hand, usedSeqs>>
  BY <1>0, <1>1, <1>3, PushKeepsDraws, SeqTypes DEF Typed
<1>4. CASE /\ AcceptControl("PING", NextSeq, draws + 1) /\ draws' = draws + 1
           /\ UNCHANGED <<hand, usedSeqs>>
  <2>1. NextSeq \in Seqs
    BY SeqTypes DEF Typed, TypeOK
  <2> QED BY <1>0, <1>1, <1>4, <2>1, PushKeepsDraws DEF Typed
<1>5. CASE AcceptData /\ UNCHANGED <<draws, hand, usedSeqs>>
  <2>1. /\ Len(dataQ') = Len(dataQ) + 1
        /\ \A i \in 1 .. Len(dataQ) : dataQ'[i] = dataQ[i]
        /\ dataQ'[Len(dataQ) + 1] = NewFrame("data", "OTHER", 0, 0)
        /\ UNCHANGED controlQ
    BY <1>5, DataPushed DEF Typed
  <2>2. NewFrame("data", "OTHER", 0, 0).kind = "OTHER" /\ NewFrame("data", "OTHER", 0, 0).draw = 0
    BY DEF NewFrame
  <2>3. \A i \in 1 .. Len(dataQ') : dataQ'[i].kind = "OTHER" /\ dataQ'[i].draw = 0
    <3>1. \A i \in 1 .. Len(dataQ') : i \in 1 .. Len(dataQ) \/ i = Len(dataQ) + 1
      BY <1>1, <2>1
    <3> QED BY <2>1, <2>2, <3>1 DEF DrawInv
  <2> QED BY <1>0, <1>5, <2>1, <2>3 DEF DrawInv
<1>6. CASE WriteFrame
  <2>1. /\ usedSeqs' = usedSeqs \union
             (IF hand.draw = 0 THEN {} ELSE {[seq |-> hand.seq, draw |-> hand.draw]})
        /\ hand' = NoHand
        /\ UNCHANGED <<controlQ, dataQ, draws>>
    BY <1>6 DEF WriteFrame, queueVars
  <2>2. hand # NoHand /\ hand.draw \in Nat
    BY <1>6, QueuedTypes DEF WriteFrame, Typed, HandInv, Frame, NoHand
  <2>3. UsedDraws' = UsedDraws \union ({hand.draw} \ {0})
    <3>1. CASE hand.draw = 0
      BY <2>1, <3>1 DEF UsedDraws
    <3>2. CASE hand.draw # 0
      <4>1. usedSeqs' = usedSeqs \union {[seq |-> hand.seq, draw |-> hand.draw]}
        BY <2>1, <3>2
      <4>2. [seq |-> hand.seq, draw |-> hand.draw].draw = hand.draw
        OBVIOUS
      <4>3. UsedDraws' = UsedDraws \union {hand.draw}
        BY <4>1, <4>2 DEF UsedDraws
      <4> QED BY <3>2, <4>3
    <3> QED BY <3>1, <3>2
  <2>4. UsedDraws' \subseteq 1 .. draws
    <3>1. UsedDraws \subseteq 1 .. draws /\ hand.draw <= draws
      BY <2>2 DEF DrawInv
    <3>2. hand.draw # 0 => hand.draw \in 1 .. draws
      BY <1>1, <2>2, <3>1
    <3> QED BY <2>3, <3>1, <3>2
  <2>5. \A i \in 1 .. Len(controlQ) : controlQ[i].draw \notin UsedDraws'
    BY <2>2, <2>3 DEF DrawInv
  <2> QED BY <2>1, <2>4, <2>5 DEF DrawInv
<1>7. DrawSeq => draws' = draws + 1
  BY DEF DrawSeq
<1> QED BY <1>2, <1>3, <1>4, <1>5, <1>6, <1>7, FrameStep, ControlPopKeepsDraws,
           DataPopKeepsDraws

-----------------------------------------------------------------------------
(* The counter comes round *)

LEMMA PlaceInRound ==
    ASSUME NEW q \in Nat, NEW r \in Seqs
    PROVE  ((SeqSpace * q) + r) % SeqSpace = r
<1>1. SeqSpace \in Nat \ {0} /\ r \in 0 .. SeqSpace - 1
  BY SeqAssumption DEF Seqs
<1> QED BY <1>1

\* The Seq that Add returns is the one of the next draw.
LEMMA NextRound ==
    ASSUME draws \in Nat, nextSeq = draws % SeqSpace
    PROVE  NextSeq = (draws + 1) % SeqSpace
<1> DEFINE r == draws % SeqSpace
<1>1. SeqSpace \in Nat \ {0}
  BY SeqAssumption
<1>2. PICK q \in Nat : SeqSpace * q \in Nat /\ draws = (SeqSpace * q) + r
  BY Rounds
<1>3. r \in 0 .. SeqSpace - 1
  BY Rounds DEF Seqs
<1>4. CASE r + 1 < SeqSpace
  <2>1. r + 1 \in Seqs
    BY <1>1, <1>3, <1>4 DEF Seqs
  <2>2. draws + 1 = (SeqSpace * q) + (r + 1)
    BY <1>1, <1>2, <1>3
  <2>3. r + 1 = (SeqSpace * 0) + (r + 1)
    BY <1>1, <1>3
  <2>4. (r + 1) % SeqSpace = r + 1
    BY <2>1, <2>3, PlaceInRound
  <2> QED BY <2>1, <2>2, <2>4, PlaceInRound DEF NextSeq
<1>5. CASE r + 1 = SeqSpace
  <2>1. 0 \in Seqs
    BY SeqTypes
  <2>2. SeqSpace * (q + 1) = (SeqSpace * q) + SeqSpace
    BY <1>1
  <2>3. draws + 1 = (SeqSpace * (q + 1)) + 0
    BY <1>1, <1>2, <1>3, <1>5, <2>2
  <2>4. r + 1 = (SeqSpace * 1) + 0
    BY <1>1, <1>5
  <2>5. (draws + 1) % SeqSpace = 0 /\ (r + 1) % SeqSpace = 0
    BY <2>1, <2>3, <2>4, PlaceInRound
  <2> QED BY <2>5 DEF NextSeq
<1> QED BY <1>1, <1>3, <1>4, <1>5

\* Two draws that gave the same Seq are a round or more apart.
LEMMA RoundsApart ==
    ASSUME NEW a \in Nat, NEW b \in Nat, a < b, a % SeqSpace = b % SeqSpace
    PROVE  b - a >= SeqSpace
<1>1. SeqSpace \in Nat \ {0}
  BY SeqAssumption
<1>2. PICK q \in Nat : SeqSpace * q \in Nat /\ a = (SeqSpace * q) + (a % SeqSpace)
  BY Rounds
<1>3. PICK p \in Nat : SeqSpace * p \in Nat /\ b = (SeqSpace * p) + (b % SeqSpace)
  BY Rounds
<1>4. a % SeqSpace \in Nat
  BY <1>1
<1>5. SeqSpace * q < SeqSpace * p
  BY <1>2, <1>3, <1>4
<1>6. \A k, l \in Nat : k < l => SeqSpace * l >= (SeqSpace * k) + SeqSpace
  BY <1>1
<1>7. SeqSpace * p >= (SeqSpace * q) + SeqSpace
  <2>1. p < q => SeqSpace * q >= (SeqSpace * p) + SeqSpace
    BY <1>6
  <2>2. q < p => SeqSpace * p >= (SeqSpace * q) + SeqSpace
    BY <1>6
  <2>3. ~(p < q)
    BY <1>1, <1>2, <1>3, <1>5, <2>1
  <2>4. p # q
    BY <1>2, <1>5
  <2> QED BY <2>2, <2>3, <2>4
<1> QED BY <1>1, <1>2, <1>3, <1>4, <1>7

\* The frame taken in hand carries the Seq of its draw.
LEMMA TakeKeepsSeqs ==
    ASSUME TypeOK, SeqInv, NEW f \in Frame, TakenFrom(f), f.seq = f.draw % SeqSpace
    PROVE  /\ nextSeq' = draws' % SeqSpace
           /\ hand'.seq = hand'.draw % SeqSpace
<1>1. draws \in Nat /\ nextSeq = draws % SeqSpace
  BY DEF TypeOK, SeqInv
<1>2. NextSeq = (draws + 1) % SeqSpace
  BY <1>1, NextRound
<1>3. CASE Numbered(f)
  BY <1>2, <1>3 DEF TakenFrom, DrawSeq, SeqOf
<1>4. CASE ~Numbered(f)
  BY <1>1, <1>4 DEF TakenFrom, SeqOf
<1> QED BY <1>3, <1>4

LEMMA NextSeqInv ==
    ASSUME Typed, SeqInv, Next
    PROVE  SeqInv'
<1>1. /\ draws \in Nat /\ draws + 1 \in Nat /\ Len(dataQ) \in Nat /\ Len(controlQ) \in Nat
      /\ 0 \in Seqs /\ NextSeq \in Seqs
  BY SeqTypes, QueuedTypes DEF Typed, TypeOK
<1>2. 0 % SeqSpace = 0 /\ NextSeq = (draws + 1) % SeqSpace
  BY <1>1, SeqAssumption, NextRound DEF SeqInv
<1>3. DrawSeq => nextSeq' = draws' % SeqSpace
  BY <1>2 DEF DrawSeq
<1>4. CASE /\ UNCHANGED <<controlQ, dataQ, hand, usedSeqs>>
           /\ UNCHANGED <<nextSeq, draws>> \/ DrawSeq
  BY <1>3, <1>4 DEF SeqInv
<1>5. ASSUME NEW kind \in Kinds, NEW seq \in Seqs, NEW d \in Nat,
             AcceptControl(kind, seq, d), seq = d % SeqSpace,
             UNCHANGED <<nextSeq, draws>> \/ DrawSeq, UNCHANGED <<hand, usedSeqs>>
      PROVE  SeqInv'
  <2>1. /\ Len(controlQ') = Len(controlQ) + 1
        /\ \A i \in 1 .. Len(controlQ) : controlQ'[i] = controlQ[i]
        /\ controlQ'[Len(controlQ) + 1] = NewFrame("control", kind, seq, d)
        /\ UNCHANGED dataQ
    BY <1>5, ControlPushed DEF Typed
  <2>2. /\ NewFrame("control", kind, seq, d).seq = seq
        /\ NewFrame("control", kind, seq, d).draw = d
    BY DEF NewFrame
  <2>3. \A i \in 1 .. Len(controlQ') : controlQ'[i].seq = controlQ'[i].draw % SeqSpace
    <3>1. \A i \in 1 .. Len(controlQ') : i \in 1 .. Len(controlQ) \/ i = Len(controlQ) + 1
      BY <1>1, <2>1
    <3> QED BY <1>5, <2>1, <2>2, <3>1 DEF SeqInv
  <2> QED BY <1>3, <1>5, <2>1, <2>3 DEF SeqInv
<1>6. CASE AcceptData /\ UNCHANGED <<nextSeq, draws, hand, usedSeqs>>
  <2>1. /\ Len(dataQ') = Len(dataQ) + 1
        /\ \A i \in 1 .. Len(dataQ) : dataQ'[i] = dataQ[i]
        /\ dataQ'[Len(dataQ) + 1] = NewFrame("data", "OTHER", 0, 0)
        /\ UNCHANGED controlQ
    BY <1>6, DataPushed DEF Typed
  <2>2. NewFrame("data", "OTHER", 0, 0).seq = 0 /\ NewFrame("data", "OTHER", 0, 0).draw = 0
    BY DEF NewFrame
  <2>3. \A i \in 1 .. Len(dataQ') : dataQ'[i].seq = dataQ'[i].draw % SeqSpace
    <3>1. \A i \in 1 .. Len(dataQ') : i \in 1 .. Len(dataQ) \/ i = Len(dataQ) + 1
      BY <1>1, <2>1
    <3> QED BY <1>2, <2>1, <2>2, <3>1 DEF SeqInv
  <2> QED BY <1>6, <2>1, <2>3 DEF SeqInv
<1>7. CASE WritePopControl
  <2>1. UNCHANGED <<dataQ, usedSeqs>>
    BY <1>7, ControlPopped DEF Typed
  <2>2. CASE /\ Len(controlQ) > 0 /\ controlQ[1] \in Frame /\ TakenFrom(controlQ[1])
             /\ Len(controlQ') = Len(controlQ) - 1
             /\ \A i \in 1 .. Len(controlQ') : controlQ'[i] = controlQ[i + 1]
    <3>1. controlQ[1].seq = controlQ[1].draw % SeqSpace
      <4>1. 1 \in 1 .. Len(controlQ)
        BY <1>1, <2>2
      <4> QED BY <4>1 DEF SeqInv
    <3>2. nextSeq' = draws' % SeqSpace /\ hand'.seq = hand'.draw % SeqSpace
      BY <2>2, <3>1, TakeKeepsSeqs DEF Typed
    <3>3. \A i \in 1 .. Len(controlQ') : controlQ'[i].seq = controlQ'[i].draw % SeqSpace
      <4>1. \A i \in 1 .. Len(controlQ') : i + 1 \in 1 .. Len(controlQ)
        BY <1>1, <2>2
      <4> QED BY <2>2, <4>1 DEF SeqInv
    <3> QED BY <2>1, <3>2, <3>3 DEF SeqInv
  <2>3. CASE UNCHANGED <<controlQ, popped, nextSeq, draws, hand>>
    BY <2>1, <2>3 DEF SeqInv
  <2> QED BY <1>7, <2>2, <2>3, ControlPopped DEF Typed
<1>8. CASE WritePopData
  <2>1. UNCHANGED <<controlQ, usedSeqs>>
    BY <1>8, DataPopped DEF Typed
  <2>2. CASE /\ Len(dataQ) > 0 /\ dataQ[1] \in Frame /\ TakenFrom(dataQ[1])
             /\ Len(dataQ') = Len(dataQ) - 1
             /\ \A i \in 1 .. Len(dataQ') : dataQ'[i] = dataQ[i + 1]
    <3>1. dataQ[1].seq = dataQ[1].draw % SeqSpace
      <4>1. 1 \in 1 .. Len(dataQ)
        BY <1>1, <2>2
      <4> QED BY <4>1 DEF SeqInv
    <3>2. nextSeq' = draws' % SeqSpace /\ hand'.seq = hand'.draw % SeqSpace
      BY <2>2, <3>1, TakeKeepsSeqs DEF Typed
    <3>3. \A i \in 1 .. Len(dataQ') : dataQ'[i].seq = dataQ'[i].draw % SeqSpace
      <4>1. \A i \in 1 .. Len(dataQ') : i + 1 \in 1 .. Len(dataQ)
        BY <1>1, <2>2
      <4> QED BY <2>2, <4>1 DEF SeqInv
    <3> QED BY <2>1, <3>2, <3>3 DEF SeqInv
  <2>3. CASE UNCHANGED <<dataQ, popped, nextSeq, draws, hand>>
    BY <2>1, <2>3 DEF SeqInv
  <2> QED BY <1>8, <2>2, <2>3, DataPopped DEF Typed
<1>9. CASE WriteFrame
  <2>1. /\ usedSeqs' = usedSeqs \union
             (IF hand.draw = 0 THEN {} ELSE {[seq |-> hand.seq, draw |-> hand.draw]})
        /\ hand' = NoHand
        /\ UNCHANGED <<controlQ, dataQ, nextSeq, draws>>
    BY <1>9 DEF WriteFrame, queueVars
  <2>2. \A u \in usedSeqs' : u.seq = u.draw % SeqSpace
    <3>1. hand.seq = hand.draw % SeqSpace /\ \A u \in usedSeqs : u.seq = u.draw % SeqSpace
      BY DEF SeqInv
    <3> QED BY <2>1, <3>1
  <2>3. hand'.seq = hand'.draw % SeqSpace
    BY <1>2, <2>1 DEF NoHand
  <2> QED BY <2>1, <2>2, <2>3 DEF SeqInv
<1>10. ASSUME NEW kind \in {"PONG", "OTHER"}, AcceptControl(kind, 0, 0),
              UNCHANGED <<nextSeq, draws, hand, usedSeqs>>
       PROVE  SeqInv'
  BY <1>1, <1>2, <1>5, <1>10
<1>11. ASSUME AcceptControl("PING", NextSeq, draws + 1), DrawSeq, UNCHANGED <<hand, usedSeqs>>
       PROVE  SeqInv'
  BY <1>1, <1>2, <1>5, <1>11
<1> QED BY <1>4, <1>6, <1>7, <1>8, <1>9, <1>10, <1>11, FrameStep

\* Two frames of a session carry the same Seq only when the counter, a uint32,
\* has come round between their two draws, although writeLoop and heartbeatLoop
\* draw from it at different moments (session.go:37, 131, 143-145).
THEOREM SeqsAreUnique == Spec => []SeqUnique
<1> DEFINE Inv == DrawInv /\ SeqInv
<1>1. Init => Inv
  <2> SUFFICES ASSUME Init PROVE Inv
    OBVIOUS
  <2>1. 0 % SeqSpace = 0
    BY SeqAssumption
  <2>2. CASE role = "client"
    BY <2>1, <2>2 DEF Init, DrawInv, UsedDraws, SeqInv, NoHand
  <2>3. CASE role # "client"
    BY <2>1, <2>3 DEF Init, DrawInv, UsedDraws, SeqInv, NoHand
  <2> QED BY <2>2, <2>3
<1>2. Typed /\ Inv /\ [Next]_vars => Inv'
  <2>1. CASE UNCHANGED vars
    BY <2>1 DEF DrawInv, UsedDraws, SeqInv, vars, queueVars, linkVars
  <2> QED BY <2>1, NextDrawInv, NextSeqInv
<1>3. Typed /\ Inv => SeqUnique
  <2> SUFFICES ASSUME Typed, DrawInv, SeqInv PROVE SeqUnique
    OBVIOUS
  <2>1. ASSUME NEW f, f.draw \in Nat, f.seq = f.draw % SeqSpace,
               NEW g, g.draw \in Nat, g.seq = g.draw % SeqSpace,
               f.draw # g.draw, f.seq = g.seq
        PROVE  FarApart(f, g)
    <3>1. CASE f.draw < g.draw
      BY <2>1, <3>1, RoundsApart DEF FarApart
    <3>2. CASE g.draw < f.draw
      BY <2>1, <3>2, RoundsApart DEF FarApart
    <3> QED BY <2>1, <3>1, <3>2
  <2>2. ASSUME NEW f \in Sequenced
        PROVE  f.draw \in Nat /\ f.seq = f.draw % SeqSpace
    BY QueuedTypes DEF Typed, Frame, Sequenced, SeqInv
  <2>3. ASSUME NEW f \in Sequenced, f.draw # 0, NEW u \in usedSeqs, u.seq = f.seq
        PROVE  FarApart(f, u)
    <3>1. u.draw \in Nat /\ u.seq = u.draw % SeqSpace
      BY DEF Typed, TypeOK, SeqInv
    <3>2. f.draw # u.draw
      BY <2>3 DEF Sequenced, DrawInv, UsedDraws
    <3> QED BY <2>1, <2>2, <2>3, <3>1, <3>2
  <2>4. ASSUME NEW f \in Sequenced, f.draw # 0,
               NEW g \in Sequenced \ {f}, g.draw # 0, g.seq = f.seq
        PROVE  FarApart(f, g)
    <3>1. f.draw # g.draw
      BY <2>4 DEF Sequenced, DrawInv
    <3> QED BY <2>1, <2>2, <2>4, <3>1
  <2> QED BY <2>3, <2>4 DEF SeqUnique, DrawInv
<1> QED BY <1>1, <1>2, <1>3, SpecTyped, PTL DEF Spec
=============================================================================
