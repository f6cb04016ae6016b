------------------------- MODULE FrameQueue_proofs --------------------------
(***************************************************************************)
(* For every capacity, byte bound and set of frames: the ring's fields     *)
(* keep to their ranges, its byte count is the sum over the frames it      *)
(* holds, its free slots are the cleared ones, and it implements a bounded *)
(* FIFO.  And for every header and payload length: however the stream is   *)
(* cut, Decode returns the frames Encode was given, whole and in order,    *)
(* and nothing but a cut stops it.  Queue, codec and stream together       *)
(* implement FrameLink, a queue in front of a FIFO of whole frames.        *)
(***************************************************************************)
EXTENDS FrameStream, SequenceTheorems, TLAPS

USE CapacityAssumption, MaxBytesAssumption, SizeAssumption, NoFrameAssumption
    DEF Slots

Inv == TypeOK /\ LiveSlotsExactly /\ QueuedByteIsSum

-----------------------------------------------------------------------------
(* The ring's arithmetic *)

\* (head + i) % Capacity, with which Push and Pop find their slots, for the
\* only arguments it meets: one lap beyond the first at most.
LEMMA ModWrap ==
    ASSUME NEW k \in 0 .. 2 * Capacity - 1
    PROVE  k % Capacity = IF k < Capacity THEN k ELSE k - Capacity
<1>1. CASE k < Capacity
  BY <1>1
<1>2. CASE k >= Capacity
  BY <1>2, SMTT(30)
<1> QED BY <1>1, <1>2

\* The i-th slot from head is a slot, and i is its distance from head.
LEMMA SlotAt ==
    ASSUME head \in Slots, NEW i \in 0 .. Capacity - 1
    PROVE  /\ (head + i) % Capacity = IF head + i < Capacity THEN head + i
                                      ELSE head + i - Capacity
           /\ (head + i) % Capacity \in Slots
           /\ Offset((head + i) % Capacity) = i
<1>1. head + i \in 0 .. 2 * Capacity - 1
  OBVIOUS
<1>2. (head + i) % Capacity = IF head + i < Capacity THEN head + i
                              ELSE head + i - Capacity
  BY <1>1, ModWrap
<1> QED BY <1>2 DEF Offset

\* Distances from head stay within the ring.
LEMMA OffsetRange ==
    ASSUME head \in Slots, NEW s \in Slots
    PROVE  Offset(s) \in 0 .. Capacity - 1
BY DEF Offset

\* The ring, without the bytes and the answers.
RingOK ==
    /\ items \in [Slots -> Frames \union {NoFrame}]
    /\ head \in Slots
    /\ count \in 0 .. Capacity

\* The slot of the i-th oldest frame is the one at distance i - 1 from head.
LEMMA QueueSlot ==
    ASSUME RingOK, NEW i \in 1 .. count
    PROVE  /\ (head + i - 1) % Capacity \in Slots
           /\ Offset((head + i - 1) % Capacity) = i - 1
           /\ Queue[i] = items[(head + i - 1) % Capacity]
<1>1. i - 1 \in 0 .. Capacity - 1 /\ head + i - 1 = head + (i - 1)
  BY DEF RingOK
<1>2. Queue[i] = items[(head + i - 1) % Capacity]
  BY DEF Queue
<1> QED BY <1>1, <1>2, SlotAt DEF RingOK

\* Every queued slot holds a frame.
LEMMA QueueOfFrames ==
    ASSUME RingOK, LiveSlotsExactly
    PROVE  \A i \in 1 .. count : Queue[i] \in Frames
<1> SUFFICES ASSUME NEW i \in 1 .. count
             PROVE  Queue[i] \in Frames
  OBVIOUS
<1> DEFINE s == (head + i - 1) % Capacity
<1>1. s \in Slots /\ Offset(s) = i - 1 /\ Queue[i] = items[s]
  BY QueueSlot
<1>2. items[s] # NoFrame
  <2>1. i - 1 < count
    BY DEF RingOK
  <2> HIDE DEF s
  <2> QED BY <1>1, <2>1 DEF LiveSlotsExactly
<1> HIDE DEF s
<1> QED BY <1>1, <1>2 DEF RingOK

-----------------------------------------------------------------------------
(* What each call does to the frames held *)

\* An accepted push appends its frame and disturbs no queued one.
LEMMA PushAppends ==
    ASSUME RingOK, RingOK', NEW f \in Frames, PushAccepted(f)
    PROVE  /\ TailSlot \in Slots /\ Offset(TailSlot) = count
           /\ \A i \in 1 .. count : Queue'[i] = Queue[i]
           /\ Queue'[count + 1] = f
<1>1. count' = count + 1 /\ count < Capacity /\ head' = head
  BY DEF PushAccepted, Reject, RingOK
<1>2. TailSlot \in Slots /\ Offset(TailSlot) = count
  <2>1. count \in 0 .. Capacity - 1
    BY <1>1 DEF RingOK
  <2> QED BY <2>1, SlotAt DEF TailSlot, RingOK
<1>3. /\ items'[TailSlot] = f
      /\ \A s \in Slots \ {TailSlot} : items'[s] = items[s]
  BY <1>2 DEF PushAccepted, RingOK
<1>4. ASSUME NEW i \in 1 .. count
      PROVE  Queue'[i] = Queue[i]
  <2> DEFINE s == (head + i - 1) % Capacity
  <2>1. s \in Slots /\ Offset(s) = i - 1 /\ Queue[i] = items[s]
    BY QueueSlot
  <2>2. i - 1 # count
    BY DEF RingOK
  <2>3. Queue'[i] = items'[s]
    BY <1>1 DEF Queue, RingOK
  <2> HIDE DEF s
  <2> QED BY <1>2, <1>3, <2>1, <2>2, <2>3
<1>5. Queue'[count + 1] = f
  <2>1. Queue'[count + 1] = items'[(head + (count + 1) - 1) % Capacity]
    BY <1>1 DEF Queue, RingOK
  <2>2. head + (count + 1) - 1 = head + count
    BY DEF RingOK
  <2> QED BY <1>3, <2>1, <2>2 DEF TailSlot
<1> QED BY <1>2, <1>4, <1>5

\* A pop takes the first frame and moves each of the others up by one.
LEMMA PopShifts ==
    ASSUME RingOK, RingOK', PopFrame
    PROVE  /\ items[head] = Queue[1]
           /\ head' = IF head + 1 < Capacity THEN head + 1 ELSE 0
           /\ \A i \in 1 .. count - 1 : Queue'[i] = Queue[i + 1]
<1>1. count' = count - 1 /\ count > 0
  BY DEF PopFrame
<1>2. head' = IF head + 1 < Capacity THEN head + 1 ELSE 0
  <2>1. head \in 0 .. Capacity - 1
    BY DEF RingOK
  <2>2. head + 1 \in 0 .. 2 * Capacity - 1
    BY <2>1
  <2>3. (head + 1) % Capacity = IF head + 1 < Capacity THEN head + 1
                                ELSE head + 1 - Capacity
    BY <2>1, <2>2, ModWrap
  <2>4. head' = (head + 1) % Capacity
    BY DEF PopFrame
  <2> QED BY <2>1, <2>3, <2>4
<1>3. items[head] = Queue[1]
  <2>1. head + 1 - 1 = head /\ 1 \in 1 .. count /\ head \in 0 .. 2 * Capacity - 1
        /\ head < Capacity
    BY <1>1 DEF RingOK
  <2>2. head % Capacity = head
    BY <2>1, ModWrap
  <2>3. Queue[1] = items[(head + 1 - 1) % Capacity]
    BY <2>1 DEF Queue
  <2> QED BY <2>1, <2>2, <2>3
<1>4. ASSUME NEW i \in 1 .. count - 1
      PROVE  Queue'[i] = Queue[i + 1]
  <2> DEFINE s == (head + (i + 1) - 1) % Capacity
  <2>1. i \in 1 .. count' /\ i + 1 \in 1 .. count /\ i \in 0 .. Capacity - 1
        /\ head + (i + 1) - 1 = head + i
    BY <1>1 DEF RingOK
  <2>2. s \in Slots /\ Offset(s) = (i + 1) - 1 /\ Queue[i + 1] = items[s]
    BY <2>1, QueueSlot
  <2>3. s = IF head + i < Capacity THEN head + i ELSE head + i - Capacity
    BY <2>1, SlotAt DEF RingOK
  <2>4. (head' + i - 1) % Capacity = s
    <3>1. head \in 0 .. Capacity - 1 /\ i \in 0 .. Capacity - 1
      BY <2>1 DEF RingOK
    <3> DEFINE k == head' + i - 1
    <3>2. k \in 0 .. 2 * Capacity - 1
      BY <1>2, <2>1, <3>1
    <3>3. k % Capacity = IF k < Capacity THEN k ELSE k - Capacity
      <4> HIDE DEF k
      <4> QED BY <3>2, ModWrap
    <3> HIDE DEF s
    <3> QED BY <1>2, <2>3, <3>1, <3>3
  <2>5. s # head
    <3> HIDE DEF s
    <3> QED BY <2>1, <2>2 DEF Offset, RingOK
  <2>6. items'[s] = items[s]
    <3> HIDE DEF s
    <3> QED BY <2>2, <2>5 DEF PopFrame, RingOK
  <2>7. Queue'[i] = items'[(head' + i - 1) % Capacity]
    BY <2>1 DEF Queue
  <2> HIDE DEF s
  <2> QED BY <2>2, <2>4, <2>6, <2>7
<1> QED BY <1>2, <1>3, <1>4

-----------------------------------------------------------------------------
(* The invariant *)

LEMMA InitInv ==
    Init => Inv
<1> SUFFICES ASSUME Init PROVE Inv
  OBVIOUS
<1>1. TypeOK
  BY DEF Init, TypeOK
<1>2. LiveSlotsExactly
  BY DEF Init, LiveSlotsExactly, Offset
<1>3. QueuedByteIsSum
  <2> DEFINE cum == [i \in 0 .. count |-> 0]
  <2>1. cum \in [0 .. count -> 0 .. MaxBytes]
    OBVIOUS
  <2>2. IsRunningTotal(cum)
    BY DEF Init, IsRunningTotal
  <2> QED BY <2>1, <2>2 DEF QueuedByteIsSum
<1> QED BY <1>1, <1>2, <1>3 DEF Inv

LEMMA TypeRing ==
    TypeOK => RingOK
BY DEF TypeOK, RingOK

\* An accepted push keeps the invariant: the running totals grow by one entry.
LEMMA PushInv ==
    ASSUME Inv, NEW f \in Frames, PushAccepted(f)
    PROVE  Inv'
<1>1. RingOK
  BY TypeRing DEF Inv
<1>2. /\ Size[f] \in Nat /\ queuedByte \in 0 .. MaxBytes
      /\ queuedByte' = queuedByte + Size[f] /\ queuedByte' \in 0 .. MaxBytes
  BY DEF PushAccepted, Reject, Inv, TypeOK
<1>3. RingOK'
  <2>1. count' = count + 1 /\ count # Capacity /\ head' = head
    BY DEF PushAccepted, Reject
  <2>2. items' \in [Slots -> Frames \union {NoFrame}]
    BY <1>1 DEF PushAccepted, RingOK
  <2> QED BY <1>1, <2>1, <2>2 DEF RingOK
<1>4. /\ TailSlot \in Slots /\ Offset(TailSlot) = count
      /\ \A i \in 1 .. count : Queue'[i] = Queue[i]
      /\ Queue'[count + 1] = f
  BY <1>1, <1>3, PushAppends
<1>5. count \in Nat /\ count' = count + 1 /\ head' = head
  BY <1>1 DEF PushAccepted, RingOK
<1>6. TypeOK'
  BY <1>2, <1>3 DEF TypeOK, RingOK, PushAccepted
<1>7. LiveSlotsExactly'
  <2> SUFFICES ASSUME NEW s \in Slots
               PROVE  (items'[s] # NoFrame) <=> (Offset(s) < count + 1)
    BY <1>5 DEF LiveSlotsExactly, Offset
  <2>1. Offset(s) \in 0 .. Capacity - 1 /\ head \in Slots
    BY <1>1, OffsetRange DEF RingOK
  <2>2. CASE s = TailSlot
    <3>1. items'[s] = f
      BY <1>1, <2>2 DEF PushAccepted, RingOK
    <3> QED BY <1>4, <1>5, <2>2, <3>1
  <2>3. CASE s # TailSlot
    <3>1. items'[s] = items[s]
      BY <1>1, <2>3 DEF PushAccepted, RingOK
    <3>2. Offset(s) # count
      BY <1>1, <1>4, <2>3 DEF Offset, RingOK
    <3>3. (items[s] # NoFrame) <=> (Offset(s) < count)
      BY DEF Inv, LiveSlotsExactly
    <3> QED BY <1>5, <2>1, <3>1, <3>2, <3>3
  <2> QED BY <2>2, <2>3
<1>8. QueuedByteIsSum'
  <2>1. PICK cum \in [0 .. count -> 0 .. MaxBytes] : IsRunningTotal(cum)
    BY DEF Inv, QueuedByteIsSum
  <2> DEFINE new == [i \in 0 .. count' |-> IF i = count + 1 THEN queuedByte + Size[f]
                                                            ELSE cum[i]]
  <2>2. new \in [0 .. count' -> 0 .. MaxBytes]
    BY <1>2, <1>5
  <2>3. cum[0] = 0 /\ cum[count] = queuedByte
    BY <2>1 DEF IsRunningTotal
  <2>4. new[0] = 0 /\ new[count'] = queuedByte'
    BY <1>2, <1>5, <2>3
  <2>5. ASSUME NEW i \in 1 .. count'
        PROVE  new[i] = new[i - 1] + Size[Queue'[i]]
    <3>1. CASE i \in 1 .. count
      <4>1. new[i] = cum[i] /\ new[i - 1] = cum[i - 1]
        BY <1>5, <3>1
      <4>2. cum[i] = cum[i - 1] + Size[Queue[i]]
        BY <2>1, <3>1 DEF IsRunningTotal
      <4> QED BY <1>4, <3>1, <4>1, <4>2
    <3>2. CASE i = count + 1
      <4>1. new[i] = queuedByte + Size[f] /\ new[i - 1] = cum[count]
        BY <1>5, <3>2
      <4> QED BY <1>4, <2>3, <3>2, <4>1
    <3> QED BY <1>5, <3>1, <3>2
  <2>6. ASSUME NEW i \in 0 .. count', NEW j \in 0 .. count', i <= j
        PROVE  new[i] <= new[j]
    <3>1. \A k \in 0 .. count : cum[k] <= queuedByte /\ cum[k] \in Nat
      BY <1>5, <2>1, <2>3 DEF IsRunningTotal
    <3>2. CASE j \in 0 .. count
      <4>1. i \in 0 .. count /\ new[i] = cum[i] /\ new[j] = cum[j]
        BY <1>5, <2>6, <3>2
      <4> QED BY <2>1, <2>6, <3>2, <4>1 DEF IsRunningTotal
    <3>3. CASE j = count + 1
      <4>1. new[j] = queuedByte + Size[f]
        BY <1>5, <3>3
      <4>2. CASE i = count + 1
        BY <1>2, <3>3, <4>1, <4>2
      <4>3. CASE i \in 0 .. count
        <5>1. new[i] = cum[i]
          BY <1>5, <4>3
        <5> QED BY <1>2, <3>1, <4>1, <4>3, <5>1
      <4> QED BY <1>5, <4>2, <4>3
    <3> QED BY <1>5, <3>2, <3>3
  <2> HIDE DEF new
  <2> QED BY <2>2, <2>4, <2>5, <2>6 DEF QueuedByteIsSum, IsRunningTotal
<1> QED BY <1>6, <1>7, <1>8 DEF Inv

\* A pop keeps the invariant: the running totals lose their first entry, and
\* what Pop subtracts is what the first frame had added.
LEMMA PopInv ==
    ASSUME Inv, PopFrame
    PROVE  Inv'
<1>1. RingOK
  BY TypeRing DEF Inv
<1>2. /\ count \in 1 .. Capacity /\ head \in 0 .. Capacity - 1
      /\ count' = count - 1 /\ count > 0
      /\ items' = [items EXCEPT ![head] = NoFrame]
  BY <1>1 DEF PopFrame, RingOK
<1>3. head' \in Slots
  <2>1. head + 1 \in 0 .. 2 * Capacity - 1
    BY <1>2
  <2>2. (head + 1) % Capacity = IF head + 1 < Capacity THEN head + 1
                                ELSE head + 1 - Capacity
    BY <1>2, <2>1, ModWrap
  <2>3. head' = (head + 1) % Capacity
    BY DEF PopFrame
  <2> QED BY <1>2, <2>2, <2>3
<1>4. RingOK'
  BY <1>1, <1>2, <1>3 DEF RingOK
<1>5. /\ items[head] = Queue[1]
      /\ head' = IF head + 1 < Capacity THEN head + 1 ELSE 0
      /\ \A i \in 1 .. count - 1 : Queue'[i] = Queue[i + 1]
  BY <1>1, <1>4, PopShifts
<1>6. items[head] \in Frames
  BY <1>1, <1>2, <1>5, QueueOfFrames DEF Inv
<1>7. PICK cum \in [0 .. count -> 0 .. MaxBytes] : IsRunningTotal(cum)
  BY DEF Inv, QueuedByteIsSum
<1>8. /\ cum[0] = 0 /\ cum[count] = queuedByte
      /\ \A i \in 1 .. count : cum[i] = cum[i - 1] + Size[Queue[i]]
      /\ \A i, j \in 0 .. count : i <= j => cum[i] <= cum[j]
  BY <1>7 DEF IsRunningTotal
<1>9. /\ cum[1] = Size[items[head]]
      /\ queuedByte' = cum[count] - cum[1]
  BY <1>2, <1>5, <1>6, <1>8 DEF PopFrame
<1>10. \A i \in 1 .. count : cum[i] - cum[1] \in 0 .. MaxBytes
  <2> SUFFICES ASSUME NEW i \in 1 .. count
               PROVE  cum[i] - cum[1] \in 0 .. MaxBytes
    OBVIOUS
  <2>1. cum[1] \in 0 .. MaxBytes /\ cum[i] \in 0 .. MaxBytes /\ cum[1] <= cum[i]
    BY <1>2, <1>7, <1>8
  <2> QED BY <2>1
<1>11. TypeOK'
  <2>1. queuedByte' \in 0 .. MaxBytes
    BY <1>2, <1>9, <1>10
  <2>2. ret' = [call |-> "Pop", frame |-> items[head], ok |-> TRUE]
    BY DEF PopFrame
  <2> QED BY <1>4, <1>6, <2>1, <2>2 DEF TypeOK, RingOK
<1>12. LiveSlotsExactly'
  <2> SUFFICES ASSUME NEW s \in Slots
               PROVE  (items'[s] # NoFrame) <=> (Offset(s)' < count - 1)
    BY <1>2 DEF LiveSlotsExactly
  <2>1. CASE s = head
    <3>1. items'[s] = NoFrame
      BY <1>1, <1>2, <2>1 DEF RingOK
    <3>2. Offset(s)' = Capacity - 1
      BY <1>2, <1>5, <2>1 DEF Offset
    <3> QED BY <1>2, <3>1, <3>2
  <2>2. CASE s # head
    <3>1. items'[s] = items[s]
      BY <1>1, <1>2, <2>2 DEF RingOK
    <3>2. Offset(s)' = Offset(s) - 1 /\ Offset(s) \in Int
      BY <1>2, <1>5, <2>2 DEF Offset
    <3>3. (items[s] # NoFrame) <=> (Offset(s) < count)
      BY DEF Inv, LiveSlotsExactly
    <3> QED BY <1>2, <3>1, <3>2, <3>3
  <2> QED BY <2>1, <2>2
<1>13. QueuedByteIsSum'
  <2> DEFINE new == [i \in 0 .. count' |-> cum[i + 1] - cum[1]]
  <2>1. \A i \in 0 .. count' : i + 1 \in 1 .. count /\ new[i] = cum[i + 1] - cum[1]
    BY <1>2
  <2>2. new \in [0 .. count' -> 0 .. MaxBytes]
    BY <1>10, <2>1
  <2>3. new[0] = 0 /\ new[count'] = queuedByte'
    BY <1>2, <1>7, <1>9, <2>1
  <2>4. ASSUME NEW i \in 1 .. count'
        PROVE  new[i] = new[i - 1] + Size[Queue'[i]]
    <3>1. new[i] = cum[i + 1] - cum[1] /\ new[i - 1] = cum[i] - cum[1]
      BY <1>2, <2>1
    <3>2. cum[i + 1] = cum[i] + Size[Queue[i + 1]]
      BY <1>2, <1>8
    <3>3. Queue'[i] = Queue[i + 1] /\ i \in 0 .. count /\ i + 1 \in 0 .. count
      BY <1>2, <1>5
    <3>4. cum[1] \in Nat /\ cum[i] \in Nat /\ cum[i + 1] \in Nat
      BY <1>2, <1>7, <3>3
    <3>5. Size[Queue[i + 1]] \in Nat
      BY <1>1, <1>2, <3>3, QueueOfFrames DEF Inv
    <3>6. Size[Queue'[i]] = Size[Queue[i + 1]]
      BY <3>3
    <3> HIDE DEF new
    <3> QED BY <3>1, <3>2, <3>4, <3>5, <3>6
  <2>5. ASSUME NEW i \in 0 .. count', NEW j \in 0 .. count', i <= j
        PROVE  new[i] <= new[j]
    <3>1. cum[i + 1] <= cum[j + 1]
      BY <1>2, <1>8, <2>1, <2>5
    <3>2. cum[1] \in Nat /\ cum[i + 1] \in Nat /\ cum[j + 1] \in Nat
      BY <1>2, <1>7, <2>1
    <3>3. new[i] = cum[i + 1] - cum[1] /\ new[j] = cum[j + 1] - cum[1]
      BY <2>1
    <3> HIDE DEF new
    <3> QED BY <3>1, <3>2, <3>3
  <2> HIDE DEF new
  <2> QED BY <2>2, <2>3, <2>4, <2>5 DEF QueuedByteIsSum, IsRunningTotal
<1> QED BY <1>11, <1>12, <1>13 DEF Inv

\* A call that changes nothing but the answer keeps the invariant.
LEMMA UnchangedInv ==
    ASSUME Inv, UNCHANGED <<items, head, count, queuedByte>>, TypeOK'
    PROVE  Inv'
<1>1. Queue' = Queue
  BY DEF Queue
<1> QED BY <1>1 DEF Inv, LiveSlotsExactly, Offset, QueuedByteIsSum, IsRunningTotal

LEMMA NextInv ==
    Inv /\ [Next]_vars => Inv'
<1> SUFFICES ASSUME Inv, [Next]_vars PROVE Inv'
  OBVIOUS
<1>1. ASSUME NEW f \in Frames, PushAccepted(f) PROVE Inv'
  BY <1>1, PushInv
<1>2. ASSUME NEW f \in Frames, PushRejected(f) PROVE Inv'
  <2>1. TypeOK'
    BY <1>2 DEF PushRejected, Inv, TypeOK
  <2> QED BY <1>2, <2>1, UnchangedInv DEF PushRejected
<1>3. CASE PopFrame
  BY <1>3, PopInv
<1>4. CASE PopEmpty
  <2>1. TypeOK'
    BY <1>4 DEF PopEmpty, Inv, TypeOK
  <2> QED BY <1>4, <2>1, UnchangedInv DEF PopEmpty
<1>5. CASE UNCHANGED vars
  <2>1. TypeOK'
    BY <1>5 DEF vars, Inv, TypeOK
  <2> QED BY <1>5, <2>1, UnchangedInv DEF vars
<1> QED BY <1>1, <1>2, <1>3, <1>4, <1>5 DEF Next

\* Every field of the queue keeps to its range, so Pop never makes the byte
\* count negative and Push never lets it pass the bound (queue.go:21-47).
THEOREM TypeCorrect == Spec => []TypeOK
<1>1. Inv => TypeOK
  BY DEF Inv
<1> QED BY <1>1, InitInv, NextInv, PTL DEF Spec

\* The byte count is at all times the sum over the frames held (queue.go:24-45).
THEOREM BytesAccounted == Spec => []QueuedByteIsSum
<1>1. Inv => QueuedByteIsSum
  BY DEF Inv
<1> QED BY <1>1, InitInv, NextInv, PTL DEF Spec

\* No queued frame is overwritten and no popped one is kept (queue.go:28-43).
THEOREM SlotsAccounted == Spec => []LiveSlotsExactly
<1>1. Inv => LiveSlotsExactly
  BY DEF Inv
<1> QED BY <1>1, InitInv, NextInv, PTL DEF Spec

-----------------------------------------------------------------------------
(* The ring is a bounded FIFO *)

\* Queue is a sequence of frames of length count.
LEMMA QueueIsSeq ==
    ASSUME Inv
    PROVE  Queue \in Seq(Frames) /\ Len(Queue) = count
<1>1. RingOK
  BY TypeRing DEF Inv
<1>2. Queue \in [1 .. count -> Frames]
  BY <1>1, QueueOfFrames DEF Inv, Queue
<1>3. count \in Nat
  BY <1>1 DEF RingOK
<1> QED BY <1>2, <1>3

LEMMA QueueIsSeqNext ==
    Inv' => (Queue \in Seq(Frames) /\ Len(Queue) = count)'
<1>1. Inv => Queue \in Seq(Frames) /\ Len(Queue) = count
  BY QueueIsSeq
<1> QED BY <1>1, PTL

\* A push, in the terms of BoundedFIFO (queue.go:21-32).
LEMMA PushRefines ==
    ASSUME Inv, Inv', NEW f \in Frames
    PROVE  /\ PushAccepted(f) => Abstract!Enqueue(f)
           /\ PushRejected(f) => Abstract!Refuse(f)
<1>1. RingOK /\ RingOK'
  BY TypeRing DEF Inv, TypeOK, RingOK
<1>2. Queue \in Seq(Frames) /\ Len(Queue) = count /\ count \in Nat
  BY <1>1, QueueIsSeq DEF RingOK
<1>3. Queue' \in Seq(Frames) /\ Len(Queue') = count'
  BY QueueIsSeqNext
<1>4. ASSUME PushAccepted(f) PROVE Abstract!Enqueue(f)
  <2>1. Queue' = Append(Queue, f)
    <3>1. /\ \A i \in 1 .. count : Queue'[i] = Queue[i]
          /\ Queue'[count + 1] = f /\ count' = count + 1
      BY <1>1, <1>4, PushAppends DEF PushAccepted
    <3> HIDE DEF Queue
    <3> QED BY <1>2, <1>3, <3>1
  <2>2. Abstract!Fits(f)
    BY <1>2, <1>4 DEF PushAccepted, Reject, Abstract!Fits, Inv, TypeOK
  <2> QED BY <1>4, <2>1, <2>2 DEF PushAccepted, Abstract!Enqueue
<1>5. ASSUME PushRejected(f) PROVE Abstract!Refuse(f)
  <2>1. Queue' = Queue
    BY <1>5 DEF PushRejected, Queue
  <2>2. ~Abstract!Fits(f)
    BY <1>2, <1>5 DEF PushRejected, Reject, Abstract!Fits, Inv, TypeOK
  <2> QED BY <1>5, <2>1, <2>2 DEF PushRejected, Abstract!Refuse
<1> QED BY <1>4, <1>5

\* A pop, in the terms of BoundedFIFO (queue.go:34-47).
LEMMA PopRefines ==
    ASSUME Inv, Inv'
    PROVE  /\ PopFrame => Abstract!Dequeue /\ Head(Queue) = items[head]
           /\ PopEmpty => Abstract!DequeueNone
<1>1. RingOK /\ RingOK'
  BY TypeRing DEF Inv, TypeOK, RingOK
<1>2. Queue \in Seq(Frames) /\ Len(Queue) = count /\ count \in Nat
  BY <1>1, QueueIsSeq DEF RingOK
<1>3. Queue' \in Seq(Frames) /\ Len(Queue') = count'
  BY QueueIsSeqNext
<1>4. ASSUME PopFrame PROVE Abstract!Dequeue /\ Head(Queue) = items[head]
  <2>1. items[head] = Queue[1] /\ count > 0 /\ count' = count - 1
        /\ \A i \in 1 .. count - 1 : Queue'[i] = Queue[i + 1]
    BY <1>1, <1>4, PopShifts DEF PopFrame
  <2>2. Queue # << >> /\ Queue' = Tail(Queue) /\ Head(Queue) = items[head]
    <3>1. Len(Queue) > 0 /\ Queue # << >> /\ Head(Queue) = Queue[1]
      BY <1>2, <2>1
    <3>2. Tail(Queue) \in Seq(Frames) /\ Len(Tail(Queue)) = count - 1
      BY <1>2, <3>1
    <3>3. \A i \in 1 .. count - 1 : Tail(Queue)[i] = Queue[i + 1]
      BY <1>2, <3>1
    <3>4. Queue' = Tail(Queue)
      <4> HIDE DEF Queue
      <4> QED BY <1>2, <1>3, <2>1, <3>2, <3>3, SeqEqual
    <3> QED BY <2>1, <3>1, <3>4
  <2> QED BY <1>4, <2>2 DEF PopFrame, Abstract!Dequeue
<1>5. ASSUME PopEmpty PROVE Abstract!DequeueNone
  <2>1. Queue' = Queue /\ Queue = << >>
    BY <1>2, <1>5 DEF PopEmpty, Queue
  <2> QED BY <1>5, <2>1 DEF PopEmpty, Abstract!DequeueNone
<1> QED BY <1>4, <1>5

\* What each call does, in the terms of BoundedFIFO.
LEMMA StepRefines ==
    ASSUME Inv, Inv', [Next]_vars
    PROVE  [Abstract!Next]_(Abstract!vars)
<1>1. CASE UNCHANGED vars
  BY <1>1 DEF vars, Abstract!vars, Queue
<1> QED BY <1>1, PushRefines, PopRefines DEF Next, Abstract!Next

\* The ring buffer implements the bounded FIFO: the frames come out in the
\* order they went in, and a push fails only at a bound (queue.go:21-47).
THEOREM RingImplementsFIFO == Spec => ImplementsBoundedFIFO
<1>1. Init => Abstract!Init
  BY DEF Init, Abstract!Init, Queue
<1>2. Inv /\ Inv' /\ [Next]_vars => [Abstract!Next]_(Abstract!vars)
  BY StepRefines
<1> QED
  BY <1>1, <1>2, InitInv, NextInv, PTL DEF Spec, ImplementsBoundedFIFO, Abstract!Spec

-----------------------------------------------------------------------------
(* The codec and the stream *)

USE CodecAssumption

\* The bytes of a frame, and a byte.
Total(f) == HeaderLen + Size[f]
Byte == [frame : Frames, place : Nat]

\* A frame has its header and its payload.
LEMMA TotalBytes ==
    ASSUME NEW f \in Carried
    PROVE  Size[f] \in Nat /\ Total(f) \in Nat /\ Total(f) = HeaderLen + Size[f]
<1>1. f \in Frames
  BY DEF Carried
<1> QED BY <1>1 DEF Total

\* The frame tr[i] takes the places at[i - 1] + 1 to at[i] of the bytes st, as
\* far as they go; the first frame begins after place start, and left bytes of
\* the last one are not written.  If nothing was cut off, the rest is there.
Fits(at, tr, st, start, left, whole) ==
    /\ at \in [0 .. Len(tr) -> Int]
    /\ at[0] = start
    /\ \A i \in 1 .. Len(tr) : at[i] = at[i - 1] + Total(tr[i])
    /\ \A i, j \in 0 .. Len(tr) : i <= j => at[i] <= at[j]
    /\ Len(st) <= at[Len(tr)] - left
    /\ whole => Len(st) = at[Len(tr)] - left
    /\ \A i \in 1 .. Len(tr) : \A p \in 1 .. Total(tr[i]) :
         at[i - 1] + p \in 1 .. Len(st)
           => st[at[i - 1] + p] = [frame |-> tr[i], place |-> p]

\* Encode begins a frame: its bytes lie beyond the end of the stream.
LEMMA FrameBegins ==
    ASSUME NEW tr \in Seq(Carried), NEW st \in Seq(Byte), NEW f \in Carried,
           NEW at, NEW start \in Int, NEW whole \in BOOLEAN,
           Fits(at, tr, st, start, 0, whole)
    PROVE  \E at2 : Fits(at2, Append(tr, f), st, start, Total(f), whole)
<1> DEFINE m == Len(tr)
           tr2 == Append(tr, f)
           size == Total(f)
           at2 == [i \in 0 .. m + 1 |-> IF i <= m THEN at[i] ELSE at[m] + size]
<1>1. m \in Nat /\ Len(st) \in Nat /\ size \in Nat /\ at \in [0 .. m -> Int]
  BY DEF Fits, Total, Carried
<1>2. Len(tr2) = m + 1 /\ tr2[m + 1] = f /\ \A i \in 1 .. m : tr2[i] = tr[i]
  OBVIOUS
<1>3. \A i \in 1 .. m : Total(tr[i]) \in Nat
  BY <1>1, ElementOfSeq DEF Total, Carried
<1> HIDE DEF m, tr2, size
<1>4. /\ at2 \in [0 .. m + 1 -> Int] /\ at2[m + 1] = at[m] + size
      /\ \A i \in 0 .. m : at2[i] = at[i]
  <2>1. \A i \in 0 .. m : i \in 0 .. m + 1 /\ at[i] \in Int
    BY <1>1
  <2>2. \A i \in 0 .. m : at2[i] = at[i]
    BY <2>1, <1>1
  <2>3. m + 1 \in 0 .. m + 1 /\ ~(m + 1 <= m) /\ m \in 0 .. m
    BY <1>1
  <2>4. at2[m + 1] = at[m] + size
    BY <2>3
  <2>5. \A i \in 0 .. m + 1 : (IF i <= m THEN at[i] ELSE at[m] + size) \in Int
    BY <1>1, <2>1, <2>3
  <2>6. at2 \in [0 .. m + 1 -> Int]
    BY <2>5
  <2> QED BY <2>2, <2>4, <2>6
<1> HIDE DEF at2
<1>5. \A i \in 1 .. m : at[i] = at[i - 1] + Total(tr[i])
  BY DEF Fits, m
<1>6. \A i, j \in 0 .. m : i <= j => at[i] <= at[j]
  BY DEF Fits, m
<1>7. at[0] = start /\ Len(st) <= at[m] /\ (whole => Len(st) = at[m])
  BY <1>1 DEF Fits, m
<1>8. \A i \in 1 .. m + 1 : at2[i] = at2[i - 1] + Total(tr2[i])
  <2> SUFFICES ASSUME NEW i \in 1 .. m + 1
               PROVE  at2[i] = at2[i - 1] + Total(tr2[i])
    OBVIOUS
  <2>1. CASE i = m + 1
    BY <2>1, <1>1, <1>2, <1>4 DEF size
  <2>2. CASE i \in 1 .. m
    <3>1. at2[i] = at[i] /\ at2[i - 1] = at[i - 1] /\ tr2[i] = tr[i]
      BY <2>2, <1>1, <1>2, <1>4
    <3> QED BY <3>1, <2>2, <1>5
  <2> QED BY <2>1, <2>2, <1>1
<1>9. \A i, j \in 0 .. m + 1 : i <= j => at2[i] <= at2[j]
  <2> SUFFICES ASSUME NEW i \in 0 .. m + 1, NEW j \in 0 .. m + 1, i <= j
               PROVE  at2[i] <= at2[j]
    OBVIOUS
  <2>1. CASE j \in 0 .. m
    <3>1. i \in 0 .. m
      BY <2>1, <1>1
    <3>2. at2[i] = at[i] /\ at2[j] = at[j] /\ at[i] <= at[j]
      BY <2>1, <3>1, <1>4, <1>6
    <3> QED BY <3>2
  <2>2. CASE j = m + 1 /\ i \in 0 .. m
    <3>1. at[i] <= at[m] /\ at[i] \in Int /\ at[m] \in Int
      BY <2>2, <1>1, <1>6
    <3> QED BY <3>1, <2>2, <1>1, <1>4
  <2>3. CASE j = m + 1 /\ i = m + 1
    BY <2>3, <1>1, <1>4
  <2> QED BY <2>1, <2>2, <2>3, <1>1
<1>10. \A i \in 1 .. m + 1 : \A p \in 1 .. Total(tr2[i]) :
         at2[i - 1] + p \in 1 .. Len(st)
           => st[at2[i - 1] + p] = [frame |-> tr2[i], place |-> p]
  <2> SUFFICES ASSUME NEW i \in 1 .. m + 1, NEW p \in 1 .. Total(tr2[i]),
                      at2[i - 1] + p \in 1 .. Len(st)
               PROVE  st[at2[i - 1] + p] = [frame |-> tr2[i], place |-> p]
    OBVIOUS
  <2>1. CASE i = m + 1
    <3>1. at2[i - 1] = at[m] /\ at[m] \in Int /\ p \in Nat \ {0}
      BY <2>1, <1>1, <1>2, <1>4
    <3> QED BY <3>1, <1>1, <1>7
  <2>2. CASE i \in 1 .. m
    <3>0. i - 1 \in 0 .. m
      BY <2>2, <1>1
    <3>1. at2[i - 1] = at[i - 1] /\ tr2[i] = tr[i]
      BY <2>2, <3>0, <1>2, <1>4
    <3> QED BY <2>2, <3>1 DEF Fits, m
  <2> QED BY <2>1, <2>2, <1>1
<1>11. /\ at2[0] = start
       /\ Len(st) <= at2[m + 1] - size
       /\ whole => Len(st) = at2[m + 1] - size
  BY <1>1, <1>4, <1>7
<1>12. Fits(at2, tr2, st, start, size, whole)
  BY <1>2, <1>4, <1>8, <1>9, <1>10, <1>11 DEF Fits
<1> QED BY <1>12 DEF tr2, size

\* Encode writes the next bytes of the last frame, or its writes go nowhere.
LEMMA BytesFollow ==
    ASSUME NEW tr \in Seq(Carried), tr # << >>, NEW st \in Seq(Byte),
           NEW at, NEW start \in Int, NEW left \in Nat, NEW k \in 0 .. left,
           left <= Total(tr[Len(tr)]),
           NEW to \in Int, to + left = Total(tr[Len(tr)]) + k,
           Fits(at, tr, st, start, left, TRUE)
    PROVE  /\ st \o Bytes(tr[Len(tr)], to - k + 1, to) \in Seq(Byte)
           /\ Fits(at, tr, st \o Bytes(tr[Len(tr)], to - k + 1, to), start, left - k, TRUE)
<1> DEFINE m == Len(tr)
           new == Bytes(tr[m], to - k + 1, to)
           st2 == st \o new
<1>1. m \in Nat \ {0} /\ Len(st) \in Nat /\ at \in [0 .. m -> Int] /\ tr[m] \in Carried
  BY ElementOfSeq, EmptySeq DEF Fits
<1>2. Total(tr[m]) \in Nat /\ to \in Nat
  BY <1>1 DEF Total, Carried
<1>3. /\ Len(new) = k /\ new \in Seq(Byte)
      /\ \A i \in 1 .. k : new[i] = [frame |-> tr[m], place |-> to - k + i]
  <2>1. 1 .. to - (to - k + 1) + 1 = 1 .. k
    BY <1>2
  <2>2. new = [i \in 1 .. k |-> [frame |-> tr[m], place |-> to - k + 1 + i - 1]]
    BY <2>1 DEF Bytes
  <2>3. \A i \in 1 .. k : to - k + 1 + i - 1 = to - k + i
    BY <1>2
  <2>3a. to - k \in Nat
    BY <1>1, <1>2
  <2>4. \A i \in 1 .. k : to - k + i \in Nat
    BY <1>2, <2>3a
  <2> HIDE DEF new
  <2>5. \A i \in 1 .. k : new[i] = [frame |-> tr[m], place |-> to - k + i]
    BY <2>2, <2>3
  <2>5a. tr[m] \in Frames
    BY <1>1 DEF Carried
  <2>6. \A i \in 1 .. k : new[i] \in Byte
    <3> SUFFICES ASSUME NEW i \in 1 .. k PROVE new[i] \in Byte
      OBVIOUS
    <3>1. to - k + i \in Nat
      BY <2>4
    <3>2. [frame |-> tr[m], place |-> to - k + i] \in Byte
      BY <2>5a, <3>1 DEF Byte
    <3> QED BY <2>5, <3>2
  <2>7. DOMAIN new = 1 .. k /\ new \in [1 .. k -> Byte]
    BY <2>2, <2>6
  <2>8. new \in Seq(Byte)
    BY <2>7, IsASeq
  <2> QED BY <2>5, <2>7, <2>8, LenProperties
<1> HIDE DEF new
<1>4. /\ Len(st2) = Len(st) + k
      /\ \A i \in 1 .. Len(st) : st2[i] = st[i]
      /\ \A i \in Len(st) + 1 .. Len(st) + k : st2[i] = new[i - Len(st)]
  <2>1. /\ Len(st2) = Len(st) + Len(new)
        /\ \A i \in 1 .. Len(st) + Len(new) :
             st2[i] = IF i <= Len(st) THEN st[i] ELSE new[i - Len(st)]
    <3>1. new \in Seq(Byte)
      BY <1>3
    <3> HIDE DEF Byte
    <3> QED BY <3>1, ConcatProperties
  <2> HIDE DEF st2
  <2> QED BY <2>1, <1>1, <1>3
<1>4a. k \in Nat /\ left \in Nat /\ k <= left
  OBVIOUS
<1>5. Len(st) = at[m] - left
  BY DEF Fits, m
<1> HIDE DEF m, st2
<1>6. at[m] = at[m - 1] + Total(tr[m])
  <2>1. m \in 1 .. m
    BY <1>1
  <2> QED BY <2>1 DEF Fits, m
<1>6a. \A i, j \in 0 .. m : i <= j => at[i] <= at[j]
  BY DEF Fits, m
<1>7. \A i \in 1 .. m : \A p \in 1 .. Total(tr[i]) :
         at[i - 1] + p \in 1 .. Len(st2)
           => st2[at[i - 1] + p] = [frame |-> tr[i], place |-> p]
  <2> SUFFICES ASSUME NEW i \in 1 .. m, NEW p \in 1 .. Total(tr[i]),
                      at[i - 1] + p \in 1 .. Len(st2)
               PROVE  st2[at[i - 1] + p] = [frame |-> tr[i], place |-> p]
    OBVIOUS
  <2>0. at[i - 1] \in Int /\ at[i] \in Int /\ at[m - 1] \in Int /\ at[m] \in Int
    BY <1>1
  <2>0a. Total(tr[i]) \in Nat
    <3>1. tr[i] \in Carried
      BY ElementOfSeq DEF m
    <3> QED BY <3>1, TotalBytes
  <2>1. CASE at[i - 1] + p \in 1 .. Len(st)
    BY <2>1, <1>4 DEF Fits, m
  <2>2. CASE at[i - 1] + p > Len(st)
    <3>1. PICK q \in Int : q = at[i - 1] + p
      BY <2>0, <2>0a
    <3>2. PICK len \in Nat : len = Len(st)
      BY <1>1
    <3>3. PICK size \in Nat : size = Total(tr[m])
      BY <1>2
    <3>4. PICK end \in Int, begin \in Int : end = at[m] /\ begin = at[m - 1]
      BY <2>0
    <3>5. q > len /\ q <= len + k /\ len = end - left /\ end = begin + size
      BY <3>1, <3>2, <3>3, <3>4, <2>2, <1>4, <1>4a, <1>5, <1>6
    <3>6. left <= size /\ to + left = size + k
      BY <3>3 DEF m
    <3>7. i = m
      <4> SUFFICES ASSUME i <= m - 1 PROVE FALSE
        BY <1>1
      <4>1. at[i] <= begin
        <5>1. i \in 0 .. m /\ m - 1 \in 0 .. m
          BY <1>1
        <5> QED BY <5>1, <3>4, <1>6a
      <4>2. at[i] = at[i - 1] + Total(tr[i])
        BY <1>1 DEF Fits, m
      <4>3. q <= at[i]
        <5>1. PICK low \in Int, part \in Nat : low = at[i - 1] /\ part = Total(tr[i])
          BY <2>0, <2>0a
        <5>2. p <= part /\ p \in Int
          BY <5>1
        <5>3. q = low + p /\ at[i] = low + part
          BY <4>2, <3>1, <5>1
        <5> QED BY <5>2, <5>3
      <4>4. PICK edge \in Int : edge = at[i]
        BY <2>0
      <4>5. q <= edge /\ edge <= begin
        BY <4>1, <4>3, <4>4
      <4> QED BY <4>5, <3>5, <3>6, <1>4a
    <3>8. q = begin + p /\ p \in Nat
      BY <3>1, <3>4, <3>7, <2>0a
    <3>9. q - len \in 1 .. k /\ q \in len + 1 .. len + k
      BY <3>5, <1>4a
    <3>10. st2[q] = new[q - len]
      BY <3>2, <3>9, <1>4
    <3>11. new[q - len] = [frame |-> tr[m], place |-> to - k + (q - len)]
      BY <3>9, <1>3
    <3>12. to - k + (q - len) = p
      BY <3>5, <3>6, <3>8, <1>2, <1>4a
    <3> QED BY <3>1, <3>7, <3>10, <3>11, <3>12
  <2>3. PICK q \in Int : q = at[i - 1] + p
    BY <2>0, <2>0a
  <2>4. q \in 1 .. Len(st) \/ q > Len(st)
    BY <2>3, <1>1, <1>4
  <2> QED BY <2>1, <2>2, <2>3, <2>4
<1>8. Len(st2) = at[m] - (left - k)
  BY <1>1, <1>4, <1>5
<1>9. Len(st2) \in Nat /\ Len(st2) <= at[m] - (left - k)
  BY <1>1, <1>4, <1>8
<1>9a. st2 \in Seq(Byte)
  <2>1. new \in Seq(Byte)
    BY <1>3
  <2> HIDE DEF Byte
  <2> QED BY <2>1, ConcatProperties DEF st2
<1>10. Fits(at, tr, st2, start, left - k, TRUE)
  BY <1>7, <1>8, <1>9 DEF Fits, m
<1> QED BY <1>9a, <1>10 DEF st2, new, m

\* Decode reads n bytes, and k frames are done with them.
LEMMA BytesAreRead ==
    ASSUME NEW tr \in Seq(Carried), NEW tr2 \in Seq(Carried),
           NEW k \in Nat, k <= Len(tr), Len(tr2) = Len(tr) - k,
           \A i \in 1 .. Len(tr2) : tr2[i] = tr[i + k],
           NEW st \in Seq(Byte), NEW n \in 0 .. Len(st),
           NEW at, NEW start \in Int, NEW left \in Nat, NEW whole \in BOOLEAN,
           Fits(at, tr, st, start, left, whole)
    PROVE  \E at2 : Fits(at2, tr2, SubSeq(st, n + 1, Len(st)), at[k] - n, left, whole)
<1> DEFINE m == Len(tr)
           m2 == Len(tr2)
           st2 == SubSeq(st, n + 1, Len(st))
           at2 == [i \in 0 .. m2 |-> at[i + k] - n]
<1>1. /\ m \in Nat /\ m2 \in Nat /\ m2 = m - k
      /\ Len(st) \in Nat /\ n \in Nat /\ n <= Len(st)
      /\ at \in [0 .. m -> Int]
  BY DEF Fits
<1>2. /\ Len(st2) = Len(st) - n
      /\ \A i \in 1 .. Len(st) - n : st2[i] = st[i + n]
  <2>1. \A i \in n + 1 .. Len(st) : st[i] \in Byte
    <3> SUFFICES ASSUME NEW i \in n + 1 .. Len(st) PROVE st[i] \in Byte
      OBVIOUS
    <3>1. i \in 1 .. Len(st)
      BY <1>1
    <3> QED BY <3>1, ElementOfSeq
  <2>2. n + 1 \in Int /\ Len(st) \in Int
    BY <1>1
  <2>3. /\ Len(st2) = IF n + 1 <= Len(st) THEN Len(st) - (n + 1) + 1 ELSE 0
        /\ \A i \in 1 .. Len(st) - (n + 1) + 1 : st2[i] = st[n + 1 + i - 1]
    <3> DEFINE from == n + 1
               to == Len(st)
    <3>1. from \in Int /\ to \in Int /\ \A i \in from .. to : st[i] \in Byte
      BY <2>1, <2>2
    <3> HIDE DEF Byte, from, to
    <3>2. /\ Len(SubSeq(st, from, to)) = IF from <= to THEN to - from + 1 ELSE 0
          /\ \A i \in 1 .. to - from + 1 : SubSeq(st, from, to)[i] = st[from + i - 1]
      BY <3>1, SubSeqProperties
    <3> QED BY <3>2 DEF from, to
  <2> HIDE DEF st2
  <2>4. Len(st) - (n + 1) + 1 = Len(st) - n
    BY <1>1
  <2>5. Len(st2) = Len(st) - n
    BY <2>3, <1>1
  <2>6. ASSUME NEW i \in 1 .. Len(st) - n PROVE st2[i] = st[i + n]
    <3>1. st2[i] = st[n + 1 + i - 1]
      BY <2>3, <2>4
    <3>2. n + 1 + i - 1 = i + n
      BY <1>1
    <3> QED BY <3>1, <3>2
  <2> QED BY <2>5, <2>6
<1>3. /\ \A i \in 1 .. m : at[i] = at[i - 1] + Total(tr[i])
      /\ \A i, j \in 0 .. m : i <= j => at[i] <= at[j]
      /\ Len(st) <= at[m] - left
      /\ whole => Len(st) = at[m] - left
      /\ \A i \in 1 .. m : \A p \in 1 .. Total(tr[i]) :
           at[i - 1] + p \in 1 .. Len(st)
             => st[at[i - 1] + p] = [frame |-> tr[i], place |-> p]
  BY DEF Fits
<1>4. \A i \in 1 .. m2 : tr2[i] = tr[i + k]
  OBVIOUS
<1> HIDE DEF m, m2, st2
<1>5. /\ \A i \in 0 .. m2 : i + k \in 0 .. m /\ at[i + k] \in Int
      /\ \A i \in 1 .. m2 : /\ i + k \in 1 .. m /\ i - 1 \in 0 .. m2 /\ i \in 0 .. m2
                            /\ (i - 1) + k = (i + k) - 1
  BY <1>1
<1>6. at2 \in [0 .. m2 -> Int] /\ \A i \in 0 .. m2 : at2[i] = at[i + k] - n
  BY <1>1, <1>5
<1> HIDE DEF at2
<1>7. at2[0] = at[k] - n
  BY <1>1, <1>6
<1>8. ASSUME NEW i \in 1 .. m2
      PROVE  at2[i - 1] = at[(i + k) - 1] - n /\ at2[i] = at[i + k] - n
  BY <1>5, <1>6
<1>9. \A i \in 1 .. m2 : at2[i] = at2[i - 1] + Total(tr2[i])
  <2> SUFFICES ASSUME NEW i \in 1 .. m2
               PROVE  at2[i] = at2[i - 1] + Total(tr2[i])
    OBVIOUS
  <2>1. PICK b \in Int, e \in Int : b = at[(i + k) - 1] /\ e = at[i + k]
    BY <1>5
  <2>2. e = b + Total(tr[i + k])
    BY <2>1, <1>3, <1>5
  <2>3. PICK size \in Nat : size = Total(tr[i + k])
    <3>1. tr[i + k] \in Carried
      BY <1>5, ElementOfSeq DEF m
    <3>2. Total(tr[i + k]) \in Nat
      BY <3>1, TotalBytes
    <3> QED BY <3>2
  <2>4. e - n = (b - n) + size
    BY <2>2, <2>3, <1>1
  <2> QED BY <2>1, <2>3, <2>4, <1>4, <1>8
<1>10. \A i, j \in 0 .. m2 : i <= j => at2[i] <= at2[j]
  <2> SUFFICES ASSUME NEW i \in 0 .. m2, NEW j \in 0 .. m2, i <= j
               PROVE  at2[i] <= at2[j]
    OBVIOUS
  <2>1. at[i + k] <= at[j + k] /\ at[i + k] \in Int /\ at[j + k] \in Int
    <3>1. i + k \in 0 .. m /\ j + k \in 0 .. m /\ at[i + k] \in Int /\ at[j + k] \in Int
      BY <1>5
    <3>2. i + k <= j + k
      OBVIOUS
    <3> QED BY <3>1, <3>2, <1>3
  <2>2. at2[i] = at[i + k] - n /\ at2[j] = at[j + k] - n
    BY <1>6
  <2>3. PICK a \in Int, b \in Int : a = at[i + k] /\ b = at[j + k]
    BY <2>1
  <2> QED BY <2>1, <2>2, <2>3, <1>1
<1>11. Len(st2) <= at2[m2] - left /\ (whole => Len(st2) = at2[m2] - left)
  <2>1. PICK e \in Int : e = at[m]
    BY <1>1
  <2>2. at2[m2] = e - n
    BY <2>1, <1>1, <1>6
  <2>3. PICK len \in Nat : len = Len(st)
    BY <1>1
  <2>4. len <= e - left /\ (whole => len = e - left)
    BY <2>1, <2>3, <1>3
  <2>5. Len(st2) = len - n /\ n \in Nat
    BY <2>3, <1>1, <1>2
  <2> QED BY <2>2, <2>4, <2>5
<1>12. \A i \in 1 .. m2 : \A p \in 1 .. Total(tr2[i]) :
         at2[i - 1] + p \in 1 .. Len(st2)
           => st2[at2[i - 1] + p] = [frame |-> tr2[i], place |-> p]
  <2> SUFFICES ASSUME NEW i \in 1 .. m2, NEW p \in 1 .. Total(tr2[i]),
                      at2[i - 1] + p \in 1 .. Len(st2)
               PROVE  st2[at2[i - 1] + p] = [frame |-> tr2[i], place |-> p]
    OBVIOUS
  <2>1. PICK b \in Int : b = at[(i + k) - 1]
    BY <1>5
  <2>2. p \in Int
    OBVIOUS
  <2>2a. at2[i - 1] = b - n
    BY <2>1, <1>8
  <2>3. PICK q \in Int : q = b - n + p
    BY <2>2, <1>1
  <2>3a. q = at2[i - 1] + p
    BY <2>2a, <2>3
  <2>3b. q \in 1 .. Len(st) - n
    BY <2>3a, <1>2
  <2>4. q \in 1 .. Len(st) - n /\ q + n = b + p /\ q + n \in 1 .. Len(st)
    BY <2>2, <2>3, <2>3b, <1>1
  <2>5. st2[q] = st[q + n]
    BY <2>4, <1>2
  <2>6. tr2[i] = tr[i + k] /\ p \in 1 .. Total(tr[i + k])
    BY <1>4
  <2>7. st[b + p] = [frame |-> tr[i + k], place |-> p]
    BY <2>1, <2>4, <2>6, <1>3, <1>5
  <2> QED BY <2>3a, <2>4, <2>5, <2>6, <2>7
<1>13. Fits(at2, tr2, st2, at[k] - n, left, whole)
  BY <1>6, <1>7, <1>9, <1>10, <1>11, <1>12 DEF Fits, m2
<1> QED BY <1>13 DEF st2

\* The stream is cut: its first bytes are what they were.
LEMMA BytesAreCut ==
    ASSUME NEW tr \in Seq(Carried), NEW st \in Seq(Byte), NEW n \in 0 .. Len(st),
           NEW at, NEW start \in Int, NEW left \in Nat, NEW whole \in BOOLEAN,
           Fits(at, tr, st, start, left, whole)
    PROVE  Fits(at, tr, SubSeq(st, 1, n), start, left, FALSE)
<1> DEFINE st2 == SubSeq(st, 1, n)
<1>1. /\ Len(tr) \in Nat /\ Len(st) \in Nat /\ n \in Nat /\ n <= Len(st)
      /\ at \in [0 .. Len(tr) -> Int]
  BY DEF Fits
<1>2. Len(st2) = n /\ \A i \in 1 .. n : st2[i] = st[i]
  <2>1. \A i \in 1 .. n : st[i] \in Byte
    <3> SUFFICES ASSUME NEW i \in 1 .. n PROVE st[i] \in Byte
      OBVIOUS
    <3>1. i \in 1 .. Len(st)
      BY <1>1
    <3> QED BY <3>1, ElementOfSeq
  <2>2. /\ Len(st2) = IF 1 <= n THEN n - 1 + 1 ELSE 0
        /\ \A i \in 1 .. n - 1 + 1 : st2[i] = st[1 + i - 1]
    <3>1. 1 \in Int /\ n \in Int
      BY <1>1
    <3> HIDE DEF Byte
    <3> QED BY <2>1, <3>1, SubSeqProperties
  <2> HIDE DEF st2
  <2>3. n - 1 + 1 = n /\ \A i \in Int : 1 + i - 1 = i
    BY <1>1
  <2> QED BY <2>2, <2>3, <1>1
<1> HIDE DEF st2
<1>3. Len(st2) <= at[Len(tr)] - left
  <2>1. PICK e \in Int : e = at[Len(tr)]
    BY <1>1
  <2>2. Len(st) <= e - left
    BY <2>1 DEF Fits
  <2> QED BY <2>1, <2>2, <1>1, <1>2
<1>4. \A i \in 1 .. Len(tr) : \A p \in 1 .. Total(tr[i]) :
        at[i - 1] + p \in 1 .. Len(st2)
          => st2[at[i - 1] + p] = [frame |-> tr[i], place |-> p]
  <2> SUFFICES ASSUME NEW i \in 1 .. Len(tr), NEW p \in 1 .. Total(tr[i]),
                      at[i - 1] + p \in 1 .. Len(st2)
               PROVE  st2[at[i - 1] + p] = [frame |-> tr[i], place |-> p]
    OBVIOUS
  <2>1. at[i - 1] + p \in 1 .. Len(st)
    BY <1>1, <1>2
  <2> QED BY <2>1, <1>2 DEF Fits
<1>5. Fits(at, tr, st2, start, left, FALSE)
  BY <1>3, <1>4 DEF Fits
<1> QED BY <1>5 DEF st2

\* How much of the frame in hand is still to be written, and where the frame at
\* the front begins: Decode may have read its header.
Pending == CASE encoder = "header" -> Total(hand)
             [] encoder = "payload" -> Size[hand]
             [] OTHER -> 0
Start == IF opened = NoFrame THEN 0 ELSE -HeaderLen

\* Where Encode and Decode are.
EncoderOK ==
    /\ encoder \in {"idle", "header", "payload", "failed"}
    /\ encoder \in {"header", "payload"} => transit # << >> /\ hand = transit[Len(transit)]
    /\ encoder = "payload" => Size[hand] > 0
DecoderOK ==
    /\ decoder \in {"header", "payload", "failed"}
    /\ decoder = "header" => opened = NoFrame
    /\ decoder = "payload" => opened # NoFrame
    /\ opened # NoFrame => transit # << >> /\ opened = transit[1] /\ Size[opened] > 0
StreamOK == cut \in BOOLEAN /\ stream \in Seq(Byte) /\ transit \in Seq(Carried)
StreamLaidOut == \E at : Fits(at, transit, stream, Start, Pending, ~cut)

CodecInv ==
    /\ StreamOK /\ EncoderOK /\ DecoderOK /\ StreamLaidOut
    /\ WholeFramesInOrder /\ OnlyACutStopsDecode

LEMMA CodecInit == StreamInit => CodecInv
<1> SUFFICES ASSUME StreamInit PROVE CodecInv
  OBVIOUS
<1>1. /\ encoder = "idle" /\ stream = << >> /\ cut = FALSE /\ decoder = "header"
      /\ opened = NoFrame /\ transit = << >> /\ got = <<NoFrame, NoFrame>>
  BY DEF StreamInit
<1>2. StreamOK
  BY <1>1, EmptySeq DEF StreamOK
<1>3. EncoderOK /\ DecoderOK /\ WholeFramesInOrder /\ OnlyACutStopsDecode
  BY <1>1 DEF EncoderOK, DecoderOK, WholeFramesInOrder, OnlyACutStopsDecode
<1>4. Start = 0 /\ Pending = 0
  BY <1>1 DEF Start, Pending
<1>5. Fits([i \in {0} |-> 0], << >>, << >>, 0, 0, TRUE)
  <2> DEFINE at == [i \in {0} |-> 0]
  <2>1. Len(<< >>) = 0 /\ 0 .. 0 = {0} /\ 1 .. 0 = {}
    OBVIOUS
  <2>2. at \in [{0} -> Int] /\ at[0] = 0
    OBVIOUS
  <2> HIDE DEF at
  <2> QED BY <2>1, <2>2 DEF Fits, at
<1>6. StreamLaidOut
  BY <1>1, <1>4, <1>5 DEF StreamLaidOut
<1> QED BY <1>2, <1>3, <1>6 DEF CodecInv

\* What is to be written of a frame is at most the frame.
LEMMA PendingRange ==
    ASSUME StreamOK, EncoderOK
    PROVE  /\ Pending \in Nat /\ Start \in Int
           /\ encoder \in {"header", "payload"} =>
                /\ transit # << >> /\ hand = transit[Len(transit)] /\ hand \in Carried
                /\ Pending <= Total(hand)
                /\ Size[hand] \in Nat /\ Total(hand) = HeaderLen + Size[hand]
           /\ encoder = "header" => Pending = Total(hand)
           /\ encoder = "payload" => Pending = Size[hand] /\ Pending > 0
           /\ encoder \notin {"header", "payload"} => Pending = 0
<1>1. Start \in Int
  BY DEF Start
<1>2. CASE encoder \notin {"header", "payload"}
  BY <1>1, <1>2 DEF Pending
<1>3. CASE encoder \in {"header", "payload"}
  <2>1. /\ transit # << >> /\ hand = transit[Len(transit)]
        /\ encoder = "payload" => Size[hand] > 0
    BY <1>3 DEF EncoderOK
  <2>2. hand \in Carried
    <3>1. Len(transit) \in Nat \ {0}
      BY <2>1, EmptySeq DEF StreamOK
    <3>2. Len(transit) \in 1 .. Len(transit)
      BY <3>1
    <3> HIDE DEF Carried
    <3> QED BY <2>1, <3>2, ElementOfSeq DEF StreamOK
  <2>3. Size[hand] \in Nat /\ Total(hand) \in Nat /\ Total(hand) = HeaderLen + Size[hand]
    BY <2>2, TotalBytes
  <2>4. CASE encoder = "header"
    <3>1. Pending = Total(hand)
      BY <2>4 DEF Pending
    <3> QED BY <1>1, <1>3, <2>1, <2>2, <2>3, <2>4, <3>1
  <2>5. CASE encoder = "payload"
    <3>1. Pending = Size[hand]
      BY <2>5 DEF Pending
    <3> QED BY <1>1, <1>3, <2>1, <2>2, <2>3, <2>5, <3>1
  <2> QED BY <1>3, <2>4, <2>5
<1> QED BY <1>2, <1>3

\* Encode takes the frame at the head of the queue, or refuses it.
LEMMA PopsCodec ==
    ASSUME CodecInv, Pops
    PROVE  CodecInv'
<1>0. StreamOK /\ EncoderOK /\ DecoderOK
  BY DEF CodecInv
<1>1. UNCHANGED <<stream, cut, decoder, opened, got>>
  BY DEF Pops
<1>2. encoder = "idle" /\ Pending = 0 /\ Start \in Int /\ Start' = Start
  BY <1>0, <1>1, PendingRange DEF Pops, Start
<1>3. WholeFramesInOrder' /\ OnlyACutStopsDecode'
  BY <1>1 DEF CodecInv, WholeFramesInOrder, OnlyACutStopsDecode
<1>4. CASE ~Encodable(items[head])
  <2>1. encoder' = "failed" /\ UNCHANGED transit
    BY <1>4 DEF Pops
  <2>2. Pending' = 0
    BY <2>1 DEF Pending
  <2>3. StreamLaidOut'
    BY <1>1, <1>2, <2>1, <2>2 DEF CodecInv, StreamLaidOut
  <2> QED BY <1>0, <1>1, <1>3, <2>1, <2>3
      DEF CodecInv, StreamOK, EncoderOK, DecoderOK
<1>5. CASE Encodable(items[head])
  <2>1. PICK f \in Carried : f = items[head]
    BY <1>5 DEF Encodable, Carried
  <2>2. encoder' = "header" /\ hand' = f /\ transit' = Append(transit, f)
    BY <1>5, <2>1 DEF Pops
  <2>3. /\ transit' \in Seq(Carried) /\ transit' # << >>
        /\ transit'[Len(transit')] = f
        /\ transit # << >> => transit'[1] = transit[1]
    <3>1. transit \in Seq(Carried) /\ Len(transit) \in Nat
      BY <1>0 DEF StreamOK
    <3>2. transit # << >> => 1 \in 1 .. Len(transit)
      BY <3>1, EmptySeq
    <3> HIDE DEF Carried
    <3> QED BY <2>2, <3>1, <3>2, AppendProperties
  <2>4. Pending' = Total(f)
    BY <2>2 DEF Pending
  <2>5. StreamLaidOut'
    <3>1. PICK at : Fits(at, transit, stream, Start, 0, ~cut)
      BY <1>2 DEF CodecInv, StreamLaidOut
    <3>2. transit \in Seq(Carried) /\ stream \in Seq(Byte)
      BY <1>0 DEF StreamOK
    <3>2a. (~cut) \in BOOLEAN
      OBVIOUS
    <3>3. \E at2 : Fits(at2, Append(transit, f), stream, Start, Total(f), ~cut)
      BY <1>2, <3>1, <3>2, <3>2a, FrameBegins
    <3> QED BY <1>1, <1>2, <2>2, <2>4, <3>3 DEF StreamLaidOut
  <2>6. StreamOK' /\ EncoderOK' /\ DecoderOK'
    <3>1. StreamOK'
      BY <1>0, <1>1, <2>3 DEF StreamOK
    <3>2. EncoderOK'
      BY <2>2, <2>3 DEF EncoderOK
    <3>3. DecoderOK'
      BY <1>0, <1>1, <2>3 DEF DecoderOK
    <3> QED BY <3>1, <3>2, <3>3
  <2> QED BY <1>3, <2>5, <2>6 DEF CodecInv
<1> QED BY <1>4, <1>5

\* Encode writes the next k bytes of the frame in hand.
LEMMA EmitLaidOut ==
    ASSUME CodecInv, encoder \in {"header", "payload"},
           NEW k \in 0 .. Pending, NEW to \in Int, to + Pending = Total(hand) + k,
           Emit(Bytes(hand, to - k + 1, to)), Pending' = Pending - k,
           UNCHANGED <<cut, transit, opened>>
    PROVE  StreamOK' /\ StreamLaidOut'
<1>0. StreamOK /\ EncoderOK
  BY DEF CodecInv
<1>1. /\ Pending \in Nat /\ Start \in Int /\ Pending <= Total(hand)
      /\ transit # << >> /\ hand = transit[Len(transit)] /\ Start' = Start
  BY <1>0, PendingRange DEF Start
<1>2. transit \in Seq(Carried) /\ stream \in Seq(Byte)
  BY <1>0 DEF StreamOK
<1>3. PICK at : Fits(at, transit, stream, Start, Pending, ~cut)
  BY DEF CodecInv, StreamLaidOut
<1>4. CASE cut
  <2>1. stream' = stream
    BY <1>4 DEF Emit
  <2>2. Fits(at, transit, stream, Start, Pending - k, FALSE)
    <3>1. at \in [0 .. Len(transit) -> Int] /\ Len(transit) \in Nat
      BY <1>2, <1>3 DEF Fits
    <3>2. PICK e \in Int : e = at[Len(transit)]
      BY <3>1
    <3>3. Len(stream) <= e - Pending /\ Len(stream) \in Nat
      BY <1>2, <1>3, <3>2 DEF Fits
    <3>4. Len(stream) <= e - (Pending - k)
      BY <1>1, <3>3
    <3> QED BY <1>3, <3>2, <3>4 DEF Fits
  <2>3. ~cut = FALSE
    BY <1>4
  <2>4. StreamLaidOut'
    BY <1>1, <1>4, <2>1, <2>2, <2>3 DEF StreamLaidOut
  <2> QED BY <1>0, <2>1, <2>4 DEF StreamOK
<1>5. CASE ~cut
  <2>1. stream' = stream \o Bytes(hand, to - k + 1, to)
    BY <1>5 DEF Emit
  <2>2. Fits(at, transit, stream, Start, Pending, TRUE)
    BY <1>3, <1>5 DEF Fits
  <2>3. /\ stream \o Bytes(hand, to - k + 1, to) \in Seq(Byte)
        /\ Fits(at, transit, stream \o Bytes(hand, to - k + 1, to), Start, Pending - k, TRUE)
    BY <1>1, <1>2, <2>2, BytesFollow
  <2>4. Fits(at, transit', stream', Start', Pending', TRUE)
    BY <1>1, <2>1, <2>3
  <2>4a. Fits(at, transit', stream', Start', Pending', ~cut')
    BY <1>5, <2>4 DEF Fits
  <2>5. StreamLaidOut'
    BY <2>4a DEF StreamLaidOut
  <2> QED BY <1>0, <2>1, <2>3, <2>5 DEF StreamOK
<1> QED BY <1>4, <1>5

LEMMA EncodesHeaderCodec ==
    ASSUME CodecInv, EncodesHeader
    PROVE  CodecInv'
<1>0. StreamOK /\ EncoderOK /\ DecoderOK
  BY DEF CodecInv
<1>1. /\ encoder = "header" /\ UNCHANGED <<cut, decoder, opened, transit, got>>
      /\ Emit(Bytes(hand, 1, HeaderLen))
  BY DEF EncodesHeader, Header
<1>2. /\ Pending = Total(hand) /\ Size[hand] \in Nat /\ Total(hand) = HeaderLen + Size[hand]
      /\ transit # << >> /\ hand = transit[Len(transit)]
  BY <1>0, <1>1, PendingRange
<1>3. EncoderOK' /\ Pending' = Size[hand]
  <2>1. CASE Size[hand] = 0
    <3>1. encoder' = "idle"
      BY <2>1 DEF EncodesHeader
    <3> QED BY <2>1, <3>1 DEF EncoderOK, Pending
  <2>2. CASE Size[hand] # 0
    <3>1. encoder' = "payload" /\ hand' = hand
      BY <2>2 DEF EncodesHeader
    <3>2. Pending' = Size[hand]
      BY <3>1 DEF Pending
    <3>3. EncoderOK'
      BY <1>1, <1>2, <2>2, <3>1 DEF EncoderOK
    <3> QED BY <3>2, <3>3
  <2> QED BY <2>1, <2>2
<1>4. StreamOK' /\ StreamLaidOut'
  <2>1. /\ HeaderLen \in 0 .. Pending /\ HeaderLen + Pending = Total(hand) + HeaderLen
        /\ Pending' = Pending - HeaderLen /\ HeaderLen - HeaderLen + 1 = 1
    BY <1>2, <1>3
  <2>2. HeaderLen \in Int
    OBVIOUS
  <2>3. Emit(Bytes(hand, HeaderLen - HeaderLen + 1, HeaderLen))
    BY <1>1, <2>1
  <2>4. UNCHANGED <<cut, transit, opened>> /\ encoder \in {"header", "payload"}
    BY <1>1
  <2> QED BY <2>1, <2>2, <2>3, <2>4, EmitLaidOut
<1>5. DecoderOK' /\ WholeFramesInOrder' /\ OnlyACutStopsDecode'
  BY <1>0, <1>1 DEF CodecInv, DecoderOK, WholeFramesInOrder, OnlyACutStopsDecode
<1> QED BY <1>3, <1>4, <1>5 DEF CodecInv

LEMMA EncodesPayloadCodec ==
    ASSUME CodecInv, EncodesPayload
    PROVE  CodecInv'
<1>0. StreamOK /\ EncoderOK /\ DecoderOK
  BY DEF CodecInv
<1>1. /\ encoder = "payload" /\ UNCHANGED <<cut, decoder, opened, transit, got>>
      /\ Emit(Bytes(hand, HeaderLen + 1, HeaderLen + Size[hand]))
      /\ encoder' = "idle"
  BY DEF EncodesPayload, Payload
<1>2. Pending = Size[hand] /\ Size[hand] \in Nat /\ Total(hand) = HeaderLen + Size[hand]
  BY <1>0, <1>1, PendingRange
<1>3. EncoderOK' /\ Pending' = 0
  BY <1>1 DEF EncoderOK, Pending
<1>4. StreamOK' /\ StreamLaidOut'
  <2>1. PICK k \in 0 .. Pending : k = Size[hand]
    BY <1>2
  <2>2. PICK to \in Int : to = HeaderLen + k
    BY <1>2, <2>1
  <2>3. /\ to + Pending = Total(hand) + k /\ Pending' = Pending - k
        /\ to - k + 1 = HeaderLen + 1
    BY <1>2, <1>3, <2>1, <2>2
  <2>4. Emit(Bytes(hand, to - k + 1, to))
    BY <1>1, <2>1, <2>2, <2>3
  <2>5. UNCHANGED <<cut, transit, opened>> /\ encoder \in {"header", "payload"}
    BY <1>1
  <2> QED BY <2>3, <2>4, <2>5, EmitLaidOut
<1>5. DecoderOK' /\ WholeFramesInOrder' /\ OnlyACutStopsDecode'
  BY <1>0, <1>1 DEF CodecInv, DecoderOK, WholeFramesInOrder, OnlyACutStopsDecode
<1> QED BY <1>3, <1>4, <1>5 DEF CodecInv

\* A write that fails, and the cut itself, only take bytes away.
LEMMA EncodeFailsCodec ==
    ASSUME CodecInv, EncodeFails
    PROVE  CodecInv'
<1>0. StreamOK /\ EncoderOK /\ DecoderOK
  BY DEF CodecInv
<1>1. cut /\ encoder' = "failed" /\ UNCHANGED <<stream, cut, decoder, opened, transit, got>>
  BY DEF EncodeFails
<1>2. Pending \in Nat /\ Pending' = 0 /\ Start' = Start /\ Start \in Int
  BY <1>0, <1>1, PendingRange DEF Pending, Start
<1>3. PICK at : Fits(at, transit, stream, Start, Pending, ~cut)
  BY DEF CodecInv, StreamLaidOut
<1>4. Fits(at, transit, stream, Start, 0, ~cut)
  <2>1. at \in [0 .. Len(transit) -> Int] /\ Len(transit) \in Nat /\ Len(stream) \in Nat
    BY <1>0, <1>3 DEF Fits, StreamOK
  <2>2. PICK e \in Int : e = at[Len(transit)]
    BY <2>1
  <2>3. Len(stream) <= e - Pending
    BY <1>3, <2>2 DEF Fits
  <2>4. Len(stream) <= e - 0
    BY <1>2, <2>1, <2>3
  <2> QED BY <1>1, <1>3, <2>2, <2>4 DEF Fits
<1>5. StreamLaidOut'
  BY <1>1, <1>2, <1>4 DEF StreamLaidOut
<1>6. StreamOK' /\ EncoderOK' /\ DecoderOK' /\ WholeFramesInOrder' /\ OnlyACutStopsDecode'
  BY <1>0, <1>1
  DEF CodecInv, StreamOK, EncoderOK, DecoderOK, WholeFramesInOrder, OnlyACutStopsDecode
<1> QED BY <1>5, <1>6 DEF CodecInv

LEMMA CutCodec ==
    ASSUME CodecInv, Cut
    PROVE  CodecInv'
<1>0. StreamOK /\ EncoderOK /\ DecoderOK
  BY DEF CodecInv
<1>1. cut' = TRUE /\ UNCHANGED <<encoder, hand, decoder, opened, transit, got>>
  BY DEF Cut
<1>2. PICK n \in 0 .. Len(stream) : stream' = SubSeq(stream, 1, n)
  BY DEF Cut
<1>3. /\ stream \in Seq(Byte) /\ transit \in Seq(Carried) /\ Len(stream) \in Nat
      /\ Pending \in Nat /\ Start \in Int /\ Pending' = Pending /\ Start' = Start
  BY <1>0, <1>1, PendingRange DEF StreamOK, Pending, Start
<1>4. stream' \in Seq(Byte)
  <2>1. \A i \in 1 .. n : i \in 1 .. Len(stream)
    BY <1>3
  <2>2. 1 \in Int /\ n \in Int
    BY <1>3
  <2> HIDE DEF Byte
  <2>3. \A i \in 1 .. n : stream[i] \in Byte
    BY <1>3, <2>1, ElementOfSeq
  <2> QED BY <1>2, <2>2, <2>3, SubSeqProperties
<1>5. StreamLaidOut'
  <2>1. PICK at : Fits(at, transit, stream, Start, Pending, ~cut)
    BY DEF CodecInv, StreamLaidOut
  <2>2. (~cut) \in BOOLEAN
    OBVIOUS
  <2>3. Fits(at, transit, SubSeq(stream, 1, n), Start, Pending, FALSE)
    BY <1>3, <2>1, <2>2, BytesAreCut
  <2>4. Fits(at, transit', stream', Start', Pending', ~cut')
    BY <1>1, <1>2, <1>3, <2>3
  <2> QED BY <2>4 DEF StreamLaidOut
<1>6. StreamOK' /\ EncoderOK' /\ DecoderOK' /\ WholeFramesInOrder' /\ OnlyACutStopsDecode'
  BY <1>0, <1>1, <1>4
  DEF CodecInv, StreamOK, EncoderOK, DecoderOK, WholeFramesInOrder, OnlyACutStopsDecode
<1> QED BY <1>5, <1>6 DEF CodecInv

\* What the first n bytes are, when they are all of the frame at the front; and
\* if that frame is still being written, that they are not all there.
LEMMA FrontBytes ==
    ASSUME NEW tr \in Seq(Carried), NEW st \in Seq(Byte), NEW n \in 1 .. Len(st),
           NEW at, NEW start \in Int, start <= 0, NEW left \in Nat, NEW whole \in BOOLEAN,
           Fits(at, tr, st, start, left, whole)
    PROVE  /\ tr # << >> /\ Len(tr) \in Nat \ {0} /\ tr[1] \in Carried
           /\ Len(tr) = 1 => n + left <= start + Total(tr[1])
           /\ at[1] = start + Total(tr[1])
           /\ n - start <= Total(tr[1]) =>
                /\ SubSeq(st, 1, n) = Bytes(tr[1], 1 - start, n - start)
                /\ st[1].frame = tr[1]
<1>1. /\ Len(tr) \in Nat /\ Len(st) \in Nat /\ n \in Nat \ {0} /\ n <= Len(st)
      /\ at \in [0 .. Len(tr) -> Int] /\ at[0] = start
      /\ Len(st) <= at[Len(tr)] - left
  BY DEF Fits
<1>2. Len(tr) # 0
  <2> SUFFICES ASSUME Len(tr) = 0 PROVE FALSE
    OBVIOUS
  <2>1. Len(st) <= start - left
    BY <1>1
  <2> QED BY <2>1, <1>1
<1>3. 1 \in 1 .. Len(tr) /\ 1 - 1 = 0
  BY <1>1, <1>2
<1>4. tr # << >> /\ tr[1] \in Carried
  <2>1. tr # << >>
    BY <1>2, EmptySeq
  <2> HIDE DEF Carried
  <2> QED BY <2>1, <1>3, ElementOfSeq
<1>5. PICK size \in Nat : size = Total(tr[1])
  BY <1>4, TotalBytes
<1>6. at[1] = start + size
  <2>1. at[1] = at[0] + Total(tr[1])
    BY <1>3 DEF Fits
  <2> QED BY <2>1, <1>1, <1>5
<1>7. Len(tr) = 1 => n + left <= start + size
  BY <1>1, <1>6
<1>8. ASSUME n - start <= size
      PROVE  /\ SubSeq(st, 1, n) = Bytes(tr[1], 1 - start, n - start)
             /\ st[1].frame = tr[1]
  <2>1. ASSUME NEW j \in 1 .. n
        PROVE  st[j] = [frame |-> tr[1], place |-> j - start]
    <3>1. j - start \in 1 .. size /\ j \in 1 .. Len(st)
      BY <1>1, <1>8
    <3>2. PICK p \in 1 .. Total(tr[1]) : p = j - start
      BY <3>1, <1>5
    <3>3. at[1 - 1] + p = j
      BY <3>1, <3>2, <1>1, <1>3
    <3>4. st[at[1 - 1] + p] = [frame |-> tr[1], place |-> p]
      BY <3>1, <3>3, <1>3 DEF Fits
    <3> QED BY <3>2, <3>3, <3>4
  <2>2. /\ SubSeq(st, 1, n) \in Seq(Byte) /\ Len(SubSeq(st, 1, n)) = n
        /\ \A j \in 1 .. n : SubSeq(st, 1, n)[j] = st[j]
    <3>1. \A j \in 1 .. n : st[j] \in Byte
      <4> SUFFICES ASSUME NEW j \in 1 .. n PROVE st[j] \in Byte
        OBVIOUS
      <4>1. j \in 1 .. Len(st)
        BY <1>1
      <4> QED BY <4>1, ElementOfSeq
    <3>2. 1 \in Int /\ n \in Int
      BY <1>1
    <3>3. /\ SubSeq(st, 1, n) \in Seq(Byte)
          /\ Len(SubSeq(st, 1, n)) = IF 1 <= n THEN n - 1 + 1 ELSE 0
          /\ \A j \in 1 .. n - 1 + 1 : SubSeq(st, 1, n)[j] = st[1 + j - 1]
      <4> HIDE DEF Byte
      <4> QED BY <3>1, <3>2, SubSeqProperties
    <3>4. n - 1 + 1 = n /\ \A j \in 1 .. n : 1 + j - 1 = j
      BY <1>1
    <3> QED BY <3>3, <3>4, <1>1
  <2>3. Bytes(tr[1], 1 - start, n - start)
          = [j \in 1 .. n |-> [frame |-> tr[1], place |-> j - start]]
    <3>1. (n - start) - (1 - start) + 1 = n
      BY <1>1
    <3>2. \A j \in 1 .. n : (1 - start) + j - 1 = j - start
      BY <1>1
    <3> QED BY <3>1, <3>2 DEF Bytes
  <2>4. SubSeq(st, 1, n) = [j \in 1 .. n |-> st[j]]
    <3>1. DOMAIN SubSeq(st, 1, n) = 1 .. n
      BY <2>2, LenProperties
    <3>2. SubSeq(st, 1, n) = [j \in DOMAIN SubSeq(st, 1, n) |-> SubSeq(st, 1, n)[j]]
      BY <2>2, LenProperties
    <3> QED BY <2>2, <3>1, <3>2
  <2>5. SubSeq(st, 1, n) = Bytes(tr[1], 1 - start, n - start)
    BY <2>1, <2>3, <2>4
  <2>6. st[1].frame = tr[1]
    <3>1. 1 \in 1 .. n
      BY <1>1
    <3>2. st[1] = [frame |-> tr[1], place |-> 1 - start]
      BY <2>1, <3>1
    <3> QED BY <3>2
  <2> QED BY <2>5, <2>6
<1> QED BY <1>1, <1>2, <1>4, <1>5, <1>6, <1>7, <1>8

\* Decode reads n bytes; k frames are done with them.
LEMMA ReadLaidOut ==
    ASSUME CodecInv, NEW n \in 0 .. Len(stream), Drop(n), NEW k \in {0, 1},
           k <= Len(transit), transit' = IF k = 0 THEN transit ELSE Tail(transit),
           \A at : Fits(at, transit, stream, Start, Pending, ~cut) => Start' = at[k] - n,
           UNCHANGED <<encoder, hand, cut>>
    PROVE  StreamOK' /\ StreamLaidOut'
<1>0. StreamOK /\ EncoderOK
  BY DEF CodecInv
<1>1. /\ stream \in Seq(Byte) /\ transit \in Seq(Carried)
      /\ Len(stream) \in Nat /\ Len(transit) \in Nat
      /\ Pending \in Nat /\ Start \in Int /\ Pending' = Pending
  BY <1>0, PendingRange DEF StreamOK, Pending
<1>2. stream' \in Seq(Byte)
  <2>1. \A i \in n + 1 .. Len(stream) : i \in 1 .. Len(stream)
    BY <1>1
  <2>2. n + 1 \in Int /\ Len(stream) \in Int
    BY <1>1
  <2> HIDE DEF Byte
  <2>3. \A i \in n + 1 .. Len(stream) : stream[i] \in Byte
    BY <1>1, <2>1, ElementOfSeq
  <2> QED BY <2>2, <2>3, SubSeqProperties DEF Drop
<1>3. /\ transit' \in Seq(Carried) /\ Len(transit') = Len(transit) - k
      /\ \A i \in 1 .. Len(transit') : transit'[i] = transit[i + k]
  <2> HIDE DEF Carried
  <2>1. CASE k = 0
    BY <1>1, <2>1
  <2>2. CASE k = 1
    <3>1. transit # << >>
      BY <1>1, <2>2, EmptySeq
    <3> QED BY <1>1, <2>2, <3>1, HeadTailProperties
  <2> QED BY <2>1, <2>2
<1>4. PICK at : Fits(at, transit, stream, Start, Pending, ~cut)
  BY DEF CodecInv, StreamLaidOut
<1>5. (~cut) \in BOOLEAN /\ k \in Nat
  OBVIOUS
<1>6. \E at2 : Fits(at2, transit', SubSeq(stream, n + 1, Len(stream)), at[k] - n, Pending, ~cut)
  <2>1. PICK tr2 \in Seq(Carried) : tr2 = transit'
    BY <1>3
  <2>2. k <= Len(transit) /\ Len(tr2) = Len(transit) - k
    BY <1>3, <2>1
  <2>3. \A i \in 1 .. Len(tr2) : tr2[i] = transit[i + k]
    BY <1>3, <2>1
  <2>4. \E at2 : Fits(at2, tr2, SubSeq(stream, n + 1, Len(stream)), at[k] - n, Pending, ~cut)
    BY <1>1, <1>4, <1>5, <2>2, <2>3, BytesAreRead
  <2> QED BY <2>1, <2>4
<1>7. Start' = at[k] - n /\ stream' = SubSeq(stream, n + 1, Len(stream))
  BY <1>4 DEF Drop
<1>8. StreamLaidOut'
  BY <1>1, <1>6, <1>7 DEF StreamLaidOut
<1> QED BY <1>0, <1>2, <1>3, <1>8 DEF StreamOK

\* Decode returns the frame at the front after its last n bytes.
LEMMA FrameDone ==
    ASSUME CodecInv, NEW n \in 1 .. Len(stream), Drop(n), transit # << >>,
           n = Start + Total(transit[1]), Start <= 0,
           Return(transit[1]), UNCHANGED <<encoder, hand, cut>>
    PROVE  CodecInv'
<1>0. StreamOK /\ EncoderOK /\ DecoderOK
  BY DEF CodecInv
<1>1. /\ stream \in Seq(Byte) /\ transit \in Seq(Carried) /\ Len(stream) \in Nat
      /\ Pending \in Nat /\ Start \in Int
  BY <1>0, PendingRange DEF StreamOK
<1>2. /\ transit' = Tail(transit) /\ got' = <<transit[1], transit[1]>>
      /\ decoder' = "header" /\ opened' = NoFrame
  BY DEF Return
<1>3. PICK at : Fits(at, transit, stream, Start, Pending, ~cut)
  BY DEF CodecInv, StreamLaidOut
<1>4. (~cut) \in BOOLEAN
  OBVIOUS
<1>5. /\ Len(transit) \in Nat \ {0} /\ transit[1] \in Carried
      /\ Len(transit) = 1 => n + Pending <= Start + Total(transit[1])
  BY <1>1, <1>3, <1>4, FrontBytes
<1>6. ASSUME NEW a, Fits(a, transit, stream, Start, Pending, ~cut)
      PROVE  a[1] - n = 0
  <2>1. a[1] = Start + Total(transit[1])
    <3>1. 1 \in 1 .. Len(transit) /\ 1 - 1 = 0
      BY <1>5
    <3>2. a[0] = Start /\ a[1] = a[1 - 1] + Total(transit[1])
      BY <1>6, <3>1 DEF Fits
    <3> QED BY <3>1, <3>2
  <2>2. a[1] = n /\ n \in Int
    BY <2>1
  <2> QED BY <2>2
<1>7. Start' = 0
  BY <1>2 DEF Start
<1>8. StreamOK' /\ StreamLaidOut'
  <2>1. PICK k \in {0, 1} : k = 1
    OBVIOUS
  <2>2. n \in 0 .. Len(stream) /\ k <= Len(transit)
    BY <1>1, <1>5, <2>1
  <2>3. transit' = IF k = 0 THEN transit ELSE Tail(transit)
    BY <1>2, <2>1
  <2>4. \A a : Fits(a, transit, stream, Start, Pending, ~cut) => Start' = a[k] - n
    BY <1>6, <1>7, <2>1
  <2> QED BY <2>2, <2>3, <2>4, ReadLaidOut
<1>9. EncoderOK'
  <2>1. CASE encoder \notin {"header", "payload"}
    BY <1>0, <2>1 DEF EncoderOK
  <2>2. CASE encoder \in {"header", "payload"}
    <3>1. Pending > 0 /\ hand = transit[Len(transit)]
      BY <1>0, <2>2, PendingRange
    <3>2. Len(transit) # 1
      BY <1>1, <1>5, <3>1
    <3>3. /\ Len(transit') = Len(transit) - 1 /\ Len(transit') \in Nat \ {0}
          /\ transit'[Len(transit')] = transit[Len(transit)]
      <4>1. /\ Len(transit') = Len(transit) - 1
            /\ \A i \in 1 .. Len(transit') : transit'[i] = transit[i + 1]
        <5> HIDE DEF Carried
        <5> QED BY <1>1, <1>2, HeadTailProperties
      <4>2. Len(transit') \in 1 .. Len(transit') /\ Len(transit') + 1 = Len(transit)
        BY <4>1, <1>5, <3>2
      <4> QED BY <4>1, <4>2
    <3>4. transit' # << >>
      BY <3>3
    <3> QED BY <1>0, <2>2, <3>1, <3>3, <3>4 DEF EncoderOK
  <2> QED BY <2>1, <2>2
<1>10. DecoderOK' /\ WholeFramesInOrder' /\ OnlyACutStopsDecode'
  BY <1>2 DEF DecoderOK, WholeFramesInOrder, OnlyACutStopsDecode
<1> QED BY <1>8, <1>9, <1>10 DEF CodecInv

\* When there is a header to read, a frame is under way.
LEMMA HeaderIsOfAFrame ==
    ASSUME CodecInv, DecodesHeader
    PROVE  transit # << >>
<1>0. StreamOK /\ EncoderOK /\ DecoderOK
  BY DEF CodecInv
<1>1. /\ decoder = "header" /\ HeaderLen \in 1 .. Len(stream)
      /\ stream \in Seq(Byte) /\ transit \in Seq(Carried) /\ Len(stream) \in Nat
      /\ Pending \in Nat
  BY <1>0, PendingRange DEF DecodesHeader, StreamOK, HasHeader
<1>2. opened = NoFrame /\ Start = 0
  BY <1>0, <1>1 DEF DecoderOK, Start
<1>3. PICK at : Fits(at, transit, stream, 0, Pending, ~cut)
  BY <1>2 DEF CodecInv, StreamLaidOut
<1>4. (~cut) \in BOOLEAN /\ 0 \in Int /\ 0 <= 0
  OBVIOUS
<1> QED BY <1>1, <1>3, <1>4, FrontBytes

LEMMA DecodesHeaderCodec ==
    ASSUME CodecInv, DecodesHeader
    PROVE  CodecInv'
<1>0. StreamOK /\ EncoderOK /\ DecoderOK
  BY DEF CodecInv
<1>1. /\ decoder = "header" /\ Drop(HeaderLen) /\ UNCHANGED <<encoder, hand, cut>>
      /\ HeaderLen \in 1 .. Len(stream)
      /\ stream \in Seq(Byte) /\ transit \in Seq(Carried) /\ Len(stream) \in Nat
      /\ Pending \in Nat
  BY <1>0, PendingRange DEF DecodesHeader, StreamOK, HasHeader
<1>2. opened = NoFrame /\ Start = 0
  BY <1>0, <1>1 DEF DecoderOK, Start
<1>3. PICK at : Fits(at, transit, stream, 0, Pending, ~cut)
  BY <1>2 DEF CodecInv, StreamLaidOut
<1>4. (~cut) \in BOOLEAN /\ 0 \in Int /\ 0 <= 0
  OBVIOUS
<1>5. /\ transit # << >> /\ Len(transit) \in Nat \ {0} /\ transit[1] \in Carried
      /\ HeaderLen - 0 <= Total(transit[1]) =>
           /\ SubSeq(stream, 1, HeaderLen) = Bytes(transit[1], 1 - 0, HeaderLen - 0)
           /\ stream[1].frame = transit[1]
  BY <1>1, <1>3, <1>4, FrontBytes
<1>6. /\ Size[transit[1]] \in Nat /\ Total(transit[1]) = HeaderLen + Size[transit[1]]
      /\ transit[1] \in Known /\ Size[transit[1]] <= MaxPayload
      /\ transit[1] \in Frames
  BY <1>5, TotalBytes DEF Carried
<1>7. stream[1].frame = transit[1] /\ SubSeq(stream, 1, HeaderLen) = Header(transit[1])
  <2>1. HeaderLen - 0 <= Total(transit[1]) /\ 1 - 0 = 1 /\ HeaderLen - 0 = HeaderLen
    BY <1>6
  <2> QED BY <1>5, <2>1 DEF Header
<1>8. GoodHeader
  BY <1>6, <1>7 DEF GoodHeader, DecodesHeader
<1>9. CASE Size[transit[1]] = 0
  <2>1. Return(transit[1])
    BY <1>7, <1>8, <1>9 DEF DecodesHeader
  <2>2. HeaderLen = Start + Total(transit[1]) /\ Start <= 0
    BY <1>2, <1>6, <1>9
  <2> QED BY <1>1, <1>5, <2>1, <2>2, FrameDone
<1>10. CASE Size[transit[1]] # 0
  <2>1. decoder' = "payload" /\ opened' = transit[1] /\ UNCHANGED <<transit, got>>
    BY <1>7, <1>8, <1>10 DEF DecodesHeader
  <2>2. Start' = -HeaderLen
    BY <1>6, <2>1, NoFrameAssumption DEF Start
  <2>3. StreamOK' /\ StreamLaidOut'
    <3>1. PICK k \in {0, 1} : k = 0
      OBVIOUS
    <3>2. HeaderLen \in 0 .. Len(stream) /\ k <= Len(transit)
      BY <1>1, <1>5, <3>1
    <3>3. ASSUME NEW a, Fits(a, transit, stream, Start, Pending, ~cut)
          PROVE  Start' = a[k] - HeaderLen
      <4>1. a[0] = 0
        BY <1>2, <3>3 DEF Fits
      <4> QED BY <2>2, <3>1, <4>1
    <3>4. transit' = IF k = 0 THEN transit ELSE Tail(transit)
      BY <2>1, <3>1
    <3> QED BY <1>1, <3>2, <3>3, <3>4, ReadLaidOut
  <2>4. EncoderOK' /\ DecoderOK'
    <3>1. EncoderOK'
      BY <1>0, <1>1, <2>1 DEF EncoderOK
    <3>2. DecoderOK'
      BY <1>5, <1>6, <1>10, <2>1, NoFrameAssumption DEF DecoderOK
    <3> QED BY <3>1, <3>2
  <2>5. WholeFramesInOrder' /\ OnlyACutStopsDecode'
    BY <2>1 DEF CodecInv, WholeFramesInOrder, OnlyACutStopsDecode
  <2> QED BY <2>3, <2>4, <2>5 DEF CodecInv
<1> QED BY <1>9, <1>10

LEMMA DecodesPayloadCodec ==
    ASSUME CodecInv, DecodesPayload
    PROVE  CodecInv'
<1>0. StreamOK /\ EncoderOK /\ DecoderOK
  BY DEF CodecInv
<1>1. /\ decoder = "payload" /\ Drop(Size[opened]) /\ UNCHANGED <<encoder, hand, cut>>
      /\ Size[opened] <= Len(stream)
      /\ stream \in Seq(Byte) /\ transit \in Seq(Carried) /\ Len(stream) \in Nat
      /\ Pending \in Nat
  BY <1>0, PendingRange DEF DecodesPayload, StreamOK, HasPayload
<1>2. /\ opened # NoFrame /\ Start = -HeaderLen /\ transit # << >>
      /\ opened = transit[1] /\ Size[opened] > 0
  BY <1>0, <1>1 DEF DecoderOK, Start
<1>3. PICK at : Fits(at, transit, stream, Start, Pending, ~cut)
  BY DEF CodecInv, StreamLaidOut
<1>4. (~cut) \in BOOLEAN /\ Start \in Int /\ Start <= 0
  <2>1. (~cut) \in BOOLEAN
    OBVIOUS
  <2> QED BY <2>1, <1>2
<1>5. transit[1] \in Carried
  <2>1. 1 \in 1 .. Len(transit)
    BY <1>1, <1>2, EmptySeq
  <2> HIDE DEF Carried
  <2> QED BY <1>1, <2>1, ElementOfSeq
<1>6. Size[opened] \in Nat /\ Total(transit[1]) = HeaderLen + Size[opened]
  BY <1>2, <1>5, TotalBytes
<1>7. PICK n \in 1 .. Len(stream) : n = Size[opened]
  BY <1>1, <1>2, <1>6
<1>8. SubSeq(stream, 1, n) = Payload(opened)
  <2>1. /\ n - Start <= Total(transit[1])
        /\ 1 - Start = HeaderLen + 1 /\ n - Start = HeaderLen + Size[opened]
    BY <1>2, <1>6, <1>7
  <2>2. SubSeq(stream, 1, n) = Bytes(transit[1], 1 - Start, n - Start)
    BY <1>1, <1>3, <1>4, <2>1, FrontBytes
  <2> QED BY <1>2, <2>1, <2>2 DEF Payload
<1>9. Return(transit[1])
  BY <1>2, <1>7, <1>8 DEF DecodesPayload
<1>10. Drop(n) /\ n = Start + Total(transit[1])
  BY <1>1, <1>2, <1>6, <1>7
<1> QED BY <1>1, <1>2, <1>4, <1>9, <1>10, FrameDone

LEMMA DecodeFailsCodec ==
    ASSUME CodecInv, DecodeFails
    PROVE  CodecInv'
<1>1. /\ cut /\ decoder' = "failed"
      /\ UNCHANGED <<encoder, hand, stream, cut, opened, transit, got>>
  BY DEF DecodeFails
<1>2. StreamLaidOut'
  BY <1>1 DEF CodecInv, StreamLaidOut, Pending, Start
<1>3. StreamOK' /\ EncoderOK' /\ DecoderOK' /\ WholeFramesInOrder' /\ OnlyACutStopsDecode'
  BY <1>1
  DEF CodecInv, StreamOK, EncoderOK, DecoderOK, WholeFramesInOrder, OnlyACutStopsDecode
<1> QED BY <1>2, <1>3 DEF CodecInv

\* The calls on the queue alone.
LEMMA QueueCallCodec ==
    ASSUME CodecInv, UNCHANGED streamVars
    PROVE  CodecInv'
<1>1. UNCHANGED <<encoder, hand, stream, cut, decoder, opened, transit, got>>
  BY DEF streamVars
<1>2. StreamLaidOut'
  BY <1>1 DEF CodecInv, StreamLaidOut, Pending, Start
<1>3. StreamOK' /\ EncoderOK' /\ DecoderOK' /\ WholeFramesInOrder' /\ OnlyACutStopsDecode'
  BY <1>1
  DEF CodecInv, StreamOK, EncoderOK, DecoderOK, WholeFramesInOrder, OnlyACutStopsDecode
<1> QED BY <1>2, <1>3 DEF CodecInv

LEMMA CodecInvariant == StreamSpec => []CodecInv
<1>1. CodecInv /\ [StreamNext]_<<queueVars, streamVars>> => CodecInv'
  <2> SUFFICES ASSUME CodecInv, [StreamNext]_<<queueVars, streamVars>> PROVE CodecInv'
    OBVIOUS
  <2>1. CASE Push \/ PopsNothing \/ UNCHANGED <<queueVars, streamVars>>
    <3>1. UNCHANGED streamVars
      BY <2>1 DEF Push, PopsNothing
    <3> QED BY <3>1, QueueCallCodec
  <2>2. CASE Pops
    BY <2>2, PopsCodec
  <2>3. CASE EncodesHeader
    BY <2>3, EncodesHeaderCodec
  <2>4. CASE EncodesPayload
    BY <2>4, EncodesPayloadCodec
  <2>5. CASE EncodeFails
    BY <2>5, EncodeFailsCodec
  <2>6. CASE Cut
    BY <2>6, CutCodec
  <2>7. CASE DecodesHeader
    BY <2>7, DecodesHeaderCodec
  <2>8. CASE DecodesPayload
    BY <2>8, DecodesPayloadCodec
  <2>9. CASE DecodeFails
    BY <2>9, DecodeFailsCodec
  <2> QED BY <2>1, <2>2, <2>3, <2>4, <2>5, <2>6, <2>7, <2>8, <2>9 DEF StreamNext
<1> QED BY CodecInit, <1>1, PTL DEF StreamSpec

\* For every header length, every payload length and wherever the stream is cut:
\* what Decode returns is the frame Encode was given next, whole
\* (frame.go:52-66 and 92-95).
THEOREM FramesComeWhole == StreamSpec => []WholeFramesInOrder
<1>1. CodecInv => WholeFramesInOrder
  BY DEF CodecInv
<1> QED BY CodecInvariant, <1>1, PTL

\* Decode accepts every header Encode writes, so that only the end of the stream
\* stops it (frame.go:34-42 and 76-88).
THEOREM OnlyCutsStopIt == StreamSpec => []OnlyACutStopsDecode
<1>1. CodecInv => OnlyACutStopsDecode
  BY DEF CodecInv
<1> QED BY CodecInvariant, <1>1, PTL

\* What is proved of the ring holds of the ring inside the stream: every step of
\* Encode, of Decode and of their callers is a call on the queue or leaves it
\* alone (queue.go:21-47).
THEOREM StreamRunsQueue == StreamSpec => Spec
<1>1. StreamInit => Init
  BY DEF StreamInit
<1>2. [StreamNext]_<<queueVars, streamVars>> => [Next]_vars
  BY DEF StreamNext, Push, PopsNothing, Pops, EncodesHeader, EncodesPayload, EncodeFails, Cut,
     DecodesHeader, DecodesPayload, DecodeFails, queueVars, Next
<1> QED BY <1>1, <1>2, PTL DEF StreamSpec, Spec

-----------------------------------------------------------------------------
(* The way of a frame is a FIFO of whole frames *)

\* A push, in the terms of FrameLink (queue.go:21-32).
LEMMA PushIsLinked ==
    ASSUME Inv, Inv', Push
    PROVE  Link!Pushes
<1>1. PICK f \in Frames : PushAccepted(f) \/ PushRejected(f)
  BY DEF Push
<1>2. Link!Enqueue(f) \/ Link!Refuse(f)
  BY <1>1, PushRefines
  DEF Abstract!Enqueue, Abstract!Refuse, Abstract!Fits, Link!Enqueue, Link!Refuse, Link!Fits
<1>3. UNCHANGED <<encoder, hand, stream, cut, decoder, opened, transit, got>>
  BY DEF Push, streamVars
<1>4. UNCHANGED Link!wireVars
  BY <1>3 DEF Link!wireVars
<1> QED BY <1>2, <1>4 DEF Link!Pushes

\* A pop, and what Encode makes of the frame (queue.go:34-47, frame.go:27-42).
LEMMA PopIsLinked ==
    ASSUME Inv, Inv', PopsNothing \/ Pops
    PROVE  Link!SendsNothing \/ Link!Sends \/ Link!Refuses
<1>1. CASE PopsNothing
  <2>1. Link!DequeueNone
    BY <1>1, PopRefines DEF PopsNothing, Abstract!DequeueNone, Link!DequeueNone
  <2>2. UNCHANGED <<encoder, hand, stream, cut, decoder, opened, transit, got>> /\ encoder = "idle"
    BY <1>1 DEF PopsNothing, streamVars
  <2>3. UNCHANGED Link!wireVars
    BY <2>2 DEF Link!wireVars
  <2> QED BY <2>1, <2>2, <2>3 DEF Link!SendsNothing
<1>2. CASE Pops
  <2>1. Link!Dequeue /\ Head(Queue) = items[head]
    BY <1>2, PopRefines DEF Pops, Abstract!Dequeue, Link!Dequeue
  <2>2. encoder = "idle" /\ UNCHANGED <<cut, decoder, got>>
    BY <1>2 DEF Pops
  <2>3. Queue \in Seq(Frames) /\ Queue # << >>
    BY <2>1, QueueIsSeq DEF Link!Dequeue
  <2>4. PICK f \in Frames : f = items[head] /\ f = Head(Queue)
    <3> HIDE DEF Queue
    <3> QED BY <2>1, <2>3
  <2>5. Encodable(f) <=> f \in Carried
    BY DEF Encodable, Carried
  <2>6. CASE Encodable(f)
    <3>1. encoder' = "header" /\ transit' = Append(transit, f)
      BY <1>2, <2>4, <2>6 DEF Pops
    <3>2. Link!Sends
      <4> HIDE DEF Queue
      <4> QED BY <2>1, <2>2, <2>4, <2>5, <2>6, <3>1 DEF Link!Sends, Carried
    <3> QED BY <3>2
  <2>7. CASE ~Encodable(f)
    <3>1. encoder' = "failed" /\ transit' = transit
      BY <1>2, <2>4, <2>7 DEF Pops
    <3>2. Link!Refuses
      <4> HIDE DEF Queue
      <4> QED BY <2>1, <2>2, <2>4, <2>5, <2>7, <3>1 DEF Link!Refuses, Carried
    <3> QED BY <3>2
  <2> QED BY <2>6, <2>7
<1> QED BY <1>1, <1>2

\* Encode's writes are not seen; its failure is (frame.go:52-60).
LEMMA EncodeIsLinked ==
    ASSUME EncodesHeader \/ EncodesPayload \/ EncodeFails
    PROVE  Link!SendFails \/ UNCHANGED <<Link!fifoVars, Link!wireVars>>
<1>1. UNCHANGED <<items, head, count, queuedByte, ret, cut, decoder, transit, got>>
  BY DEF EncodesHeader, EncodesPayload, EncodeFails, queueVars, vars
<1>2. UNCHANGED Link!fifoVars
  BY <1>1 DEF Link!fifoVars, Link!vars, Queue
<1>3. CASE EncodeFails
  <2>1. cut /\ encoder # "failed" /\ encoder' = "failed"
    BY <1>3 DEF EncodeFails
  <2> QED BY <1>1, <1>2, <2>1 DEF Link!SendFails
<1>4. CASE EncodesHeader \/ EncodesPayload
  <2>1. encoder # "failed" /\ encoder' # "failed"
    BY <1>4 DEF EncodesHeader, EncodesPayload
  <2> QED BY <1>1, <1>2, <2>1 DEF Link!wireVars
<1> QED BY <1>3, <1>4

\* A cut breaks the link.
LEMMA CutIsLinked ==
    ASSUME Cut
    PROVE  Link!Breaks
<1>1. /\ UNCHANGED <<items, head, count, queuedByte, ret, encoder, decoder, transit, got>>
      /\ ~cut /\ cut' = TRUE
  BY DEF Cut, queueVars, vars
<1>2. UNCHANGED Link!fifoVars
  BY <1>1 DEF Link!fifoVars, Link!vars, Queue
<1> QED BY <1>1, <1>2 DEF Link!Breaks

\* Decode returns the frame at the front, or reads on, or fails after a cut
\* (frame.go:63-96).
LEMMA DecodeIsLinked ==
    ASSUME CodecInv, CodecInv', DecodesHeader \/ DecodesPayload \/ DecodeFails
    PROVE  \/ Link!Arrives \/ Link!ReceiveFails
           \/ UNCHANGED <<Link!fifoVars, Link!wireVars>>
<1>1. UNCHANGED <<items, head, count, queuedByte, ret, encoder, cut>> /\ decoder # "failed"
  BY DEF DecodesHeader, DecodesPayload, DecodeFails, queueVars, vars
<1>2. UNCHANGED Link!fifoVars
  BY <1>1 DEF Link!fifoVars, Link!vars, Queue
<1>3. CASE \E f : Return(f)
  <2>1. PICK f : Return(f)
    BY <1>3
  <2>2. got' = <<f, Head(transit)>> /\ transit' = Tail(transit) /\ decoder' = "header"
    BY <2>1 DEF Return
  <2>3. got'[1] = Head(transit)
    BY <2>2 DEF CodecInv, WholeFramesInOrder
  <2>4. transit # << >>
    <3>1. CASE DecodesHeader
      BY <3>1, HeaderIsOfAFrame
    <3>2. CASE DecodesPayload
      BY <3>2 DEF DecodesPayload, CodecInv, DecoderOK
    <3>3. CASE DecodeFails
      BY <2>2, <3>3 DEF DecodeFails
    <3> QED BY <3>1, <3>2, <3>3
  <2> QED BY <1>1, <1>2, <2>2, <2>3, <2>4 DEF Link!Arrives
<1>4. CASE ~(\E f : Return(f)) /\ decoder' = "failed"
  <2>1. cut /\ UNCHANGED <<transit, got>>
    BY <1>1, <1>4
    DEF DecodesHeader, DecodesPayload, DecodeFails, CodecInv, OnlyACutStopsDecode
  <2> QED BY <1>1, <1>2, <1>4, <2>1 DEF Link!ReceiveFails
<1>5. CASE ~(\E f : Return(f)) /\ decoder' # "failed"
  <2>1. UNCHANGED <<transit, got>>
    BY <1>5 DEF DecodesHeader, DecodesPayload, DecodeFails
  <2> QED BY <1>1, <1>2, <1>5, <2>1 DEF Link!wireVars
<1> QED BY <1>3, <1>4, <1>5

\* For every capacity, byte bound, set of frames and sizes, every header length
\* and limit of a payload, and wherever the stream is cut: queue, Encode, stream
\* and Decode are a bounded queue and a FIFO of whole frames that nothing but a
\* cut and a frame Encode refuses can stop (queue.go:21-47, frame.go:27-96).
THEOREM StreamImplementsLink == StreamSpec => ImplementsFrameLink
<1>1. StreamInit => Inv /\ Link!LinkInit
  <2> SUFFICES ASSUME StreamInit PROVE Inv /\ Link!LinkInit
    OBVIOUS
  <2>1. Init /\ encoder # "failed" /\ decoder # "failed" /\ cut = FALSE /\ transit = << >>
        /\ got = <<NoFrame, NoFrame>>
    BY DEF StreamInit
  <2>2. Link!Init
    BY <2>1 DEF Init, Link!Init, Queue
  <2> QED BY <2>1, <2>2, InitInv DEF Link!LinkInit
<1>2. [StreamNext]_<<queueVars, streamVars>> => [Next]_vars
  BY DEF StreamNext, Push, PopsNothing, Pops, EncodesHeader, EncodesPayload, EncodeFails, Cut,
     DecodesHeader, DecodesPayload, DecodeFails, queueVars, Next
<1>3. Inv /\ [Next]_vars => Inv'
  BY NextInv
<1>4. Inv /\ Inv' /\ CodecInv /\ CodecInv' /\ [StreamNext]_<<queueVars, streamVars>>
      => [Link!LinkNext]_<<Link!fifoVars, Link!wireVars>>
  <2> SUFFICES ASSUME Inv, Inv', CodecInv, CodecInv', [StreamNext]_<<queueVars, streamVars>>
               PROVE  Link!LinkNext \/ UNCHANGED <<Link!fifoVars, Link!wireVars>>
    OBVIOUS
  <2>1. CASE UNCHANGED <<queueVars, streamVars>>
    BY <2>1 DEF queueVars, vars, streamVars, Link!fifoVars, Link!vars, Link!wireVars, Queue
  <2>2. CASE StreamNext
    BY <2>2, PushIsLinked, PopIsLinked, EncodeIsLinked, CutIsLinked, DecodeIsLinked
    DEF StreamNext, Link!LinkNext
  <2> QED BY <2>1, <2>2
<1> QED BY <1>1, <1>2, <1>3, <1>4, CodecInvariant, PTL
    DEF StreamSpec, ImplementsFrameLink, Link!LinkSpec
=============================================================================
