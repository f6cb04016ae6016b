---------------------------- MODULE FrameQueue -----------------------------
(***************************************************************************)
(* core.FrameQueue (internal/core/queue.go): a ring buffer of frames with  *)
(* a count of the payload bytes it holds.  Every method takes the mutex    *)
(* for its whole body, so one call is one step.                            *)
(***************************************************************************)
EXTENDS Integers, Sequences

CONSTANTS
    Frames,    \* the frames callers push
    Size,      \* Size[f] = len(f.Payload)
    Capacity,  \* len(q.items)
    MaxBytes,  \* q.maxBytes
    NoFrame    \* the zero Frame{}

ASSUME CapacityAssumption == Capacity \in Nat \ {0}
ASSUME MaxBytesAssumption == MaxBytes \in Nat
ASSUME SizeAssumption == Size \in [Frames -> Nat]
ASSUME NoFrameAssumption == NoFrame \notin Frames

VARIABLES
    items,       \* the slots of the ring, numbered from 0 as in Go
    head,        \* the slot of the oldest frame
    count,       \* how many slots are in use
    queuedByte,  \* the bytes the queue believes it holds
    ret          \* what the last call returned

vars == <<items, head, count, queuedByte, ret>>

Slots == 0 .. Capacity - 1

\* NewFrameQueue: every slot is a zero Frame.
Init ==
    /\ items = [s \in Slots |-> NoFrame]
    /\ head = 0
    /\ count = 0
    /\ queuedByte = 0
    /\ ret = [call |-> "New", frame |-> NoFrame, ok |-> TRUE]

\* Mutants of the definitions below: the tail slot without head, a push that
\* looks at the slots only, a pop that keeps its frame in the ring, and a pop
\* that keeps its bytes.
MutTailSlot == count % Capacity
MutReject(f) == count = Capacity
MutPopFrame ==
    /\ count > 0
    /\ ret' = [call |-> "Pop", frame |-> items[head], ok |-> TRUE]
    /\ head' = (head + 1) % Capacity
    /\ count' = count - 1
    /\ queuedByte' = queuedByte - Size[items[head]]
    /\ UNCHANGED items
MutPopForgetsBytes ==
    /\ count > 0
    /\ ret' = [call |-> "Pop", frame |-> items[head], ok |-> TRUE]
    /\ items' = [items EXCEPT ![head] = NoFrame]
    /\ head' = (head + 1) % Capacity
    /\ count' = count - 1
    /\ UNCHANGED queuedByte

\* The slot Push writes.
TailSlot == (head + count) % Capacity

\* Push returns ErrQueueFull: the bytes or the slots would not suffice.
Reject(f) == queuedByte + Size[f] > MaxBytes \/ count = Capacity

PushAccepted(f) ==
    /\ ~Reject(f)
    /\ items' = [items EXCEPT ![TailSlot] = f]
    /\ count' = count + 1
    /\ queuedByte' = queuedByte + Size[f]
    /\ ret' = [call |-> "Push", frame |-> f, ok |-> TRUE]
    /\ UNCHANGED head

PushRejected(f) ==
    /\ Reject(f)
    /\ ret' = [call |-> "Push", frame |-> f, ok |-> FALSE]
    /\ UNCHANGED <<items, head, count, queuedByte>>

PopFrame ==
    /\ count > 0
    /\ ret' = [call |-> "Pop", frame |-> items[head], ok |-> TRUE]
    /\ items' = [items EXCEPT ![head] = NoFrame]
    /\ head' = (head + 1) % Capacity
    /\ count' = count - 1
    /\ queuedByte' = queuedByte - Size[items[head]]

PopEmpty ==
    /\ count = 0
    /\ ret' = [call |-> "Pop", frame |-> NoFrame, ok |-> FALSE]
    /\ UNCHANGED <<items, head, count, queuedByte>>

Next ==
    \/ \E f \in Frames : PushAccepted(f) \/ PushRejected(f)
    \/ PopFrame
    \/ PopEmpty

Spec == Init /\ [][Next]_vars

-----------------------------------------------------------------------------
(* Properties *)

\* The fields of FrameQueue keep to their ranges; in particular Pop, which
\* subtracts without a check, never drives queuedByte below zero, and Push
\* never lets it exceed maxBytes (queue.go:24-31 and 42-45).
TypeOK ==
    /\ items \in [Slots -> Frames \union {NoFrame}]
    /\ head \in Slots
    /\ count \in 0 .. Capacity
    /\ queuedByte \in 0 .. MaxBytes
    /\ ret \in [call : {"New", "Push", "Pop"},
                frame : Frames \union {NoFrame}, ok : BOOLEAN]

\* The frames held, oldest first: what the ring stands for.
Queue == [i \in 1 .. count |-> items[(head + i - 1) % Capacity]]

\* cum[i] is the size of the i oldest frames.
IsRunningTotal(cum) ==
    /\ cum[0] = 0
    /\ cum[count] = queuedByte
    /\ \A i \in 1 .. count : cum[i] = cum[i - 1] + Size[Queue[i]]
    /\ \A i, j \in 0 .. count : i <= j => cum[i] <= cum[j]

\* queuedByte, which Push and Pop only ever adjust by one frame, is the sum
\* of the sizes of exactly the frames in the ring, after any sequence of calls
\* and however often the ring has wrapped (queue.go:24-31, 41-45).
QueuedByteIsSum == \E cum \in [0 .. count -> 0 .. MaxBytes] : IsRunningTotal(cum)

\* The distance of slot s from head, going round the ring.
Offset(s) == IF s >= head THEN s - head ELSE s - head + Capacity

\* A slot holds a frame exactly when it is one of the count slots from head on:
\* a frame is never overwritten while it is queued, and a popped frame is not
\* kept alive by the ring (queue.go:28-29 and 41-43).
LiveSlotsExactly == \A s \in Slots : (items[s] # NoFrame) <=> (Offset(s) < count)

Abstract == INSTANCE BoundedFIFO WITH queue <- Queue, bytes <- queuedByte

\* The ring is a bounded FIFO: same frames, same order, same answers, refused
\* only for the reasons BoundedFIFO gives (queue.go:21-47).
ImplementsBoundedFIFO == Abstract!Spec
=============================================================================
