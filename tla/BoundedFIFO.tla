---------------------------- MODULE BoundedFIFO ----------------------------
(***************************************************************************)
(* What a frame queue promises its callers (internal/core/queue.go): a     *)
(* FIFO of frames bounded both in frames and in payload bytes.  A push     *)
(* either appends its frame or leaves the queue as it was and says so; it  *)
(* is refused exactly when the frame would exceed one of the two bounds.   *)
(* A pop returns the oldest frame, or says that there is none.             *)
(*                                                                         *)
(* How the frames are stored is left to the implementation (FrameQueue).   *)
(***************************************************************************)
EXTENDS Integers, Sequences

CONSTANTS
    Frames,    \* the frames a caller may push
    Size,      \* Size[f]: the payload bytes of f
    Capacity,  \* most frames held at once
    MaxBytes,  \* most payload bytes held at once
    NoFrame    \* what an empty pop returns in place of a frame

VARIABLES
    queue,     \* the frames held, oldest first
    bytes,     \* their payload bytes
    ret        \* what the last call returned

vars == <<queue, bytes, ret>>

Init ==
    /\ queue = << >>
    /\ bytes = 0
    /\ ret = [call |-> "New", frame |-> NoFrame, ok |-> TRUE]

Fits(f) == Len(queue) < Capacity /\ bytes + Size[f] <= MaxBytes

Enqueue(f) ==
    /\ Fits(f)
    /\ queue' = Append(queue, f)
    /\ bytes' = bytes + Size[f]
    /\ ret' = [call |-> "Push", frame |-> f, ok |-> TRUE]

Refuse(f) ==
    /\ ~Fits(f)
    /\ ret' = [call |-> "Push", frame |-> f, ok |-> FALSE]
    /\ UNCHANGED <<queue, bytes>>

Dequeue ==
    /\ queue # << >>
    /\ queue' = Tail(queue)
    /\ bytes' = bytes - Size[Head(queue)]
    /\ ret' = [call |-> "Pop", frame |-> Head(queue), ok |-> TRUE]

DequeueNone ==
    /\ queue = << >>
    /\ ret' = [call |-> "Pop", frame |-> NoFrame, ok |-> FALSE]
    /\ UNCHANGED <<queue, bytes>>

Next ==
    \/ \E f \in Frames : Enqueue(f) \/ Refuse(f)
    \/ Dequeue
    \/ DequeueNone

Spec == Init /\ [][Next]_vars
=============================================================================
