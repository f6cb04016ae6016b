----------------------------- MODULE FrameLink ------------------------------
(***************************************************************************)
(* What the way of a frame promises the two sessions, from the queue of    *)
(* one to the handler of the other (internal/core/queue.go, frame.go and   *)
(* the loops that use them): a bounded FIFO in front of a FIFO of whole    *)
(* frames.  A frame arrives as it was sent, once and in its turn, or the   *)
(* link is broken and from some frame on none arrives.  The sender stops   *)
(* at a frame the codec does not carry; but for that, nothing stops either *)
(* end of a link that is not broken.                                       *)
(*                                                                         *)
(* That frames are bytes, written in two pieces, read in two pieces and    *)
(* cut anywhere, is left to the implementation (FrameStream).              *)
(***************************************************************************)
EXTENDS BoundedFIFO

CONSTANT Carried  \* the frames the codec carries

VARIABLES
    wire,      \* the frames sent and not arrived
    arrived,   \* the last frame that arrived
    broken,    \* the link is broken
    sender,    \* the sending end: "runs" or "stopped"
    receiver   \* the receiving end: "runs" or "stopped"

fifoVars == vars
wireVars == <<wire, arrived, broken, sender, receiver>>

LinkInit ==
    /\ Init
    /\ wire = << >> /\ arrived = NoFrame /\ broken = FALSE
    /\ sender = "runs" /\ receiver = "runs"

\* A caller pushes a frame.
Pushes ==
    /\ \E f \in Frames : Enqueue(f) \/ Refuse(f)
    /\ UNCHANGED wireVars

SendsNothing ==
    /\ sender = "runs" /\ DequeueNone
    /\ UNCHANGED wireVars

Sends ==
    /\ sender = "runs" /\ Dequeue /\ Head(queue) \in Carried
    /\ wire' = Append(wire, Head(queue))
    /\ UNCHANGED <<arrived, broken, sender, receiver>>

Refuses ==
    /\ sender = "runs" /\ Dequeue /\ Head(queue) \notin Carried
    /\ sender' = "stopped"
    /\ UNCHANGED <<wire, arrived, broken, receiver>>

SendFails ==
    /\ broken /\ sender = "runs"
    /\ sender' = "stopped"
    /\ UNCHANGED <<fifoVars, wire, arrived, broken, receiver>>

Breaks ==
    /\ ~broken
    /\ broken' = TRUE
    /\ UNCHANGED <<fifoVars, wire, arrived, sender, receiver>>

Arrives ==
    /\ receiver = "runs" /\ wire # << >>
    /\ arrived' = Head(wire) /\ wire' = Tail(wire)
    /\ UNCHANGED <<fifoVars, broken, sender, receiver>>

ReceiveFails ==
    /\ broken /\ receiver = "runs"
    /\ receiver' = "stopped"
    /\ UNCHANGED <<fifoVars, wire, arrived, broken, sender>>

LinkNext ==
    \/ Pushes \/ SendsNothing \/ Sends \/ Refuses
    \/ SendFails \/ Breaks \/ Arrives \/ ReceiveFails

LinkSpec == LinkInit /\ [][LinkNext]_<<fifoVars, wireVars>>
=============================================================================
