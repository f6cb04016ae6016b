------------------------------- MODULE Expiry -------------------------------
(***************************************************************************)
(* The deadline of a datagram (cmd/slppc/main.go, handleUDPAssociate, and  *)
(* internal/transport/server.go, elapsedMillis32): the client stamps it    *)
(* with the low 32 bits of its clock, and the server compares the stamp    *)
(* with the low 32 bits of its own.  The two machines' clocks differ, and  *)
(* each wraps every 49 days.                                               *)
(*                                                                         *)
(* UdpTunnel.tla leaves the verdict to choice; this is what it rests on.   *)
(***************************************************************************)
EXTENDS Integers, FiniteSets

CONSTANTS
    Wrap,        \* 2^32
    DeadlineMS,  \* the deadline slppc gives its datagrams
    Skew,        \* how far the server's clock may be ahead of the client's
    MaxNow,      \* bound of the model: the client's clock
    MaxAir       \* bound of the model: datagrams on their way

ASSUME ExpiryAssumption ==
    /\ Wrap \in Nat \ {0} /\ DeadlineMS \in 0 .. Wrap - 1
    /\ Skew \subseteq Int /\ MaxNow \in Nat /\ MaxAir \in Nat

VARIABLES
    now,      \* the client's clock, in full
    skew,     \* how far the server's clock is ahead
    flying,   \* the datagrams on their way: when they were sent, and SentMS
    verdict   \* on the last datagram, once given: its age, and whether it was dropped

expiryVars == <<now, skew, flying, verdict>>

ExpiryInit ==
    /\ now = 0 /\ skew \in Skew
    /\ flying = {}
    /\ verdict = [given |-> FALSE, age |-> 0, dropped |-> FALSE]

\* uint32(time.Now().UnixMilli())
Low(ms) == ms % Wrap

\* Mutant: the one that makes up for the largest value is forgotten.
MutElapsed(at, then) ==
    IF at >= then THEN at - then ELSE (Wrap - 1 - then) + at
\* elapsedMillis32
Elapsed(at, then) ==
    IF at >= then THEN at - then ELSE (Wrap - 1 - then) + at + 1

\* handleUDPAssociate stamps a datagram and queues it.
SendsStamped ==
    /\ Cardinality(flying) < MaxAir
    /\ flying' = flying \cup {[at |-> now, sentMS |-> Low(now)]}
    /\ UNCHANGED <<now, skew, verdict>>

\* The case FrameUDPDATA of HandleFrame: drop it, or write it to its remote.
ServerJudges ==
    /\ \E d \in flying :
         /\ flying' = flying \ {d}
         /\ verdict' = [given |-> TRUE, age |-> now - d.at,
                        dropped |-> Elapsed(Low(now + skew), d.sentMS) > DeadlineMS]
    /\ UNCHANGED <<now, skew>>

\* External: time.
TimePasses ==
    /\ now < MaxNow
    /\ now' = now + 1
    /\ UNCHANGED <<skew, flying, verdict>>

ExpiryNext == SendsStamped \/ ServerJudges \/ TimePasses

-----------------------------------------------------------------------------
(* Properties *)

\* For a datagram that takes less than a lap of the clock, the verdict is that
\* of clocks that never wrap: it is dropped if its age, on the server's clock,
\* is past the deadline, also when either clock has wrapped on the way.  On a
\* server whose clock is behind, a datagram that seems to come from the future
\* is dropped, unless the difference comes within a deadline of a whole lap
\* (server.go:127-130, 143-148).
ExpiryIsAge ==
    LET apparent == verdict.age + skew IN verdict.given =>
      /\ apparent \in 0 .. Wrap - 1 => (verdict.dropped <=> apparent > DeadlineMS)
      /\ apparent \in -Wrap .. -1 => (verdict.dropped <=> apparent > DeadlineMS - Wrap)
=============================================================================
