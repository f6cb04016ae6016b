----------------------------- MODULE Reassembly -----------------------------
(***************************************************************************)
(* FragmentUDP and Reassembler.Add (internal/core/messages.go): a datagram *)
(* is cut into numbered chunks, and a map of chunks by datagram ID puts    *)
(* them together again.  Fragments travel as data frames, which a full     *)
(* queue drops; nothing in Add relies on their order, so here they come in *)
(* any order, or never.  An ID is a number the sender takes from its       *)
(* clock, so two datagrams may have the same one.                          *)
(*                                                                         *)
(* A byte is the datagram it belongs to and its place there.               *)
(***************************************************************************)
EXTENDS Integers, Sequences, FiniteSets

Seqs == INSTANCE SequencesExt

CONSTANTS
    ID,           \* IDs of datagrams
    Sizes,        \* lengths of datagrams
    MaxChunk,     \* MaxPayloadLen - 16
    MaxDatagrams, \* bound of the model: calls of FragmentUDP
    MaxFragments  \* bound of the model: fragments under way

\* FragIndex and FragCount have 16 bits: more chunks are more than they count.
ASSUME ReassemblyAssumption ==
    /\ MaxChunk \in Nat \ {0} /\ Sizes \subseteq 0 .. 65535 * MaxChunk
    /\ MaxDatagrams \in Nat /\ MaxFragments \in Nat

VARIABLES
    sent,       \* the datagrams sent: id and size
    air,        \* the fragments sent and not arrived
    fragments,  \* r.fragments: the slots of each ID; none is no entry
    returned,   \* what Add has returned, with its ID and, history, the number of
                \* the datagram whose fragment made it return
    refused,    \* the IDs of the fragments Add has returned an error for
    mixed       \* history: IDs used again before all fragments had arrived

reassemblyVars == <<sent, air, fragments, returned, refused, mixed>>

Nil == << >>
NoEntry == << >>

\* NewReassembler
ReassemblyInit ==
    /\ sent = << >> /\ air = {}
    /\ fragments = [id \in ID |-> NoEntry]
    /\ returned = << >> /\ refused = {} /\ mixed = {}

Content(n, size) == [place \in 1 .. size |-> [of |-> n, place |-> place]]

-----------------------------------------------------------------------------
(* FragmentUDP *)

\* Mutant: one chunk more where the size is a multiple of the chunk.
MutFragCount(size) == IF size = 0 THEN 1 ELSE size \div MaxChunk + 1
FragCount(size) == IF size = 0 THEN 1 ELSE (size + MaxChunk - 1) \div MaxChunk

\* The bytes of chunk i, counted from 0.  A slice of no bytes is nil.
Chunk(n, size, i) ==
    LET end == IF (i + 1) * MaxChunk > size THEN size ELSE (i + 1) * MaxChunk
    IN SubSeq(Content(n, size), i * MaxChunk + 1, end)

Fragment(n, id, size, i) ==
    [of |-> n, id |-> id, index |-> i, count |-> FragCount(size), data |-> Chunk(n, size, i)]

Fragments(n, id, size) == {Fragment(n, id, size, i) : i \in 0 .. FragCount(size) - 1}

\* The fragments of datagram n that have not arrived.
Missing(n) == {f \in air : f.of = n}

FragmentUDP ==
    /\ Len(sent) < MaxDatagrams
    /\ \E id \in ID, size \in Sizes :
         /\ Cardinality(air) + FragCount(size) <= MaxFragments
         /\ sent' = Append(sent, [id |-> id, size |-> size])
         /\ air' = air \cup Fragments(Len(sent) + 1, id, size)
         /\ mixed' = IF \E n \in 1 .. Len(sent) : sent[n].id = id /\ Missing(n) # {}
                     THEN mixed \cup {id} ELSE mixed
    /\ UNCHANGED <<fragments, returned, refused>>

-----------------------------------------------------------------------------
(* Reassembler.Add *)

\* The slots of a fragment's datagram: the first one to come makes them.
SlotsFor(f) ==
    IF fragments[f.id] = NoEntry THEN [i \in 1 .. f.count |-> Nil] ELSE fragments[f.id]

\* A datagram of one fragment does not look at the map.
AddSingle(f) ==
    /\ f.count = 1
    /\ returned' = Append(returned, [id |-> f.id, of |-> f.of, data |-> f.data])
    /\ UNCHANGED <<fragments, refused>>

\* The slots may be those of another datagram, with fewer of them.
AddOutOfRange(f) ==
    /\ f.count # 1 /\ f.index >= Len(SlotsFor(f))
    /\ refused' = refused \cup {f.id}
    /\ UNCHANGED <<fragments, returned>>

\* The fragment takes its slot; without an empty slot the datagram is complete.
AddInRange(f) ==
    /\ f.count # 1 /\ f.index < Len(SlotsFor(f))
    /\ LET slots == [SlotsFor(f) EXCEPT ![f.index + 1] = f.data] IN
         IF \E i \in 1 .. Len(slots) : slots[i] = Nil
         THEN /\ fragments' = [fragments EXCEPT ![f.id] = slots]
              /\ UNCHANGED returned
         ELSE /\ fragments' = [fragments EXCEPT ![f.id] = NoEntry]
              /\ returned' = Append(returned, [id |-> f.id, of |-> f.of, data |-> Seqs!FlattenSeq(slots)])
    /\ UNCHANGED refused

Add ==
    /\ \E f \in air :
         /\ AddSingle(f) \/ AddOutOfRange(f) \/ AddInRange(f)
         /\ air' = air \ {f}
    /\ UNCHANGED <<sent, mixed>>

ReassemblyNext == FragmentUDP \/ Add

ReassemblySpec == ReassemblyInit /\ [][ReassemblyNext]_reassemblyVars

-----------------------------------------------------------------------------
(* Properties *)

\* The datagrams of an ID that have arrived whole, and the results Add has
\* returned for it.
Whole(id) == {n \in 1 .. Len(sent) : sent[n].id = id /\ Missing(n) = {}}
Results(id) == {i \in 1 .. Len(returned) : returned[i].id = id}

\* An ID that is used again only after its fragments have arrived yields each
\* datagram that arrives whole, once and in order, and no other and no error:
\* whatever the size, the order of the fragments and the losses of other IDs.  An ID used too
\* early may mix its datagrams, but never has bytes of another ID
\* (messages.go:109-136, 138-164).
Reassembles ==
    /\ \A id \in ID \ mixed :
         /\ id \notin refused
         /\ {returned[i].of : i \in Results(id)} = Whole(id)
         /\ \A i, j \in Results(id) : i < j => returned[i].of < returned[j].of
         /\ \A i \in Results(id) :
              returned[i].data = Content(returned[i].of, sent[returned[i].of].size)
    /\ \A i \in 1 .. Len(returned) : \A k \in 1 .. Len(returned[i].data) :
         sent[returned[i].data[k].of].id = returned[i].id
=============================================================================
