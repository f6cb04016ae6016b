------------------------- MODULE TunnelLink_proofs --------------------------
(***************************************************************************)
(* What the link of a tunnel does to the frames on it, for every bound:    *)
(* the lemmas that the proofs about TcpTunnel and UdpTunnel rest on.       *)
(*                                                                         *)
(* C and D are the control and the data frames of the protocol on top.     *)
(* Flying(s) are the frames s has queued and its peer has not read.  For a *)
(* kind of frames K, all of them control or all of them data, InOrder(s,   *)
(* K) says that those in flight have rising numbers in the order in which  *)
(* the peer will read them; for a kind whose number is always 0, that      *)
(* there is one at most.  A step Keeps, Loses or Gains: whatever it does   *)
(* to two queues and a wire, this is all an invariant needs to know of it. *)
(***************************************************************************)
EXTENDS TunnelLink, TLAPS

USE LinkAssumption

Elems(q) == {q[i] : i \in 1 .. Len(q)}

Rising(q, K) ==
    \A i, j \in 1 .. Len(q) : i < j /\ q[i] \in K /\ q[j] \in K => q[i].n < q[j].n
Before(p, q, K) ==
    \A f \in Elems(p) \intersect K, g \in Elems(q) \intersect K : f.n < g.n

\* The control queue c and the data queue d behind the wire w.
Ordered(w, c, d, K) ==
    /\ Rising(w, K) /\ Rising(c, K) /\ Rising(d, K)
    /\ Before(w, c, K) /\ Before(w, d, K)

Flying(s) == Elems(control[s]) \union Elems(data[s]) \union Elems(wire[s])
InOrder(s, K) == Ordered(wire[s], control[s], data[s], K)

KindsOf(C, D) == (SUBSET C) \union (SUBSET D)

Keeps(s, C, D) ==
    /\ Flying(s)' = Flying(s)
    /\ \A K \in KindsOf(C, D) : InOrder(s, K) => InOrder(s, K)'
Loses(s, f, C, D) ==
    /\ Flying(s) = Flying(s)' \union {f}
    /\ \A K \in KindsOf(C, D) : InOrder(s, K) =>
         /\ InOrder(s, K)'
         /\ f \in K => \A g \in Flying(s)' \intersect K : f.n < g.n
Gains(s, f, C, D) ==
    /\ Flying(s)' = Flying(s) \union {f}
    /\ \A K \in KindsOf(C, D) :
         /\ InOrder(s, K)
         /\ f \in K => \A g \in Flying(s) \intersect K : g.n < f.n
         => InOrder(s, K)'

\* The queues, the wire and the writers keep to their types and bounds.
QueuesOK(C, D) ==
    /\ control \in [Side -> Seq(C)] /\ \A s \in Side : Len(control[s]) <= ControlCap
    /\ data \in [Side -> Seq(D)] /\ \A s \in Side : Len(data[s]) <= DataCap
    /\ wire \in [Side -> Seq(C \union D)] /\ \A s \in Side : Len(wire[s]) <= WireCap
    /\ phase \in [Side -> {"select", "data", "stopped"}]
    /\ \A s \in Side : phase[s] = "data" => data[s] # << >>

-----------------------------------------------------------------------------
(* Sequences *)

LEMMA Appended ==
    ASSUME NEW S, NEW q \in Seq(S), NEW e \in S
    PROVE  /\ Append(q, e) \in Seq(S) /\ Len(Append(q, e)) = Len(q) + 1
           /\ \A i \in 1 .. Len(q) : Append(q, e)[i] = q[i]
           /\ Append(q, e)[Len(q) + 1] = e
           /\ Elems(Append(q, e)) = Elems(q) \union {e}
           /\ Append(q, e) # << >>
<1>1. /\ Append(q, e) \in Seq(S) /\ Len(Append(q, e)) = Len(q) + 1
      /\ \A i \in 1 .. Len(q) : Append(q, e)[i] = q[i]
      /\ Append(q, e)[Len(q) + 1] = e
      /\ Len(q) \in Nat
  OBVIOUS
<1>2. Elems(Append(q, e)) = Elems(q) \union {e}
  BY <1>1 DEF Elems
<1> QED BY <1>1, <1>2

LEMMA Tailed ==
    ASSUME NEW S, NEW q \in Seq(S), q # << >>
    PROVE  /\ Tail(q) \in Seq(S) /\ Len(Tail(q)) = Len(q) - 1 /\ Len(q) > 0
           /\ Head(q) = q[1] /\ Head(q) \in S
           /\ \A i \in 1 .. Len(q) - 1 : Tail(q)[i] = q[i + 1]
           /\ Elems(q) = Elems(Tail(q)) \union {Head(q)}
<1>1. /\ Tail(q) \in Seq(S) /\ Len(Tail(q)) = Len(q) - 1 /\ Len(q) > 0
      /\ Head(q) = q[1] /\ Head(q) \in S /\ Len(q) \in Nat
      /\ \A i \in 1 .. Len(q) - 1 : Tail(q)[i] = q[i + 1]
  OBVIOUS
<1>2. Elems(q) \subseteq Elems(Tail(q)) \union {Head(q)}
  <2> SUFFICES ASSUME NEW i \in 1 .. Len(q), i # 1
               PROVE  q[i] \in Elems(Tail(q))
    BY <1>1 DEF Elems
  <2>1. i - 1 \in 1 .. Len(Tail(q)) /\ Tail(q)[i - 1] = q[i]
    BY <1>1
  <2> QED BY <2>1 DEF Elems
<1>3. Elems(Tail(q)) \union {Head(q)} \subseteq Elems(q)
  BY <1>1 DEF Elems
<1> QED BY <1>1, <1>2, <1>3

\* The elements of a queue of frames of S are frames of S.
LEMMA ElemsTyped ==
    ASSUME NEW S, NEW q \in Seq(S)
    PROVE  Elems(q) \subseteq S
BY DEF Elems

LEMMA RisingTail ==
    ASSUME NEW S, NEW q \in Seq(S), q # << >>, NEW K, Rising(q, K)
    PROVE  /\ Rising(Tail(q), K)
           /\ Head(q) \in K => \A g \in Elems(Tail(q)) \intersect K : Head(q).n < g.n
<1>1. /\ Len(Tail(q)) = Len(q) - 1 /\ Len(q) > 0 /\ Len(q) \in Nat
      /\ Head(q) = q[1]
      /\ \A i \in 1 .. Len(q) - 1 : Tail(q)[i] = q[i + 1]
  BY Tailed
<1>2. ASSUME NEW i \in 1 .. Len(Tail(q)), NEW j \in 1 .. Len(Tail(q)), i < j,
             Tail(q)[i] \in K, Tail(q)[j] \in K
      PROVE  Tail(q)[i].n < Tail(q)[j].n
  <2>1. /\ i + 1 \in 1 .. Len(q) /\ j + 1 \in 1 .. Len(q) /\ i + 1 < j + 1
        /\ Tail(q)[i] = q[i + 1] /\ Tail(q)[j] = q[j + 1]
    BY <1>1, <1>2
  <2> QED BY <1>2, <2>1 DEF Rising
<1>3. ASSUME Head(q) \in K, NEW i \in 1 .. Len(Tail(q)), Tail(q)[i] \in K
      PROVE  Head(q).n < Tail(q)[i].n
  <2>1. 1 \in 1 .. Len(q) /\ i + 1 \in 1 .. Len(q) /\ 1 < i + 1 /\ Tail(q)[i] = q[i + 1]
    BY <1>1
  <2> QED BY <1>1, <1>3, <2>1 DEF Rising
<1> QED BY <1>2, <1>3 DEF Rising, Elems

LEMMA RisingAppend ==
    ASSUME NEW S, NEW q \in Seq(S), NEW e \in S, NEW K, Rising(q, K),
           e \in K => \A g \in Elems(q) \intersect K : g.n < e.n
    PROVE  Rising(Append(q, e), K)
<1> DEFINE r == Append(q, e)
<1>1. /\ Len(r) = Len(q) + 1 /\ Len(q) \in Nat
      /\ \A i \in 1 .. Len(q) : r[i] = q[i]
      /\ r[Len(q) + 1] = e
  BY Appended
<1> HIDE DEF r
<1> SUFFICES ASSUME NEW i \in 1 .. Len(r), NEW j \in 1 .. Len(r), i < j,
                    r[i] \in K, r[j] \in K
             PROVE  r[i].n < r[j].n
  BY DEF Rising, r
<1>2. i \in 1 .. Len(q) /\ r[i] = q[i]
  BY <1>1
<1>3. CASE j \in 1 .. Len(q)
  BY <1>1, <1>2, <1>3 DEF Rising
<1>4. CASE j = Len(q) + 1
  <2>1. q[i] \in Elems(q) \intersect K
    BY <1>2 DEF Elems
  <2> QED BY <1>1, <1>2, <1>4, <2>1
<1> QED BY <1>1, <1>3, <1>4

-----------------------------------------------------------------------------
(* Two queues and a wire *)

\* The writer moves the first control frame to the wire.
LEMMA ControlMoves ==
    ASSUME NEW C, NEW D, C \intersect D = {},
           NEW w \in Seq(C \union D), NEW c \in Seq(C), NEW d \in Seq(D), c # << >>,
           NEW K \in KindsOf(C, D), Ordered(w, c, d, K)
    PROVE  Ordered(Append(w, Head(c)), Tail(c), d, K)
<1> DEFINE h == Head(c)
<1>1. /\ h \in C /\ h \in C \union D
      /\ Elems(c) = Elems(Tail(c)) \union {h}
      /\ Elems(Append(w, h)) = Elems(w) \union {h}
  <2>1. h \in C /\ Elems(c) = Elems(Tail(c)) \union {h}
    BY Tailed
  <2> QED BY <2>1, Appended
<1>2. /\ Rising(Tail(c), K)
      /\ h \in K => \A g \in Elems(Tail(c)) \intersect K : h.n < g.n
  BY RisingTail DEF Ordered
<1>3. h \in K => Elems(d) \intersect K = {}
  <2>1. Elems(d) \subseteq D
    BY ElemsTyped
  <2> QED BY <1>1, <2>1 DEF KindsOf
<1> HIDE DEF h
<1>4. Rising(Append(w, h), K)
  BY <1>1, RisingAppend DEF Ordered, Before
<1>5. Before(Append(w, h), Tail(c), K)
  BY <1>1, <1>2 DEF Ordered, Before
<1>6. Before(Append(w, h), d, K)
  BY <1>1, <1>3 DEF Ordered, Before
<1> QED BY <1>2, <1>4, <1>5, <1>6 DEF Ordered, h

\* The writer moves the first data frame to the wire.
LEMMA DataMoves ==
    ASSUME NEW C, NEW D, C \intersect D = {},
           NEW w \in Seq(C \union D), NEW c \in Seq(C), NEW d \in Seq(D), d # << >>,
           NEW K \in KindsOf(C, D), Ordered(w, c, d, K)
    PROVE  Ordered(Append(w, Head(d)), c, Tail(d), K)
<1> DEFINE h == Head(d)
<1>1. /\ h \in D /\ h \in C \union D
      /\ Elems(d) = Elems(Tail(d)) \union {h}
      /\ Elems(Append(w, h)) = Elems(w) \union {h}
  <2>1. h \in D /\ Elems(d) = Elems(Tail(d)) \union {h}
    BY Tailed
  <2> QED BY <2>1, Appended
<1>2. /\ Rising(Tail(d), K)
      /\ h \in K => \A g \in Elems(Tail(d)) \intersect K : h.n < g.n
  BY RisingTail DEF Ordered
<1>3. h \in K => Elems(c) \intersect K = {}
  <2>1. Elems(c) \subseteq C
    BY ElemsTyped
  <2> QED BY <1>1, <2>1 DEF KindsOf
<1> HIDE DEF h
<1>4. Rising(Append(w, h), K)
  BY <1>1, RisingAppend DEF Ordered, Before
<1>5. Before(Append(w, h), Tail(d), K)
  BY <1>1, <1>2 DEF Ordered, Before
<1>6. Before(Append(w, h), c, K)
  BY <1>1, <1>3 DEF Ordered, Before
<1> QED BY <1>2, <1>4, <1>5, <1>6 DEF Ordered, h

\* The peer reads the first frame of the wire: it comes before all others of
\* its kind.
LEMMA WireMoves ==
    ASSUME NEW S, NEW w \in Seq(S), NEW c, NEW d, w # << >>, NEW K, Ordered(w, c, d, K)
    PROVE  /\ Ordered(Tail(w), c, d, K)
           /\ Head(w) \in K =>
                \A g \in (Elems(c) \union Elems(d) \union Elems(Tail(w))) \intersect K :
                   Head(w).n < g.n
<1>1. Elems(w) = Elems(Tail(w)) \union {Head(w)}
  BY Tailed
<1>2. /\ Rising(Tail(w), K)
      /\ Head(w) \in K => \A g \in Elems(Tail(w)) \intersect K : Head(w).n < g.n
  BY RisingTail DEF Ordered
<1> QED BY <1>1, <1>2 DEF Ordered, Before

\* A control frame behind all others of its kind is queued.
LEMMA ControlJoins ==
    ASSUME NEW C, NEW D, C \intersect D = {}, NEW w,
           NEW c \in Seq(C), NEW d \in Seq(D), NEW f \in C,
           NEW K \in KindsOf(C, D), Ordered(w, c, d, K),
           f \in K => \A g \in (Elems(c) \union Elems(d) \union Elems(w)) \intersect K : g.n < f.n
    PROVE  Ordered(w, Append(c, f), d, K)
<1>1. Elems(Append(c, f)) = Elems(c) \union {f}
  BY Appended
<1>2. Rising(Append(c, f), K)
  BY RisingAppend DEF Ordered
<1>3. Before(w, Append(c, f), K)
  BY <1>1 DEF Ordered, Before
<1> QED BY <1>2, <1>3 DEF Ordered

\* A data frame behind all others of its kind is queued.
LEMMA DataJoins ==
    ASSUME NEW C, NEW D, C \intersect D = {}, NEW w,
           NEW c \in Seq(C), NEW d \in Seq(D), NEW f \in D,
           NEW K \in KindsOf(C, D), Ordered(w, c, d, K),
           f \in K => \A g \in (Elems(c) \union Elems(d) \union Elems(w)) \intersect K : g.n < f.n
    PROVE  Ordered(w, c, Append(d, f), K)
<1>1. Elems(Append(d, f)) = Elems(d) \union {f}
  BY Appended
<1>2. Rising(Append(d, f), K)
  BY RisingAppend DEF Ordered
<1>3. Before(w, Append(d, f), K)
  BY <1>1 DEF Ordered, Before
<1> QED BY <1>2, <1>3 DEF Ordered

-----------------------------------------------------------------------------
(* What a step does to what one side is sending *)

\* A step that leaves the queues and the wire of s alone.
LEMMA SameKeeps ==
    ASSUME NEW C, NEW D, NEW s \in Side,
           control'[s] = control[s], data'[s] = data[s], wire'[s] = wire[s]
    PROVE  Keeps(s, C, D)
BY DEF Keeps, Flying, InOrder

\* The peer of s reads a frame.
LEMMA HeadLost ==
    ASSUME NEW C, NEW D, QueuesOK(C, D), NEW s \in Side,
           control'[s] = control[s], data'[s] = data[s],
           wire[s] # << >>, wire'[s] = Tail(wire[s])
    PROVE  /\ Loses(s, Head(wire[s]), C, D)
           /\ Head(wire[s]) \in C \union D /\ Head(wire[s]) \in Flying(s)
<1>1. wire[s] \in Seq(C \union D)
  BY DEF QueuesOK
<1>2. Elems(wire[s]) = Elems(Tail(wire[s])) \union {Head(wire[s])} /\ Head(wire[s]) \in C \union D
  BY <1>1, Tailed
<1>3. Flying(s) = Flying(s)' \union {Head(wire[s])}
  BY <1>2 DEF Flying
<1>4. ASSUME NEW K \in KindsOf(C, D), InOrder(s, K)
      PROVE  /\ InOrder(s, K)'
             /\ Head(wire[s]) \in K => \A g \in Flying(s)' \intersect K : Head(wire[s]).n < g.n
  <2>1. Ordered(wire[s], control[s], data[s], K)
    BY <1>4 DEF InOrder
  <2>2. /\ Ordered(Tail(wire[s]), control[s], data[s], K)
        /\ Head(wire[s]) \in K =>
             \A g \in (Elems(control[s]) \union Elems(data[s]) \union Elems(Tail(wire[s]))) \intersect K :
                Head(wire[s]).n < g.n
    BY <1>1, <2>1, WireMoves
  <2> QED BY <2>2 DEF InOrder, Flying
<1> QED BY <1>2, <1>3, <1>4 DEF Loses, Flying

\* A control frame is queued.
LEMMA ControlGained ==
    ASSUME NEW C, NEW D, C \intersect D = {}, QueuesOK(C, D), NEW s \in Side, NEW f \in C,
           control'[s] = Append(control[s], f), data'[s] = data[s], wire'[s] = wire[s]
    PROVE  Gains(s, f, C, D)
<1>1. wire[s] \in Seq(C \union D) /\ control[s] \in Seq(C) /\ data[s] \in Seq(D)
  BY DEF QueuesOK
<1>2. Elems(control'[s]) = Elems(control[s]) \union {f}
  BY <1>1, Appended
<1>3. Flying(s)' = Flying(s) \union {f}
  BY <1>2 DEF Flying
<1>4. ASSUME NEW K \in KindsOf(C, D), InOrder(s, K),
             f \in K => \A g \in Flying(s) \intersect K : g.n < f.n
      PROVE  InOrder(s, K)'
  <2>1. Ordered(wire[s], control[s], data[s], K)
    BY <1>4 DEF InOrder
  <2>2. Ordered(wire[s], Append(control[s], f), data[s], K)
    BY <1>1, <1>4, <2>1, ControlJoins DEF Flying
  <2> QED BY <2>2 DEF InOrder
<1> QED BY <1>3, <1>4 DEF Gains

\* A data frame is queued.
LEMMA DataGained ==
    ASSUME NEW C, NEW D, C \intersect D = {}, QueuesOK(C, D), NEW s \in Side, NEW f \in D,
           data'[s] = Append(data[s], f), control'[s] = control[s], wire'[s] = wire[s]
    PROVE  Gains(s, f, C, D)
<1>1. wire[s] \in Seq(C \union D) /\ control[s] \in Seq(C) /\ data[s] \in Seq(D)
  BY DEF QueuesOK
<1>2. Elems(data'[s]) = Elems(data[s]) \union {f}
  BY <1>1, Appended
<1>3. Flying(s)' = Flying(s) \union {f}
  BY <1>2 DEF Flying
<1>4. ASSUME NEW K \in KindsOf(C, D), InOrder(s, K),
             f \in K => \A g \in Flying(s) \intersect K : g.n < f.n
      PROVE  InOrder(s, K)'
  <2>1. Ordered(wire[s], control[s], data[s], K)
    BY <1>4 DEF InOrder
  <2>2. Ordered(wire[s], control[s], Append(data[s], f), K)
    BY <1>1, <1>4, <2>1, DataJoins DEF Flying
  <2> QED BY <2>2 DEF InOrder
<1> QED BY <1>3, <1>4 DEF Gains

\* The writer of s moves the first frame of a queue to the wire.
LEMMA MovedKeeps ==
    ASSUME NEW C, NEW D, C \intersect D = {}, QueuesOK(C, D), NEW s \in Side,
           \/ /\ control[s] # << >> /\ wire'[s] = Append(wire[s], Head(control[s]))
              /\ control'[s] = Tail(control[s]) /\ data'[s] = data[s]
           \/ /\ data[s] # << >> /\ wire'[s] = Append(wire[s], Head(data[s]))
              /\ data'[s] = Tail(data[s]) /\ control'[s] = control[s]
    PROVE  Keeps(s, C, D)
<1>1. wire[s] \in Seq(C \union D) /\ control[s] \in Seq(C) /\ data[s] \in Seq(D)
  BY DEF QueuesOK
<1>2. CASE /\ control[s] # << >> /\ wire'[s] = Append(wire[s], Head(control[s]))
           /\ control'[s] = Tail(control[s]) /\ data'[s] = data[s]
  <2>1. Elems(control[s]) = Elems(Tail(control[s])) \union {Head(control[s])} /\ Head(control[s]) \in C
    BY <1>1, <1>2, Tailed
  <2>2. Elems(wire'[s]) = Elems(wire[s]) \union {Head(control[s])}
    BY <1>1, <1>2, <2>1, Appended
  <2>3. ASSUME NEW K \in KindsOf(C, D), InOrder(s, K)
        PROVE  InOrder(s, K)'
    <3>1. Ordered(Append(wire[s], Head(control[s])), Tail(control[s]), data[s], K)
      BY <1>1, <1>2, <2>3, ControlMoves DEF InOrder
    <3> QED BY <1>2, <3>1 DEF InOrder
  <2> QED BY <1>2, <2>1, <2>2, <2>3 DEF Keeps, Flying
<1>3. CASE /\ data[s] # << >> /\ wire'[s] = Append(wire[s], Head(data[s]))
           /\ data'[s] = Tail(data[s]) /\ control'[s] = control[s]
  <2>1. Elems(data[s]) = Elems(Tail(data[s])) \union {Head(data[s])} /\ Head(data[s]) \in D
    BY <1>1, <1>3, Tailed
  <2>2. Elems(wire'[s]) = Elems(wire[s]) \union {Head(data[s])}
    BY <1>1, <1>3, <2>1, Appended
  <2>3. ASSUME NEW K \in KindsOf(C, D), InOrder(s, K)
        PROVE  InOrder(s, K)'
    <3>1. Ordered(Append(wire[s], Head(data[s])), control[s], Tail(data[s]), K)
      BY <1>1, <1>3, <2>3, DataMoves DEF InOrder
    <3> QED BY <1>3, <3>1 DEF InOrder
  <2> QED BY <1>3, <2>1, <2>2, <2>3 DEF Keeps, Flying
<1> QED BY <1>2, <1>3

-----------------------------------------------------------------------------
(* The operations of TunnelLink *)

LEMMA PeerIsOther ==
    ASSUME NEW s \in Side
    PROVE  /\ Peer(s) \in Side /\ Peer(s) # s /\ Peer(Peer(s)) = s
           /\ \A t \in Side : t = s \/ t = Peer(s)
BY DEF Side, Peer

\* A reader takes a frame, and its handler may queue a control frame: what
\* becomes of the types and bounds.
LEMMA ReadingOK ==
    ASSUME NEW C, NEW D, QueuesOK(C, D), NEW s \in Side, NEW f \in C,
           wire[Peer(s)] # << >>, wire' = [wire EXCEPT ![Peer(s)] = Tail(@)],
           UNCHANGED <<data, phase>>,
           UNCHANGED control \/ (~ControlFull(s) /\ QueueControl(s, f))
    PROVE  QueuesOK(C, D)'
<1>1. /\ control' \in [Side -> Seq(C)] /\ \A t \in Side : Len(control'[t]) <= ControlCap
  <2>1. CASE UNCHANGED control
    BY <2>1 DEF QueuesOK
  <2>2. CASE ~ControlFull(s) /\ QueueControl(s, f)
    <3>1. /\ control \in [Side -> Seq(C)] /\ Len(control[s]) <= ControlCap
          /\ Len(control[s]) # ControlCap /\ control' = [control EXCEPT ![s] = Append(@, f)]
      BY <2>2 DEF QueuesOK, ControlFull, QueueControl
    <3>2. control[s] \in Seq(C)
      BY <3>1
    <3>3. Append(control[s], f) \in Seq(C) /\ Len(Append(control[s], f)) <= ControlCap
      BY <3>1, <3>2, Appended
    <3> QED BY <3>1, <3>3 DEF QueuesOK
  <2> QED BY <2>1, <2>2
<1>2. /\ wire' \in [Side -> Seq(C \union D)] /\ \A t \in Side : Len(wire'[t]) <= WireCap
  <2>1. Peer(s) \in Side /\ wire \in [Side -> Seq(C \union D)] /\ Len(wire[Peer(s)]) <= WireCap
    BY PeerIsOther DEF QueuesOK
  <2>2. /\ wire[Peer(s)] \in Seq(C \union D) /\ Tail(wire[Peer(s)]) \in Seq(C \union D)
        /\ Len(Tail(wire[Peer(s)])) <= WireCap
    BY <2>1, Tailed
  <2> QED BY <2>1, <2>2 DEF QueuesOK
<1> QED BY <1>1, <1>2 DEF QueuesOK

\* s's readLoop takes a frame and its handler queues nothing.
LEMMA ReceiveLoses ==
    ASSUME NEW C, NEW D, QueuesOK(C, D), NEW s \in Side, NEW type,
           Receive(s, type), UNCHANGED <<control, data, phase>>
    PROVE  /\ QueuesOK(C, D)' /\ Keeps(s, C, D) /\ Loses(Peer(s), Received(s), C, D)
           /\ Received(s) \in C \union D /\ Received(s) \in Flying(Peer(s))
           /\ Received(s).type = type
<1>1. /\ wire[Peer(s)] # << >> /\ wire' = [wire EXCEPT ![Peer(s)] = Tail(@)]
      /\ Received(s).type = type /\ Received(s) = Head(wire[Peer(s)])
      /\ UNCHANGED <<control, data, phase>>
  BY DEF Receive, Received
<1>2. /\ wire'[s] = wire[s] /\ wire'[Peer(s)] = Tail(wire[Peer(s)])
      /\ Peer(s) \in Side
  BY <1>1, PeerIsOther DEF QueuesOK
<1>3. Keeps(s, C, D)
  BY <1>1, <1>2, SameKeeps
<1>4. /\ Loses(Peer(s), Received(s), C, D)
      /\ Received(s) \in C \union D /\ Received(s) \in Flying(Peer(s))
  BY <1>1, <1>2, HeadLost
<1>5. wire' \in [Side -> Seq(C \union D)] /\ \A t \in Side : Len(wire'[t]) <= WireCap
  <2>1. wire \in [Side -> Seq(C \union D)] /\ Len(wire[Peer(s)]) <= WireCap
    BY <1>2 DEF QueuesOK
  <2>2. /\ wire[Peer(s)] \in Seq(C \union D) /\ Tail(wire[Peer(s)]) \in Seq(C \union D)
        /\ Len(Tail(wire[Peer(s)])) <= WireCap
    BY <1>1, <1>2, <2>1, Tailed
  <2> QED BY <1>1, <2>1, <2>2 DEF QueuesOK
<1>6. QueuesOK(C, D)'
  BY <1>1, <1>5 DEF QueuesOK
<1> QED BY <1>1, <1>3, <1>4, <1>6

\* s's readLoop takes a frame and its handler queues f, or finds its queue full.
LEMMA ReceiveAnswers ==
    ASSUME NEW C, NEW D, C \intersect D = {}, QueuesOK(C, D), NEW s \in Side, NEW type,
           NEW f \in C, Receive(s, type), UNCHANGED <<data, phase>>,
           UNCHANGED control \/ (~ControlFull(s) /\ QueueControl(s, f))
    PROVE  /\ QueuesOK(C, D)' /\ Loses(Peer(s), Received(s), C, D)
           /\ Keeps(s, C, D) \/ Gains(s, f, C, D)
           /\ Received(s) \in C \union D /\ Received(s) \in Flying(Peer(s))
           /\ Received(s).type = type
<1>1. /\ wire[Peer(s)] # << >> /\ wire' = [wire EXCEPT ![Peer(s)] = Tail(@)]
      /\ Received(s).type = type /\ Received(s) = Head(wire[Peer(s)])
  BY DEF Receive, Received
<1>2. /\ wire'[s] = wire[s] /\ wire'[Peer(s)] = Tail(wire[Peer(s)])
      /\ Peer(s) \in Side /\ control'[Peer(s)] = control[Peer(s)]
  BY <1>1, PeerIsOther DEF QueuesOK, QueueControl
<1>3. Keeps(s, C, D) \/ Gains(s, f, C, D)
  <2>1. CASE UNCHANGED control
    BY <1>2, <2>1, SameKeeps
  <2>2. CASE QueueControl(s, f)
    <3>1. control'[s] = Append(control[s], f)
      BY <2>2 DEF QueueControl, QueuesOK
    <3> QED BY <1>2, <3>1, ControlGained
  <2> QED BY <2>1, <2>2
<1>4. /\ Loses(Peer(s), Received(s), C, D)
      /\ Received(s) \in C \union D /\ Received(s) \in Flying(Peer(s))
  BY <1>1, <1>2, HeadLost
<1>5. QueuesOK(C, D)'
  BY <1>1, ReadingOK
<1> QED BY <1>1, <1>3, <1>4, <1>5

\* s queues a control frame, or finds its queue full.
LEMMA QueueControlGains ==
    ASSUME NEW C, NEW D, C \intersect D = {}, QueuesOK(C, D), NEW s \in Side, NEW f \in C,
           UNCHANGED <<data, phase, wire>>,
           UNCHANGED control \/ (~ControlFull(s) /\ QueueControl(s, f))
    PROVE  /\ QueuesOK(C, D)' /\ Keeps(Peer(s), C, D)
           /\ Keeps(s, C, D) \/ Gains(s, f, C, D)
<1>1. CASE UNCHANGED control
  <2>1. Keeps(s, C, D) /\ Keeps(Peer(s), C, D)
    BY <1>1, SameKeeps, PeerIsOther
  <2>2. QueuesOK(C, D)'
    BY <1>1 DEF QueuesOK
  <2> QED BY <2>1, <2>2
<1>2. CASE ~ControlFull(s) /\ QueueControl(s, f)
  <2>1. /\ control \in [Side -> Seq(C)] /\ Len(control[s]) <= ControlCap
        /\ Len(control[s]) # ControlCap /\ control' = [control EXCEPT ![s] = Append(@, f)]
    BY <1>2 DEF QueuesOK, ControlFull, QueueControl
  <2>2. control[s] \in Seq(C)
    BY <2>1
  <2>3. /\ control'[s] = Append(control[s], f) /\ control'[Peer(s)] = control[Peer(s)]
        /\ Peer(s) \in Side
    BY <2>1, PeerIsOther
  <2>4. Gains(s, f, C, D) /\ Keeps(Peer(s), C, D)
    BY <2>3, ControlGained, SameKeeps
  <2>5. Append(control[s], f) \in Seq(C) /\ Len(Append(control[s], f)) <= ControlCap
    BY <2>1, <2>2, Appended
  <2>6. control' \in [Side -> Seq(C)] /\ \A t \in Side : Len(control'[t]) <= ControlCap
    BY <2>1, <2>5 DEF QueuesOK
  <2>7. QueuesOK(C, D)'
    BY <2>6 DEF QueuesOK
  <2> QED BY <2>4, <2>7
<1> QED BY <1>1, <1>2

\* s queues a data frame, or finds its queue full.
LEMMA TryQueueDataGains ==
    ASSUME NEW C, NEW D, C \intersect D = {}, QueuesOK(C, D), NEW s \in Side, NEW f \in D,
           UNCHANGED <<control, phase, wire>>, TryQueueData(s, f)
    PROVE  /\ QueuesOK(C, D)' /\ Keeps(Peer(s), C, D)
           /\ DataFull(s) => Keeps(s, C, D)
           /\ ~DataFull(s) => Gains(s, f, C, D)
<1>1. CASE DataFull(s)
  <2>1. UNCHANGED data
    BY <1>1 DEF TryQueueData
  <2>2. Keeps(s, C, D) /\ Keeps(Peer(s), C, D)
    BY <2>1, SameKeeps, PeerIsOther
  <2>3. QueuesOK(C, D)'
    BY <2>1 DEF QueuesOK
  <2> QED BY <1>1, <2>2, <2>3
<1>2. CASE ~DataFull(s)
  <2>1. /\ data \in [Side -> Seq(D)] /\ Len(data[s]) <= DataCap
        /\ Len(data[s]) # DataCap /\ data' = [data EXCEPT ![s] = Append(@, f)]
    BY <1>2 DEF QueuesOK, DataFull, TryQueueData
  <2>2. data[s] \in Seq(D)
    BY <2>1
  <2>3. /\ data'[s] = Append(data[s], f) /\ data'[Peer(s)] = data[Peer(s)]
        /\ Peer(s) \in Side
    BY <2>1, PeerIsOther
  <2>4. Gains(s, f, C, D) /\ Keeps(Peer(s), C, D)
    BY <2>3, DataGained, SameKeeps
  <2>5. /\ Append(data[s], f) \in Seq(D) /\ Len(Append(data[s], f)) <= DataCap
        /\ Append(data[s], f) # << >>
    BY <2>1, <2>2, Appended
  <2>6. data' \in [Side -> Seq(D)] /\ \A t \in Side : Len(data'[t]) <= DataCap
    BY <2>1, <2>5 DEF QueuesOK
  <2>7. \A t \in Side : phase'[t] = "data" => data'[t] # << >>
    BY <2>1, <2>5 DEF QueuesOK
  <2>8. QueuesOK(C, D)'
    BY <2>6, <2>7 DEF QueuesOK
  <2> QED BY <1>2, <2>4, <2>8
<1> QED BY <1>1, <1>2

\* The writer of s takes a step: no frame is lost, made or overtaken by another
\* of its kind.
LEMMA WritesKeep ==
    ASSUME NEW C, NEW D, C \intersect D = {}, QueuesOK(C, D), NEW s \in Side, Writes(s)
    PROVE  QueuesOK(C, D)' /\ \A t \in Side : Keeps(t, C, D)
<1>0. /\ control \in [Side -> Seq(C)] /\ data \in [Side -> Seq(D)]
      /\ wire \in [Side -> Seq(C \union D)]
      /\ phase \in [Side -> {"select", "data", "stopped"}]
      /\ control[s] \in Seq(C) /\ data[s] \in Seq(D) /\ wire[s] \in Seq(C \union D)
      /\ Len(control[s]) <= ControlCap /\ Len(data[s]) <= DataCap /\ Len(wire[s]) <= WireCap
  BY DEF QueuesOK
<1>1. CASE phase' # phase /\ UNCHANGED <<control, data, wire>>
  <2>1. \A t \in Side : Keeps(t, C, D)
    BY <1>1, SameKeeps
  <2>2. /\ phase' \in [Side -> {"select", "data", "stopped"}]
        /\ \A t \in Side : phase'[t] = "data" => phase[t] = "data" \/ data[t] # << >>
    BY <1>0, <1>1 DEF Writes, WriteControl, WriteData
  <2>3. QueuesOK(C, D)'
    BY <1>1, <2>2 DEF QueuesOK
  <2> QED BY <2>1, <2>3
<1>2. CASE /\ control[s] # << >> /\ WireOpen(s) /\ Send(s, Head(control[s]))
           /\ control' = [control EXCEPT ![s] = Tail(@)] /\ UNCHANGED <<data, phase>>
  <2>1. /\ wire' = [wire EXCEPT ![s] = Append(@, Head(control[s]))] /\ Len(wire[s]) < WireCap
    BY <1>2 DEF Send, WireOpen
  <2>2. /\ Tail(control[s]) \in Seq(C) /\ Len(Tail(control[s])) <= ControlCap
        /\ Head(control[s]) \in C \union D
    BY <1>0, <1>2, Tailed
  <2>3. /\ Append(wire[s], Head(control[s])) \in Seq(C \union D)
        /\ Len(Append(wire[s], Head(control[s]))) <= WireCap
    BY <1>0, <2>1, <2>2, Appended
  <2>4. /\ wire'[s] = Append(wire[s], Head(control[s])) /\ control'[s] = Tail(control[s])
        /\ \A t \in Side : t # s => wire'[t] = wire[t] /\ control'[t] = control[t]
    BY <1>0, <1>2, <2>1
  <2>5. Keeps(s, C, D)
    BY <1>2, <2>4, MovedKeeps
  <2>6. \A t \in Side : Keeps(t, C, D)
    BY <1>2, <2>4, <2>5, SameKeeps
  <2>7. /\ control' \in [Side -> Seq(C)] /\ \A t \in Side : Len(control'[t]) <= ControlCap
    BY <1>0, <1>2, <2>2, <2>4 DEF QueuesOK
  <2>8. /\ wire' \in [Side -> Seq(C \union D)] /\ \A t \in Side : Len(wire'[t]) <= WireCap
    BY <1>0, <2>1, <2>3, <2>4 DEF QueuesOK
  <2>9. QueuesOK(C, D)'
    BY <1>2, <2>7, <2>8 DEF QueuesOK
  <2> QED BY <2>6, <2>9
<1>3. CASE WriteData(s)
  <2>1. /\ wire' = [wire EXCEPT ![s] = Append(@, Head(data[s]))] /\ Len(wire[s]) < WireCap
        /\ data' = [data EXCEPT ![s] = Tail(@)] /\ phase[s] = "data"
        /\ phase' = [phase EXCEPT ![s] = "select"] /\ UNCHANGED control
    BY <1>3 DEF WriteData, Send, WireOpen
  <2>2. data[s] # << >>
    BY <2>1 DEF QueuesOK
  <2>3. /\ Tail(data[s]) \in Seq(D) /\ Len(Tail(data[s])) <= DataCap
        /\ Head(data[s]) \in C \union D
    BY <1>0, <2>2, Tailed
  <2>4. /\ Append(wire[s], Head(data[s])) \in Seq(C \union D)
        /\ Len(Append(wire[s], Head(data[s]))) <= WireCap
    BY <1>0, <2>1, <2>3, Appended
  <2>5. /\ wire'[s] = Append(wire[s], Head(data[s])) /\ data'[s] = Tail(data[s])
        /\ \A t \in Side : t # s => wire'[t] = wire[t] /\ data'[t] = data[t] /\ phase'[t] = phase[t]
        /\ phase'[s] = "select"
    BY <1>0, <2>1
  <2>6. Keeps(s, C, D)
    BY <2>1, <2>2, <2>5, MovedKeeps
  <2>7. \A t \in Side : Keeps(t, C, D)
    BY <2>1, <2>5, <2>6, SameKeeps
  <2>8. /\ data' \in [Side -> Seq(D)] /\ \A t \in Side : Len(data'[t]) <= DataCap
    BY <1>0, <2>1, <2>3, <2>5 DEF QueuesOK
  <2>9. /\ wire' \in [Side -> Seq(C \union D)] /\ \A t \in Side : Len(wire'[t]) <= WireCap
    BY <1>0, <2>1, <2>4, <2>5 DEF QueuesOK
  <2>10. /\ phase' \in [Side -> {"select", "data", "stopped"}]
         /\ \A t \in Side : phase'[t] = "data" => data'[t] # << >>
    BY <1>0, <2>1, <2>5 DEF QueuesOK
  <2>11. QueuesOK(C, D)'
    BY <2>1, <2>8, <2>9, <2>10 DEF QueuesOK
  <2> QED BY <2>7, <2>11
<1> QED
  <2>1. CASE phase[s] = "select" /\ closed[s] /\ phase' = [phase EXCEPT ![s] = "stopped"] /\ UNCHANGED <<control, data, wire>>
    <3>1. phase' # phase
      BY <1>0, <2>1
    <3> QED BY <2>1, <3>1, <1>1
  <2>2. CASE phase[s] = "select" /\ phase' = [phase EXCEPT ![s] = "data"] /\ UNCHANGED <<control, data, wire>>
    <3>1. phase' # phase
      BY <1>0, <2>2
    <3> QED BY <2>2, <3>1, <1>1
  <2> QED BY <1>2, <1>3, <2>1, <2>2 DEF Writes, WriteControl

\* What the link does by itself.
LEMMA LinkStepKeeps ==
    ASSUME NEW C, NEW D, C \intersect D = {}, QueuesOK(C, D), LinkStep
    PROVE  QueuesOK(C, D)' /\ \A t \in Side : Keeps(t, C, D)
<1>1. CASE ClientSeesEnd \/ LinkBreaks \/ \E s \in Side : RunCloses(s)
  <2>1. UNCHANGED sessionVars
    BY <1>1 DEF ClientSeesEnd, LinkBreaks, RunCloses
  <2>2. \A t \in Side : Keeps(t, C, D)
    BY <2>1, SameKeeps DEF sessionVars
  <2> QED BY <2>1, <2>2 DEF sessionVars, QueuesOK
<1>2. CASE ClientWriteFails
  <2>1. UNCHANGED <<control, data, wire>> /\ phase' = [phase EXCEPT !["client"] = "stopped"]
    BY <1>2 DEF ClientWriteFails
  <2>2. \A t \in Side : Keeps(t, C, D)
    BY <2>1, SameKeeps
  <2>3. /\ phase' \in [Side -> {"select", "data", "stopped"}]
        /\ \A t \in Side : phase'[t] = "data" => phase[t] = "data"
    BY <2>1 DEF QueuesOK
  <2> QED BY <2>1, <2>2, <2>3 DEF QueuesOK
<1> QED BY <1>1, <1>2, WritesKeep DEF LinkStep
=============================================================================
