-------------------------- MODULE UdpTunnel_proofs --------------------------
(***************************************************************************)
(* A UDP association: the safety properties of UdpTunnel, for any number   *)
(* of channels, of remotes, of datagrams and of places in the queues.      *)
(*                                                                         *)
(* OpenInv follows a channel from its OPENUDP to the relay's socket, and   *)
(* says whose it is: the route until the socket is made, its destination   *)
(* from then on.  As no channel is dialled twice, what is on its way on a  *)
(* channel keeps its remote.  DataInv says the rest: where a relay and its *)
(* socket are (RelayInv), that a datagram on its way up was meant for the  *)
(* remote of its channel (UpInv), that one on its way down was drawn from  *)
(* it (DownInv), and what a channel has met when a reader finds it gone    *)
(* (CauseInv).                                                             *)
(***************************************************************************)
EXTENDS UdpTunnel, TunnelLink_proofs

USE LinkAssumption, UdpAssumption

\* The control and the data frames.
Ctl == [type : {"OPENUDP"}, ch : Ch, n : Key]
       \union [type : {"OPENOK", "OPENERR", "UDPCLOSE"}, ch : Ch, n : {0}]
Dat == [type : {"UDPDATA"}, ch : Ch, n : Nat \ {0}]

\* Where a reader can be.
Readers == [pc : {"read", "done"}, ch : {NoCh}, n : {0}]
           \union [pc : {"dial"}, ch : Ch, n : Key]
           \union [pc : {"opened"}, ch : Ch, n : {0}]
           \union [pc : {"write", "done"}, ch : Ch, n : Nat \ {0}]

Causes == {"unknown channel", "channel write", "none", "eof", "link", "queue full"}
EndsOK ==
    /\ reader \in [Side -> Readers] /\ cause \in [Side -> Causes]
    /\ closed \in [Side -> BOOLEAN]
ClientOK ==
    /\ assoc \in [pc : {"read", "opening"}, ch : Ch \union {NoCh}]
    /\ assoc.pc = "opening" => assoc.ch \in used /\ sentTo # << >>
    /\ cached \in [Key -> Ch \union {NoCh}] /\ routes \in [Ch -> Key \union {NoKey}]
    /\ resCh \in [Ch -> {"empty", "ok", "err"}] /\ openResults \subseteq used
    /\ used \subseteq Ch
ServerOK ==
    /\ dest \in [Ch -> Key \union {NoKey}] /\ assocs \subseteq Ch
    /\ relay \in [Ch -> {"none", "copy", "closing", "done"}]
    /\ sock \in [Ch -> {"none", "open", "refused", "closed"}]
HistoryOK ==
    /\ sentTo \in Seq(Key) /\ got \in [Key -> Seq(Nat)]
    /\ replied \in Nat /\ refused \subseteq Ch
Typed == QueuesOK(Ctl, Dat) /\ EndsOK /\ ClientOK /\ ServerOK /\ HistoryOK

\* The stages of a channel.
Asks(ch) == {f \in Ctl : f.type = "OPENUDP" /\ f.ch = ch}
Asked(ch, k) == Frame("OPENUDP", ch, k) \in Flying("client")
Dialling(ch) == reader["server"].pc = "dial" /\ reader["server"].ch = ch
Opening(ch) == reader["server"].pc = "opened" /\ reader["server"].ch = ch
SaidOK(ch) == Frame("OPENOK", ch, 0) \in Flying("server")
Ending(ch) == Frame("UDPCLOSE", ch, 0) \in Flying("server")
Last == sentTo[Len(sentTo)]

OpenInv(ch) ==
    /\ InOrder("client", Asks(ch))
    /\ ch \notin used => relay[ch] = "none" /\ ~Dialling(ch) /\ \A k \in Key : ~Asked(ch, k)
    /\ \A k \in Key : Asked(ch, k) => relay[ch] = "none" /\ ~Dialling(ch) /\ routes[ch] = k
    /\ Dialling(ch) => relay[ch] = "none" /\ routes[ch] = reader["server"].n
    /\ Opening(ch) \/ SaidOK(ch) \/ resCh[ch] = "ok" \/ Ending(ch) => relay[ch] # "none"
    /\ relay[ch] # "none" => dest[ch] \in Key /\ routes[ch] \in {NoKey, dest[ch]}
    /\ assoc.pc = "opening" /\ assoc.ch = ch =>
         (IF relay[ch] = "none" THEN routes[ch] ELSE dest[ch]) = Last

RelayInv(ch) ==
    /\ ch \in assocs <=> relay[ch] \in {"copy", "closing"}
    /\ relay[ch] \in {"closing", "done"} => ch \in refused
    /\ relay[ch] # "none" /\ sock[ch] # "open" => ch \in refused
    /\ ch \in refused => relay[ch] # "none"

\* The association has dealt with datagram n; it may travel on ch.
Gone(n) == n \in 1 .. Len(sentTo) /\ (assoc.pc = "opening" => n < Len(sentTo))
Meant(n, ch) == Gone(n) /\ relay[ch] # "none" /\ sentTo[n] = dest[ch]

\* Datagrams are read by the association, in flight, held by the server's reader
\* and received in this order.
Writing == reader["server"].pc = "write"
UpFlights == {f \in Dat : f \in Flying("client")}
UpInv ==
    /\ InOrder("client", Dat)
    /\ \A f \in UpFlights : Meant(f.n, f.ch)
    /\ Writing =>
         /\ Meant(reader["server"].n, reader["server"].ch)
         /\ \A f \in UpFlights : reader["server"].n < f.n
    /\ \A k \in Key : \A i \in 1 .. Len(got[k]) :
         /\ Gone(got[k][i]) /\ sentTo[got[k][i]] = k
         /\ i > 1 => got[k][i - 1] < got[k][i]
         /\ Writing => got[k][i] < reader["server"].n
         /\ \A f \in UpFlights : got[k][i] < f.n

DownInv ==
    /\ \A f \in Flying("server") \intersect Dat : relay[f.ch] # "none" /\ f.n = dest[f.ch]
    /\ RepliesAreLabelled /\ replies \subseteq Key \X Key

Stages == \A ch \in Ch : OpenInv(ch)

-----------------------------------------------------------------------------
(* Frames, and what each action does to those in flight *)

LEMMA Kinds ==
    /\ Ctl \intersect Dat = {}
    /\ Dat \in KindsOf(Ctl, Dat) /\ \A ch \in Ch : Asks(ch) \in KindsOf(Ctl, Dat)
<1>1. Ctl \intersect Dat = {}
  BY DEF Ctl, Dat
<1>2. \A ch \in Ch : Asks(ch) \subseteq Ctl
  BY DEF Asks
<1> QED BY <1>1, <1>2 DEF KindsOf

LEMMA FrameIs ==
    ASSUME NEW f \in Ctl \union Dat
    PROVE  /\ f = Frame(f.type, f.ch, f.n) /\ f.ch \in Ch
           /\ f.type = "OPENUDP" => f \in Ctl /\ f.n \in Key /\ f \in Asks(f.ch)
           /\ f.type \in {"OPENOK", "OPENERR", "UDPCLOSE"} => f \in Ctl /\ f.n = 0
           /\ f.type = "UDPDATA" => f \in Dat /\ f.n \in Nat \ {0}
           /\ f \in Dat => f.type = "UDPDATA"
BY DEF Ctl, Dat, Frame, Asks

LEMMA FrameTyped ==
    ASSUME NEW ch \in Ch
    PROVE  /\ \A k \in Key : Frame("OPENUDP", ch, k) \in Ctl
           /\ Frame("OPENOK", ch, 0) \in Ctl /\ Frame("OPENERR", ch, 0) \in Ctl
           /\ Frame("UDPCLOSE", ch, 0) \in Ctl
           /\ \A n \in Nat \ {0} : Frame("UDPDATA", ch, n) \in Dat
BY DEF Ctl, Dat, Frame

LEMMA FrameFields ==
    ASSUME NEW type, NEW ch, NEW n
    PROVE  Frame(type, ch, n).type = type /\ Frame(type, ch, n).ch = ch /\ Frame(type, ch, n).n = n
BY DEF Frame

LEMMA ReaderIs ==
    ASSUME NEW r \in Readers
    PROVE  /\ r.pc \in {"dial", "opened", "write"} => r.ch \in Ch
           /\ r.pc = "dial" => r.n \in Key
           /\ r.pc = "write" => r.n \in Nat \ {0}
BY DEF Readers

\* A reader that goes on or fails is at none of its other places.
LEMMA ReaderLeaves ==
    ASSUME EndsOK, NEW s \in Side,
           \/ ReaderGoesOn(s)
           \/ \E err : ReaderFails(s, err) \/ \E ch, n : ReaderFailsOn(s, err, ch, n)
    PROVE  /\ reader'[s].pc \notin {"dial", "opened", "write"}
           /\ \A t \in Side : t # s => reader'[t] = reader[t]
BY DEF EndsOK, ReaderGoesOn, ReaderFails, ReaderFailsOn, At, Reading

\* The actions that leave the queues and the wires alone.
Quiet ==
    \/ AssocTimesOut \/ ServerDials \/ ServerWrites
    \/ \E ch \in Ch : RemoteRefuses(ch) \/ RelayCloses(ch)

LEMMA QuietFlows ==
    ASSUME QueuesOK(Ctl, Dat), Quiet \/ UNCHANGED sessionVars
    PROVE  QueuesOK(Ctl, Dat)' /\ \A s \in Side : Keeps(s, Ctl, Dat)
<1>1. UNCHANGED sessionVars
  BY DEF Quiet, AssocTimesOut, ServerDials, ServerWrites, RemoteRefuses, RelayCloses, linkVars
<1>2. \A s \in Side : Keeps(s, Ctl, Dat)
  BY <1>1, SameKeeps DEF sessionVars
<1> QED BY <1>1, <1>2 DEF QueuesOK, sessionVars

LEMMA ServerReadsOne ==
    ASSUME QueuesOK(Ctl, Dat), ServerOpen \/ ServerData
    PROVE  /\ QueuesOK(Ctl, Dat)' /\ Keeps("server", Ctl, Dat)
           /\ Loses("client", Received("server"), Ctl, Dat)
           /\ Received("server") \in Ctl \union Dat /\ Received("server") \in Flying("client")
           /\ ServerOpen => Received("server").type = "OPENUDP"
           /\ ServerData => Received("server").type = "UDPDATA"
<1>1. "server" \in Side /\ Peer("server") = "client"
  BY DEF Side, Peer
<1>2. PICK type : Receive("server", type) /\ UNCHANGED <<control, data, phase>>
  BY DEF ServerOpen, ServerData
<1>3. /\ QueuesOK(Ctl, Dat)' /\ Keeps("server", Ctl, Dat)
      /\ Loses("client", Received("server"), Ctl, Dat)
      /\ Received("server") \in Ctl \union Dat /\ Received("server") \in Flying("client")
  BY <1>1, <1>2, ReceiveLoses
<1> QED BY <1>3 DEF ServerOpen, ServerData, Receive, Received

LEMMA ClientReadsOne ==
    ASSUME QueuesOK(Ctl, Dat),
           SignalOpen("OPENOK", "ok") \/ SignalOpen("OPENERR", "err") \/ ClientData \/ ClientClose
    PROVE  /\ QueuesOK(Ctl, Dat)' /\ Keeps("client", Ctl, Dat)
           /\ Loses("server", Received("client"), Ctl, Dat)
           /\ Received("client") \in Ctl \union Dat /\ Received("client") \in Flying("server")
           /\ SignalOpen("OPENOK", "ok") => Received("client").type = "OPENOK"
           /\ SignalOpen("OPENERR", "err") => Received("client").type = "OPENERR"
           /\ ClientData => Received("client").type = "UDPDATA"
           /\ ClientClose => Received("client").type = "UDPCLOSE"
<1>1. "client" \in Side /\ Peer("client") = "server"
  BY DEF Side, Peer
<1>2. PICK type : Receive("client", type) /\ UNCHANGED <<control, data, phase>>
  BY DEF SignalOpen, ClientData, ClientClose
<1>3. /\ QueuesOK(Ctl, Dat)' /\ Keeps("client", Ctl, Dat)
      /\ Loses("server", Received("client"), Ctl, Dat)
      /\ Received("client") \in Ctl \union Dat /\ Received("client") \in Flying("server")
  BY <1>1, <1>2, ReceiveLoses
<1> QED BY <1>3 DEF SignalOpen, ClientData, ClientClose, Receive, Received

LEMMA ServerAnswers ==
    ASSUME QueuesOK(Ctl, Dat), reader["server"].ch \in Ch, ServerDialFails \/ ServerOpened
    PROVE  /\ QueuesOK(Ctl, Dat)' /\ Keeps("client", Ctl, Dat)
           /\ ServerDialFails => \/ Keeps("server", Ctl, Dat)
                                 \/ Gains("server", Frame("OPENERR", reader["server"].ch, 0), Ctl, Dat)
           /\ ServerOpened => \/ Keeps("server", Ctl, Dat)
                              \/ Gains("server", Frame("OPENOK", reader["server"].ch, 0), Ctl, Dat)
<1>1. "server" \in Side /\ Peer("server") = "client" /\ Ctl \intersect Dat = {}
  BY Kinds DEF Side, Peer
<1>2. /\ Frame("OPENERR", reader["server"].ch, 0) \in Ctl /\ Frame("OPENOK", reader["server"].ch, 0) \in Ctl
  BY FrameTyped
<1>3. CASE ServerDialFails
  <2>1. /\ UNCHANGED <<data, phase, wire>>
        /\ \/ UNCHANGED control
           \/ ~ControlFull("server") /\ QueueControl("server", Frame("OPENERR", reader["server"].ch, 0))
    BY <1>3 DEF ServerDialFails, Answer
  <2>2. ~ServerOpened
    BY <1>3 DEF ServerDialFails, ServerOpened
  <2> QED BY <1>1, <1>2, <2>1, <2>2, QueueControlGains
<1>4. CASE ServerOpened
  <2>1. /\ UNCHANGED <<data, phase, wire>>
        /\ \/ UNCHANGED control
           \/ ~ControlFull("server") /\ QueueControl("server", Frame("OPENOK", reader["server"].ch, 0))
    BY <1>4 DEF ServerOpened, Answer
  <2>2. ~ServerDialFails
    BY <1>4 DEF ServerDialFails, ServerOpened
  <2> QED BY <1>1, <1>2, <2>1, <2>2, QueueControlGains
<1> QED BY <1>3, <1>4

LEMMA RelayEndsFlows ==
    ASSUME QueuesOK(Ctl, Dat), NEW ch \in Ch, RelayEnds(ch)
    PROVE  /\ QueuesOK(Ctl, Dat)' /\ Keeps("client", Ctl, Dat)
           /\ Keeps("server", Ctl, Dat) \/ Gains("server", Frame("UDPCLOSE", ch, 0), Ctl, Dat)
<1>1. /\ "server" \in Side /\ Peer("server") = "client" /\ Ctl \intersect Dat = {}
      /\ Frame("UDPCLOSE", ch, 0) \in Ctl
  BY FrameTyped, Kinds DEF Side, Peer
<1>2. /\ UNCHANGED <<data, phase, wire>>
      /\ \/ UNCHANGED control
         \/ ~ControlFull("server") /\ QueueControl("server", Frame("UDPCLOSE", ch, 0))
  BY DEF RelayEnds, TryQueueControl
<1> QED BY <1>1, <1>2, QueueControlGains

LEMMA RelayCopiesFlows ==
    ASSUME QueuesOK(Ctl, Dat), NEW ch \in Ch, dest[ch] \in Key, RelayCopies(ch)
    PROVE  /\ QueuesOK(Ctl, Dat)' /\ Keeps("client", Ctl, Dat)
           /\ Keeps("server", Ctl, Dat) \/ Gains("server", Frame("UDPDATA", ch, dest[ch]), Ctl, Dat)
<1>1. /\ "server" \in Side /\ Peer("server") = "client" /\ Ctl \intersect Dat = {}
      /\ dest[ch] \in Nat \ {0} /\ Frame("UDPDATA", ch, dest[ch]) \in Dat
  BY FrameTyped, Kinds DEF Side, Peer, NoKey
<1>2. UNCHANGED <<control, phase, wire>> /\ TryQueueData("server", Frame("UDPDATA", ch, dest[ch]))
  BY DEF RelayCopies
<1> QED BY <1>1, <1>2, TryQueueDataGains

LEMMA AssocOpensFlows ==
    ASSUME QueuesOK(Ctl, Dat), NEW k \in Key, NEW ch \in Ch, AssocOpens(k, ch)
    PROVE  /\ QueuesOK(Ctl, Dat)' /\ Keeps("server", Ctl, Dat)
           /\ Keeps("client", Ctl, Dat) \/ Gains("client", Frame("OPENUDP", ch, k), Ctl, Dat)
<1>1. /\ "client" \in Side /\ Peer("client") = "server" /\ Ctl \intersect Dat = {}
      /\ Frame("OPENUDP", ch, k) \in Ctl
  BY FrameTyped, Kinds DEF Side, Peer
<1>2. /\ UNCHANGED <<data, phase, wire>>
      /\ \/ UNCHANGED control
         \/ ~ControlFull("client") /\ QueueControl("client", Frame("OPENUDP", ch, k))
  BY DEF AssocOpens
<1> QED BY <1>1, <1>2, QueueControlGains

\* The association sends its datagram n on ch.
LEMMA AssocFlows ==
    ASSUME QueuesOK(Ctl, Dat), NEW ch \in Ch, NEW n \in Nat \ {0},
           UNCHANGED <<control, phase, wire>>, TryQueueData("client", Frame("UDPDATA", ch, n))
    PROVE  /\ QueuesOK(Ctl, Dat)' /\ Keeps("server", Ctl, Dat)
           /\ Keeps("client", Ctl, Dat) \/ Gains("client", Frame("UDPDATA", ch, n), Ctl, Dat)
<1>1. /\ "client" \in Side /\ Peer("client") = "server" /\ Ctl \intersect Dat = {}
      /\ Frame("UDPDATA", ch, n) \in Dat
  BY FrameTyped, Kinds DEF Side, Peer
<1> QED BY <1>1, TryQueueDataGains

-----------------------------------------------------------------------------
(* Types *)

LEMMA LastIs ==
    ASSUME Typed, sentTo # << >>
    PROVE  Len(sentTo) \in Nat \ {0} /\ Len(sentTo) \in 1 .. Len(sentTo) /\ Last \in Key
<1>1. sentTo \in Seq(Key)
  BY DEF Typed, HistoryOK
<1> QED BY <1>1 DEF Last

LEMMA SentMore ==
    ASSUME Typed, NEW k \in Key
    PROVE  /\ Append(sentTo, k) \in Seq(Key) /\ Len(sentTo) \in Nat
           /\ Len(Append(sentTo, k)) = Len(sentTo) + 1
           /\ \A n \in 1 .. Len(sentTo) : Append(sentTo, k)[n] = sentTo[n]
           /\ Append(sentTo, k)[Len(sentTo) + 1] = k
           /\ Append(sentTo, k) # << >>
<1>1. sentTo \in Seq(Key)
  BY DEF Typed, HistoryOK
<1> QED BY <1>1, Appended

\* What the association sends, and when.
LEMMA AssocData ==
    ASSUME Typed, AssocAnswered \/ \E k \in Key : AssocSends(k)
    PROVE  \/ UNCHANGED sessionVars /\ UNCHANGED sentTo
           \/ /\ UNCHANGED <<control, phase, wire>>
              /\ \E ch \in Ch, n \in Nat \ {0} :
                   /\ TryQueueData("client", Frame("UDPDATA", ch, n))
                   /\ \/ /\ AssocAnswered /\ ch = assoc.ch /\ n = Len(sentTo) /\ resCh[ch] = "ok"
                         /\ assoc.pc = "opening" /\ UNCHANGED sentTo
                      \/ /\ assoc = Idle /\ n = Len(sentTo) + 1
                         /\ \E k \in Key : cached[k] = ch /\ sentTo' = Append(sentTo, k)
<1>0. sentTo \in Seq(Key) /\ Len(sentTo) \in Nat
  BY DEF Typed, HistoryOK
<1>1. CASE AssocAnswered /\ resCh[assoc.ch] = "ok"
  <2>1. assoc.ch \in Ch /\ Len(sentTo) \in Nat \ {0}
    BY <1>1, LastIs DEF Typed, ClientOK, AssocAnswered
  <2> QED BY <1>1, <2>1 DEF AssocAnswered, historyVars
<1>2. CASE AssocAnswered /\ resCh[assoc.ch] # "ok"
  BY <1>2 DEF AssocAnswered, sessionVars, historyVars
<1>3. ASSUME NEW k \in Key, AssocSends(k)
      PROVE  /\ UNCHANGED <<control, phase, wire>>
             /\ \E ch \in Ch, n \in Nat \ {0} :
                  /\ TryQueueData("client", Frame("UDPDATA", ch, n))
                  /\ assoc = Idle /\ n = Len(sentTo) + 1
                  /\ cached[k] = ch /\ sentTo' = Append(sentTo, k)
  <2>1. cached[k] \in Ch /\ Len(sentTo) + 1 \in Nat \ {0}
    BY <1>0, <1>3 DEF Typed, ClientOK, AssocSends
  <2> QED BY <1>3, <2>1 DEF AssocSends
<1> QED BY <1>1, <1>2, <1>3

LEMMA StepQueues ==
    ASSUME Typed, Stages, Next
    PROVE  QueuesOK(Ctl, Dat)'
<1>1. QueuesOK(Ctl, Dat) /\ EndsOK /\ ServerOK
  BY DEF Typed
<1>2. CASE LinkStep
  BY <1>1, <1>2, LinkStepKeeps, Kinds
<1>3. CASE AssocAnswered \/ \E k \in Key : AssocSends(k)
  BY <1>1, <1>3, AssocData, AssocFlows, QuietFlows
<1>4. ASSUME NEW k \in Key, NEW ch \in Ch, AssocOpens(k, ch)
      PROVE  QueuesOK(Ctl, Dat)'
  BY <1>1, <1>4, AssocOpensFlows
<1>5. CASE Quiet
  BY <1>1, <1>5, QuietFlows
<1>6. CASE ServerOpen \/ ServerData
  BY <1>1, <1>6, ServerReadsOne
<1>7. CASE SignalOpen("OPENOK", "ok") \/ SignalOpen("OPENERR", "err") \/ ClientData \/ ClientClose
  BY <1>1, <1>7, ClientReadsOne
<1>8. CASE ServerDialFails \/ ServerOpened
  <2>1. reader["server"].ch \in Ch
    BY <1>1, <1>8, ReaderIs DEF EndsOK, Side, ServerDialFails, ServerOpened
  <2> QED BY <1>1, <1>8, <2>1, ServerAnswers
<1>9. ASSUME NEW ch \in Ch, RelayCopies(ch) \/ RelayEnds(ch)
      PROVE  QueuesOK(Ctl, Dat)'
  <2>1. dest[ch] \in Key
    BY <1>9 DEF RelayCopies, RelayEnds, Stages, OpenInv
  <2> QED BY <1>1, <1>9, <2>1, RelayCopiesFlows, RelayEndsFlows
<1> QED BY <1>2, <1>3, <1>4, <1>5, <1>6, <1>7, <1>8, <1>9 DEF Next, Quiet

LEMMA StepEnds ==
    ASSUME Typed, Next
    PROVE  EndsOK'
<1>1. QueuesOK(Ctl, Dat) /\ EndsOK /\ "server" \in Side /\ "client" \in Side
  BY DEF Typed, Side
<1>2. At("done", NoCh, 0) \in Readers /\ Reading \in Readers
  BY DEF At, Reading, Readers
<1>3. /\ \A s \in Side, r \in Readers : [reader EXCEPT ![s] = r] \in [Side -> Readers]
      /\ \A s \in Side, c \in Causes : [cause EXCEPT ![s] = c] \in [Side -> Causes]
  BY <1>1 DEF EndsOK
<1>4. ASSUME NEW s \in Side, NEW c \in Causes, ReaderFails(s, c), UNCHANGED closed
      PROVE  EndsOK'
  BY <1>1, <1>2, <1>3, <1>4 DEF ReaderFails, ReaderFailsOn, EndsOK
<1>5. ASSUME NEW s \in Side, ReaderGoesOn(s), UNCHANGED closed
      PROVE  EndsOK'
  BY <1>1, <1>2, <1>3, <1>5 DEF ReaderGoesOn, EndsOK
<1>6. ASSUME NEW s \in Side, NEW r \in Readers, reader' = [reader EXCEPT ![s] = r],
             UNCHANGED <<cause, closed>>
      PROVE  EndsOK'
  BY <1>1, <1>3, <1>6 DEF EndsOK
<1>7. ASSUME UNCHANGED endVars
      PROVE  EndsOK'
  BY <1>1, <1>7 DEF EndsOK, endVars
<1>8. {"unknown channel", "channel write", "eof", "link", "queue full"} \subseteq Causes
  BY DEF Causes
<1>17. ASSUME NEW s \in Side, NEW c \in Causes, NEW ch \in Ch, NEW n \in Nat \ {0},
              ReaderFailsOn(s, c, ch, n), UNCHANGED closed
       PROVE  EndsOK'
  <2>1. At("done", ch, n) \in Readers
    BY DEF At, Readers
  <2> QED BY <1>1, <1>3, <1>17, <2>1 DEF ReaderFailsOn, EndsOK
<1>9. CASE LinkStep
  <2>1. CASE ClientSeesEnd \/ LinkBreaks
    BY <1>1, <1>4, <1>8, <2>1 DEF ClientSeesEnd, LinkBreaks
  <2>2. CASE ClientWriteFails \/ \E s \in Side : RunCloses(s)
    BY <1>1, <2>2 DEF ClientWriteFails, RunCloses, EndsOK
  <2>3. CASE \E s \in Side : Writes(s)
    BY <1>7, <2>3 DEF Writes, WriteControl, WriteData
  <2> QED BY <1>9, <2>1, <2>2, <2>3 DEF LinkStep
<1>10. CASE \/ AssocAnswered \/ AssocTimesOut \/ ClientClose
            \/ SignalOpen("OPENOK", "ok") \/ SignalOpen("OPENERR", "err")
            \/ \E k \in Key : AssocSends(k) \/ \E ch \in Ch : AssocOpens(k, ch)
            \/ \E ch \in Ch : RemoteRefuses(ch) \/ RelayCopies(ch) \/ RelayEnds(ch) \/ RelayCloses(ch)
  BY <1>7, <1>10 DEF AssocAnswered, AssocTimesOut, ClientClose, SignalOpen, AssocSends, AssocOpens,
       RemoteRefuses, RelayCopies, RelayEnds, RelayCloses, linkVars, endVars
<1>11. CASE ClientData
  <2>1. Received("client").ch \in Ch /\ Received("client").n \in Nat \ {0}
    BY <1>1, <1>11, ClientReadsOne, FrameIs
  <2> QED BY <1>1, <1>7, <1>8, <1>11, <1>17, <2>1 DEF ClientData, endVars
<1>12. CASE ServerOpen
  <2>1. Received("server").ch \in Ch /\ Received("server").n \in Key
    BY <1>1, <1>12, ServerReadsOne, FrameIs
  <2>2. At("dial", Received("server").ch, Received("server").n) \in Readers
    BY <2>1 DEF At, Readers
  <2> QED BY <1>1, <1>6, <1>12, <2>2 DEF ServerOpen
<1>13. CASE ServerDialFails \/ ServerOpened
  BY <1>1, <1>4, <1>5, <1>8, <1>13 DEF ServerDialFails, ServerOpened, Answer
<1>14. CASE ServerDials
  <2>1. reader["server"].ch \in Ch
    BY <1>1, <1>14, ReaderIs DEF EndsOK, ServerDials
  <2>2. At("opened", reader["server"].ch, 0) \in Readers
    BY <2>1 DEF At, Readers
  <2> QED BY <1>1, <1>6, <1>14, <2>2 DEF ServerDials
<1>15. CASE ServerData
  <2>1. Received("server").ch \in Ch /\ Received("server").n \in Nat \ {0}
    BY <1>1, <1>15, ServerReadsOne, FrameIs
  <2>2. At("write", Received("server").ch, Received("server").n) \in Readers
    BY <2>1 DEF At, Readers
  <2> QED BY <1>1, <1>6, <1>7, <1>8, <1>15, <1>17, <2>1, <2>2 DEF ServerData, endVars
<1>16. CASE ServerWrites
  <2>1. reader["server"].ch \in Ch /\ reader["server"].n \in Nat \ {0}
    BY <1>1, <1>16, ReaderIs DEF EndsOK, ServerWrites
  <2> QED BY <1>1, <1>5, <1>8, <1>16, <1>17, <2>1 DEF ServerWrites
<1> QED BY <1>9, <1>10, <1>11, <1>12, <1>13, <1>14, <1>15, <1>16 DEF Next

LEMMA StepClient ==
    ASSUME Typed, Next
    PROVE  ClientOK'
<1>1. ClientOK /\ QueuesOK(Ctl, Dat) /\ EndsOK /\ HistoryOK
  BY DEF Typed
<1>2. ASSUME UNCHANGED clientVars, UNCHANGED sentTo
      PROVE  ClientOK'
  BY <1>1, <1>2 DEF ClientOK, clientVars
<1>3. Idle \in [pc : {"read", "opening"}, ch : Ch \union {NoCh}] /\ Idle.pc # "opening"
  BY DEF Idle
<1>4. ASSUME NEW k \in Key, AssocSends(k)
      PROVE  ClientOK'
  <2>1. sentTo' # << >> /\ UNCHANGED clientVars
    BY <1>4, SentMore DEF AssocSends
  <2> QED BY <1>1, <2>1 DEF ClientOK, clientVars
<1>5. ASSUME NEW k \in Key, NEW ch \in Ch, AssocOpens(k, ch)
      PROVE  ClientOK'
  <2>1. sentTo' # << >> /\ ch \in used'
    BY <1>5, SentMore DEF AssocOpens
  <2>2. assoc' = assoc \/ assoc' = [pc |-> "opening", ch |-> ch]
    BY <1>5 DEF AssocOpens
  <2>3. /\ assoc' \in [pc : {"read", "opening"}, ch : Ch \union {NoCh}]
        /\ assoc'.pc = "opening" => assoc'.ch \in used'
    BY <1>1, <1>5, <2>1, <2>2 DEF ClientOK, AssocOpens
  <2>4. /\ routes' \in [Ch -> Key \union {NoKey}] /\ used' \subseteq Ch /\ openResults' \subseteq used'
        /\ UNCHANGED <<cached, resCh>>
    BY <1>1, <1>5 DEF ClientOK, AssocOpens
  <2> QED BY <1>1, <2>1, <2>3, <2>4 DEF ClientOK
<1>6. CASE AssocAnswered
  <2>1. Last \in Key /\ assoc.ch \in Ch
    BY <1>1, <1>6, LastIs DEF AssocAnswered, ClientOK
  <2>2. cached' \in [Key -> Ch \union {NoCh}] /\ resCh' \in [Ch -> {"empty", "ok", "err"}]
    BY <1>1, <1>6, <2>1 DEF AssocAnswered, ClientOK, Last
  <2> QED BY <1>1, <1>3, <1>6, <2>2 DEF AssocAnswered, ClientOK, historyVars
<1>7. CASE AssocTimesOut
  BY <1>1, <1>3, <1>7 DEF AssocTimesOut, ClientOK, historyVars
<1>8. CASE SignalOpen("OPENOK", "ok") \/ SignalOpen("OPENERR", "err")
  BY <1>1, <1>8 DEF SignalOpen, ClientOK, historyVars
<1>9. CASE ClientClose
  BY <1>1, <1>9 DEF ClientClose, ClientOK, historyVars
<1>10. CASE \/ LinkStep /\ UNCHANGED <<clientVars, serverVars, historyVars>>
            \/ ClientData \/ ServerOpen \/ ServerDialFails \/ ServerDials \/ ServerOpened
            \/ ServerData \/ ServerWrites
            \/ \E ch \in Ch : RemoteRefuses(ch) \/ RelayCopies(ch) \/ RelayEnds(ch) \/ RelayCloses(ch)
  BY <1>2, <1>10 DEF ClientData, ServerOpen, ServerDialFails, ServerDials, ServerOpened, ServerData,
       ServerWrites, RemoteRefuses, RelayCopies, RelayEnds, RelayCloses, historyVars
<1> QED BY <1>4, <1>5, <1>6, <1>7, <1>8, <1>9, <1>10 DEF Next

LEMMA StepServer ==
    ASSUME Typed, Next
    PROVE  ServerOK' /\ HistoryOK'
<1>1. ServerOK /\ HistoryOK /\ QueuesOK(Ctl, Dat) /\ EndsOK /\ "server" \in Side
  BY DEF Typed, Side
<1>2. ASSUME UNCHANGED serverVars, UNCHANGED <<sentTo, got, replied, refused>>
      PROVE  ServerOK' /\ HistoryOK'
  BY <1>1, <1>2 DEF ServerOK, HistoryOK, serverVars
<1>3. CASE \/ LinkStep /\ UNCHANGED <<clientVars, serverVars, historyVars>>
           \/ AssocAnswered \/ AssocTimesOut \/ SignalOpen("OPENOK", "ok") \/ SignalOpen("OPENERR", "err")
           \/ ClientData \/ ClientClose \/ ServerOpen \/ ServerDialFails \/ ServerOpened \/ ServerData
  BY <1>2, <1>3 DEF AssocAnswered, AssocTimesOut, SignalOpen, ClientData, ClientClose, ServerOpen,
       ServerDialFails, ServerOpened, ServerData, historyVars
<1>4. ASSUME NEW k \in Key, AssocSends(k) \/ \E ch \in Ch : AssocOpens(k, ch)
      PROVE  ServerOK' /\ HistoryOK'
  <2>1. sentTo' \in Seq(Key) /\ UNCHANGED serverVars /\ UNCHANGED <<got, replied, refused>>
    BY <1>4, SentMore DEF AssocSends, AssocOpens
  <2> QED BY <1>1, <2>1 DEF ServerOK, HistoryOK, serverVars
<1>5. CASE ServerDials
  <2>1. reader["server"].ch \in Ch /\ reader["server"].n \in Key
    BY <1>1, <1>5, ReaderIs DEF EndsOK, ServerDials
  <2> QED BY <1>1, <1>5, <2>1 DEF ServerDials, ServerOK, HistoryOK, historyVars
<1>6. CASE ServerWrites
  <2>1. reader["server"].ch \in Ch /\ reader["server"].n \in Nat
    BY <1>1, <1>6, ReaderIs DEF EndsOK, ServerWrites
  <2>2. sock' \in [Ch -> {"none", "open", "refused", "closed"}]
    <3>1. sock \in [Ch -> {"none", "open", "refused", "closed"}]
      BY <1>1 DEF ServerOK
    <3>2. \/ UNCHANGED sock
          \/ \E x : x \in {"open", "refused", "none", "closed"}
                   /\ sock' = [sock EXCEPT ![reader["server"].ch] = x]
      <4>1. sock[reader["server"].ch] \in {"none", "open", "refused", "closed"}
        BY <2>1, <3>1
      <4>2. CASE sock[reader["server"].ch] = "refused"
        BY <1>6, <2>1, <3>1, <4>2 DEF ServerWrites
      <4>3. CASE sock[reader["server"].ch] # "refused"
        BY <1>6, <2>1, <3>1, <4>1, <4>3 DEF ServerWrites
      <4> QED BY <4>2, <4>3
    <3> QED BY <3>1, <3>2
  <2>3. got' \in [Key -> Seq(Nat)]
    <3>1. \A k \in Key : got[k] \in Seq(Nat) /\ Append(got[k], reader["server"].n) \in Seq(Nat)
      BY <1>1, <2>1, Appended DEF HistoryOK
    <3>2. \/ UNCHANGED got
          \/ got' = [got EXCEPT ![dest[reader["server"].ch]]
                             = Append(got[dest[reader["server"].ch]], reader["server"].n)]
      BY <1>6 DEF ServerWrites
    <3>3. got \in [Key -> Seq(Nat)]
      BY <1>1 DEF HistoryOK
    <3> QED BY <3>1, <3>2, <3>3
  <2> QED BY <1>1, <1>6, <2>2, <2>3 DEF ServerWrites, ServerOK, HistoryOK
<1>7. ASSUME NEW ch \in Ch, RemoteRefuses(ch) \/ RelayCopies(ch) \/ RelayEnds(ch) \/ RelayCloses(ch)
      PROVE  ServerOK' /\ HistoryOK'
  <2>1. CASE RemoteRefuses(ch)
    BY <1>1, <2>1 DEF RemoteRefuses, ServerOK, HistoryOK
  <2>2. CASE RelayCopies(ch)
    BY <1>1, <2>2 DEF RelayCopies, ServerOK, HistoryOK, serverVars
  <2>3. CASE RelayEnds(ch) \/ RelayCloses(ch)
    BY <1>1, <2>3 DEF RelayEnds, RelayCloses, ServerOK, HistoryOK, historyVars
  <2> QED BY <1>7, <2>1, <2>2, <2>3
<1> QED BY <1>3, <1>4, <1>5, <1>6, <1>7 DEF Next

LEMMA InitTyped == Init => Typed
<1> SUFFICES ASSUME Init
             PROVE  Typed
  OBVIOUS
<1>0. << >> \in Seq(Ctl) /\ << >> \in Seq(Dat) /\ << >> \in Seq(Ctl \union Dat) /\ << >> \in Seq(Key)
      /\ << >> \in Seq(Nat) /\ Len(<< >>) = 0
  OBVIOUS
<1>1. QueuesOK(Ctl, Dat)
  BY <1>0 DEF Init, LinkInit, QueuesOK, Side
<1>2. EndsOK
  BY DEF Init, LinkInit, EndsOK, Reading, Readers, Causes
<1>3. ClientOK
  BY DEF Init, ClientOK, Idle
<1>4. ServerOK
  BY DEF Init, ServerOK
<1>5. HistoryOK
  BY <1>0 DEF Init, HistoryOK
<1> QED BY <1>1, <1>2, <1>3, <1>4, <1>5 DEF Typed

LEMMA NextTyped ==
    ASSUME Typed, Stages, [Next]_vars
    PROVE  Typed'
<1>1. CASE Next
  <2>1. QueuesOK(Ctl, Dat)' /\ EndsOK' /\ ClientOK' /\ ServerOK' /\ HistoryOK'
    BY <1>1, StepQueues, StepEnds, StepClient, StepServer
  <2> QED BY <2>1 DEF Typed
<1>2. CASE UNCHANGED vars
  <2> USE <1>2 DEF vars, Typed
  <2>1. QueuesOK(Ctl, Dat)' /\ EndsOK'
    BY DEF linkVars, sessionVars, endVars, QueuesOK, EndsOK
  <2>2. ClientOK' /\ HistoryOK'
    BY DEF clientVars, historyVars, ClientOK, HistoryOK
  <2>3. ServerOK'
    BY DEF serverVars, ServerOK
  <2> QED BY <2>1, <2>2, <2>3
<1> QED BY <1>1, <1>2

-----------------------------------------------------------------------------
(* How a step can bring a channel to a stage *)

Drawn(ch) == ch \notin used /\ ch \in used'

FlightMoves(ch) ==
    /\ \A k \in Key : Asked(ch, k)' => Asked(ch, k) \/ (Drawn(ch) /\ routes'[ch] = k)
    /\ SaidOK(ch)' => SaidOK(ch) \/ Opening(ch)
    /\ Ending(ch)' => Ending(ch) \/ relay[ch] # "none"
ReaderMoves(ch) ==
    /\ Dialling(ch)' =>
         \/ Dialling(ch) /\ reader'["server"] = reader["server"]
         \/ Asked(ch, reader'["server"].n) /\ \A k \in Key : ~Asked(ch, k)'
    /\ Opening(ch)' => Opening(ch) \/ relay'[ch] # "none"
ClientMoves(ch) ==
    /\ ch \in used => ch \in used'
    /\ \/ routes'[ch] = routes[ch]
       \/ Drawn(ch)
       \/ routes'[ch] = NoKey /\ Ending(ch)
    /\ resCh'[ch] = "ok" => resCh[ch] = "ok" \/ SaidOK(ch)
    /\ assoc'.pc = "opening" /\ assoc'.ch = ch =>
         \/ assoc.pc = "opening" /\ assoc.ch = ch /\ Last' = Last
         \/ Drawn(ch) /\ routes'[ch] = Last'
ServerMoves(ch) ==
    /\ relay[ch] # "none" => relay'[ch] # "none" /\ dest'[ch] = dest[ch]
    /\ relay'[ch] # "none" =>
         relay[ch] # "none" \/ (Dialling(ch) /\ Opening(ch)' /\ dest'[ch] = reader["server"].n)

LEMMA StepFlights ==
    ASSUME Typed, Stages, Next, NEW ch \in Ch
    PROVE  FlightMoves(ch)
<1>1. QueuesOK(Ctl, Dat) /\ EndsOK /\ ServerOK /\ ClientOK /\ "server" \in Side /\ "client" \in Side
  BY DEF Typed, Side
<1>2. ASSUME Flying("client")' \subseteq Flying("client"), Flying("server")' \subseteq Flying("server")
      PROVE  FlightMoves(ch)
  BY <1>2 DEF FlightMoves, Asked, SaidOK, Ending
<1>3. ASSUME NEW f, f.type \notin {"OPENUDP", "OPENOK", "UDPCLOSE"},
             Flying("client")' \subseteq Flying("client") \union {f},
             Flying("server")' \subseteq Flying("server") \union {f}
      PROVE  FlightMoves(ch)
  BY <1>3 DEF FlightMoves, Asked, SaidOK, Ending, Frame
<1>4. CASE LinkStep
  BY <1>1, <1>2, <1>4, LinkStepKeeps, Kinds DEF Keeps
<1>5. CASE Quiet
  BY <1>1, <1>2, <1>5, QuietFlows DEF Keeps
<1>6. CASE AssocAnswered \/ \E k \in Key : AssocSends(k)
  <2>1. CASE UNCHANGED sessionVars
    BY <1>1, <1>2, <2>1, QuietFlows DEF Keeps
  <2>2. CASE ~UNCHANGED sessionVars
    <3>1. PICK c \in Ch, n \in Nat \ {0} :
            UNCHANGED <<control, phase, wire>> /\ TryQueueData("client", Frame("UDPDATA", c, n))
      BY <1>6, <2>2, AssocData
    <3>2. /\ Flying("server")' = Flying("server")
          /\ \/ Flying("client")' = Flying("client")
             \/ Flying("client")' = Flying("client") \union {Frame("UDPDATA", c, n)}
      BY <1>1, <3>1, AssocFlows DEF Keeps, Gains
    <3>3. Frame("UDPDATA", c, n).type = "UDPDATA"
      BY DEF Frame
    <3> QED BY <1>3, <3>2, <3>3
  <2> QED BY <2>1, <2>2
<1>7. ASSUME NEW k \in Key, NEW c \in Ch, AssocOpens(k, c)
      PROVE  FlightMoves(ch)
  <2>1. /\ Flying("server")' = Flying("server")
        /\ \/ Flying("client")' = Flying("client")
           \/ Flying("client")' = Flying("client") \union {Frame("OPENUDP", c, k)}
    BY <1>1, <1>7, AssocOpensFlows DEF Keeps, Gains
  <2>2. c \notin used /\ c \in used' /\ routes'[c] = k
    BY <1>1, <1>7 DEF AssocOpens, Fresh, ClientOK
  <2> QED BY <2>1, <2>2 DEF FlightMoves, Asked, SaidOK, Ending, Frame, Drawn
<1>8. CASE ServerOpen \/ ServerData
  BY <1>1, <1>2, <1>8, ServerReadsOne DEF Keeps, Loses
<1>9. CASE SignalOpen("OPENOK", "ok") \/ SignalOpen("OPENERR", "err") \/ ClientData \/ ClientClose
  BY <1>1, <1>2, <1>9, ClientReadsOne DEF Keeps, Loses
<1>10. CASE ServerDialFails \/ ServerOpened
  <2>1. reader["server"].ch \in Ch
    BY <1>1, <1>10, ReaderIs DEF EndsOK, ServerDialFails, ServerOpened
  <2>2. CASE ServerDialFails
    <3>1. /\ Flying("client")' = Flying("client")
          /\ \/ Flying("server")' = Flying("server")
             \/ Flying("server")' = Flying("server") \union {Frame("OPENERR", reader["server"].ch, 0)}
      BY <1>1, <2>1, <2>2, ServerAnswers DEF Keeps, Gains
    <3>2. Frame("OPENERR", reader["server"].ch, 0).type = "OPENERR"
      BY DEF Frame
    <3> QED BY <1>3, <3>1, <3>2
  <2>3. CASE ServerOpened
    <3>1. /\ Flying("client")' = Flying("client")
          /\ \/ Flying("server")' = Flying("server")
             \/ Flying("server")' = Flying("server") \union {Frame("OPENOK", reader["server"].ch, 0)}
      BY <1>1, <2>1, <2>3, ServerAnswers DEF Keeps, Gains
    <3>2. Opening(reader["server"].ch)
      BY <2>3 DEF ServerOpened, Opening
    <3> QED BY <3>1, <3>2 DEF FlightMoves, Asked, SaidOK, Ending, Frame
  <2> QED BY <1>10, <2>2, <2>3
<1>11. ASSUME NEW c \in Ch, RelayEnds(c)
       PROVE  FlightMoves(ch)
  <2>1. /\ Flying("client")' = Flying("client")
        /\ \/ Flying("server")' = Flying("server")
           \/ Flying("server")' = Flying("server") \union {Frame("UDPCLOSE", c, 0)}
        /\ relay[c] # "none"
    BY <1>1, <1>11, RelayEndsFlows DEF Keeps, Gains, RelayEnds
  <2> QED BY <2>1 DEF FlightMoves, Asked, SaidOK, Ending, Frame
<1>12. ASSUME NEW c \in Ch, RelayCopies(c)
       PROVE  FlightMoves(ch)
  <2>1. dest[c] \in Key
    BY <1>12 DEF RelayCopies, Stages, OpenInv
  <2>2. /\ Flying("client")' = Flying("client")
        /\ \/ Flying("server")' = Flying("server")
           \/ Flying("server")' = Flying("server") \union {Frame("UDPDATA", c, dest[c])}
    BY <1>1, <1>12, <2>1, RelayCopiesFlows DEF Keeps, Gains
  <2>3. Frame("UDPDATA", c, dest[c]).type = "UDPDATA"
    BY DEF Frame
  <2> QED BY <1>3, <2>2, <2>3
<1> QED BY <1>4, <1>5, <1>6, <1>7, <1>8, <1>9, <1>10, <1>11, <1>12 DEF Next, Quiet

\* When an OPENUDP is read, none of its channel is left.
LEMMA LastAsk ==
    ASSUME NEW f \in Ctl, NEW ch \in Ch, Loses("client", f, Ctl, Dat), InOrder("client", Asks(ch)),
           NEW k \in Key, f = Frame("OPENUDP", ch, k), Flying("client")' \subseteq Flying("client"),
           \A j \in Key : Asked(ch, j) => routes[ch] = j, Asked(ch, k)
    PROVE  \A j \in Key : ~Asked(ch, j)'
<1> SUFFICES ASSUME NEW j \in Key, Asked(ch, j)'
             PROVE  FALSE
  OBVIOUS
<1>1. Asked(ch, j) /\ j = k
  BY DEF Asked
<1>2. Asks(ch) \in KindsOf(Ctl, Dat) /\ f \in Asks(ch)
  BY Kinds, FrameFields DEF Asks
<1>3. \A g \in Flying("client")' \intersect Asks(ch) : f.n < g.n
  BY <1>2 DEF Loses
<1>4. f \in Flying("client")' \intersect Asks(ch)
  BY <1>1, <1>2 DEF Asked
<1>5. f.n = k /\ k \in Nat
  BY DEF Frame
<1> QED BY <1>3, <1>4, <1>5

LEMMA StepReaders ==
    ASSUME Typed, Stages, Next, NEW ch \in Ch
    PROVE  ReaderMoves(ch)
<1>1. /\ QueuesOK(Ctl, Dat) /\ EndsOK /\ ServerOK /\ "server" \in Side /\ "client" \in Side
      /\ DOMAIN reader = Side /\ reader["server"] \in Readers
  BY DEF Typed, Side, EndsOK
<1>2. ASSUME reader'["server"] = reader["server"]
      PROVE  ReaderMoves(ch)
  BY <1>2 DEF ReaderMoves, Dialling, Opening
<1>3. ASSUME NEW s \in Side,
             \/ ReaderGoesOn(s)
             \/ \E err : ReaderFails(s, err) \/ \E c, n : ReaderFailsOn(s, err, c, n)
      PROVE  ReaderMoves(ch)
  <2>1. reader'[s].pc \notin {"dial", "opened"} /\ \A t \in Side : t # s => reader'[t] = reader[t]
    BY <1>1, <1>3, ReaderLeaves
  <2> QED BY <1>1, <1>2, <2>1 DEF ReaderMoves, Dialling, Opening, Side
<1>4. CASE LinkStep
  <2>1. CASE ClientSeesEnd \/ LinkBreaks
    BY <1>1, <1>3, <2>1 DEF ClientSeesEnd, LinkBreaks
  <2>2. CASE ClientWriteFails \/ \E s \in Side : RunCloses(s) \/ Writes(s)
    BY <1>2, <2>2 DEF ClientWriteFails, RunCloses, Writes, WriteControl, WriteData, endVars
  <2> QED BY <1>4, <2>1, <2>2 DEF LinkStep
<1>5. CASE \/ AssocAnswered \/ AssocTimesOut \/ ClientClose
           \/ SignalOpen("OPENOK", "ok") \/ SignalOpen("OPENERR", "err")
           \/ \E k \in Key : AssocSends(k) \/ \E c \in Ch : AssocOpens(k, c)
           \/ \E c \in Ch : RemoteRefuses(c) \/ RelayCopies(c) \/ RelayEnds(c) \/ RelayCloses(c)
  BY <1>2, <1>5 DEF AssocAnswered, AssocTimesOut, ClientClose, SignalOpen, AssocSends, AssocOpens,
       RemoteRefuses, RelayCopies, RelayEnds, RelayCloses, linkVars, endVars
<1>6. CASE ClientData
  BY <1>1, <1>2, <1>3, <1>6 DEF ClientData
<1>7. CASE ServerDialFails \/ ServerOpened \/ ServerWrites
  BY <1>1, <1>3, <1>7 DEF ServerDialFails, ServerOpened, ServerWrites, Answer
<1>8. CASE ServerOpen
  <2>1. PICK c \in Ch, k \in Key : Received("server") = Frame("OPENUDP", c, k)
    BY <1>1, <1>8, ServerReadsOne, FrameIs
  <2>2. reader'["server"] = At("dial", c, k)
    BY <1>1, <1>8, <2>1, FrameFields DEF ServerOpen
  <2>3. Loses("client", Received("server"), Ctl, Dat) /\ Asked(c, k)
    BY <1>1, <1>8, <2>1, ServerReadsOne DEF Asked
  <2>4. /\ InOrder("client", Asks(c)) /\ \A j \in Key : Asked(c, j) => routes[c] = j
        /\ Received("server") \in Ctl /\ Flying("client")' \subseteq Flying("client")
    BY <2>1, <2>3, FrameTyped DEF Stages, OpenInv, Loses
  <2>5. \A j \in Key : ~Asked(c, j)'
    BY <2>1, <2>3, <2>4, LastAsk
  <2> QED BY <2>2, <2>3, <2>5 DEF ReaderMoves, Dialling, Opening, At
<1>9. CASE ServerDials
  <2>1. reader["server"].ch \in Ch
    BY <1>1, <1>9, ReaderIs DEF ServerDials
  <2>2. reader'["server"] = At("opened", reader["server"].ch, 0) /\ relay'[reader["server"].ch] = "copy"
    BY <1>1, <1>9, <2>1 DEF ServerDials, ServerOK
  <2> QED BY <2>2 DEF ReaderMoves, Dialling, Opening, At
<1>10. CASE ServerData
  <2>1. CASE reader' = [reader EXCEPT !["server"] = At("write", Received("server").ch, Received("server").n)]
    <3>1. reader'["server"].pc = "write"
      BY <1>1, <2>1 DEF At
    <3> QED BY <3>1 DEF ReaderMoves, Dialling, Opening
  <2> QED BY <1>1, <1>2, <1>3, <1>10, <2>1 DEF ServerData
<1> QED BY <1>4, <1>5, <1>6, <1>7, <1>8, <1>9, <1>10 DEF Next

LEMMA StepClientMoves ==
    ASSUME Typed, Stages, Next, NEW ch \in Ch
    PROVE  ClientMoves(ch)
<1>1. QueuesOK(Ctl, Dat) /\ ClientOK /\ HistoryOK
  BY DEF Typed
<1>2. ASSUME UNCHANGED <<used, routes, resCh, sentTo>>, assoc' = assoc \/ assoc' = Idle
      PROVE  ClientMoves(ch)
  BY <1>2 DEF ClientMoves, Last, Idle
<1>3. CASE \/ LinkStep /\ UNCHANGED <<clientVars, serverVars, historyVars>>
           \/ AssocTimesOut \/ ClientData \/ ServerOpen \/ ServerDialFails \/ ServerDials
           \/ ServerOpened \/ ServerData \/ ServerWrites
           \/ \E c \in Ch : RemoteRefuses(c) \/ RelayCopies(c) \/ RelayEnds(c) \/ RelayCloses(c)
  BY <1>2, <1>3 DEF AssocTimesOut, ClientData, ServerOpen, ServerDialFails, ServerDials, ServerOpened,
       ServerData, ServerWrites, RemoteRefuses, RelayCopies, RelayEnds, RelayCloses, clientVars, historyVars
<1>4. ASSUME NEW k \in Key, AssocSends(k)
      PROVE  ClientMoves(ch)
  BY <1>4 DEF AssocSends, clientVars, ClientMoves, Idle
<1>5. ASSUME NEW k \in Key, NEW c \in Ch, AssocOpens(k, c)
      PROVE  ClientMoves(ch)
  <2>1. /\ c \notin used /\ used' = used \union {c} /\ UNCHANGED resCh
        /\ routes'[c] = k /\ \A d \in Ch : d # c => routes'[d] = routes[d]
    BY <1>1, <1>5 DEF AssocOpens, Fresh, ClientOK
  <2>2. (assoc' = assoc /\ assoc.pc = "read") \/ assoc' = [pc |-> "opening", ch |-> c]
    BY <1>5 DEF AssocOpens, Idle
  <2>3. Last' = k
    <3>1. sentTo' = Append(sentTo, k) /\ Len(Append(sentTo, k)) = Len(sentTo) + 1
          /\ Append(sentTo, k)[Len(sentTo) + 1] = k
      BY <1>5, SentMore DEF AssocOpens
    <3> QED BY <3>1 DEF Last
  <2> QED BY <2>1, <2>2, <2>3 DEF ClientMoves, Drawn
<1>6. CASE AssocAnswered
  BY <1>1, <1>6 DEF AssocAnswered, ClientOK, ClientMoves, Idle, historyVars
<1>7. CASE SignalOpen("OPENERR", "err")
  BY <1>1, <1>7 DEF SignalOpen, ClientOK, ClientMoves, Last, historyVars
<1>8. CASE SignalOpen("OPENOK", "ok")
  <2>1. PICK c \in Ch : Received("client") = Frame("OPENOK", c, 0)
    BY <1>1, <1>8, ClientReadsOne, FrameIs
  <2>2. SaidOK(c) /\ Received("client").ch = c
    BY <1>1, <1>8, <2>1, ClientReadsOne, FrameFields DEF SaidOK
  <2>3. \A d \in Ch : resCh'[d] = resCh[d] \/ d = c
    BY <1>1, <1>8, <2>2 DEF SignalOpen, ClientOK
  <2> QED BY <1>8, <2>2, <2>3 DEF SignalOpen, ClientMoves, Last, historyVars
<1>9. CASE ClientClose
  <2>1. PICK c \in Ch : Received("client") = Frame("UDPCLOSE", c, 0)
    BY <1>1, <1>9, ClientReadsOne, FrameIs
  <2>2. Ending(c) /\ Received("client").ch = c
    BY <1>1, <1>9, <2>1, ClientReadsOne, FrameFields DEF Ending
  <2>3. routes'[c] = NoKey /\ \A d \in Ch : d # c => routes'[d] = routes[d]
    BY <1>1, <1>9, <2>2 DEF ClientClose, ClientOK
  <2> QED BY <1>9, <2>2, <2>3 DEF ClientClose, ClientMoves, Last, historyVars
<1> QED BY <1>3, <1>4, <1>5, <1>6, <1>7, <1>8, <1>9 DEF Next

LEMMA StepServerMoves ==
    ASSUME Typed, Stages, Next, NEW ch \in Ch
    PROVE  ServerMoves(ch)
<1>1. EndsOK /\ ServerOK /\ "server" \in Side
  BY DEF Typed, Side
<1>2. ASSUME UNCHANGED dest, relay'[ch] # "none" <=> relay[ch] # "none"
      PROVE  ServerMoves(ch)
  BY <1>2 DEF ServerMoves
<1>3. CASE ServerDials
  <2>1. PICK c \in Ch : c = reader["server"].ch
    BY <1>1, <1>3, ReaderIs DEF ServerDials, EndsOK
  <2>2. Dialling(c) /\ relay[c] = "none"
    BY <1>3, <2>1 DEF ServerDials, Dialling, Stages, OpenInv
  <2>3. /\ \A d \in Ch : d # c => relay'[d] = relay[d] /\ dest'[d] = dest[d]
        /\ dest'[c] = reader["server"].n /\ reader'["server"] = At("opened", c, 0)
    BY <1>1, <1>3, <2>1 DEF ServerDials, ServerOK, EndsOK
  <2> QED BY <2>2, <2>3 DEF ServerMoves, Opening, At
<1>4. ASSUME NEW c \in Ch, RelayEnds(c) \/ RelayCloses(c)
      PROVE  ServerMoves(ch)
  BY <1>1, <1>2, <1>4 DEF RelayEnds, RelayCloses, ServerOK
<1>5. CASE \/ LinkStep /\ UNCHANGED <<clientVars, serverVars, historyVars>>
           \/ \E k \in Key : AssocSends(k) \/ \E c \in Ch : AssocOpens(k, c)
           \/ AssocAnswered \/ AssocTimesOut \/ SignalOpen("OPENOK", "ok") \/ SignalOpen("OPENERR", "err")
           \/ ClientData \/ ClientClose \/ ServerOpen \/ ServerDialFails \/ ServerOpened \/ ServerData
           \/ ServerWrites \/ \E c \in Ch : RemoteRefuses(c) \/ RelayCopies(c)
  BY <1>2, <1>5 DEF AssocSends, AssocOpens, AssocAnswered, AssocTimesOut, SignalOpen, ClientData, ClientClose,
       ServerOpen, ServerDialFails, ServerOpened, ServerData, ServerWrites, RemoteRefuses, RelayCopies, serverVars
<1> QED BY <1>3, <1>4, <1>5 DEF Next

Moves(ch) == FlightMoves(ch) /\ ReaderMoves(ch) /\ ClientMoves(ch) /\ ServerMoves(ch)

-----------------------------------------------------------------------------
(* The stages of an open *)

LEMMA OpenMoves ==
    ASSUME Typed, Typed', NEW ch \in Ch, OpenInv(ch), Moves(ch), InOrder("client", Asks(ch))'
    PROVE  OpenInv(ch)'
<1>1. /\ FlightMoves(ch) /\ ReaderMoves(ch) /\ ClientMoves(ch) /\ ServerMoves(ch)
  BY DEF Moves
<1>2. ~(Dialling(ch)' /\ Opening(ch)') /\ ~(Dialling(ch) /\ Opening(ch))
  BY DEF Dialling, Opening
<1>3. Dialling(ch) => reader["server"].n \in Key /\ ch \in used
  BY ReaderIs DEF Typed, EndsOK, Dialling, Side, OpenInv
<1>4. Dialling(ch)' => reader'["server"].n \in Key
  BY ReaderIs DEF Typed, EndsOK, Dialling, Side
<1>5. assoc.pc = "opening" /\ assoc.ch = ch => ch \in used
  BY DEF Typed, ClientOK
<1>6. routes[ch] \in Key \union {NoKey} /\ NoKey \notin Key
  BY DEF Typed, ClientOK
<1>7. /\ ch \notin used => relay[ch] = "none" /\ ~Dialling(ch) /\ \A k \in Key : ~Asked(ch, k)
      /\ \A k \in Key : Asked(ch, k) => relay[ch] = "none" /\ ~Dialling(ch) /\ routes[ch] = k
      /\ Dialling(ch) => relay[ch] = "none" /\ routes[ch] = reader["server"].n
      /\ Opening(ch) \/ SaidOK(ch) \/ resCh[ch] = "ok" \/ Ending(ch) => relay[ch] # "none"
      /\ relay[ch] # "none" => dest[ch] \in Key /\ routes[ch] \in {NoKey, dest[ch]}
  BY DEF OpenInv
\* While it is none, the route stays and the socket is made only from Dialling.
<1>8. /\ relay[ch] = "none" /\ ~Dialling(ch) => relay'[ch] = "none"
      /\ relay[ch] = "none" /\ ch \in used => routes'[ch] = routes[ch]
      /\ Dialling(ch) /\ Dialling(ch)' => relay'[ch] = "none"
  BY <1>1, <1>2, <1>7 DEF ServerMoves, ClientMoves, Drawn
<1>9. \A k \in Key : Asked(ch, k) => ch \in used
  BY <1>7
<1>10. (ch \notin used => relay[ch] = "none" /\ ~Dialling(ch) /\ \A k \in Key : ~Asked(ch, k))'
  BY <1>1, <1>4, <1>7, <1>8 DEF ClientMoves, ReaderMoves, FlightMoves, Drawn
<1>11. (\A k \in Key : Asked(ch, k) => relay[ch] = "none" /\ ~Dialling(ch) /\ routes[ch] = k)'
  <2> SUFFICES ASSUME NEW k \in Key, Asked(ch, k)'
               PROVE  relay'[ch] = "none" /\ ~Dialling(ch)' /\ routes'[ch] = k
    OBVIOUS
  <2>1. CASE Asked(ch, k)
    BY <1>1, <1>7, <1>8, <1>9, <2>1 DEF ReaderMoves
  <2>2. CASE Drawn(ch) /\ routes'[ch] = k
    BY <1>1, <1>4, <1>7, <1>8, <2>2 DEF ReaderMoves, Drawn
  <2> QED BY <1>1, <2>1, <2>2 DEF FlightMoves
<1>12. (Dialling(ch) => relay[ch] = "none" /\ routes[ch] = reader["server"].n)'
  <2> SUFFICES ASSUME Dialling(ch)'
               PROVE  relay'[ch] = "none" /\ routes'[ch] = reader'["server"].n
    OBVIOUS
  <2>1. CASE Dialling(ch) /\ reader'["server"] = reader["server"]
    BY <1>3, <1>7, <1>8, <2>1
  <2>2. CASE Asked(ch, reader'["server"].n)
    BY <1>4, <1>7, <1>8, <1>9, <2>2
  <2> QED BY <1>1, <2>1, <2>2 DEF ReaderMoves
<1>13. (Opening(ch) \/ SaidOK(ch) \/ resCh[ch] = "ok" \/ Ending(ch) => relay[ch] # "none")'
  BY <1>1, <1>7 DEF FlightMoves, ReaderMoves, ClientMoves, ServerMoves
<1>14. (relay[ch] # "none" => dest[ch] \in Key /\ routes[ch] \in {NoKey, dest[ch]})'
  BY <1>1, <1>3, <1>7, <1>8 DEF ClientMoves, ServerMoves, Drawn
<1>15. (assoc.pc = "opening" /\ assoc.ch = ch =>
          (IF relay[ch] = "none" THEN routes[ch] ELSE dest[ch]) = Last)'
  <2> SUFFICES ASSUME assoc'.pc = "opening", assoc'.ch = ch
               PROVE  (IF relay'[ch] = "none" THEN routes'[ch] ELSE dest'[ch]) = Last'
    OBVIOUS
  <2>1. CASE Drawn(ch) /\ routes'[ch] = Last'
    BY <1>7, <1>8, <2>1 DEF Drawn
  <2>2. CASE assoc.pc = "opening" /\ assoc.ch = ch /\ Last' = Last
    <3>1. (IF relay[ch] = "none" THEN routes[ch] ELSE dest[ch]) = Last
      BY <2>2 DEF OpenInv
    <3> QED BY <1>1, <1>5, <1>7, <1>8, <2>2, <3>1 DEF ServerMoves
  <2> QED BY <1>1, <2>1, <2>2 DEF ClientMoves
<1> QED BY <1>10, <1>11, <1>12, <1>13, <1>14, <1>15 DEF OpenInv

\* A channel is drawn once, so one OPENUDP of it at most is under way.
LEMMA StepAsks ==
    ASSUME Typed, Stages, Next, NEW ch \in Ch
    PROVE  InOrder("client", Asks(ch))'
<1>1. QueuesOK(Ctl, Dat) /\ EndsOK /\ ServerOK /\ ClientOK /\ "server" \in Side /\ "client" \in Side
  BY DEF Typed, Side
<1>2. Asks(ch) \in KindsOf(Ctl, Dat) /\ InOrder("client", Asks(ch))
  BY Kinds DEF Stages, OpenInv
<1>3. ASSUME Keeps("client", Ctl, Dat) \/ \E f : Loses("client", f, Ctl, Dat)
      PROVE  InOrder("client", Asks(ch))'
  BY <1>2, <1>3 DEF Keeps, Loses
<1>4. ASSUME NEW f, Gains("client", f, Ctl, Dat), f \in Asks(ch) => Flying("client") \intersect Asks(ch) = {}
      PROVE  InOrder("client", Asks(ch))'
  BY <1>2, <1>4 DEF Gains
<1>5. CASE LinkStep
  BY <1>1, <1>3, <1>5, LinkStepKeeps, Kinds
<1>6. CASE Quiet
  BY <1>1, <1>3, <1>6, QuietFlows
<1>7. CASE AssocAnswered \/ \E k \in Key : AssocSends(k)
  <2>1. CASE UNCHANGED sessionVars
    BY <1>1, <1>3, <2>1, QuietFlows
  <2>2. CASE ~UNCHANGED sessionVars
    <3>1. PICK c \in Ch, n \in Nat \ {0} :
            UNCHANGED <<control, phase, wire>> /\ TryQueueData("client", Frame("UDPDATA", c, n))
      BY <1>7, <2>2, AssocData
    <3>2. Keeps("client", Ctl, Dat) \/ Gains("client", Frame("UDPDATA", c, n), Ctl, Dat)
      BY <1>1, <3>1, AssocFlows
    <3>3. Frame("UDPDATA", c, n) \notin Asks(ch)
      BY DEF Frame, Asks
    <3> QED BY <1>3, <1>4, <3>2, <3>3
  <2> QED BY <2>1, <2>2
<1>8. ASSUME NEW k \in Key, NEW c \in Ch, AssocOpens(k, c)
      PROVE  InOrder("client", Asks(ch))'
  <2>1. c \notin used
    BY <1>8 DEF AssocOpens, Fresh
  <2>2. \A j \in Key : ~Asked(c, j)
    BY <2>1 DEF Stages, OpenInv
  <2>3. Flying("client") \intersect Asks(c) = {}
    <3> SUFFICES ASSUME NEW g \in Flying("client"), g \in Asks(c)
                 PROVE  FALSE
      OBVIOUS
    <3>1. g = Frame("OPENUDP", c, g.n) /\ g.n \in Key
      BY FrameIs DEF Asks
    <3> QED BY <2>2, <3>1 DEF Asked
  <2>4. Frame("OPENUDP", c, k) \in Asks(ch) => c = ch
    BY DEF Frame, Asks
  <2> QED BY <1>1, <1>3, <1>4, <1>8, <2>3, <2>4, AssocOpensFlows
<1>9. CASE ServerOpen \/ ServerData
  BY <1>1, <1>3, <1>9, ServerReadsOne
<1>10. CASE SignalOpen("OPENOK", "ok") \/ SignalOpen("OPENERR", "err") \/ ClientData \/ ClientClose
  BY <1>1, <1>3, <1>10, ClientReadsOne
<1>11. CASE ServerDialFails \/ ServerOpened
  <2>1. reader["server"].ch \in Ch
    BY <1>1, <1>11, ReaderIs DEF EndsOK, ServerDialFails, ServerOpened
  <2> QED BY <1>1, <1>3, <1>11, <2>1, ServerAnswers
<1>12. ASSUME NEW c \in Ch, RelayEnds(c) \/ RelayCopies(c)
       PROVE  InOrder("client", Asks(ch))'
  <2>1. dest[c] \in Key
    BY <1>12 DEF RelayEnds, RelayCopies, Stages, OpenInv
  <2> QED BY <1>1, <1>3, <1>12, <2>1, RelayEndsFlows, RelayCopiesFlows
<1> QED BY <1>5, <1>6, <1>7, <1>8, <1>9, <1>10, <1>11, <1>12 DEF Next, Quiet

LEMMA InitStages == Init => Stages
<1> SUFFICES ASSUME Init, NEW ch \in Ch
             PROVE  OpenInv(ch)
  BY DEF Stages
<1>1. /\ \A s \in Side : control[s] = << >> /\ data[s] = << >> /\ wire[s] = << >> /\ reader[s] = Reading
      /\ "client" \in Side /\ "server" \in Side
  BY DEF Init, LinkInit, Side
<1>2. Flying("client") = {} /\ Flying("server") = {}
  BY <1>1 DEF Flying, Elems
<1>3. InOrder("client", Asks(ch))
  BY <1>1 DEF InOrder, Ordered, Rising, Before, Elems
<1>4. /\ \A k \in Key : ~Asked(ch, k)
      /\ ~SaidOK(ch) /\ ~Ending(ch) /\ ~Dialling(ch) /\ ~Opening(ch)
  BY <1>1, <1>2 DEF Asked, SaidOK, Ending, Dialling, Opening, Reading
<1>5. relay[ch] = "none" /\ resCh[ch] = "empty" /\ assoc.pc # "opening"
  BY DEF Init, Idle
<1> QED BY <1>3, <1>4, <1>5 DEF OpenInv

LEMMA NextStages ==
    ASSUME Typed, Stages, [Next]_vars
    PROVE  Stages' /\ (Next => \A ch \in Ch : Moves(ch))
<1> SUFFICES ASSUME NEW ch \in Ch
             PROVE  OpenInv(ch)' /\ (Next => Moves(ch))
  BY DEF Stages
<1>1. OpenInv(ch) /\ Typed'
  BY NextTyped DEF Stages
<1>2. CASE Next
  <2>1. Moves(ch) /\ InOrder("client", Asks(ch))'
    BY <1>2, StepFlights, StepReaders, StepClientMoves, StepServerMoves, StepAsks DEF Moves
  <2> QED BY <1>1, <2>1, OpenMoves
<1>3. CASE UNCHANGED vars
  <2>1. UNCHANGED <<control, data, wire, reader, used, routes, dest, relay, resCh, assoc, sentTo>>
    BY <1>3 DEF vars, linkVars, sessionVars, endVars, clientVars, serverVars, historyVars
  <2>2. /\ Flying("client")' = Flying("client") /\ Flying("server")' = Flying("server")
        /\ InOrder("client", Asks(ch))' /\ Last' = Last
    BY <1>1, <2>1 DEF Flying, InOrder, Last, OpenInv
  <2>3. /\ \A k \in Key : Asked(ch, k)' = Asked(ch, k)
        /\ SaidOK(ch)' = SaidOK(ch) /\ Ending(ch)' = Ending(ch)
        /\ Dialling(ch)' = Dialling(ch) /\ Opening(ch)' = Opening(ch)
    BY <2>1, <2>2 DEF Asked, SaidOK, Ending, Dialling, Opening
  <2>4. OpenInv(ch)'
    BY <1>1, <2>1, <2>2, <2>3 DEF OpenInv
  <2>5. Next => Moves(ch)
    BY StepFlights, StepReaders, StepClientMoves, StepServerMoves DEF Moves
  <2> QED BY <2>4, <2>5
<1> QED BY <1>2, <1>3

-----------------------------------------------------------------------------
(* The relay *)

LEMMA StepRelay ==
    ASSUME Typed, Stages, Next, NEW ch \in Ch, RelayInv(ch)
    PROVE  RelayInv(ch)' /\ (relay[ch] = "done" => relay'[ch] = "done")
<1>1. EndsOK /\ ServerOK /\ "server" \in Side
  BY DEF Typed, Side
<1> USE DEF RelayInv
<1>2. CASE \/ LinkStep /\ UNCHANGED <<clientVars, serverVars, historyVars>>
           \/ \E k \in Key : AssocSends(k) \/ \E c \in Ch : AssocOpens(k, c)
           \/ AssocAnswered \/ AssocTimesOut \/ SignalOpen("OPENOK", "ok") \/ SignalOpen("OPENERR", "err")
           \/ ClientData \/ ClientClose \/ ServerOpen \/ ServerDialFails \/ ServerOpened \/ ServerData
           \/ \E c \in Ch : RelayCopies(c)
  <2>1. UNCHANGED <<assocs, relay, sock, refused>>
    BY <1>2 DEF AssocSends, AssocOpens, AssocAnswered, AssocTimesOut, SignalOpen, ClientData, ClientClose,
         ServerOpen, ServerDialFails, ServerOpened, ServerData, RelayCopies, serverVars, historyVars
  <2> QED BY <2>1
<1>3. CASE ServerDials
  <2>1. PICK c \in Ch : c = reader["server"].ch
    BY <1>1, <1>3, ReaderIs DEF ServerDials, EndsOK
  <2>2. /\ relay'[c] = "copy" /\ sock'[c] = "open" /\ assocs' = assocs \union {c} /\ refused' = refused
        /\ \A d \in Ch : d # c => relay'[d] = relay[d] /\ sock'[d] = sock[d]
    BY <1>1, <1>3, <2>1 DEF ServerDials, ServerOK, historyVars
  <2>3. relay[c] = "none"
    BY <1>3, <2>1 DEF ServerDials, Dialling, Stages, OpenInv
  <2> QED BY <2>2, <2>3
<1>4. CASE ServerWrites
  <2>1. UNCHANGED <<assocs, relay, refused>>
    BY <1>4 DEF ServerWrites
  <2>2. sock'[ch] # "open" => sock[ch] # "open"
    BY <1>1, <1>4, ReaderIs DEF ServerWrites, ServerOK, EndsOK
  <2> QED BY <2>1, <2>2
<1>5. ASSUME NEW c \in Ch, RemoteRefuses(c) \/ RelayEnds(c) \/ RelayCloses(c)
      PROVE  RelayInv(ch)' /\ (relay[ch] = "done" => relay'[ch] = "done")
  <2>1. CASE RemoteRefuses(c)
    BY <1>1, <2>1 DEF RemoteRefuses, ServerOK
  <2>2. CASE RelayEnds(c)
    BY <1>1, <2>2 DEF RelayEnds, ServerOK, historyVars
  <2>3. CASE RelayCloses(c)
    BY <1>1, <2>3 DEF RelayCloses, ServerOK, historyVars
  <2> QED BY <1>5, <2>1, <2>2, <2>3
<1> QED BY <1>2, <1>3, <1>4, <1>5 DEF Next

LEMMA StepCached ==
    ASSUME Typed, Stages, \A ch \in Ch : RelayInv(ch), Next, CachedChannelsWereOpened
    PROVE  CachedChannelsWereOpened'
<1> SUFFICES ASSUME NEW k \in Key, cached'[k] # NoCh
             PROVE  /\ dest'[cached'[k]] = k /\ relay'[cached'[k]] # "none"
                    /\ cached'[k] \in assocs' \/ cached'[k] \in refused'
  BY DEF CachedChannelsWereOpened
<1>1. ClientOK /\ ClientOK' /\ ServerOK' /\ HistoryOK
  BY StepClient, StepServer DEF Typed
<1>2. \A ch \in Ch : relay[ch] # "none" => relay'[ch] # "none" /\ dest'[ch] = dest[ch]
  BY StepServerMoves DEF ServerMoves
<1>3. cached'[k] \in Ch
  BY <1>1 DEF ClientOK
<1>4. dest'[cached'[k]] = k /\ relay'[cached'[k]] # "none"
  <2>1. CASE cached'[k] = cached[k]
    BY <1>2, <1>3, <2>1 DEF CachedChannelsWereOpened
  <2>2. CASE cached'[k] # cached[k]
    <3>1. AssocAnswered
      BY <2>2 DEF Next, LinkStep, AssocSends, AssocOpens, AssocTimesOut, SignalOpen, ClientData, ClientClose,
         ServerOpen, ServerDialFails, ServerDials, ServerOpened, ServerData, ServerWrites,
         RemoteRefuses, RelayCopies, RelayEnds, RelayCloses, clientVars
    <3>2. cached'[k] = assoc.ch /\ k = Last /\ resCh[assoc.ch] = "ok" /\ assoc.pc = "opening"
      BY <1>1, <2>2, <3>1 DEF AssocAnswered, ClientOK, Last
    <3>3. relay[assoc.ch] # "none" /\ dest[assoc.ch] = k
      BY <1>3, <3>2 DEF Stages, OpenInv
    <3> QED BY <1>2, <1>3, <3>2, <3>3
  <2> QED BY <2>1, <2>2
<1>5. ASSUME NEW ch \in Ch, relay'[ch] # "none"
      PROVE  ch \in assocs' \/ ch \in refused'
  <2>1. RelayInv(ch)'
    BY StepRelay
  <2>2. relay'[ch] \in {"none", "copy", "closing", "done"}
    BY <1>1 DEF ServerOK
  <2> QED BY <1>5, <2>1, <2>2 DEF RelayInv
<1> QED BY <1>3, <1>4, <1>5

-----------------------------------------------------------------------------
(* The datagrams, on their way up *)

\* The association reads one datagram at a time.
LEMMA StepSent ==
    ASSUME Typed, Next
    PROVE  \/ sentTo' = sentTo /\ (assoc'.pc = "opening" => assoc.pc = "opening")
           \/ assoc = Idle /\ \E k \in Key : sentTo' = Append(sentTo, k)
<1>1. CASE \E k \in Key : AssocSends(k) \/ \E ch \in Ch : AssocOpens(k, ch)
  BY <1>1 DEF AssocSends, AssocOpens
<1>2. CASE AssocAnswered \/ AssocTimesOut
  BY <1>2 DEF AssocAnswered, AssocTimesOut, Idle, historyVars
<1>3. CASE \/ LinkStep /\ UNCHANGED <<clientVars, serverVars, historyVars>>
           \/ SignalOpen("OPENOK", "ok") \/ SignalOpen("OPENERR", "err") \/ ClientData \/ ClientClose
           \/ ServerOpen \/ ServerDialFails \/ ServerDials \/ ServerOpened \/ ServerData \/ ServerWrites
           \/ \E ch \in Ch : RemoteRefuses(ch) \/ RelayCopies(ch) \/ RelayEnds(ch) \/ RelayCloses(ch)
  BY <1>3 DEF SignalOpen, ClientData, ClientClose, ServerOpen, ServerDialFails, ServerDials, ServerOpened,
     ServerData, ServerWrites, RemoteRefuses, RelayCopies, RelayEnds, RelayCloses, clientVars, historyVars
<1> QED BY <1>1, <1>2, <1>3 DEF Next

LEMMA GoneStays ==
    ASSUME Typed, Next, NEW n, Gone(n)
    PROVE  Gone(n)' /\ sentTo'[n] = sentTo[n]
<1>1. CASE sentTo' = sentTo /\ (assoc'.pc = "opening" => assoc.pc = "opening")
  BY <1>1 DEF Gone
<1>2. ASSUME NEW k \in Key, sentTo' = Append(sentTo, k)
      PROVE  Gone(n)' /\ sentTo'[n] = sentTo[n]
  <2>1. /\ Len(sentTo) \in Nat /\ Len(sentTo') = Len(sentTo) + 1
        /\ \A i \in 1 .. Len(sentTo) : sentTo'[i] = sentTo[i]
    BY <1>2, SentMore
  <2> QED BY <2>1 DEF Gone
<1> QED BY <1>1, <1>2, StepSent

LEMMA MeantStays ==
    ASSUME Typed, Stages, Next, NEW n, NEW ch \in Ch, Meant(n, ch)
    PROVE  Meant(n, ch)'
BY GoneStays, StepServerMoves DEF Meant, ServerMoves

\* Nothing is sent, taken or received.
LEMMA UpRests ==
    ASSUME Typed, Stages, Next, UpInv, InOrder("client", Dat)', UpFlights' \subseteq UpFlights, got' = got,
           Writing' => Writing /\ reader'["server"] = reader["server"]
    PROVE  UpInv'
<1>1. \A f \in UpFlights' : Meant(f.n, f.ch)'
  <2>1. \A f \in UpFlights' : f.ch \in Ch /\ Meant(f.n, f.ch)
    BY DEF UpInv, UpFlights, Dat
  <2> QED BY <2>1, MeantStays
<1>2. Writing' => Meant(reader["server"].n, reader["server"].ch)' /\ \A f \in UpFlights' : reader["server"].n < f.n
  <2>1. Writing => reader["server"].ch \in Ch
    BY ReaderIs DEF Writing, Typed, EndsOK, Side
  <2> QED BY <2>1, MeantStays DEF UpInv
<1>3. \A k \in Key : \A i \in 1 .. Len(got[k]) :
        /\ Gone(got[k][i])' /\ sentTo'[got[k][i]] = k
        /\ i > 1 => got[k][i - 1] < got[k][i]
        /\ Writing' => got[k][i] < reader["server"].n
        /\ \A f \in UpFlights' : got[k][i] < f.n
  BY GoneStays DEF UpInv
<1>4. (Writing =>
        /\ Meant(reader["server"].n, reader["server"].ch)
        /\ \A f \in UpFlights : reader["server"].n < f.n)'
  <2> SUFFICES ASSUME Writing'
               PROVE  /\ Meant(reader["server"].n, reader["server"].ch)'
                      /\ \A f \in UpFlights' : reader'["server"].n < f.n
    OBVIOUS
  <2>1. reader'["server"] = reader["server"]
    OBVIOUS
  <2> QED BY <1>2, <2>1 DEF Meant, Gone
<1>5. (\A k \in Key : \A i \in 1 .. Len(got[k]) :
         /\ Gone(got[k][i]) /\ sentTo[got[k][i]] = k
         /\ i > 1 => got[k][i - 1] < got[k][i]
         /\ Writing => got[k][i] < reader["server"].n
         /\ \A f \in UpFlights : got[k][i] < f.n)'
  <2> SUFFICES ASSUME NEW k \in Key, NEW i \in 1 .. Len(got[k])
               PROVE  /\ Gone(got[k][i])' /\ sentTo'[got[k][i]] = k
                      /\ i > 1 => got[k][i - 1] < got[k][i]
                      /\ Writing' => got[k][i] < reader'["server"].n
                      /\ \A f \in UpFlights' : got[k][i] < f.n
    BY DEF Gone
  <2> QED BY <1>3
<1> QED BY <1>1, <1>4, <1>5 DEF UpInv

\* The association queues the datagram n, the last it has read.
LEMMA UpGains ==
    ASSUME Typed, Stages, Next, UpInv, NEW c \in Ch, NEW n \in Nat \ {0},
           Gains("client", Frame("UDPDATA", c, n), Ctl, Dat), UNCHANGED <<got, reader>>,
           Meant(n, c)', \A m : Gone(m) => m < n
    PROVE  UpInv'
<1>1. UpFlights' = UpFlights \union {Frame("UDPDATA", c, n)}
  BY FrameTyped DEF UpFlights, Gains
<1>2. \A f \in UpFlights : f.ch \in Ch /\ f.n < n /\ Meant(f.n, f.ch)
  BY DEF UpInv, UpFlights, Meant, Dat
<1>3. Frame("UDPDATA", c, n).n = n /\ Frame("UDPDATA", c, n).ch = c
  BY DEF Frame
<1>4. InOrder("client", Dat)'
  <2>1. Dat \in KindsOf(Ctl, Dat) /\ InOrder("client", Dat)
    BY Kinds DEF UpInv
  <2>2. \A g \in Flying("client") \intersect Dat : g.n < Frame("UDPDATA", c, n).n
    BY <1>2, <1>3 DEF UpFlights
  <2> QED BY <2>1, <2>2 DEF Gains
<1>5. \A f \in UpFlights' : Meant(f.n, f.ch)'
  <2>1. \A f \in UpFlights : Meant(f.n, f.ch)'
    BY <1>2, MeantStays
  <2> QED BY <1>1, <1>3, <2>1
<1>6. (Writing =>
         /\ Meant(reader["server"].n, reader["server"].ch)
         /\ \A f \in UpFlights : reader["server"].n < f.n)'
  <2> SUFFICES ASSUME Writing
               PROVE  /\ Meant(reader["server"].n, reader["server"].ch)'
                      /\ \A f \in UpFlights' : reader["server"].n < f.n
    BY DEF Writing, Meant, Gone
  <2>1. reader["server"].ch \in Ch
    BY ReaderIs DEF Writing, Typed, EndsOK, Side
  <2>2. /\ Meant(reader["server"].n, reader["server"].ch)
        /\ \A f \in UpFlights : reader["server"].n < f.n
    BY DEF UpInv
  <2>3. Meant(reader["server"].n, reader["server"].ch)'
    BY <2>1, <2>2, MeantStays
  <2>4. reader["server"].n < n
    BY <2>2 DEF Meant
  <2> QED BY <1>1, <1>3, <2>2, <2>3, <2>4
<1>7. (\A k \in Key : \A i \in 1 .. Len(got[k]) :
         /\ Gone(got[k][i]) /\ sentTo[got[k][i]] = k
         /\ i > 1 => got[k][i - 1] < got[k][i]
         /\ Writing => got[k][i] < reader["server"].n
         /\ \A f \in UpFlights : got[k][i] < f.n)'
  <2> SUFFICES ASSUME NEW k \in Key, NEW i \in 1 .. Len(got[k])
               PROVE  /\ Gone(got[k][i])' /\ sentTo'[got[k][i]] = k
                      /\ i > 1 => got[k][i - 1] < got[k][i]
                      /\ Writing => got[k][i] < reader["server"].n
                      /\ \A f \in UpFlights' : got[k][i] < f.n
    BY DEF Gone, Writing
  <2>1. /\ Gone(got[k][i]) /\ sentTo[got[k][i]] = k
        /\ i > 1 => got[k][i - 1] < got[k][i]
        /\ Writing => got[k][i] < reader["server"].n
        /\ \A f \in UpFlights : got[k][i] < f.n
    BY DEF UpInv
  <2> QED BY <1>1, <1>3, <2>1, GoneStays
<1> QED BY <1>4, <1>5, <1>6, <1>7 DEF UpInv

LEMMA AssocUp ==
    ASSUME Typed, Stages, Next, CachedChannelsWereOpened, UpInv,
           AssocAnswered \/ \E k \in Key : AssocSends(k)
    PROVE  UpInv'
<1>1. QueuesOK(Ctl, Dat) /\ ServerOK /\ HistoryOK /\ ClientOK /\ "client" \in Side
  BY DEF Typed, Side
<1>2. UNCHANGED <<got, reader, dest, relay>> /\ assoc' = Idle
  BY DEF AssocAnswered, AssocSends, endVars, clientVars, serverVars, historyVars
<1>3. ASSUME Keeps("client", Ctl, Dat)
      PROVE  UpInv'
  <2>1. InOrder("client", Dat)' /\ UpFlights' = UpFlights
    BY <1>3, Kinds DEF Keeps, UpInv, UpFlights
  <2> QED BY <1>2, <2>1, UpRests DEF Writing
<1>4. CASE UNCHANGED sessionVars
  BY <1>1, <1>3, <1>4, QuietFlows
<1>5. CASE ~UNCHANGED sessionVars
  <2>1. PICK c \in Ch, n \in Nat \ {0} :
          /\ UNCHANGED <<control, phase, wire>> /\ TryQueueData("client", Frame("UDPDATA", c, n))
          /\ \/ /\ AssocAnswered /\ c = assoc.ch /\ n = Len(sentTo) /\ resCh[c] = "ok"
                /\ assoc.pc = "opening" /\ UNCHANGED sentTo
             \/ /\ assoc = Idle /\ n = Len(sentTo) + 1
                /\ \E k \in Key : cached[k] = c /\ sentTo' = Append(sentTo, k)
    BY <1>5, AssocData
  <2>2. Keeps("client", Ctl, Dat) \/ Gains("client", Frame("UDPDATA", c, n), Ctl, Dat)
    BY <1>1, <2>1, AssocFlows
  <2>3. Meant(n, c)' /\ \A m : Gone(m) => m < n
    <3>1. CASE /\ c = assoc.ch /\ n = Len(sentTo) /\ resCh[c] = "ok"
               /\ assoc.pc = "opening" /\ UNCHANGED sentTo
      <4>1. relay[c] # "none" /\ dest[c] = Last
        BY <3>1 DEF Stages, OpenInv
      <4>2. n \in 1 .. Len(sentTo)
        BY <3>1, LastIs DEF Typed, ClientOK
      <4> QED BY <1>2, <3>1, <4>1, <4>2 DEF Meant, Gone, Last, Idle
    <3>2. ASSUME assoc = Idle, n = Len(sentTo) + 1,
                 NEW k \in Key, cached[k] = c, sentTo' = Append(sentTo, k)
          PROVE  Meant(n, c)' /\ \A m : Gone(m) => m < n
      <4>1. relay[c] # "none" /\ dest[c] = k
        <5>1. c # NoCh
          BY <3>2, <2>1, <1>1 DEF NoCh, AssocSends, ClientOK, AssocAnswered, Idle
        <5> QED BY <3>2, <5>1 DEF CachedChannelsWereOpened
      <4>2. Len(sentTo) \in Nat /\ Len(sentTo') = n /\ sentTo'[n] = k
        BY <3>2, SentMore
      <4> QED BY <1>2, <3>2, <4>1, <4>2 DEF Meant, Gone, Idle
    <3> QED BY <2>1, <3>1, <3>2
  <2> QED BY <1>2, <1>3, <2>2, <2>3, UpGains
<1> QED BY <1>4, <1>5

\* readLoop takes a datagram.
LEMMA ServerUp ==
    ASSUME Typed, Stages, Next, UpInv, ServerOpen \/ ServerData
    PROVE  UpInv'
<1>1. QueuesOK(Ctl, Dat) /\ EndsOK /\ HistoryOK /\ "client" \in Side /\ "server" \in Side /\ DOMAIN reader = Side
  BY DEF Typed, Side, EndsOK
<1>2. PICK f \in Ctl \union Dat : f = Received("server") /\ Loses("client", f, Ctl, Dat)
                                  /\ f \in Flying("client") /\ (ServerData => f.type = "UDPDATA")
  BY <1>1, ServerReadsOne
<1>3. got' = got /\ UpFlights' \subseteq UpFlights /\ InOrder("client", Dat)' /\ ~Writing
  BY <1>2, Kinds DEF UpInv, UpFlights, Loses, ServerOpen, ServerData, Receive, Writing, historyVars
<1>4. CASE ~Writing'
  BY <1>3, <1>4, UpRests
<1>5. CASE Writing'
  <2>1. ServerData /\ reader' = [reader EXCEPT !["server"] = At("write", f.ch, f.n)]
    <3>1. ~ServerOpen
      BY <1>1, <1>5 DEF ServerOpen, Writing, At
    <3>2. reader' # reader /\ \A err, c, n : ~ReaderFailsOn("server", err, c, n)
      BY <1>1, <1>3, <1>5, ReaderLeaves DEF Writing
    <3> QED BY <1>2, <3>1, <3>2 DEF ServerData
  <2>2. reader'["server"].ch = f.ch /\ reader'["server"].n = f.n
    BY <1>1, <2>1 DEF At
  <2>3. f \in UpFlights /\ f.ch \in Ch /\ f.n \in Nat /\ \A g \in UpFlights' : f.n < g.n
    BY <1>2, <2>1, FrameIs, Kinds DEF UpInv, UpFlights, Loses
  <2>4. Meant(f.n, f.ch)'
    BY <2>3, MeantStays DEF UpInv
  <2>5. (Writing =>
           /\ Meant(reader["server"].n, reader["server"].ch)
           /\ \A g \in UpFlights : reader["server"].n < g.n)'
    BY <2>2, <2>3, <2>4 DEF Meant, Gone
  <2>6. \A g \in UpFlights' : Meant(g.n, g.ch)'
    <3>1. \A g \in UpFlights' : g.ch \in Ch /\ Meant(g.n, g.ch)
      BY <1>3 DEF UpInv, UpFlights, Dat
    <3> QED BY <3>1, MeantStays
  <2>7. (\A k \in Key : \A i \in 1 .. Len(got[k]) :
           /\ Gone(got[k][i]) /\ sentTo[got[k][i]] = k
           /\ i > 1 => got[k][i - 1] < got[k][i]
           /\ Writing => got[k][i] < reader["server"].n
           /\ \A g \in UpFlights : got[k][i] < g.n)'
    <3> SUFFICES ASSUME NEW k \in Key, NEW i \in 1 .. Len(got[k])
                 PROVE  /\ Gone(got[k][i])' /\ sentTo'[got[k][i]] = k
                        /\ i > 1 => got[k][i - 1] < got[k][i]
                        /\ got[k][i] < f.n
                        /\ \A g \in UpFlights' : got[k][i] < g.n
      BY <1>3, <2>2 DEF Gone
    <3>1. /\ Gone(got[k][i]) /\ sentTo[got[k][i]] = k
          /\ i > 1 => got[k][i - 1] < got[k][i]
          /\ \A g \in UpFlights : got[k][i] < g.n
      BY DEF UpInv
    <3> QED BY <1>3, <2>3, <3>1, GoneStays
  <2> QED BY <1>3, <2>5, <2>6, <2>7 DEF UpInv
<1> QED BY <1>4, <1>5

\* The remote gets it, or the write fails.
LEMMA WriteUp ==
    ASSUME Typed, Stages, Next, UpInv, ServerWrites
    PROVE  UpInv'
<1>1. /\ QueuesOK(Ctl, Dat) /\ EndsOK /\ HistoryOK /\ ServerOK /\ "client" \in Side /\ "server" \in Side
      /\ DOMAIN reader = Side
  BY DEF Typed, Side, EndsOK
<1>2. InOrder("client", Dat)' /\ UpFlights' = UpFlights
  BY <1>1, QuietFlows, Kinds DEF Quiet, Keeps, UpInv, UpFlights
<1>3. ~Writing' /\ Writing
  BY <1>1, ReaderLeaves DEF ServerWrites, Writing
<1>4. CASE got' = got
  BY <1>2, <1>3, <1>4, UpRests
<1>5. CASE got' # got
  <2>1. PICK ch \in Ch, n \in Nat \ {0} : ch = reader["server"].ch /\ n = reader["server"].n
    BY <1>1, <1>3, ReaderIs DEF Writing, EndsOK
  <2>2. got' = [got EXCEPT ![dest[ch]] = Append(@, n)]
    BY <1>5, <2>1 DEF ServerWrites
  <2>3. /\ Gone(n) /\ relay[ch] # "none" /\ sentTo[n] = dest[ch] /\ \A f \in UpFlights : n < f.n
        /\ \A k \in Key : \A i \in 1 .. Len(got[k]) : got[k][i] < n
    BY <1>3, <2>1 DEF UpInv, Meant
  <2>4. dest[ch] \in Key
    BY <2>3 DEF Stages, OpenInv
  <2>5. \A f \in UpFlights' : Meant(f.n, f.ch)'
    <3>1. \A f \in UpFlights : f.ch \in Ch /\ Meant(f.n, f.ch)
      BY DEF UpInv, UpFlights, Dat
    <3> QED BY <1>2, <3>1, MeantStays
  <2>6. (\A k \in Key : \A i \in 1 .. Len(got[k]) :
           /\ Gone(got[k][i]) /\ sentTo[got[k][i]] = k
           /\ i > 1 => got[k][i - 1] < got[k][i]
           /\ Writing => got[k][i] < reader["server"].n
           /\ \A f \in UpFlights : got[k][i] < f.n)'
    <3> SUFFICES ASSUME NEW k \in Key, NEW i \in 1 .. Len(got'[k]), NEW m, m = got'[k][i]
                 PROVE  /\ Gone(m)' /\ sentTo'[m] = k
                        /\ i > 1 => got'[k][i - 1] < m
                        /\ \A f \in UpFlights' : m < f.n
      BY <1>3 DEF Gone
    <3>1. \A j \in 1 .. Len(got[k]) :
            /\ Gone(got[k][j]) /\ sentTo[got[k][j]] = k /\ got[k][j] < n
            /\ j > 1 => got[k][j - 1] < got[k][j]
            /\ \A f \in UpFlights : got[k][j] < f.n
      BY <2>3 DEF UpInv
    <3>2. CASE k # dest[ch]
      <4>1. got'[k] = got[k]
        BY <1>1, <2>2, <3>2 DEF HistoryOK
      <4>2. i \in 1 .. Len(got[k]) /\ m = got[k][i] /\ Gone(m) /\ sentTo[m] = k
        BY <3>1, <4>1
      <4>3. Gone(m)' /\ sentTo'[m] = k
        BY <4>2, GoneStays
      <4> QED BY <1>2, <3>1, <4>1, <4>2, <4>3
    <3>3. CASE k = dest[ch]
      <4>1. /\ got[k] \in Seq(Nat) /\ got'[k] = Append(got[k], n)
        BY <1>1, <2>2, <2>4, <3>3 DEF HistoryOK
      <4>2. /\ Len(got[k]) \in Nat /\ Len(got'[k]) = Len(got[k]) + 1 /\ got'[k][Len(got[k]) + 1] = n
            /\ \A j \in 1 .. Len(got[k]) : got'[k][j] = got[k][j]
        BY <4>1, Appended
      <4>3. CASE i \in 1 .. Len(got[k])
        <5>0. i > 1 => i - 1 \in 1 .. Len(got[k])
          BY <4>2, <4>3
        <5>1. got'[k][i] = got[k][i] /\ (i > 1 => got'[k][i - 1] = got[k][i - 1])
          BY <4>2, <4>3, <5>0
        <5>2. Gone(m) /\ sentTo[m] = k /\ m = got[k][i]
          BY <3>1, <4>3, <5>1
        <5>3. Gone(m)' /\ sentTo'[m] = k
          BY <5>2, GoneStays
        <5> QED BY <1>2, <3>1, <4>3, <5>1, <5>2, <5>3
      <4>4. CASE i = Len(got[k]) + 1
        <5>1. m = n /\ (i > 1 => got'[k][i - 1] = got[k][i - 1] /\ i - 1 \in 1 .. Len(got[k]))
          BY <4>2, <4>4
        <5>2. Gone(m)' /\ sentTo'[m] = k
          BY <2>3, <3>3, <5>1, GoneStays
        <5> QED BY <1>2, <2>3, <3>1, <5>1, <5>2
      <4> QED BY <4>2, <4>3, <4>4
    <3> QED BY <3>2, <3>3
  <2> QED BY <1>2, <1>3, <2>5, <2>6 DEF UpInv
<1> QED BY <1>4, <1>5

LEMMA StepUp ==
    ASSUME Typed, Stages, Next, CachedChannelsWereOpened, UpInv
    PROVE  UpInv'
<1>1. /\ QueuesOK(Ctl, Dat) /\ EndsOK /\ ServerOK /\ HistoryOK /\ "client" \in Side /\ "server" \in Side
      /\ DOMAIN reader = Side
  BY DEF Typed, Side, EndsOK
<1>2. ASSUME InOrder("client", Dat)', UpFlights' \subseteq UpFlights, got' = got,
             Writing' => reader'["server"] = reader["server"]
      PROVE  UpInv'
  BY <1>2, UpRests DEF Writing
<1>3. ASSUME Keeps("client", Ctl, Dat)
      PROVE  InOrder("client", Dat)' /\ UpFlights' = UpFlights
  BY <1>3, Kinds DEF Keeps, UpInv, UpFlights
<1>4. CASE LinkStep /\ UNCHANGED <<clientVars, serverVars, historyVars>>
  <2>1. Writing' => reader'["server"] = reader["server"]
    <3>1. CASE ClientSeesEnd \/ LinkBreaks
      BY <1>1, <3>1, ReaderLeaves DEF ClientSeesEnd, LinkBreaks, Writing, Side
    <3>2. CASE ClientWriteFails \/ \E s \in Side : RunCloses(s) \/ Writes(s)
      BY <3>2 DEF ClientWriteFails, RunCloses, Writes, WriteControl, WriteData, endVars
    <3> QED BY <1>4, <3>1, <3>2 DEF LinkStep
  <2>2. Keeps("client", Ctl, Dat)
    BY <1>1, <1>4, LinkStepKeeps, Kinds
  <2> QED BY <1>2, <1>3, <1>4, <2>1, <2>2 DEF historyVars
<1>5. CASE AssocTimesOut \/ \E ch \in Ch : RemoteRefuses(ch) \/ RelayCloses(ch)
  <2>1. Keeps("client", Ctl, Dat)
    BY <1>1, <1>5, QuietFlows DEF Quiet
  <2>2. UNCHANGED <<reader, got>>
    BY <1>5 DEF AssocTimesOut, RemoteRefuses, RelayCloses, linkVars, endVars, historyVars
  <2> QED BY <1>2, <1>3, <2>1, <2>2
<1>6. CASE ServerDials
  <2>1. Keeps("client", Ctl, Dat)
    BY <1>1, <1>6, QuietFlows DEF Quiet
  <2>2. got' = got /\ ~Writing'
    BY <1>1, <1>6 DEF ServerDials, historyVars, Writing, At
  <2> QED BY <1>2, <1>3, <2>1, <2>2
<1>7. ASSUME NEW k \in Key, NEW ch \in Ch, AssocOpens(k, ch)
      PROVE  UpInv'
  <2>1. UNCHANGED <<reader, got>>
    BY <1>7 DEF AssocOpens, endVars
  <2>2. CASE Keeps("client", Ctl, Dat)
    BY <1>2, <1>3, <2>1, <2>2
  <2>3. CASE Gains("client", Frame("OPENUDP", ch, k), Ctl, Dat)
    <3>1. Frame("OPENUDP", ch, k) \notin Dat
      BY DEF Frame, Dat
    <3>2. InOrder("client", Dat)' /\ UpFlights' = UpFlights
      BY <2>3, <3>1, Kinds DEF Gains, UpInv, UpFlights
    <3> QED BY <1>2, <2>1, <3>2
  <2> QED BY <1>1, <1>7, <2>2, <2>3, AssocOpensFlows
<1>8. CASE SignalOpen("OPENOK", "ok") \/ SignalOpen("OPENERR", "err") \/ ClientData \/ ClientClose
  <2>1. Keeps("client", Ctl, Dat)
    BY <1>1, <1>8, ClientReadsOne
  <2>2. got' = got
    BY <1>8 DEF SignalOpen, ClientData, ClientClose, historyVars
  <2>3. reader'["server"] = reader["server"]
    BY <1>1, <1>8, ReaderLeaves DEF SignalOpen, ClientData, ClientClose, endVars, Side
  <2> QED BY <1>2, <1>3, <2>1, <2>2, <2>3
<1>9. CASE ServerDialFails \/ ServerOpened
  <2>1. reader["server"].ch \in Ch
    BY <1>1, <1>9, ReaderIs DEF EndsOK, ServerDialFails, ServerOpened
  <2>2. Keeps("client", Ctl, Dat)
    BY <1>1, <1>9, <2>1, ServerAnswers
  <2>3. got' = got /\ ~Writing'
    BY <1>1, <1>9, ReaderLeaves DEF ServerDialFails, ServerOpened, Answer, historyVars, Writing
  <2> QED BY <1>2, <1>3, <2>2, <2>3
<1>10. ASSUME NEW ch \in Ch, RelayEnds(ch) \/ RelayCopies(ch)
       PROVE  UpInv'
  <2>1. dest[ch] \in Key
    BY <1>10 DEF RelayEnds, RelayCopies, Stages, OpenInv
  <2>2. Keeps("client", Ctl, Dat)
    BY <1>1, <1>10, <2>1, RelayEndsFlows, RelayCopiesFlows
  <2>3. UNCHANGED <<reader, got>>
    BY <1>10 DEF RelayEnds, RelayCopies, endVars, historyVars
  <2> QED BY <1>2, <1>3, <2>2, <2>3
<1>11. CASE AssocAnswered \/ \E k \in Key : AssocSends(k)
  BY <1>11, AssocUp
<1>12. CASE ServerOpen \/ ServerData \/ ServerWrites
  BY <1>12, ServerUp, WriteUp
<1> QED BY <1>4, <1>5, <1>6, <1>7, <1>8, <1>9, <1>10, <1>11, <1>12 DEF Next

-----------------------------------------------------------------------------
(* The answers, on their way down *)

LEMMA DownRests ==
    ASSUME Typed, Stages, Next, DownInv, NEW g,
           \A f \in Flying("server")' \intersect Dat : f \in Flying("server") \/ f = g,
           g \in Dat => relay[g.ch] # "none" /\ g.n = dest[g.ch],
           replies' = replies \/ \E k \in Key : replies' = replies \union {<<k, k>>}
    PROVE  DownInv'
<1>1. \A f \in Flying("server")' \intersect Dat : relay'[f.ch] # "none" /\ f.n = dest'[f.ch]
  <2> SUFFICES ASSUME NEW f \in Flying("server")' \intersect Dat
               PROVE  relay'[f.ch] # "none" /\ f.n = dest'[f.ch]
    OBVIOUS
  <2>1. f.ch \in Ch /\ relay[f.ch] # "none" /\ f.n = dest[f.ch]
    BY DEF Dat, DownInv
  <2> QED BY <2>1, StepServerMoves DEF ServerMoves
<1>2. RepliesAreLabelled' /\ replies' \subseteq Key \X Key
  BY DEF DownInv, RepliesAreLabelled
<1> QED BY <1>1, <1>2 DEF DownInv

LEMMA StepDown ==
    ASSUME Typed, Stages, Next, DownInv
    PROVE  DownInv'
<1>1. QueuesOK(Ctl, Dat) /\ EndsOK /\ ServerOK /\ ClientOK /\ "client" \in Side /\ "server" \in Side
  BY DEF Typed, Side
<1>2. ASSUME Flying("server")' \subseteq Flying("server"), UNCHANGED replies
      PROVE  DownInv'
  <2>1. Frame("OPENOK", NoCh, 0) \notin Dat
    BY DEF Frame, Dat
  <2> QED BY <1>2, <2>1, DownRests
<1>3. CASE LinkStep /\ UNCHANGED <<clientVars, serverVars, historyVars>>
  BY <1>1, <1>2, <1>3, LinkStepKeeps, Kinds DEF Keeps, historyVars
<1>4. CASE Quiet
  BY <1>1, <1>2, <1>4, QuietFlows
     DEF Keeps, Quiet, AssocTimesOut, ServerDials, ServerWrites, RemoteRefuses, RelayCloses, historyVars
<1>5. CASE AssocAnswered \/ \E k \in Key : AssocSends(k)
  <2>1. UNCHANGED replies
    BY <1>5 DEF AssocAnswered, AssocSends, historyVars
  <2>2. Keeps("server", Ctl, Dat)
    BY <1>1, <1>5, AssocData, AssocFlows, QuietFlows
  <2> QED BY <1>2, <2>1, <2>2 DEF Keeps
<1>6. ASSUME NEW k \in Key, NEW ch \in Ch, AssocOpens(k, ch)
      PROVE  DownInv'
  BY <1>1, <1>2, <1>6, AssocOpensFlows DEF Keeps, AssocOpens
<1>7. CASE ServerOpen \/ ServerData
  BY <1>1, <1>2, <1>7, ServerReadsOne DEF Keeps, ServerOpen, ServerData, historyVars
<1>8. CASE SignalOpen("OPENOK", "ok") \/ SignalOpen("OPENERR", "err") \/ ClientClose
  BY <1>1, <1>2, <1>8, ClientReadsOne DEF Loses, SignalOpen, ClientClose, historyVars
<1>9. CASE ClientData
  <2>1. PICK f \in Dat : f = Received("client") /\ f \in Flying("server") /\ f.ch \in Ch
    BY <1>1, <1>9, ClientReadsOne, FrameIs
  <2>2. relay[f.ch] # "none" /\ f.n = dest[f.ch]
    BY <2>1 DEF DownInv
  <2>3. f.n \in Key /\ routes[f.ch] \in {NoKey, f.n}
    BY <2>1, <2>2 DEF Stages, OpenInv
  <2>4. replies' = replies \/ replies' = replies \union {<<f.n, f.n>>}
    BY <1>9, <2>1, <2>3 DEF ClientData
  <2>5. Flying("server")' \subseteq Flying("server")
    BY <1>1, <1>9, ClientReadsOne DEF Loses
  <2>6. Frame("OPENOK", NoCh, 0) \notin Dat
    BY DEF Frame, Dat
  <2> QED BY <2>3, <2>4, <2>5, <2>6, DownRests
<1>10. CASE ServerDialFails \/ ServerOpened
  <2>1. reader["server"].ch \in Ch /\ UNCHANGED replies
    BY <1>1, <1>10, ReaderIs DEF EndsOK, ServerDialFails, ServerOpened, historyVars
  <2>2. PICK g : /\ g.type # "UDPDATA"
                 /\ \/ Keeps("server", Ctl, Dat)
                    \/ Gains("server", g, Ctl, Dat)
    <3>1. /\ Frame("OPENERR", reader["server"].ch, 0).type # "UDPDATA"
          /\ Frame("OPENOK", reader["server"].ch, 0).type # "UDPDATA"
      BY DEF Frame
    <3>2. CASE ServerDialFails
      BY <1>1, <2>1, <3>1, <3>2, ServerAnswers
    <3>3. CASE ServerOpened
      BY <1>1, <2>1, <3>1, <3>3, ServerAnswers
    <3> QED BY <1>10, <3>2, <3>3
  <2>3. g \notin Dat
    BY <2>2 DEF Dat
  <2> QED BY <2>1, <2>2, <2>3, DownRests DEF Keeps, Gains
<1>11. ASSUME NEW ch \in Ch, RelayEnds(ch)
       PROVE  DownInv'
  <2>1. Frame("UDPCLOSE", ch, 0) \notin Dat
    BY DEF Frame, Dat
  <2>2. Keeps("server", Ctl, Dat) \/ Gains("server", Frame("UDPCLOSE", ch, 0), Ctl, Dat)
    BY <1>1, <1>11, RelayEndsFlows
  <2>3. UNCHANGED replies
    BY <1>11 DEF RelayEnds, historyVars
  <2> QED BY <2>1, <2>2, <2>3, DownRests DEF Keeps, Gains
<1>12. ASSUME NEW ch \in Ch, RelayCopies(ch)
       PROVE  DownInv'
  <2>1. dest[ch] \in Key /\ relay[ch] # "none" /\ UNCHANGED replies
    BY <1>12 DEF RelayCopies, Stages, OpenInv
  <2>2. Keeps("server", Ctl, Dat) \/ Gains("server", Frame("UDPDATA", ch, dest[ch]), Ctl, Dat)
    BY <1>1, <1>12, <2>1, RelayCopiesFlows
  <2>3. Frame("UDPDATA", ch, dest[ch]).ch = ch /\ Frame("UDPDATA", ch, dest[ch]).n = dest[ch]
    BY DEF Frame
  <2> QED BY <2>1, <2>2, <2>3, DownRests DEF Keeps, Gains
<1> QED BY <1>3, <1>4, <1>5, <1>6, <1>7, <1>8, <1>9, <1>10, <1>11, <1>12 DEF Next, Quiet

-----------------------------------------------------------------------------
(* What a datagram can end a session with *)

Blamed == cause["server"] \in {"unknown channel", "channel write"}
CauseInv ==
    LET up == reader["server"]
        down == reader["client"] IN
    /\ \A s \in Side : cause[s] # "none" => reader[s].pc = "done"
    /\ Blamed => up.ch \in Ch /\ Meant(up.n, up.ch)
    /\ cause["server"] = "unknown channel" => relay[up.ch] = "done"
    /\ cause["client"] = "channel write" =>
         down.ch \in Ch /\ relay[down.ch] # "none" /\ down.n = dest[down.ch]

\* The reader of s, still running, goes on, or fails with the given error.
LEMMA CauseMoves ==
    ASSUME Typed, Stages, \A ch \in Ch : RelayInv(ch), CauseInv, Next, NEW s \in Side,
           reader[s].pc # "done",
           \A t \in Side : t # s => reader'[t] = reader[t] /\ cause'[t] = cause[t],
           cause'[s] # cause[s] => reader'[s].pc = "done",
           s = "server" /\ cause'[s] \in {"unknown channel", "channel write"} =>
             /\ reader'[s].ch \in Ch /\ Meant(reader'[s].n, reader'[s].ch)
             /\ cause'[s] = "unknown channel" => relay[reader'[s].ch] = "done",
           s = "client" /\ cause'[s] = "channel write" =>
             /\ reader'[s].ch \in Ch /\ relay[reader'[s].ch] # "none"
             /\ reader'[s].n = dest[reader'[s].ch]
    PROVE  CauseInv'
<1>1. cause[s] = "none" /\ Side = {"client", "server"}
  BY DEF CauseInv, Side
<1>2. /\ \A ch \in Ch : relay[ch] = "done" => relay'[ch] = "done"
      /\ \A ch \in Ch : relay[ch] # "none" => relay'[ch] # "none" /\ dest'[ch] = dest[ch]
  BY StepRelay, StepServerMoves DEF ServerMoves
<1>3. \A t \in Side : cause'[t] # "none" => reader'[t].pc = "done"
  <2> SUFFICES ASSUME NEW t \in Side, cause'[t] # "none"
               PROVE  reader'[t].pc = "done"
    OBVIOUS
  <2>1. CASE t = s
    BY <1>1, <2>1
  <2>2. CASE t # s
    <3>1. reader'[t] = reader[t] /\ cause'[t] = cause[t]
      BY <2>2
    <3> QED BY <3>1, ZenonT(30) DEF CauseInv
  <2> QED BY <2>1, <2>2
<1>4. Blamed' => /\ reader'["server"].ch \in Ch
                 /\ Meant(reader'["server"].n, reader'["server"].ch)
                 /\ cause'["server"] = "unknown channel" => relay[reader'["server"].ch] = "done"
  BY <1>1 DEF Blamed, CauseInv
<1>5. (Blamed => reader["server"].ch \in Ch /\ Meant(reader["server"].n, reader["server"].ch))'
  <2> SUFFICES ASSUME Blamed', NEW n, n = reader'["server"].n, NEW ch \in Ch, ch = reader'["server"].ch
               PROVE  Meant(n, ch)'
    BY <1>4 DEF Meant, Gone
  <2> QED BY <1>4, MeantStays
<1>6. (cause["server"] = "unknown channel" => relay[reader["server"].ch] = "done")'
  BY <1>2, <1>4 DEF Blamed
<1>7. (cause["client"] = "channel write" =>
         /\ reader["client"].ch \in Ch /\ relay[reader["client"].ch] # "none"
         /\ reader["client"].n = dest[reader["client"].ch])'
  BY <1>1, <1>2, ZenonT(30) DEF CauseInv
<1> QED BY <1>3, <1>5, <1>6, <1>7 DEF CauseInv

\* Nothing happens to the readers.
LEMMA CauseRests ==
    ASSUME Typed, Stages, \A ch \in Ch : RelayInv(ch), CauseInv, Next, UNCHANGED <<reader, cause>>
    PROVE  CauseInv'
<1>1. /\ \A ch \in Ch : relay[ch] = "done" => relay'[ch] = "done"
      /\ \A ch \in Ch : relay[ch] # "none" => relay'[ch] # "none" /\ dest'[ch] = dest[ch]
  BY StepRelay, StepServerMoves DEF ServerMoves
<1>2. (Blamed => reader["server"].ch \in Ch /\ Meant(reader["server"].n, reader["server"].ch))'
  <2> SUFFICES ASSUME Blamed, NEW n, n = reader["server"].n, NEW ch \in Ch, ch = reader["server"].ch
               PROVE  Meant(n, ch)'
    BY DEF CauseInv, Blamed, Meant, Gone
  <2> QED BY MeantStays DEF CauseInv
<1>3. \A s \in Side : cause'[s] # "none" => reader'[s].pc = "done"
  BY DEF CauseInv
<1>4. cause["server"] = "unknown channel" => relay'[reader["server"].ch] = "done"
  BY <1>1 DEF CauseInv, Blamed
<1>5. cause["client"] = "channel write" =>
        /\ reader["client"].ch \in Ch /\ relay'[reader["client"].ch] # "none"
        /\ reader["client"].n = dest'[reader["client"].ch]
  BY <1>1 DEF CauseInv
<1> QED BY <1>2, <1>3, <1>4, <1>5 DEF CauseInv

LEMMA StepCauses ==
    ASSUME Typed, Stages, \A ch \in Ch : RelayInv(ch), UpInv, DownInv, CauseInv, Next
    PROVE  CauseInv'
<1>1. /\ QueuesOK(Ctl, Dat) /\ EndsOK /\ ServerOK /\ "client" \in Side /\ "server" \in Side
      /\ DOMAIN cause = Side /\ DOMAIN reader = Side
  BY DEF Typed, EndsOK, Side
<1>2. ASSUME UNCHANGED <<reader, cause>>
      PROVE  CauseInv'
  BY <1>2, CauseRests
<1>3. ASSUME NEW s \in Side, reader[s].pc # "done",
             \/ ReaderGoesOn(s)
             \/ \E err \in {"eof", "link", "queue full"} : ReaderFails(s, err)
             \/ \E r : reader' = [reader EXCEPT ![s] = r] /\ UNCHANGED cause
      PROVE  CauseInv'
  <2>1. cause[s] = "none"
    BY <1>3 DEF CauseInv
  <2> DEFINE Failure(c, r) == c \in {"eof", "link", "queue full"} /\ r.pc = "done"
  <2>2. PICK r, c : /\ reader' = [reader EXCEPT ![s] = r] /\ cause' = [cause EXCEPT ![s] = c]
                    /\ c = cause[s] \/ Failure(c, r)
    <3>1. CASE UNCHANGED cause /\ \E r : reader' = [reader EXCEPT ![s] = r]
      <4>1. cause' = [cause EXCEPT ![s] = cause[s]]
        BY <1>1, <3>1 DEF EndsOK
      <4>2. PICK r : reader' = [reader EXCEPT ![s] = r]
        BY <3>1
      <4> WITNESS r, cause[s]
      <4> QED BY <4>1, <4>2
    <3>2. CASE \E err \in {"eof", "link", "queue full"} : ReaderFails(s, err)
      <4>1. PICK err \in {"eof", "link", "queue full"} : ReaderFails(s, err)
        BY <3>2
      <4> WITNESS At("done", NoCh, 0), err
      <4> QED BY <4>1 DEF ReaderFails, ReaderFailsOn, At
    <3>3. ReaderGoesOn(s) => UNCHANGED cause /\ \E r : reader' = [reader EXCEPT ![s] = r]
      BY DEF ReaderGoesOn
    <3> QED BY <1>3, <3>1, <3>2, <3>3
  <2>3. \A t \in Side : t # s => reader'[t] = reader[t] /\ cause'[t] = cause[t]
    BY <1>1, <2>2
  <2>4. \/ cause'[s] = cause[s]
        \/ cause'[s] \in {"eof", "link", "queue full"} /\ reader'[s].pc = "done"
    BY <1>1, <2>2
  <2> QED BY <1>3, <2>1, <2>3, <2>4, CauseMoves
<1>4. CASE LinkStep
  <2>1. CASE ClientSeesEnd \/ LinkBreaks
    BY <1>1, <1>3, <2>1 DEF ClientSeesEnd, LinkBreaks
  <2>2. CASE ClientWriteFails \/ \E s \in Side : RunCloses(s) \/ Writes(s)
    BY <1>2, <2>2 DEF ClientWriteFails, RunCloses, Writes, WriteControl, WriteData, endVars
  <2> QED BY <1>4, <2>1, <2>2 DEF LinkStep
<1>5. CASE ServerDialFails \/ ServerOpened \/ ServerDials \/ ServerOpen
  BY <1>1, <1>3, <1>5 DEF ServerDialFails, ServerOpened, ServerDials, ServerOpen, Receive, Answer
<1>6. CASE ClientData
  <2>1. PICK f \in Dat : f = Received("client") /\ f \in Flying("server") /\ f.ch \in Ch
    BY <1>1, <1>6, ClientReadsOne, FrameIs
  <2>2. relay[f.ch] # "none" /\ f.n = dest[f.ch]
    BY <2>1 DEF DownInv
  <2>3. CASE ReaderFailsOn("client", "channel write", f.ch, f.n)
    <3>1. reader["client"].pc # "done"
      BY <1>6 DEF ClientData, Receive
    <3>2. /\ reader'["client"].pc = "done" /\ reader'["client"].ch = f.ch /\ reader'["client"].n = f.n
          /\ \A t \in Side : t # "client" => reader'[t] = reader[t] /\ cause'[t] = cause[t]
      BY <1>1, <2>3 DEF ReaderFailsOn, At
    <3> QED BY <1>1, <2>1, <2>2, <3>1, <3>2, CauseMoves, ZenonT(30)
  <2> QED BY <1>2, <1>6, <2>1, <2>3 DEF ClientData
<1>7. CASE ServerData
  <2>1. PICK f \in Dat : f = Received("server") /\ f \in Flying("client") /\ f.ch \in Ch
    BY <1>1, <1>7, ServerReadsOne, FrameIs
  <2>2. reader["server"].pc # "done"
    BY <1>7 DEF ServerData, Receive
  <2>3. CASE f.ch \notin assocs /\ ReaderFailsOn("server", "unknown channel", f.ch, f.n)
    <3>1. Meant(f.n, f.ch)
      BY <2>1 DEF UpInv, UpFlights
    <3>2. relay[f.ch] = "done"
      BY <1>1, <2>1, <2>3, <3>1, ZenonT(30) DEF RelayInv, ServerOK, Meant
    <3>3. /\ reader'["server"].pc = "done" /\ reader'["server"].ch = f.ch /\ reader'["server"].n = f.n
          /\ \A t \in Side : t # "server" => reader'[t] = reader[t] /\ cause'[t] = cause[t]
      BY <1>1, <2>3 DEF ReaderFailsOn, At
    <3> QED BY <1>1, <2>1, <2>2, <3>1, <3>2, <3>3, CauseMoves
  <2> QED BY <1>1, <1>2, <1>3, <1>7, <2>1, <2>2, <2>3 DEF ServerData
<1>8. CASE ServerWrites
  <2>1. PICK ch \in Ch, n \in Nat \ {0} : ch = reader["server"].ch /\ n = reader["server"].n
    BY <1>1, <1>8, ReaderIs DEF ServerWrites, EndsOK
  <2>2. reader["server"].pc # "done" /\ Meant(n, ch)
    BY <1>8, <2>1 DEF ServerWrites, UpInv, Writing
  <2>3. CASE ReaderFailsOn("server", "channel write", ch, n)
    <3>1. /\ reader'["server"].pc = "done" /\ reader'["server"].ch = ch /\ reader'["server"].n = n
          /\ cause'["server"] = "channel write"
          /\ \A t \in Side : t # "server" => reader'[t] = reader[t] /\ cause'[t] = cause[t]
      BY <1>1, <2>3 DEF ReaderFailsOn, At
    <3> QED BY <1>1, <2>1, <2>2, <3>1, CauseMoves
  <2> QED BY <1>1, <1>3, <1>8, <2>1, <2>2, <2>3 DEF ServerWrites
<1>9. CASE \/ \E k \in Key : AssocSends(k) \/ \E ch \in Ch : AssocOpens(k, ch)
           \/ AssocAnswered \/ AssocTimesOut \/ SignalOpen("OPENOK", "ok") \/ SignalOpen("OPENERR", "err")
           \/ ClientClose
           \/ \E ch \in Ch : RemoteRefuses(ch) \/ RelayCopies(ch) \/ RelayEnds(ch) \/ RelayCloses(ch)
  BY <1>2, <1>9 DEF AssocSends, AssocOpens, AssocAnswered, AssocTimesOut, SignalOpen, ClientClose,
     RemoteRefuses, RelayCopies, RelayEnds, RelayCloses, endVars, linkVars
<1> QED BY <1>4, <1>5, <1>6, <1>7, <1>8, <1>9 DEF Next

-----------------------------------------------------------------------------
(* The invariant, and what follows from it *)

DataInv ==
    /\ \A ch \in Ch : RelayInv(ch)
    /\ CachedChannelsWereOpened /\ UpInv /\ DownInv /\ CauseInv

LEMMA InitData == Init => DataInv
<1> SUFFICES ASSUME Init
             PROVE  DataInv
  OBVIOUS
<1>1. /\ \A s \in Side : control[s] = << >> /\ data[s] = << >> /\ wire[s] = << >> /\ reader[s] = Reading
      /\ \A s \in Side : cause[s] = "none"
      /\ "client" \in Side /\ "server" \in Side
  BY DEF Init, LinkInit, Side
<1>2. Flying("client") = {} /\ Flying("server") = {} /\ InOrder("client", Dat)
  BY <1>1 DEF Flying, InOrder, Ordered, Rising, Before, Elems
<1>3. \A ch \in Ch : RelayInv(ch)
  BY DEF Init, RelayInv
<1>4. CachedChannelsWereOpened
  BY DEF Init, CachedChannelsWereOpened
<1>5. UpInv
  BY <1>1, <1>2 DEF Init, UpInv, UpFlights, Writing, Reading
<1>6. DownInv /\ CauseInv
  BY <1>1, <1>2 DEF Init, DownInv, RepliesAreLabelled, CauseInv, Blamed
<1> QED BY <1>3, <1>4, <1>5, <1>6 DEF DataInv

LEMMA NextData ==
    ASSUME Typed, Stages, DataInv, [Next]_vars
    PROVE  DataInv'
<1>1. CASE Next
  BY <1>1, StepRelay, StepCached, StepUp, StepDown, StepCauses DEF DataInv
<1>2. CASE UNCHANGED vars
  <2> USE <1>2 DEF vars, linkVars, sessionVars, endVars, clientVars, serverVars, historyVars, DataInv
  <2>1. \A ch \in Ch : RelayInv(ch)'
    BY DEF RelayInv
  <2>2. CachedChannelsWereOpened' /\ CauseInv'
    BY DEF CachedChannelsWereOpened, CauseInv, Blamed, Meant, Gone
  <2>3. Flying("client")' = Flying("client") /\ Flying("server")' = Flying("server")
    BY DEF Flying
  <2>4. UpInv'
    BY <2>3 DEF UpInv, UpFlights, Writing, InOrder, Meant, Gone
  <2>5. DownInv'
    BY <2>3 DEF DownInv, RepliesAreLabelled
  <2> QED BY <2>1, <2>2, <2>4, <2>5
<1> QED BY <1>1, <1>2

LEMMA Invariant == Spec => [](Typed /\ Stages /\ DataInv)
<1>1. Init => Typed /\ Stages /\ DataInv
  BY InitTyped, InitStages, InitData
<1>2. Typed /\ Stages /\ DataInv /\ [Next]_vars => (Typed /\ Stages /\ DataInv)'
  BY NextTyped, NextStages, NextData
<1> QED BY <1>1, <1>2, PTL DEF Spec

\* The state of the association and of the relay keeps to its types, the queues
\* and the wires to their bounds, and the server has sockets only for channels
\* the client has drawn (session.go:96-119, udp.go:35-59).
THEOREM UdpTypes == Spec => []TypeOK
<1>1. Typed /\ Stages /\ DataInv => TypeOK
  <2> SUFFICES ASSUME Typed, Stages, DataInv
               PROVE  TypeOK
    OBVIOUS
  <2> DEFINE Types == {"OPENUDP", "OPENOK", "OPENERR", "UDPDATA", "UDPCLOSE"}
             Frames == [type : Types, ch : Ch \union {NoCh}, n : Nat]
  <2>1. Ctl \subseteq Frames /\ Dat \subseteq Frames
    <3>0. Key \subseteq Nat
      OBVIOUS
    <3>1. \A f \in Ctl \union Dat : f = Frame(f.type, f.ch, f.n) /\ f.ch \in Ch
      BY FrameIs
    <3>2. \A f \in Ctl \union Dat : f.type \in Types /\ f.n \in Nat
      <4>1. \A f \in [type : {"OPENUDP"}, ch : Ch, n : Key] : f.type \in Types /\ f.n \in Nat
        BY <3>0
      <4>2. \A f \in [type : {"OPENOK", "OPENERR", "UDPCLOSE"}, ch : Ch, n : {0}] \union Dat :
              f.type \in Types /\ f.n \in Nat
        BY DEF Dat
      <4> QED BY <4>1, <4>2 DEF Ctl
    <3>3. \A type \in Types, ch \in Ch, n \in Nat : Frame(type, ch, n) \in Frames
      BY DEF Frame
    <3> HIDE DEF Types, Frames
    <3> QED BY <3>1, <3>2, <3>3
  <2>2. /\ control \in [Side -> Seq(Frames)] /\ data \in [Side -> Seq(Frames)]
        /\ wire \in [Side -> Seq(Frames)]
    <3> HIDE DEF Frames
    <3> QED BY <2>1 DEF Typed, QueuesOK
  <2>3. \A r \in Readers : r \in [pc : {"dial", "opened", "write"} \union {"read", "done"},
                                ch : Ch \union {NoCh}, n : Nat]
    <3>1. Key \subseteq Nat
      OBVIOUS
    <3>2. \A r \in [pc : {"dial"}, ch : Ch, n : Key] :
            r \in [pc : {"dial", "opened", "write"} \union {"read", "done"}, ch : Ch \union {NoCh}, n : Nat]
      BY <3>1
    <3>3. \A r \in [pc : {"read", "done"}, ch : {NoCh}, n : {0}] \union [pc : {"opened"}, ch : Ch, n : {0}]
                   \union [pc : {"write", "done"}, ch : Ch, n : Nat \ {0}] :
            r \in [pc : {"dial", "opened", "write"} \union {"read", "done"}, ch : Ch \union {NoCh}, n : Nat]
      OBVIOUS
    <3> QED BY <3>2, <3>3 DEF Readers
  <2>4. Causes = {"unknown channel", "channel write"} \union {"none", "eof", "link", "queue full"}
    BY DEF Causes
  <2>5. LinkTypeOK(Types, {"dial", "opened", "write"}, {"unknown channel", "channel write"})
    BY <2>2, <2>3, <2>4 DEF LinkTypeOK, Typed, QueuesOK, EndsOK
  <2>6. /\ \A ch \in Ch : ch \in assocs \/ ch \in refused => ch \in used
        /\ replies \subseteq Key \X Key
    BY DEF DataInv, RelayInv, Stages, OpenInv, DownInv
  <2> QED BY <2>5, <2>6 DEF TypeOK, Typed, ClientOK, ServerOK, HistoryOK
<1> QED BY <1>1, Invariant, PTL

\* A datagram goes to the remote it is meant for, in the order of reading: its
\* channel was opened for that remote before it was queued, and the association
\* reads no other while one waits for its channel (main.go:401-423, udp.go:61-70).
THEOREM DatagramsArrive == Spec => []DatagramsReachTheirRemote
<1>1. DataInv => DatagramsReachTheirRemote
  BY DEF DataInv, UpInv, DatagramsReachTheirRemote
<1> QED BY <1>1, Invariant, PTL

\* A reply is labelled with its sender: the route of an open channel names the
\* remote its socket is connected to, or nothing (main.go:142-151, 410-423,
\* udp.go:72-87).
THEOREM RepliesAreTrue == Spec => []RepliesAreLabelled
<1>1. DataInv => RepliesAreLabelled
  BY DEF DataInv, DownInv
<1> QED BY <1>1, Invariant, PTL

\* channelForRemote names a channel that was opened for that remote, and that is
\* open unless its socket has failed: no channel number is drawn twice, so a late
\* answer is nobody else's, and only a failing Read closes a socket
\* (main.go:159-168, 210-232, 401-409, udp.go:88-92).
THEOREM CacheIsTrue == Spec => []CachedChannelsWereOpened
<1>1. DataInv => CachedChannelsWereOpened
  BY DEF DataInv
<1> QED BY <1>1, Invariant, PTL

\* The datagram a session ended with was on a channel opened for its own remote,
\* at both ends; if the server did not know the channel, its socket had failed and
\* the relay had closed it (main.go:142-151, 401-423, server.go:122-131,
\* udp.go:61-70, 88-92).
THEOREM DatagramErrorsAreTheirChannels == Spec => []DatagramErrorsAreOfOpenedChannels
<1>1. DataInv => DatagramErrorsAreOfOpenedChannels
  BY DEF DataInv, CauseInv, Blamed, Meant, RelayInv, DatagramErrorsAreOfOpenedChannels
<1> QED BY <1>1, Invariant, PTL
=============================================================================
