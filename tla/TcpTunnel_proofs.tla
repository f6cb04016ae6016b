-------------------------- MODULE TcpTunnel_proofs --------------------------
(***************************************************************************)
(* TCP channels: the safety properties of TcpTunnel, for any number of     *)
(* channels, of chunks and of places in the queues.                        *)
(*                                                                         *)
(* A channel opens in stages, each of which ends where the next begins:    *)
(* its OPENTCP is Asked, Dialling, Opening, Answered, Known in resCh and   *)
(* Agreed by its handler.  OpenInv says that it is at one of them at most, *)
(* and which of them come before and which after the relay's connection;   *)
(* CloseInv says the same of its TCPCLOSE and of its chunks.  Both follow  *)
(* from Moves, which says how a step can bring a channel to a stage.  The  *)
(* last part orders the chunks: what was delivered, what a reader holds    *)
(* and what is in flight have rising numbers, one after the other.         *)
(***************************************************************************)
EXTENDS TcpTunnel, TunnelLink_proofs, FiniteSetTheorems

USE LinkAssumption, TunnelAssumption

\* The control and the data frames.
Ctl == [type : {"AUTH", "AUTHOK", "AUTHERR"}, ch : {NoCh}, n : {0}]
       \union [type : {"OPENTCP", "OPENOK", "OPENERR", "TCPCLOSE"}, ch : Ch, n : {0}]
Dat == [type : {"TCPDATA"}, ch : Ch, n : Nat \ {0}]
Data(ch) == {f \in Dat : f.ch = ch}

\* Where a reader can be.
Readers == [pc : {"read", "done"}, ch : {NoCh}, n : {0}]
           \union [pc : {"dial", "opened"}, ch : Ch, n : {0}]
           \union [pc : {"write", "done"}, ch : Ch, n : Nat \ {0}]

Typed ==
    /\ TypeOK
    /\ QueuesOK(Ctl, Dat)
    /\ reader \in [Side -> Readers]

\* The stages of a channel.
Asked(ch) == Frame("OPENTCP", ch, 0) \in Flying("client")
Dialling(ch) == reader["server"] = At("dial", ch, 0)
Opening(ch) == reader["server"] = At("opened", ch, 0)
SaidOK(ch) == Frame("OPENOK", ch, 0) \in Flying("server")
SaidErr(ch) == Frame("OPENERR", ch, 0) \in Flying("server")
Answered(ch) == SaidOK(ch) \/ SaidErr(ch)
Known(ch) == resCh[ch] # "empty"
Agreed(ch) == handler[ch] \in {"reply", "copy", "closing"}
Closing(ch) == Frame("TCPCLOSE", ch, 0) \in Flying("client")
Up(ch) == Flying("client") \intersect Data(ch) # {}
Down(ch) == Flying("server") \intersect Data(ch) # {}
Holds(s, ch) == reader[s].pc = "write" /\ reader[s].ch = ch

Asks(ch) == {Frame("OPENTCP", ch, 0)}
Answers(ch) == {Frame("OPENOK", ch, 0), Frame("OPENERR", ch, 0)}
Closes(ch) == {Frame("TCPCLOSE", ch, 0)}

\* There are never two OPENTCPs, two answers or two TCPCLOSEs of the client in flight.
OneOfEach(ch) ==
    InOrder("client", Asks(ch)) /\ InOrder("server", Answers(ch)) /\ InOrder("client", Closes(ch))

OpenInv(ch) ==
    /\ handler[ch] = "start" =>
         /\ ~Asked(ch) /\ ~Dialling(ch) /\ ~Opening(ch) /\ ~Answered(ch) /\ ~Known(ch)
         /\ relay[ch] = "none"
    /\ Asked(ch) => ~Dialling(ch) /\ ~Opening(ch) /\ ~Answered(ch) /\ ~Known(ch) /\ ~Agreed(ch)
    /\ Dialling(ch) \/ Opening(ch) => ~Answered(ch) /\ ~Known(ch) /\ ~Agreed(ch)
    /\ Answered(ch) => ~Known(ch) /\ ~Agreed(ch)
    /\ Known(ch) => ~Agreed(ch) /\ ch \notin openResults
    /\ Asked(ch) \/ Dialling(ch) \/ SaidErr(ch) \/ resCh[ch] = "err" => relay[ch] = "none"
    /\ Opening(ch) \/ SaidOK(ch) \/ resCh[ch] = "ok" \/ Agreed(ch) => relay[ch] # "none"

CloseInv(ch) ==
    /\ Closing(ch) \/ ch \in closeSeen =>
         handler[ch] \in {"closing", "done"} /\ relay[ch] # "none" /\ ~Opening(ch)
    /\ Closing(ch) => ch \notin closeSeen
    /\ Up(ch) \/ Down(ch) \/ Holds("client", ch) \/ Holds("server", ch) => relay[ch] # "none"

RelayInv(ch) ==
    /\ relay[ch] = "none" <=> tgtConn[ch] = "none"
    /\ ch \in conns => relay[ch] \in {"copy", "closing"}
    /\ relay[ch] # "none" /\ ch \notin conns =>
         tgtConn[ch] = "closed" /\ (relay[ch] = "done" \/ ch \in closeSeen)

\* The first frame the server will read is AUTH.
AuthAhead ==
    IF wire["client"] # << >> THEN Head(wire["client"]).type = "AUTH"
    ELSE /\ control["client"] # << >> /\ Head(control["client"]).type = "AUTH"
         /\ phase["client"] # "data"

\* So it is until the server has authenticated a client that begins with AUTH.
AuthComesFirst ==
    authFirst /\ ~authOK /\ reader["server"].pc = "read" => AuthAhead

AuthInv ==
    /\ authOK \/ Frame("AUTH", NoCh, 0) \in Flying("client") => authFirst
    /\ active # 0 \/ reader["server"].pc \in {"dial", "opened", "write"} => authOK
    /\ \A ch \in Ch : relay[ch] # "none" => authOK
    /\ authFirst => cause["server"] # "auth required"
    /\ AuthComesFirst

EndsInv(ch) ==
    /\ relay[ch] = "none" => appSent[ch] = 0
    /\ handler[ch] # "start" /\ ch \notin tcpConns => appConn[ch] = "closed"

-----------------------------------------------------------------------------
(* Frames *)

LEMMA Kinds ==
    ASSUME NEW ch \in Ch
    PROVE  /\ Ctl \intersect Dat = {}
           /\ Asks(ch) \in KindsOf(Ctl, Dat) /\ Answers(ch) \in KindsOf(Ctl, Dat)
           /\ Closes(ch) \in KindsOf(Ctl, Dat) /\ Data(ch) \in KindsOf(Ctl, Dat)
<1>1. Ctl \intersect Dat = {}
  BY DEF Ctl, Dat
<1>2. Asks(ch) \subseteq Ctl /\ Answers(ch) \subseteq Ctl /\ Closes(ch) \subseteq Ctl
  BY DEF Asks, Answers, Closes, Ctl, Frame
<1>3. Data(ch) \subseteq Dat
  BY DEF Data
<1> QED BY <1>1, <1>2, <1>3 DEF KindsOf

LEMMA FrameIs ==
    ASSUME NEW f \in Ctl \union Dat
    PROVE  /\ f = Frame(f.type, f.ch, f.n)
           /\ f.type \in {"AUTH", "AUTHOK", "AUTHERR"} => f.ch = NoCh /\ f.n = 0
           /\ f.type \in {"OPENTCP", "OPENOK", "OPENERR", "TCPCLOSE"} => f.ch \in Ch /\ f.n = 0
           /\ f.type = "TCPDATA" => f \in Dat /\ f.ch \in Ch /\ f.n \in Nat \ {0} /\ f \in Data(f.ch)
           /\ f.type # "TCPDATA" => f \in Ctl /\ f.n = 0
BY DEF Ctl, Dat, Frame, Data

LEMMA FrameTyped ==
    ASSUME NEW ch \in Ch
    PROVE  /\ Frame("OPENTCP", ch, 0) \in Ctl /\ Frame("OPENOK", ch, 0) \in Ctl
           /\ Frame("OPENERR", ch, 0) \in Ctl /\ Frame("TCPCLOSE", ch, 0) \in Ctl
           /\ Frame("AUTH", NoCh, 0) \in Ctl /\ Frame("AUTHOK", NoCh, 0) \in Ctl
           /\ Frame("AUTHERR", NoCh, 0) \in Ctl
           /\ \A n \in Nat : Frame("TCPDATA", ch, n + 1) \in Data(ch)
           /\ \A n \in Nat : Frame("TCPDATA", ch, n + 1) \in Dat
<1>1. \A n \in Nat : n + 1 \in Nat \ {0}
  OBVIOUS
<1> QED BY <1>1 DEF Ctl, Dat, Data, Frame

LEMMA FrameFields ==
    ASSUME NEW type, NEW ch, NEW n
    PROVE  /\ Frame(type, ch, n).type = type /\ Frame(type, ch, n).ch = ch
           /\ Frame(type, ch, n).n = n
BY DEF Frame

-----------------------------------------------------------------------------
(* What each action does to the frames in flight *)

LEMMA QuietFlows ==
    ASSUME QueuesOK(Ctl, Dat), UNCHANGED sessionVars
    PROVE  QueuesOK(Ctl, Dat)' /\ \A s \in Side : Keeps(s, Ctl, Dat)
<1>1. \A s \in Side : Keeps(s, Ctl, Dat)
  BY SameKeeps DEF sessionVars
<1> QED BY <1>1 DEF QueuesOK, sessionVars

LEMMA ServerReadsOne ==
    ASSUME QueuesOK(Ctl, Dat),
           ServerRefuses \/ ServerOpen \/ ServerData \/ ServerClose
    PROVE  /\ QueuesOK(Ctl, Dat)' /\ Keeps("server", Ctl, Dat)
           /\ Loses("client", Received("server"), Ctl, Dat)
           /\ Received("server") \in Ctl \union Dat /\ Received("server") \in Flying("client")
           /\ ServerOpen => Received("server").type = "OPENTCP"
           /\ ServerData => Received("server").type = "TCPDATA"
           /\ ServerClose => Received("server").type = "TCPCLOSE"
           /\ ServerRefuses => Received("server").type \in {"OPENTCP", "TCPDATA", "TCPCLOSE"}
<1>1. "server" \in Side /\ Peer("server") = "client"
  BY DEF Side, Peer
<1>2. PICK type : Receive("server", type) /\ UNCHANGED <<control, data, phase>>
  BY DEF ServerRefuses, ServerOpen, ServerData, ServerClose
<1>3. /\ QueuesOK(Ctl, Dat)' /\ Keeps("server", Ctl, Dat)
      /\ Loses("client", Received("server"), Ctl, Dat)
      /\ Received("server") \in Ctl \union Dat /\ Received("server") \in Flying("client")
  BY <1>1, <1>2, ReceiveLoses
<1> QED BY <1>3 DEF ServerRefuses, ServerOpen, ServerData, ServerClose, Receive, Received

LEMMA ServerAuthFlows ==
    ASSUME QueuesOK(Ctl, Dat), ServerAuth
    PROVE  /\ QueuesOK(Ctl, Dat)'
           /\ Loses("client", Received("server"), Ctl, Dat)
           /\ Received("server") = Frame("AUTH", NoCh, 0) /\ Received("server") \in Flying("client")
           /\ \/ Keeps("server", Ctl, Dat)
              \/ Gains("server", Frame("AUTHOK", NoCh, 0), Ctl, Dat)
              \/ Gains("server", Frame("AUTHERR", NoCh, 0), Ctl, Dat)
<1>1. "server" \in Side /\ Peer("server") = "client" /\ Ctl \intersect Dat = {}
  BY DEF Side, Peer, Ctl, Dat
<1>2. /\ Receive("server", "AUTH") /\ UNCHANGED <<data, phase>>
      /\ \E f \in {Frame("AUTHOK", NoCh, 0), Frame("AUTHERR", NoCh, 0)} :
           UNCHANGED control \/ (~ControlFull("server") /\ QueueControl("server", f))
  BY DEF ServerAuth, Answer, TryQueueControl
<1>3. PICK f \in {Frame("AUTHOK", NoCh, 0), Frame("AUTHERR", NoCh, 0)} :
        UNCHANGED control \/ (~ControlFull("server") /\ QueueControl("server", f))
  BY <1>2
<1>4. f \in Ctl
  BY DEF Ctl, Frame
<1>5. /\ QueuesOK(Ctl, Dat)' /\ Loses("client", Received("server"), Ctl, Dat)
      /\ Keeps("server", Ctl, Dat) \/ Gains("server", f, Ctl, Dat)
      /\ Received("server") \in Ctl \union Dat /\ Received("server") \in Flying("client")
      /\ Received("server").type = "AUTH"
  BY <1>1, <1>2, <1>3, <1>4, ReceiveAnswers
<1>6. Received("server") = Frame("AUTH", NoCh, 0)
  BY <1>5, FrameIs
<1> QED BY <1>5, <1>6

LEMMA ServerAnswers ==
    ASSUME QueuesOK(Ctl, Dat), reader["server"].ch \in Ch, ServerDialFails \/ ServerOpened
    PROVE  /\ QueuesOK(Ctl, Dat)' /\ Keeps("client", Ctl, Dat)
           /\ ServerDialFails => \/ Keeps("server", Ctl, Dat)
                                 \/ Gains("server", Frame("OPENERR", reader["server"].ch, 0), Ctl, Dat)
           /\ ServerOpened => \/ Keeps("server", Ctl, Dat)
                              \/ Gains("server", Frame("OPENOK", reader["server"].ch, 0), Ctl, Dat)
<1>1. "server" \in Side /\ Peer("server") = "client" /\ Ctl \intersect Dat = {}
  BY DEF Side, Peer, Ctl, Dat
<1>2. /\ Frame("OPENERR", reader["server"].ch, 0) \in Ctl /\ Frame("OPENOK", reader["server"].ch, 0) \in Ctl
  BY FrameTyped
<1>3. CASE ServerDialFails
  <2>1. /\ UNCHANGED <<data, phase, wire>>
        /\ \/ UNCHANGED control
           \/ ~ControlFull("server") /\ QueueControl("server", Frame("OPENERR", reader["server"].ch, 0))
    BY <1>3 DEF ServerDialFails, Answer
  <2>2. ~ServerOpened
    BY <1>3 DEF ServerDialFails, ServerOpened
  <2> QED BY <1>1, <1>2, <2>1, <2>2, QueueControlGains
<1>4. CASE ServerOpened
  <2>1. /\ UNCHANGED <<data, phase, wire>>
        /\ \/ UNCHANGED control
           \/ ~ControlFull("server") /\ QueueControl("server", Frame("OPENOK", reader["server"].ch, 0))
    BY <1>4 DEF ServerOpened, Answer
  <2>2. ~ServerDialFails
    BY <1>4 DEF ServerDialFails, ServerOpened
  <2> QED BY <1>1, <1>2, <2>1, <2>2, QueueControlGains
<1> QED BY <1>3, <1>4

LEMMA ClientReadsOne ==
    ASSUME QueuesOK(Ctl, Dat),
           \/ ClientOpenOK \/ ClientOpenErr \/ ClientAuthOK \/ ClientAuthErr
           \/ ClientData \/ ClientClose
    PROVE  /\ QueuesOK(Ctl, Dat)' /\ Keeps("client", Ctl, Dat)
           /\ Loses("server", Received("client"), Ctl, Dat)
           /\ Received("client") \in Ctl \union Dat /\ Received("client") \in Flying("server")
           /\ ClientOpenOK => Received("client").type = "OPENOK"
           /\ ClientOpenErr => Received("client").type = "OPENERR"
           /\ ClientData => Received("client").type = "TCPDATA"
           /\ ClientClose => Received("client").type = "TCPCLOSE"
           /\ ClientAuthOK \/ ClientAuthErr => Received("client").type \in {"AUTHOK", "AUTHERR"}
<1>1. "client" \in Side /\ Peer("client") = "server"
  BY DEF Side, Peer
<1>2. PICK type : Receive("client", type) /\ UNCHANGED <<control, data, phase>>
  BY DEF ClientOpenOK, ClientOpenErr, SignalOpen, ClientAuthOK, ClientAuthErr, ClientData, ClientClose
<1>3. /\ QueuesOK(Ctl, Dat)' /\ Keeps("client", Ctl, Dat)
      /\ Loses("server", Received("client"), Ctl, Dat)
      /\ Received("client") \in Ctl \union Dat /\ Received("client") \in Flying("server")
  BY <1>1, <1>2, ReceiveLoses
<1> QED BY <1>3 DEF ClientOpenOK, ClientOpenErr, SignalOpen, ClientAuthOK, ClientAuthErr,
                    ClientData, ClientClose, Receive, Received

LEMMA RelayEndsFlows ==
    ASSUME QueuesOK(Ctl, Dat), NEW ch \in Ch, RelayEnds(ch)
    PROVE  /\ QueuesOK(Ctl, Dat)' /\ Keeps("client", Ctl, Dat)
           /\ \/ Keeps("server", Ctl, Dat)
              \/ Gains("server", Frame("TCPCLOSE", ch, 0), Ctl, Dat)
<1>1. /\ "server" \in Side /\ Peer("server") = "client" /\ Ctl \intersect Dat = {}
      /\ Frame("TCPCLOSE", ch, 0) \in Ctl
  BY FrameTyped, Kinds DEF Side, Peer
<1>2. UNCHANGED <<data, phase, wire>>
  BY DEF RelayEnds
<1>3. CASE UNCHANGED control
  BY <1>1, <1>2, <1>3, QuietFlows DEF sessionVars, Side
<1>4. CASE ~ControlFull("server") /\ QueueControl("server", Frame("TCPCLOSE", ch, 0))
  <2>1. QueuesOK(Ctl, Dat)' /\ Keeps("client", Ctl, Dat)
    BY <1>1, <1>2, <1>4, QueueControlGains
  <2>2. control'["server"] = Append(control["server"], Frame("TCPCLOSE", ch, 0))
    BY <1>1, <1>4 DEF QueuesOK, QueueControl
  <2>3. Gains("server", Frame("TCPCLOSE", ch, 0), Ctl, Dat)
    BY <1>1, <1>2, <2>2, ControlGained
  <2> QED BY <1>4, <2>1, <2>3
<1> QED BY <1>3, <1>4 DEF RelayEnds, TryQueueControl

LEMMA HandlerOpensFlows ==
    ASSUME QueuesOK(Ctl, Dat), NEW ch \in Ch, HandlerOpens(ch)
    PROVE  /\ QueuesOK(Ctl, Dat)' /\ Keeps("server", Ctl, Dat)
           /\ \/ Keeps("client", Ctl, Dat) /\ ControlFull("client")
              \/ Gains("client", Frame("OPENTCP", ch, 0), Ctl, Dat) /\ ~ControlFull("client")
<1>1. /\ "client" \in Side /\ Peer("client") = "server" /\ Ctl \intersect Dat = {}
      /\ Frame("OPENTCP", ch, 0) \in Ctl
  BY FrameTyped, Kinds DEF Side, Peer
<1>2. UNCHANGED <<data, phase, wire>>
  BY DEF HandlerOpens
<1>3. CASE UNCHANGED control /\ ControlFull("client")
  BY <1>1, <1>2, <1>3, QuietFlows DEF sessionVars, Side
<1>4. CASE ~ControlFull("client") /\ QueueControl("client", Frame("OPENTCP", ch, 0))
  <2>1. QueuesOK(Ctl, Dat)' /\ Keeps("server", Ctl, Dat)
    BY <1>1, <1>2, <1>4, QueueControlGains
  <2>2. control'["client"] = Append(control["client"], Frame("OPENTCP", ch, 0))
    BY <1>1, <1>4 DEF QueuesOK, QueueControl
  <2>3. Gains("client", Frame("OPENTCP", ch, 0), Ctl, Dat)
    BY <1>1, <1>2, <2>2, ControlGained
  <2> QED BY <1>4, <2>1, <2>3
<1> QED BY <1>3, <1>4 DEF HandlerOpens, TryQueueControl

LEMMA HandlerEndsFlows ==
    ASSUME QueuesOK(Ctl, Dat), NEW ch \in Ch, HandlerEnds(ch)
    PROVE  /\ QueuesOK(Ctl, Dat)' /\ Keeps("server", Ctl, Dat)
           /\ \/ Keeps("client", Ctl, Dat)
              \/ Gains("client", Frame("TCPCLOSE", ch, 0), Ctl, Dat)
<1>1. /\ "client" \in Side /\ Peer("client") = "server" /\ Ctl \intersect Dat = {}
      /\ Frame("TCPCLOSE", ch, 0) \in Ctl
  BY FrameTyped, Kinds DEF Side, Peer
<1>2. UNCHANGED <<data, phase, wire>>
  BY DEF HandlerEnds
<1>3. CASE UNCHANGED control
  BY <1>1, <1>2, <1>3, QuietFlows DEF sessionVars, Side
<1>4. CASE ~ControlFull("client") /\ QueueControl("client", Frame("TCPCLOSE", ch, 0))
  <2>1. QueuesOK(Ctl, Dat)' /\ Keeps("server", Ctl, Dat)
    BY <1>1, <1>2, <1>4, QueueControlGains
  <2>2. control'["client"] = Append(control["client"], Frame("TCPCLOSE", ch, 0))
    BY <1>1, <1>4 DEF QueuesOK, QueueControl
  <2>3. Gains("client", Frame("TCPCLOSE", ch, 0), Ctl, Dat)
    BY <1>1, <1>2, <2>2, ControlGained
  <2> QED BY <1>4, <2>1, <2>3
<1> QED BY <1>3, <1>4 DEF HandlerEnds, TryQueueControl

LEMMA RelayCopiesFlows ==
    ASSUME QueuesOK(Ctl, Dat), tgtSent \in [Ch -> Nat], NEW ch \in Ch, RelayCopies(ch)
    PROVE  /\ QueuesOK(Ctl, Dat)' /\ Keeps("client", Ctl, Dat)
           /\ DataFull("server") => Keeps("server", Ctl, Dat)
           /\ ~DataFull("server") => Gains("server", Frame("TCPDATA", ch, tgtSent[ch] + 1), Ctl, Dat)
<1>1. /\ "server" \in Side /\ Peer("server") = "client" /\ Ctl \intersect Dat = {}
      /\ Frame("TCPDATA", ch, tgtSent[ch] + 1) \in Dat
  BY FrameTyped, Kinds DEF Side, Peer
<1>2. /\ UNCHANGED <<control, phase, wire>>
      /\ TryQueueData("server", Frame("TCPDATA", ch, tgtSent[ch] + 1))
  BY DEF RelayCopies, CopyChunk
<1> QED BY <1>1, <1>2, TryQueueDataGains

LEMMA HandlerCopiesFlows ==
    ASSUME QueuesOK(Ctl, Dat), appSent \in [Ch -> Nat], NEW ch \in Ch, HandlerCopies(ch)
    PROVE  /\ QueuesOK(Ctl, Dat)' /\ Keeps("server", Ctl, Dat)
           /\ DataFull("client") => Keeps("client", Ctl, Dat)
           /\ ~DataFull("client") => Gains("client", Frame("TCPDATA", ch, appSent[ch] + 1), Ctl, Dat)
<1>1. /\ "client" \in Side /\ Peer("client") = "server" /\ Ctl \intersect Dat = {}
      /\ Frame("TCPDATA", ch, appSent[ch] + 1) \in Dat
  BY FrameTyped, Kinds DEF Side, Peer
<1>2. /\ UNCHANGED <<control, phase, wire>>
      /\ TryQueueData("client", Frame("TCPDATA", ch, appSent[ch] + 1))
  BY DEF HandlerCopies, CopyChunk
<1> QED BY <1>1, <1>2, TryQueueDataGains

-----------------------------------------------------------------------------
(* Types *)

Causes == {"auth", "auth required", "unknown channel", "channel write",
           "none", "eof", "link", "queue full"}
ClientOK ==
    /\ handler \in [Ch -> {"start", "opening", "reply", "refuse", "copy", "closing", "done"}]
    /\ resCh \in [Ch -> {"empty", "ok", "err"}]
    /\ openResults \subseteq Ch /\ tcpConns \subseteq Ch
    /\ appConn \in [Ch -> {"open", "eof", "closed"}]
ServerOK ==
    /\ conns \subseteq Ch
    /\ tgtConn \in [Ch -> {"none", "open", "eof", "closed"}]
    /\ relay \in [Ch -> {"none", "copy", "closing", "done"}]
    /\ authOK \in BOOLEAN /\ active \in Int
HistoryOK ==
    /\ appSent \in [Ch -> Nat] /\ tgtSent \in [Ch -> Nat]
    /\ appIn \in [Ch -> Seq(Nat)] /\ tgtIn \in [Ch -> Seq(Nat)]
    /\ dropped \in [Side -> SUBSET (Ch \X Nat)]
    /\ closeSeen \subseteq Ch
EndsOK ==
    /\ reader \in [Side -> Readers] /\ cause \in [Side -> Causes]
    /\ closed \in [Side -> BOOLEAN]

LEMMA SeqGrows ==
    ASSUME NEW S, NEW T, S \subseteq T, NEW q \in Seq(S)
    PROVE  q \in Seq(T)
OBVIOUS

LEMMA TypedParts ==
    Typed <=> /\ QueuesOK(Ctl, Dat) /\ EndsOK /\ ClientOK /\ ServerOK /\ HistoryOK
              /\ authFirst \in BOOLEAN
<1>1. ASSUME QueuesOK(Ctl, Dat), EndsOK
      PROVE  LinkTypeOK(Types, {"dial", "opened", "write"},
                        {"auth", "auth required", "unknown channel", "channel write"})
  <2> DEFINE F == [type : Types, ch : Ch \union {NoCh}, n : Nat]
  <2>1. Ctl \subseteq F /\ Dat \subseteq F /\ Ctl \union Dat \subseteq F
    BY DEF Ctl, Dat, Types
  <2> HIDE DEF F
  <2>2. /\ control \in [Side -> Seq(F)] /\ data \in [Side -> Seq(F)] /\ wire \in [Side -> Seq(F)]
    BY <1>1, <2>1, SeqGrows DEF QueuesOK
  <2>3. reader \in [Side -> [pc : {"dial", "opened", "write"} \union {"read", "done"},
                             ch : Ch \union {NoCh}, n : Nat]]
    BY <1>1 DEF EndsOK, Readers
  <2>4. cause \in [Side -> {"auth", "auth required", "unknown channel", "channel write"}
                            \union {"none", "eof", "link", "queue full"}]
    BY <1>1 DEF EndsOK, Causes
  <2> QED BY <1>1, <2>2, <2>3, <2>4 DEF LinkTypeOK, QueuesOK, F, EndsOK
<1>2. ASSUME Typed
      PROVE  EndsOK
  <2>1. /\ cause \in [Side -> {"auth", "auth required", "unknown channel", "channel write"}
                               \union {"none", "eof", "link", "queue full"}]
        /\ closed \in [Side -> BOOLEAN] /\ reader \in [Side -> Readers]
    BY <1>2 DEF Typed, TypeOK, LinkTypeOK
  <2> QED BY <2>1 DEF EndsOK, Causes
<1>3. Typed => QueuesOK(Ctl, Dat) /\ ClientOK /\ ServerOK /\ HistoryOK /\ authFirst \in BOOLEAN
  BY DEF Typed, TypeOK, ClientOK, ServerOK, HistoryOK
<1>4. ASSUME QueuesOK(Ctl, Dat), EndsOK, ClientOK, ServerOK, HistoryOK, authFirst \in BOOLEAN
      PROVE  Typed
  <2>1. TypeOK
    BY <1>1, <1>4 DEF TypeOK, ClientOK, ServerOK, HistoryOK
  <2> QED BY <1>4, <2>1 DEF Typed, EndsOK
<1> QED BY <1>2, <1>3, <1>4

LEMMA InitTyped == Init => Typed
<1> SUFFICES ASSUME Init PROVE Typed
  OBVIOUS
<1>1. << >> \in Seq(Ctl) /\ << Frame("AUTH", NoCh, 0) >> \in Seq(Ctl) /\ << >> \in Seq(Dat)
      /\ << >> \in Seq(Ctl \union Dat)
      /\ Len(<< Frame("AUTH", NoCh, 0) >>) = 1
  BY DEF Ctl, Frame
<1>2. QueuesOK(Ctl, Dat)
  BY <1>1 DEF Init, LinkInit, QueuesOK, Side
<1>3. EndsOK
  BY DEF Init, LinkInit, EndsOK, Readers, Causes, Reading, Side
<1>4. ClientOK
  BY DEF Init, ClientOK
<1>5. ServerOK /\ authFirst \in BOOLEAN
  <2>1. authOK = FALSE /\ authFirst \in BOOLEAN
    BY DEF Init
  <2>2. /\ conns \subseteq Ch /\ active \in Int
        /\ tgtConn \in [Ch -> {"none", "open", "eof", "closed"}]
        /\ relay \in [Ch -> {"none", "copy", "closing", "done"}]
    BY DEF Init
  <2> QED BY <2>1, <2>2 DEF ServerOK
<1>6. HistoryOK
  <2>1. << >> \in Seq(Nat)
    OBVIOUS
  <2> QED BY <2>1 DEF Init, HistoryOK
<1> QED BY <1>2, <1>3, <1>4, <1>5, <1>6, TypedParts

\* The actions that leave the queues and the wires alone.
Quiet ==
    \/ ServerDials \/ ServerWrites \/ ClientWrites
    \/ \E ch \in Ch :
         \/ RelayCloses(ch) \/ TargetCloses(ch) \/ HandlerGivesUp(ch) \/ HandlerAnswered(ch)
         \/ HandlerTimesOut(ch) \/ HandlerRefuses(ch) \/ HandlerReplies(ch) \/ HandlerCloses(ch)
         \/ AppCloses(ch)

LEMMA QuietIsQuiet == Quiet => UNCHANGED sessionVars
BY DEF Quiet, ServerDials, ServerWrites, ClientWrites, RelayCloses, TargetCloses, HandlerGivesUp,
       HandlerAnswered, HandlerTimesOut, HandlerRefuses, HandlerReplies, HandlerCloses, AppCloses, linkVars

LEMMA StepQueues ==
    ASSUME Typed, Step
    PROVE  QueuesOK(Ctl, Dat)'
<1>1. QueuesOK(Ctl, Dat) /\ EndsOK /\ HistoryOK
  BY TypedParts
<1>2. CASE ServerReads
  <2>1. CASE ServerRefuses \/ ServerOpen \/ ServerData \/ ServerClose
    BY <1>1, <2>1, ServerReadsOne
  <2>2. CASE ServerAuth
    BY <1>1, <2>2, ServerAuthFlows
  <2>3. CASE ServerDialFails \/ ServerOpened
    <3>1. reader["server"].ch \in Ch
      BY <1>1, <2>3 DEF EndsOK, Readers, ServerDialFails, ServerOpened, Side
    <3> QED BY <1>1, <2>3, <3>1, ServerAnswers
  <2>4. CASE ServerDials \/ ServerWrites
    BY <1>1, <2>4, QuietIsQuiet, QuietFlows DEF Quiet
  <2> QED BY <1>2, <2>1, <2>2, <2>3, <2>4 DEF ServerReads
<1>3. CASE ClientReads
  BY <1>1, <1>3, ClientReadsOne, QuietIsQuiet, QuietFlows DEF ClientReads, Quiet
<1>4. CASE Link
  BY <1>1, <1>4, LinkStepKeeps DEF Link, Ctl, Dat
<1>5. ASSUME NEW ch \in Ch, RelayRuns(ch) \/ TargetCloses(ch)
      PROVE  QueuesOK(Ctl, Dat)'
  BY <1>1, <1>5, RelayCopiesFlows, RelayEndsFlows, QuietIsQuiet, QuietFlows
     DEF RelayRuns, Quiet, HistoryOK
<1>6. ASSUME NEW ch \in Ch,
             HandlerRuns(ch) \/ HandlerGivesUp(ch) \/ HandlerTimesOut(ch) \/ AppCloses(ch)
      PROVE  QueuesOK(Ctl, Dat)'
  BY <1>1, <1>6, HandlerCopiesFlows, HandlerEndsFlows, HandlerOpensFlows, QuietIsQuiet, QuietFlows
     DEF HandlerRuns, Quiet, HistoryOK
<1> QED BY <1>2, <1>3, <1>4, <1>5, <1>6 DEF Step

LEMMA StepEnds ==
    ASSUME Typed, Step
    PROVE  EndsOK'
<1>1. QueuesOK(Ctl, Dat) /\ EndsOK /\ "server" \in Side /\ "client" \in Side
  BY TypedParts DEF Side
<1>2. At("done", NoCh, 0) \in Readers /\ Reading \in Readers
  BY DEF At, Reading, Readers
<1>3. /\ \A s \in Side, r \in Readers : [reader EXCEPT ![s] = r] \in [Side -> Readers]
      /\ \A s \in Side, c \in Causes : [cause EXCEPT ![s] = c] \in [Side -> Causes]
  BY <1>1 DEF EndsOK
<1>4. ASSUME NEW s \in Side, NEW c \in Causes, ReaderFails(s, c), UNCHANGED closed
      PROVE  EndsOK'
  BY <1>1, <1>2, <1>3, <1>4 DEF ReaderFails, ReaderFailsOn, EndsOK
<1>5. ASSUME NEW s \in Side, ReaderGoesOn(s), UNCHANGED closed
      PROVE  EndsOK'
  BY <1>1, <1>2, <1>3, <1>5 DEF ReaderGoesOn, EndsOK
<1>6. ASSUME NEW s \in Side, NEW r \in Readers, reader' = [reader EXCEPT ![s] = r],
             UNCHANGED <<cause, closed>>
      PROVE  EndsOK'
  BY <1>1, <1>3, <1>6 DEF EndsOK
<1>7. ASSUME UNCHANGED endVars
      PROVE  EndsOK'
  BY <1>1, <1>7 DEF EndsOK, endVars
<1>8. {"auth", "auth required", "unknown channel", "channel write", "eof", "link", "queue full"}
        \subseteq Causes
  BY DEF Causes
<1>9. ASSUME NEW s \in Side, NEW c \in Causes, NEW ch \in Ch, NEW n \in Nat \ {0},
             ReaderFailsOn(s, c, ch, n), UNCHANGED closed
      PROVE  EndsOK'
  <2>1. At("done", ch, n) \in Readers
    BY DEF At, Readers
  <2> QED BY <1>1, <1>3, <1>9, <2>1 DEF ReaderFailsOn, EndsOK
<1>10. CASE ServerReads
  <2>1. CASE ServerRefuses
    BY <1>1, <1>4, <1>8, <2>1 DEF ServerRefuses
  <2>2. CASE ServerAuth
    BY <1>1, <1>4, <1>5, <1>8, <2>2 DEF ServerAuth, Answer
  <2>3. CASE ServerOpen
    <3>1. Received("server").ch \in Ch
      BY <1>1, <2>3, ServerReadsOne, FrameIs
    <3>2. At("dial", Received("server").ch, 0) \in Readers
      BY <3>1 DEF At, Readers
    <3> QED BY <1>1, <1>6, <2>3, <3>2 DEF ServerOpen
  <2>4. CASE ServerDialFails \/ ServerOpened
    BY <1>1, <1>4, <1>5, <1>8, <2>4 DEF ServerDialFails, ServerOpened, Answer
  <2>5. CASE ServerDials
    <3>1. reader["server"].ch \in Ch
      BY <1>1, <2>5 DEF EndsOK, Readers, ServerDials
    <3>2. At("opened", reader["server"].ch, 0) \in Readers
      BY <3>1 DEF At, Readers
    <3> QED BY <1>1, <1>6, <2>5, <3>2 DEF ServerDials
  <2>6. CASE ServerData
    <3>1. Received("server").ch \in Ch /\ Received("server").n \in Nat \ {0}
      BY <1>1, <2>6, ServerReadsOne, FrameIs
    <3>2. At("write", Received("server").ch, Received("server").n) \in Readers
      BY <3>1 DEF At, Readers
    <3> QED BY <1>1, <1>6, <1>8, <1>9, <2>6, <3>1, <3>2 DEF ServerData
  <2>7. CASE ServerWrites
    <3>1. reader["server"].ch \in Ch /\ reader["server"].n \in Nat \ {0}
      BY <1>1, <2>7 DEF ServerWrites, EndsOK, Readers
    <3> QED BY <1>1, <1>5, <1>8, <1>9, <2>7, <3>1 DEF ServerWrites
  <2>8. CASE ServerClose
    BY <1>7, <2>8 DEF ServerClose
  <2> QED BY <1>10, <2>1, <2>2, <2>3, <2>4, <2>5, <2>6, <2>7, <2>8 DEF ServerReads
<1>11. CASE ClientReads
  <2>1. CASE ClientAuthOK \/ ClientOpenOK \/ ClientOpenErr \/ ClientClose
    BY <1>7, <2>1 DEF ClientAuthOK, ClientOpenOK, ClientOpenErr, SignalOpen, ClientClose
  <2>2. CASE ClientAuthErr
    BY <1>1, <1>4, <1>8, <2>2 DEF ClientAuthErr
  <2>3. CASE ClientData
    <3>1. Received("client").ch \in Ch /\ Received("client").n \in Nat \ {0}
      BY <1>1, <2>3, ClientReadsOne, FrameIs
    <3>2. At("write", Received("client").ch, Received("client").n) \in Readers
      BY <3>1 DEF At, Readers
    <3> QED BY <1>1, <1>6, <1>7, <2>3, <3>2 DEF ClientData, endVars
  <2>4. CASE ClientWrites
    <3>1. reader["client"].ch \in Ch /\ reader["client"].n \in Nat \ {0}
      BY <1>1, <2>4 DEF ClientWrites, EndsOK, Readers
    <3> QED BY <1>1, <1>5, <1>8, <1>9, <2>4, <3>1 DEF ClientWrites
  <2> QED BY <1>11, <2>1, <2>2, <2>3, <2>4 DEF ClientReads
<1>12. CASE Link
  <2>1. CASE ClientSeesEnd \/ LinkBreaks
    BY <1>1, <1>4, <1>8, <2>1 DEF ClientSeesEnd, LinkBreaks
  <2>2. CASE ClientWriteFails \/ \E s \in Side : RunCloses(s)
    BY <1>1, <2>2 DEF ClientWriteFails, RunCloses, EndsOK
  <2>3. CASE \E s \in Side : Writes(s)
    BY <1>7, <2>3 DEF Writes, WriteControl, WriteData
  <2> QED BY <1>12, <2>1, <2>2, <2>3 DEF Link, LinkStep
<1>13. ASSUME NEW ch \in Ch, RelayRuns(ch) \/ TargetCloses(ch)
       PROVE  EndsOK'
  BY <1>7, <1>13 DEF RelayRuns, RelayCopies, RelayEnds, RelayCloses, TargetCloses, linkVars, endVars
<1>14. ASSUME NEW ch \in Ch,
              HandlerRuns(ch) \/ HandlerGivesUp(ch) \/ HandlerTimesOut(ch) \/ AppCloses(ch)
       PROVE  EndsOK'
  BY <1>7, <1>14 DEF HandlerRuns, HandlerGivesUp, HandlerTimesOut, AppCloses, HandlerOpens,
       HandlerAnswered, HandlerRefuses, HandlerReplies, HandlerCopies, HandlerEnds, HandlerCloses,
       linkVars, endVars
<1> QED BY <1>10, <1>11, <1>12, <1>13, <1>14 DEF Step

LEMMA StepClient ==
    ASSUME Typed, Step
    PROVE  ClientOK'
<1>1. ClientOK /\ QueuesOK(Ctl, Dat)
  BY TypedParts
<1>2. ASSUME UNCHANGED clientVars
      PROVE  ClientOK'
  BY <1>1, <1>2 DEF ClientOK, clientVars
<1>3. CASE ServerReads
  BY <1>2, <1>3 DEF ServerReads, ServerRefuses, ServerAuth, ServerOpen, ServerDialFails, ServerDials,
       ServerOpened, ServerData, ServerWrites, ServerClose
<1>4. CASE ClientReads
  <2>1. CASE ClientOpenOK \/ ClientOpenErr
    BY <1>1, <2>1 DEF ClientOpenOK, ClientOpenErr, SignalOpen, ClientOK
  <2>2. CASE ClientClose
    BY <1>1, <2>2 DEF ClientClose, CloseApp, ClientOK
  <2>3. CASE ClientAuthOK \/ ClientAuthErr \/ ClientData \/ ClientWrites
    BY <1>2, <2>3 DEF ClientAuthOK, ClientAuthErr, ClientData, ClientWrites
  <2> QED BY <1>4, <2>1, <2>2, <2>3 DEF ClientReads
<1>5. CASE Link
  BY <1>2, <1>5 DEF Link
<1>6. ASSUME NEW ch \in Ch, RelayRuns(ch) \/ TargetCloses(ch)
      PROVE  ClientOK'
  BY <1>2, <1>6 DEF RelayRuns, RelayCopies, RelayEnds, RelayCloses, TargetCloses
<1>7. ASSUME NEW ch \in Ch,
             HandlerRuns(ch) \/ HandlerGivesUp(ch) \/ HandlerTimesOut(ch) \/ AppCloses(ch)
      PROVE  ClientOK'
  <2>1. CASE HandlerOpens(ch) \/ HandlerAnswered(ch) \/ HandlerRefuses(ch)
    BY <1>1, <2>1 DEF HandlerOpens, HandlerAnswered, HandlerRefuses, ClientOK
  <2>2. CASE HandlerReplies(ch) \/ HandlerCopies(ch) \/ HandlerEnds(ch)
    BY <1>1, <2>2 DEF HandlerReplies, HandlerCopies, HandlerEnds, ClientOK, clientVars
  <2>3. CASE HandlerCloses(ch) \/ HandlerGivesUp(ch) \/ HandlerTimesOut(ch) \/ AppCloses(ch)
    BY <1>1, <2>3 DEF HandlerCloses, HandlerGivesUp, HandlerTimesOut, AppCloses, ClientOK
  <2> QED BY <1>7, <2>1, <2>2, <2>3 DEF HandlerRuns
<1> QED BY <1>3, <1>4, <1>5, <1>6, <1>7 DEF Step

LEMMA StepServer ==
    ASSUME Typed, Step
    PROVE  ServerOK'
<1>1. ServerOK /\ QueuesOK(Ctl, Dat) /\ EndsOK
  BY TypedParts
<1>2. ASSUME UNCHANGED serverVars
      PROVE  ServerOK'
  BY <1>1, <1>2 DEF ServerOK, serverVars
<1>3. ASSUME NEW ch \in Ch, CloseTarget(ch)
      PROVE  conns' \subseteq Ch /\ tgtConn' \in [Ch -> {"none", "open", "eof", "closed"}]
  BY <1>1, <1>3 DEF CloseTarget, ServerOK
<1>4. CASE ServerReads
  <2>1. CASE ServerRefuses \/ ServerOpen \/ ServerDialFails \/ ServerData \/ ServerWrites
    BY <1>2, <2>1 DEF ServerRefuses, ServerOpen, ServerDialFails, ServerData, ServerWrites
  <2>2. CASE ServerAuth
    <3>1. authOK' \in BOOLEAN
      <4>1. authOK' = TRUE \/ authOK' = authOK
        BY <2>2 DEF ServerAuth
      <4> QED BY <1>1, <4>1 DEF ServerOK
    <3>2. UNCHANGED <<conns, relay, tgtConn, active>>
      BY <2>2 DEF ServerAuth
    <3> QED BY <1>1, <3>1, <3>2 DEF ServerOK
  <2>3. CASE ServerDials
    <3>1. reader["server"].ch \in Ch
      BY <1>1, <2>3 DEF EndsOK, Readers, ServerDials, Side
    <3>2. /\ conns' \subseteq Ch /\ tgtConn' \in [Ch -> {"none", "open", "eof", "closed"}]
          /\ relay' \in [Ch -> {"none", "copy", "closing", "done"}]
      BY <1>1, <2>3, <3>1 DEF ServerDials, ServerOK
    <3>3. UNCHANGED <<authOK, active>>
      BY <2>3 DEF ServerDials
    <3> QED BY <1>1, <3>2, <3>3 DEF ServerOK
  <2>4. CASE ServerOpened
    <3>1. active' \in Int
      BY <1>1, <2>4 DEF ServerOpened, ServerOK
    <3>2. UNCHANGED <<conns, relay, tgtConn, authOK>>
      BY <2>4 DEF ServerOpened
    <3> QED BY <1>1, <3>1, <3>2 DEF ServerOK
  <2>5. CASE ServerClose
    <3>1. Received("server").ch \in Ch
      BY <1>1, <2>5, ServerReadsOne, FrameIs
    <3>2. active' \in Int
      BY <1>1, <2>5 DEF ServerClose, ServerOK
    <3>3. CloseTarget(Received("server").ch) /\ UNCHANGED <<authOK, relay>>
      BY <2>5 DEF ServerClose
    <3> QED BY <1>1, <1>3, <3>1, <3>2, <3>3 DEF ServerOK
  <2> QED BY <1>4, <2>1, <2>2, <2>3, <2>4, <2>5 DEF ServerReads
<1>5. CASE ClientReads
  BY <1>2, <1>5 DEF ClientReads, ClientOpenOK, ClientOpenErr, SignalOpen, ClientClose, ClientAuthOK,
       ClientAuthErr, ClientData, ClientWrites
<1>6. CASE Link
  BY <1>2, <1>6 DEF Link
<1>7. ASSUME NEW ch \in Ch, RelayRuns(ch) \/ TargetCloses(ch)
      PROVE  ServerOK'
  <2>1. CASE RelayCopies(ch)
    BY <1>2, <2>1 DEF RelayCopies
  <2>2. CASE RelayEnds(ch)
    <3>1. relay' \in [Ch -> {"none", "copy", "closing", "done"}]
      BY <1>1, <2>2 DEF RelayEnds, ServerOK
    <3>2. UNCHANGED <<conns, tgtConn, authOK, active>>
      BY <2>2 DEF RelayEnds
    <3> QED BY <1>1, <3>1, <3>2 DEF ServerOK
  <2>3. CASE RelayCloses(ch)
    <3>1. relay' \in [Ch -> {"none", "copy", "closing", "done"}]
      BY <1>1, <2>3 DEF RelayCloses, ServerOK
    <3>2. CloseTarget(ch) /\ UNCHANGED <<authOK, active>>
      BY <2>3 DEF RelayCloses
    <3> QED BY <1>1, <1>3, <3>1, <3>2 DEF ServerOK
  <2>4. CASE TargetCloses(ch)
    <3>1. tgtConn' \in [Ch -> {"none", "open", "eof", "closed"}]
      BY <1>1, <2>4 DEF TargetCloses, ServerOK
    <3>2. UNCHANGED <<conns, relay, authOK, active>>
      BY <2>4 DEF TargetCloses
    <3> QED BY <1>1, <3>1, <3>2 DEF ServerOK
  <2> QED BY <1>7, <2>1, <2>2, <2>3, <2>4 DEF RelayRuns
<1>8. ASSUME NEW ch \in Ch,
             HandlerRuns(ch) \/ HandlerGivesUp(ch) \/ HandlerTimesOut(ch) \/ AppCloses(ch)
      PROVE  ServerOK'
  BY <1>2, <1>8 DEF HandlerRuns, HandlerGivesUp, HandlerTimesOut, AppCloses, HandlerOpens,
       HandlerAnswered, HandlerRefuses, HandlerReplies, HandlerCopies, HandlerEnds, HandlerCloses
<1> QED BY <1>4, <1>5, <1>6, <1>7, <1>8 DEF Step

LEMMA StepHistory ==
    ASSUME Typed, Step
    PROVE  HistoryOK'
<1>1. HistoryOK /\ QueuesOK(Ctl, Dat) /\ EndsOK /\ "server" \in Side /\ "client" \in Side
  BY TypedParts DEF Side
<1>2. ASSUME UNCHANGED historyVars
      PROVE  HistoryOK'
  BY <1>1, <1>2 DEF HistoryOK, historyVars
<1>3. \A s \in Side, ch \in Ch, n \in Nat : CopyChunk(s, ch, n) =>
        dropped' \in [Side -> SUBSET (Ch \X Nat)]
  BY <1>1 DEF CopyChunk, HistoryOK
<1>4. CASE ServerReads
  <2>1. CASE \/ ServerRefuses \/ ServerAuth \/ ServerOpen \/ ServerDialFails \/ ServerDials
             \/ ServerOpened \/ ServerData
    BY <1>2, <2>1 DEF ServerRefuses, ServerAuth, ServerOpen, ServerDialFails, ServerDials,
         ServerOpened, ServerData
  <2>2. CASE ServerWrites
    <3>1. reader["server"].ch \in Ch /\ reader["server"].n \in Nat
      BY <1>1, <2>2 DEF EndsOK, Readers, ServerWrites
    <3>2. Append(tgtIn[reader["server"].ch], reader["server"].n) \in Seq(Nat)
      BY <1>1, <3>1 DEF HistoryOK
    <3>3. tgtIn' \in [Ch -> Seq(Nat)]
      BY <1>1, <2>2, <3>1, <3>2 DEF ServerWrites, HistoryOK
    <3> QED BY <1>1, <2>2, <3>3 DEF ServerWrites, HistoryOK
  <2>3. CASE ServerClose
    <3>1. Received("server").ch \in Ch
      BY <1>1, <2>3, ServerReadsOne, FrameIs
    <3> QED BY <1>1, <2>3, <3>1 DEF ServerClose, HistoryOK
  <2> QED BY <1>4, <2>1, <2>2, <2>3 DEF ServerReads
<1>5. CASE ClientReads
  <2>1. CASE ClientWrites
    <3>1. reader["client"].ch \in Ch /\ reader["client"].n \in Nat
      BY <1>1, <2>1 DEF EndsOK, Readers, ClientWrites
    <3>2. Append(appIn[reader["client"].ch], reader["client"].n) \in Seq(Nat)
      BY <1>1, <3>1 DEF HistoryOK
    <3>3. appIn' \in [Ch -> Seq(Nat)]
      BY <1>1, <2>1, <3>1, <3>2 DEF ClientWrites, HistoryOK
    <3> QED BY <1>1, <2>1, <3>3 DEF ClientWrites, HistoryOK
  <2> QED BY <1>2, <1>5, <2>1 DEF ClientReads, ClientOpenOK, ClientOpenErr, SignalOpen, ClientClose,
       ClientAuthOK, ClientAuthErr, ClientData
<1>6. CASE Link
  BY <1>2, <1>6 DEF Link
<1>7. ASSUME NEW ch \in Ch, RelayRuns(ch) \/ TargetCloses(ch)
      PROVE  HistoryOK'
  <2>1. CASE RelayCopies(ch)
    <3>1. tgtSent' \in [Ch -> Nat]
      BY <1>1, <2>1 DEF RelayCopies, HistoryOK
    <3>2. dropped' \in [Side -> SUBSET (Ch \X Nat)]
      <4>1. tgtSent[ch] + 1 \in Nat
        BY <1>1 DEF HistoryOK
      <4> QED BY <1>1, <1>3, <2>1, <4>1 DEF RelayCopies
    <3> QED BY <1>1, <2>1, <3>1, <3>2 DEF RelayCopies, HistoryOK
  <2> QED BY <1>2, <1>7, <2>1 DEF RelayRuns, RelayEnds, RelayCloses, TargetCloses
<1>8. ASSUME NEW ch \in Ch,
             HandlerRuns(ch) \/ HandlerGivesUp(ch) \/ HandlerTimesOut(ch) \/ AppCloses(ch)
      PROVE  HistoryOK'
  <2>1. CASE HandlerCopies(ch)
    <3>1. appSent' \in [Ch -> Nat]
      BY <1>1, <2>1 DEF HandlerCopies, HistoryOK
    <3>2. dropped' \in [Side -> SUBSET (Ch \X Nat)]
      <4>1. appSent[ch] + 1 \in Nat
        BY <1>1 DEF HistoryOK
      <4> QED BY <1>1, <1>3, <2>1, <4>1 DEF HandlerCopies
    <3> QED BY <1>1, <2>1, <3>1, <3>2 DEF HandlerCopies, HistoryOK
  <2>2. CASE HandlerReplies(ch)
    <3>1. Append(appIn[ch], 0) \in Seq(Nat)
      BY <1>1 DEF HistoryOK
    <3>2. appIn' \in [Ch -> Seq(Nat)]
      BY <1>1, <2>2, <3>1 DEF HandlerReplies, HistoryOK
    <3> QED BY <1>1, <2>2, <3>2 DEF HandlerReplies, HistoryOK
  <2> QED BY <1>2, <1>8, <2>1, <2>2 DEF HandlerRuns, HandlerGivesUp, HandlerTimesOut, AppCloses,
       HandlerOpens, HandlerAnswered, HandlerRefuses, HandlerEnds, HandlerCloses
<1> QED BY <1>4, <1>5, <1>6, <1>7, <1>8 DEF Step

LEMMA NextTyped == Typed /\ [Next]_vars => Typed'
<1> SUFFICES ASSUME Typed, [Next]_vars
             PROVE  Typed'
  OBVIOUS
<1>1. CASE Next
  <2>1. authFirst' = authFirst /\ Step
    BY <1>1 DEF Next
  <2>2. QueuesOK(Ctl, Dat)' /\ EndsOK' /\ ClientOK' /\ ServerOK' /\ HistoryOK'
    BY <2>1, StepQueues, StepEnds, StepClient, StepServer, StepHistory
  <2>3. (authFirst \in BOOLEAN)'
    BY <2>1, TypedParts
  <2> QED BY <2>2, <2>3, TypedParts, PTL
<1>2. CASE UNCHANGED vars
  <2> USE <1>2 DEF vars
  <2>1. QueuesOK(Ctl, Dat)' /\ EndsOK'
    BY TypedParts DEF linkVars, sessionVars, endVars, QueuesOK, EndsOK
  <2>2. ClientOK' /\ HistoryOK'
    BY TypedParts DEF clientVars, historyVars, ClientOK, HistoryOK
  <2>3. ServerOK' /\ (authFirst \in BOOLEAN)'
    BY TypedParts DEF serverVars, ServerOK
  <2> QED BY <2>1, <2>2, <2>3, TypedParts, PTL
<1> QED BY <1>1, <1>2

\* The state of both ends keeps to its types, and the queues and the wires to
\* their bounds: every handler's answer and every copier's chunk is queued only
\* if there is room (session.go:96-119, server.go:77-125).
THEOREM TcpTypes == Spec => []TypeOK
<1>1. Spec => []Typed
  BY InitTyped, NextTyped, PTL DEF Spec
<1>2. Typed => TypeOK
  BY DEF Typed
<1> QED BY <1>1, <1>2, PTL

-----------------------------------------------------------------------------
(* How a step can bring a channel to a stage *)

FlightMoves(ch) ==
    /\ Asked(ch)' => Asked(ch) \/ (handler[ch] = "start" /\ handler'[ch] # "start")
    /\ SaidOK(ch)' => SaidOK(ch) \/ (Opening(ch) /\ ~Opening(ch)' /\ ~Dialling(ch)')
    /\ SaidErr(ch)' => SaidErr(ch) \/ (Dialling(ch) /\ ~Opening(ch)' /\ ~Dialling(ch)')
    /\ Closing(ch)' => Closing(ch) \/ (handler[ch] = "copy" /\ handler'[ch] = "closing")
    /\ Up(ch)' => Up(ch) \/ handler[ch] = "copy"
    /\ Down(ch)' => Down(ch) \/ relay[ch] = "copy"
ReaderMoves(ch) ==
    /\ Dialling(ch)' => Dialling(ch) \/ (Asked(ch) /\ ~Asked(ch)')
    /\ Opening(ch)' => Opening(ch) \/ (Dialling(ch) /\ relay'[ch] # "none")
    /\ Holds("server", ch)' => Holds("server", ch) \/ Up(ch)
    /\ Holds("client", ch)' => Holds("client", ch) \/ Down(ch)
ClientMoves(ch) ==
    /\ handler'[ch] = "start" => handler[ch] = "start"
    /\ handler[ch] \in {"closing", "done"} => handler'[ch] \in {"closing", "done"}
    /\ Agreed(ch)' => Agreed(ch) \/ (resCh[ch] = "ok" /\ resCh'[ch] = "empty")
    /\ resCh'[ch] = "ok" => resCh[ch] = "ok" \/ (SaidOK(ch) /\ ~Answered(ch)')
    /\ resCh'[ch] = "err" => resCh[ch] = "err" \/ (SaidErr(ch) /\ ~Answered(ch)')
    /\ Known(ch)' => Known(ch) \/ ch \notin openResults'
    /\ ch \in openResults' => ch \in openResults \/ handler[ch] = "start"
ServerMoves(ch) ==
    /\ relay[ch] # "none" => relay'[ch] # "none"
    /\ relay'[ch] # "none" => relay[ch] # "none" \/ (Dialling(ch) /\ Opening(ch)')
    /\ ch \in closeSeen => ch \in closeSeen'
    /\ ch \in closeSeen' => ch \in closeSeen \/ (Closing(ch) /\ ~Closing(ch)')

LEMMA ReaderIs ==
    ASSUME NEW r \in Readers
    PROVE  /\ r.pc \in {"dial", "opened"} => r = At(r.pc, r.ch, 0) /\ r.ch \in Ch
           /\ r.pc = "write" => r.ch \in Ch /\ r.n \in Nat \ {0}
BY DEF Readers, At

\* A reader that goes on or fails is at none of its other places.
LEMMA ReaderLeaves ==
    ASSUME EndsOK, NEW s \in Side,
           \/ ReaderGoesOn(s)
           \/ \E err : ReaderFails(s, err) \/ \E c, n : ReaderFailsOn(s, err, c, n)
    PROVE  /\ reader'[s].pc \notin {"dial", "opened", "write"}
           /\ \A ch : reader'[s] # At("dial", ch, 0) /\ reader'[s] # At("opened", ch, 0)
           /\ \A t \in Side : t # s => reader'[t] = reader[t]
BY DEF EndsOK, ReaderGoesOn, ReaderFails, ReaderFailsOn, At, Reading

LEMMA StepFlights ==
    ASSUME Typed, Step, NEW ch \in Ch
    PROVE  FlightMoves(ch)
<1>1. /\ QueuesOK(Ctl, Dat) /\ EndsOK /\ HistoryOK /\ ClientOK
      /\ "server" \in Side /\ "client" \in Side
  BY TypedParts DEF Side
<1>2. ASSUME Flying("client")' \subseteq Flying("client"), Flying("server")' \subseteq Flying("server")
      PROVE  FlightMoves(ch)
  BY <1>2 DEF FlightMoves, Asked, SaidOK, SaidErr, Closing, Up, Down
<1>3. CASE ServerReads
  <2>1. CASE ServerRefuses \/ ServerOpen \/ ServerData \/ ServerClose
    BY <1>1, <1>2, <2>1, ServerReadsOne DEF Keeps, Loses
  <2>2. CASE ServerAuth
    BY <1>1, <2>2, ServerAuthFlows
       DEF Keeps, Loses, Gains, FlightMoves, Asked, SaidOK, SaidErr, Closing, Up, Down, Frame, Data, Dat
  <2>3. CASE ServerDialFails
    <3>1. /\ reader["server"].ch \in Ch /\ Dialling(reader["server"].ch)
      BY <1>1, <2>3, ReaderIs DEF ServerDialFails, EndsOK, Dialling
    <3>2. ~Opening(ch)' /\ ~Dialling(ch)'
      BY <1>1, <2>3, ReaderLeaves DEF ServerDialFails, Answer, Opening, Dialling
    <3>3. /\ Flying("client")' = Flying("client")
          /\ \/ Flying("server")' = Flying("server")
             \/ Flying("server")' = Flying("server") \union {Frame("OPENERR", reader["server"].ch, 0)}
      BY <1>1, <2>3, <3>1, ServerAnswers DEF Keeps, Gains
    <3> QED BY <3>1, <3>2, <3>3 DEF FlightMoves, Asked, SaidOK, SaidErr, Closing, Up, Down, Frame, Data, Dat
  <2>4. CASE ServerOpened
    <3>1. /\ reader["server"].ch \in Ch /\ Opening(reader["server"].ch)
      BY <1>1, <2>4, ReaderIs DEF ServerOpened, EndsOK, Opening
    <3>2. ~Opening(ch)' /\ ~Dialling(ch)'
      BY <1>1, <2>4, ReaderLeaves DEF ServerOpened, Answer, Opening, Dialling
    <3>3. /\ Flying("client")' = Flying("client")
          /\ \/ Flying("server")' = Flying("server")
             \/ Flying("server")' = Flying("server") \union {Frame("OPENOK", reader["server"].ch, 0)}
      BY <1>1, <2>4, <3>1, ServerAnswers DEF Keeps, Gains
    <3> QED BY <3>1, <3>2, <3>3 DEF FlightMoves, Asked, SaidOK, SaidErr, Closing, Up, Down, Frame, Data, Dat
  <2>5. CASE ServerDials \/ ServerWrites
    BY <1>1, <1>2, <2>5, QuietIsQuiet, QuietFlows DEF Quiet, Keeps
  <2> QED BY <1>3, <2>1, <2>2, <2>3, <2>4, <2>5 DEF ServerReads
<1>4. CASE ClientReads
  BY <1>1, <1>2, <1>4, ClientReadsOne, QuietIsQuiet, QuietFlows DEF ClientReads, Quiet, Keeps, Loses
<1>5. CASE Link
  BY <1>1, <1>2, <1>5, LinkStepKeeps DEF Link, Ctl, Dat, Keeps
<1>6. ASSUME NEW c \in Ch, RelayRuns(c) \/ TargetCloses(c)
      PROVE  FlightMoves(ch)
  <2>1. CASE RelayCopies(c)
    <3>1. /\ Flying("client")' = Flying("client")
          /\ \/ Flying("server")' = Flying("server")
             \/ Flying("server")' = Flying("server") \union {Frame("TCPDATA", c, tgtSent[c] + 1)}
          /\ relay[c] = "copy"
      BY <1>1, <2>1, RelayCopiesFlows DEF Keeps, Gains, HistoryOK, RelayCopies
    <3> QED BY <3>1 DEF FlightMoves, Asked, SaidOK, SaidErr, Closing, Up, Down, Frame, Data, Dat
  <2>2. CASE RelayEnds(c)
    <3>1. /\ Flying("client")' = Flying("client")
          /\ \/ Flying("server")' = Flying("server")
             \/ Flying("server")' = Flying("server") \union {Frame("TCPCLOSE", c, 0)}
      BY <1>1, <2>2, RelayEndsFlows DEF Keeps, Gains
    <3> QED BY <3>1 DEF FlightMoves, Asked, SaidOK, SaidErr, Closing, Up, Down, Frame, Data, Dat
  <2>3. CASE RelayCloses(c) \/ TargetCloses(c)
    BY <1>1, <1>2, <2>3, QuietIsQuiet, QuietFlows DEF Quiet, Keeps
  <2> QED BY <1>6, <2>1, <2>2, <2>3 DEF RelayRuns
<1>7. ASSUME NEW c \in Ch,
             HandlerRuns(c) \/ HandlerGivesUp(c) \/ HandlerTimesOut(c) \/ AppCloses(c)
      PROVE  FlightMoves(ch)
  <2>1. CASE HandlerOpens(c)
    <3>1. /\ Flying("server")' = Flying("server")
          /\ \/ Flying("client")' = Flying("client")
             \/ Flying("client")' = Flying("client") \union {Frame("OPENTCP", c, 0)}
      BY <1>1, <2>1, HandlerOpensFlows DEF Keeps, Gains
    <3>2. handler[c] = "start" /\ handler'[c] # "start"
      BY <1>1, <2>1 DEF HandlerOpens, ClientOK
    <3> QED BY <3>1, <3>2 DEF FlightMoves, Asked, SaidOK, SaidErr, Closing, Up, Down, Frame, Data, Dat
  <2>2. CASE HandlerEnds(c)
    <3>1. /\ Flying("server")' = Flying("server")
          /\ \/ Flying("client")' = Flying("client")
             \/ Flying("client")' = Flying("client") \union {Frame("TCPCLOSE", c, 0)}
      BY <1>1, <2>2, HandlerEndsFlows DEF Keeps, Gains
    <3>2. handler[c] = "copy" /\ handler'[c] = "closing"
      BY <1>1, <2>2 DEF HandlerEnds, ClientOK
    <3> QED BY <3>1, <3>2 DEF FlightMoves, Asked, SaidOK, SaidErr, Closing, Up, Down, Frame, Data, Dat
  <2>3. CASE HandlerCopies(c)
    <3>1. /\ Flying("server")' = Flying("server")
          /\ \/ Flying("client")' = Flying("client")
             \/ Flying("client")' = Flying("client") \union {Frame("TCPDATA", c, appSent[c] + 1)}
          /\ handler[c] = "copy"
      BY <1>1, <2>3, HandlerCopiesFlows DEF Keeps, Gains, HistoryOK, HandlerCopies
    <3> QED BY <3>1 DEF FlightMoves, Asked, SaidOK, SaidErr, Closing, Up, Down, Frame, Data, Dat
  <2>4. CASE \/ HandlerAnswered(c) \/ HandlerRefuses(c) \/ HandlerReplies(c) \/ HandlerCloses(c)
             \/ HandlerGivesUp(c) \/ HandlerTimesOut(c) \/ AppCloses(c)
    BY <1>1, <1>2, <2>4, QuietIsQuiet, QuietFlows DEF Quiet, Keeps
  <2> QED BY <1>7, <2>1, <2>2, <2>3, <2>4 DEF HandlerRuns
<1> QED BY <1>3, <1>4, <1>5, <1>6, <1>7 DEF Step

\* When a frame of a kind whose number is 0 is read, none of the kind is left.
LEMMA LastOne ==
    ASSUME NEW s, NEW f, NEW K \in KindsOf(Ctl, Dat), Loses(s, f, Ctl, Dat), InOrder(s, K),
           f \in K, \A g \in K : g.n = 0
    PROVE  Flying(s)' \intersect K = {}
BY DEF Loses

LEMMA StepReaders ==
    ASSUME Typed, Step, NEW ch \in Ch, \A c \in Ch : OneOfEach(c)
    PROVE  ReaderMoves(ch)
<1>1. /\ QueuesOK(Ctl, Dat) /\ EndsOK /\ "server" \in Side /\ "client" \in Side
      /\ DOMAIN reader = Side /\ reader["server"] \in Readers
  BY TypedParts DEF Side, EndsOK
<1>2. ASSUME reader' = reader
      PROVE  ReaderMoves(ch)
  BY <1>2 DEF ReaderMoves, Dialling, Opening, Holds
<1>3. ASSUME NEW s \in Side,
             \/ ReaderGoesOn(s)
             \/ \E err : ReaderFails(s, err) \/ \E c, n : ReaderFailsOn(s, err, c, n)
      PROVE  ReaderMoves(ch)
  <2>1. /\ reader'[s].pc \notin {"dial", "opened", "write"}
        /\ reader'[s] # At("dial", ch, 0) /\ reader'[s] # At("opened", ch, 0)
        /\ \A t \in Side : t # s => reader'[t] = reader[t]
    BY <1>1, <1>3, ReaderLeaves
  <2> QED BY <2>1 DEF ReaderMoves, Dialling, Opening, Holds, Side
<1>4. CASE ServerReads
  <2>1. CASE ServerRefuses \/ ServerAuth \/ ServerDialFails \/ ServerOpened \/ ServerWrites
    BY <1>1, <1>3, <2>1 DEF ServerRefuses, ServerAuth, ServerDialFails, ServerOpened, ServerWrites, Answer
  <2>2. CASE ServerOpen
    <3>0. PICK c \in Ch : c = Received("server").ch
      BY <1>1, <2>2, ServerReadsOne, FrameIs
    <3>1. /\ Received("server") = Frame("OPENTCP", c, 0)
          /\ Loses("client", Received("server"), Ctl, Dat)
          /\ Received("server") \in Flying("client")
      BY <1>1, <2>2, <3>0, ServerReadsOne, FrameIs
    <3>2. /\ reader'["server"] = At("dial", c, 0) /\ reader'["client"] = reader["client"]
      BY <1>1, <2>2, <3>0 DEF ServerOpen
    <3>3. Asked(c)
      BY <3>1 DEF Asked
    <3>4. ~Asked(c)'
      <4>1. /\ Asks(c) \in KindsOf(Ctl, Dat) /\ InOrder("client", Asks(c))
            /\ Received("server") \in Asks(c) /\ \A g \in Asks(c) : g.n = 0
        BY <3>1, Kinds DEF OneOfEach, Asks, Frame
      <4>2. Flying("client")' \intersect Asks(c) = {}
        BY <3>1, <4>1, LastOne
      <4> QED BY <4>2 DEF Asked, Asks
    <3> QED BY <3>2, <3>3, <3>4 DEF ReaderMoves, Dialling, Opening, Holds, At
  <2>3. CASE ServerDials
    <3>1. Dialling(reader["server"].ch)
      BY <1>1, <2>3, ReaderIs DEF ServerDials, Dialling
    <3>2. /\ reader'["server"] = At("opened", reader["server"].ch, 0)
          /\ reader'["client"] = reader["client"]
          /\ relay'[reader["server"].ch] = "copy"
      <4>1. reader["server"].ch \in Ch /\ relay \in [Ch -> {"none", "copy", "closing", "done"}]
        BY <1>1, <2>3, ReaderIs, TypedParts DEF ServerDials, ServerOK
      <4> QED BY <1>1, <2>3, <4>1 DEF ServerDials
    <3> QED BY <3>1, <3>2 DEF ReaderMoves, Dialling, Opening, Holds, At
  <2>4. CASE ServerData
    <3>0. PICK c \in Ch : c = Received("server").ch
      BY <1>1, <2>4, ServerReadsOne, FrameIs
    <3>1. Received("server") \in Data(c) /\ Received("server") \in Flying("client")
      BY <1>1, <2>4, <3>0, ServerReadsOne, FrameIs
    <3>2. Up(c)
      BY <3>1 DEF Up
    <3>3. CASE reader' = [reader EXCEPT !["server"] = At("write", c, Received("server").n)]
      <4>1. /\ reader'["server"] = At("write", c, Received("server").n)
            /\ reader'["client"] = reader["client"]
        BY <1>1, <3>0, <3>3
      <4> QED BY <3>0, <3>2, <4>1 DEF ReaderMoves, Dialling, Opening, Holds, At
    <3>4. CASE ReaderFailsOn("server", "unknown channel", c, Received("server").n)
      BY <1>1, <1>3, <3>4
    <3> QED BY <2>4, <3>0, <3>3, <3>4 DEF ServerData
  <2>5. CASE ServerClose
    BY <1>2, <2>5 DEF ServerClose, endVars
  <2> QED BY <1>4, <2>1, <2>2, <2>3, <2>4, <2>5 DEF ServerReads
<1>5. CASE ClientReads
  <2>1. CASE ClientAuthErr \/ ClientWrites
    BY <1>1, <1>3, <2>1 DEF ClientAuthErr, ClientWrites
  <2>2. CASE ClientData
    <3>0. PICK c \in Ch : c = Received("client").ch
      BY <1>1, <2>2, ClientReadsOne, FrameIs DEF Answers
    <3>1. Received("client") \in Data(c) /\ Received("client") \in Flying("server")
      BY <1>1, <2>2, <3>0, ClientReadsOne, FrameIs
    <3>2. Down(c)
      BY <3>1 DEF Down
    <3>3. CASE reader' = [reader EXCEPT !["client"] = At("write", c, Received("client").n)]
      <4>1. /\ reader'["client"] = At("write", c, Received("client").n)
            /\ reader'["server"] = reader["server"]
        BY <1>1, <3>0, <3>3
      <4> QED BY <3>0, <3>2, <4>1 DEF ReaderMoves, Dialling, Opening, Holds, At
    <3> QED BY <1>2, <2>2, <3>0, <3>3 DEF ClientData
  <2>3. CASE ClientAuthOK \/ ClientOpenOK \/ ClientOpenErr \/ ClientClose
    BY <1>2, <2>3 DEF ClientAuthOK, ClientOpenOK, ClientOpenErr, SignalOpen, ClientClose, endVars
  <2> QED BY <1>5, <2>1, <2>2, <2>3 DEF ClientReads
<1>6. CASE Link
  <2>1. CASE ClientSeesEnd \/ LinkBreaks
    BY <1>1, <1>3, <2>1 DEF ClientSeesEnd, LinkBreaks
  <2>2. CASE ClientWriteFails \/ \E s \in Side : RunCloses(s) \/ Writes(s)
    BY <1>2, <2>2 DEF ClientWriteFails, RunCloses, Writes, WriteControl, WriteData, endVars
  <2> QED BY <1>6, <2>1, <2>2 DEF Link, LinkStep
<1>7. ASSUME NEW c \in Ch, RelayRuns(c) \/ TargetCloses(c)
      PROVE  ReaderMoves(ch)
  BY <1>2, <1>7 DEF RelayRuns, RelayCopies, RelayEnds, RelayCloses, TargetCloses, linkVars, endVars
<1>8. ASSUME NEW c \in Ch,
             HandlerRuns(c) \/ HandlerGivesUp(c) \/ HandlerTimesOut(c) \/ AppCloses(c)
      PROVE  ReaderMoves(ch)
  BY <1>2, <1>8 DEF HandlerRuns, HandlerGivesUp, HandlerTimesOut, AppCloses, HandlerOpens,
       HandlerAnswered, HandlerRefuses, HandlerReplies, HandlerCopies, HandlerEnds, HandlerCloses,
       linkVars, endVars
<1> QED BY <1>4, <1>5, <1>6, <1>7, <1>8 DEF Step

LEMMA StepClientMoves ==
    ASSUME Typed, Step, NEW ch \in Ch, \A c \in Ch : OneOfEach(c)
    PROVE  ClientMoves(ch)
<1>1. QueuesOK(Ctl, Dat) /\ ClientOK
  BY TypedParts
<1>2. ASSUME UNCHANGED <<handler, resCh, openResults>>
      PROVE  ClientMoves(ch)
  BY <1>2 DEF ClientMoves, Agreed, Known
<1>3. CASE ServerReads
  BY <1>2, <1>3 DEF ServerReads, ServerRefuses, ServerAuth, ServerOpen, ServerDialFails, ServerDials,
       ServerOpened, ServerData, ServerWrites, ServerClose, clientVars
<1>4. CASE ClientReads
  <2>1. CASE ClientOpenOK \/ ClientOpenErr
    <3>0. PICK c \in Ch : c = Received("client").ch
      BY <1>1, <2>1, ClientReadsOne, FrameIs DEF Answers
    <3>1. /\ Received("client") \in Answers(c) /\ Received("client") \in Flying("server")
          /\ Loses("server", Received("client"), Ctl, Dat)
          /\ ClientOpenOK => Received("client") = Frame("OPENOK", c, 0)
          /\ ClientOpenErr => Received("client") = Frame("OPENERR", c, 0)
      BY <1>1, <2>1, <3>0, ClientReadsOne, FrameIs DEF Answers
    <3>2. ~Answered(c)'
      <4>1. /\ Answers(c) \in KindsOf(Ctl, Dat) /\ InOrder("server", Answers(c))
            /\ \A g \in Answers(c) : g.n = 0
        BY <3>1, Kinds DEF OneOfEach, Answers, Frame
      <4>2. Flying("server")' \intersect Answers(c) = {}
        BY <3>1, <4>1, LastOne
      <4> QED BY <4>2 DEF Answered, SaidOK, SaidErr, Answers
    <3>3. /\ ClientOpenOK => SaidOK(c) /\ resCh'[c] \in {resCh[c], "ok"}
          /\ ClientOpenErr => SaidErr(c) /\ resCh'[c] \in {resCh[c], "err"}
          /\ c \notin openResults' /\ openResults' \subseteq openResults
          /\ \A d \in Ch : d # c => resCh'[d] = resCh[d]
          /\ handler' = handler
      BY <1>1, <2>1, <3>0, <3>1 DEF ClientOpenOK, ClientOpenErr, SignalOpen, SaidOK, SaidErr, ClientOK
    <3> QED BY <2>1, <3>2, <3>3 DEF ClientMoves, Agreed, Known
  <2>2. CASE ClientAuthOK \/ ClientAuthErr \/ ClientData \/ ClientWrites \/ ClientClose
    BY <1>2, <2>2 DEF ClientAuthOK, ClientAuthErr, ClientData, ClientWrites, ClientClose, clientVars
  <2> QED BY <1>4, <2>1, <2>2 DEF ClientReads
<1>5. CASE Link
  BY <1>2, <1>5 DEF Link, clientVars
<1>6. ASSUME NEW c \in Ch, RelayRuns(c) \/ TargetCloses(c)
      PROVE  ClientMoves(ch)
  BY <1>2, <1>6 DEF RelayRuns, RelayCopies, RelayEnds, RelayCloses, TargetCloses, clientVars
<1>7. ASSUME NEW c \in Ch,
             HandlerRuns(c) \/ HandlerGivesUp(c) \/ HandlerTimesOut(c) \/ AppCloses(c)
      PROVE  ClientMoves(ch)
  <2>1. CASE HandlerOpens(c) \/ HandlerAnswered(c) \/ HandlerRefuses(c)
    BY <1>1, <2>1 DEF HandlerOpens, HandlerAnswered, HandlerRefuses, ClientOK, ClientMoves, Agreed, Known
  <2>2. CASE HandlerReplies(c) \/ HandlerCopies(c) \/ HandlerEnds(c)
    BY <1>1, <2>2 DEF HandlerReplies, HandlerCopies, HandlerEnds, ClientOK, clientVars, ClientMoves,
         Agreed, Known
  <2>3. CASE HandlerCloses(c) \/ HandlerGivesUp(c) \/ HandlerTimesOut(c) \/ AppCloses(c)
    BY <1>1, <2>3 DEF HandlerCloses, HandlerGivesUp, HandlerTimesOut, AppCloses, ClientOK, ClientMoves,
         Agreed, Known
  <2> QED BY <1>7, <2>1, <2>2, <2>3 DEF HandlerRuns
<1> QED BY <1>3, <1>4, <1>5, <1>6, <1>7 DEF Step

LEMMA StepServerMoves ==
    ASSUME Typed, Step, NEW ch \in Ch, \A c \in Ch : OneOfEach(c)
    PROVE  ServerMoves(ch)
<1>1. QueuesOK(Ctl, Dat) /\ EndsOK /\ ServerOK /\ "server" \in Side
  BY TypedParts DEF Side
<1>2. ASSUME UNCHANGED <<relay, closeSeen>>
      PROVE  ServerMoves(ch)
  BY <1>2 DEF ServerMoves
<1>3. CASE ServerReads
  <2>1. CASE ServerDials
    <3>1. /\ reader["server"] \in Readers /\ reader["server"].pc = "dial"
      BY <1>1, <2>1 DEF ServerDials, EndsOK
    <3>2. Dialling(reader["server"].ch) /\ reader["server"].ch \in Ch
      BY <3>1, ReaderIs DEF Dialling
    <3>3. /\ \A c \in Ch : c # reader["server"].ch => relay'[c] = relay[c]
          /\ relay'[reader["server"].ch] = "copy"
          /\ reader'["server"] = At("opened", reader["server"].ch, 0)
          /\ UNCHANGED closeSeen
      BY <1>1, <2>1, <3>2 DEF ServerDials, ServerOK, historyVars, EndsOK
    <3> QED BY <3>2, <3>3 DEF ServerMoves, Opening
  <2>2. CASE ServerClose
    <3>0. PICK c \in Ch : c = Received("server").ch
      BY <1>1, <2>2, ServerReadsOne, FrameIs
    <3>1. /\ Received("server") = Frame("TCPCLOSE", c, 0) /\ Received("server") \in Flying("client")
          /\ Loses("client", Received("server"), Ctl, Dat)
      BY <1>1, <2>2, <3>0, ServerReadsOne, FrameIs
    <3>2. Closing(c)
      BY <3>1 DEF Closing
    <3>3. ~Closing(c)'
      <4>1. /\ Closes(c) \in KindsOf(Ctl, Dat) /\ InOrder("client", Closes(c))
            /\ Received("server") \in Closes(c) /\ \A g \in Closes(c) : g.n = 0
        <5>1. Closes(c) \in KindsOf(Ctl, Dat) /\ InOrder("client", Closes(c))
          BY Kinds DEF OneOfEach
        <5>2. Received("server") \in Closes(c) /\ \A g \in Closes(c) : g.n = 0
          BY <3>1, FrameFields DEF Closes
        <5> QED BY <5>1, <5>2
      <4>2. Flying("client")' \intersect Closes(c) = {}
        BY <3>1, <4>1, LastOne
      <4> QED BY <4>2 DEF Closing, Closes
    <3>4. closeSeen' = closeSeen \union {c} /\ UNCHANGED relay
      BY <2>2, <3>0 DEF ServerClose
    <3> QED BY <3>2, <3>3, <3>4 DEF ServerMoves
  <2>3. CASE \/ ServerRefuses \/ ServerAuth \/ ServerOpen \/ ServerDialFails \/ ServerOpened
             \/ ServerData \/ ServerWrites
    BY <1>2, <2>3 DEF ServerRefuses, ServerAuth, ServerOpen, ServerDialFails, ServerOpened, ServerData,
         ServerWrites, serverVars, historyVars
  <2> QED BY <1>3, <2>1, <2>2, <2>3 DEF ServerReads
<1>4. CASE ClientReads
  BY <1>2, <1>4 DEF ClientReads, ClientOpenOK, ClientOpenErr, SignalOpen, ClientClose, ClientAuthOK,
       ClientAuthErr, ClientData, ClientWrites, serverVars, historyVars
<1>5. CASE Link
  BY <1>2, <1>5 DEF Link, serverVars, historyVars
<1>6. ASSUME NEW c \in Ch, RelayRuns(c) \/ TargetCloses(c)
      PROVE  ServerMoves(ch)
  <2>1. CASE RelayEnds(c) \/ RelayCloses(c)
    BY <1>1, <2>1 DEF RelayEnds, RelayCloses, ServerOK, ServerMoves, historyVars
  <2>2. CASE RelayCopies(c) \/ TargetCloses(c)
    BY <1>2, <2>2 DEF RelayCopies, TargetCloses, serverVars, historyVars
  <2> QED BY <1>6, <2>1, <2>2 DEF RelayRuns
<1>7. ASSUME NEW c \in Ch,
             HandlerRuns(c) \/ HandlerGivesUp(c) \/ HandlerTimesOut(c) \/ AppCloses(c)
      PROVE  ServerMoves(ch)
  BY <1>2, <1>7 DEF HandlerRuns, HandlerGivesUp, HandlerTimesOut, AppCloses, HandlerOpens,
       HandlerAnswered, HandlerRefuses, HandlerReplies, HandlerCopies, HandlerEnds, HandlerCloses,
       serverVars, historyVars
<1> QED BY <1>3, <1>4, <1>5, <1>6, <1>7 DEF Step

Moves(ch) == FlightMoves(ch) /\ ReaderMoves(ch) /\ ClientMoves(ch) /\ ServerMoves(ch)

-----------------------------------------------------------------------------
(* The stages of an open and of a close *)

LEMMA OpenMoves ==
    ASSUME NEW ch, OpenInv(ch), Moves(ch), resCh'[ch] \in {"empty", "ok", "err"}
    PROVE  OpenInv(ch)'
<1>1. ~(Dialling(ch)' /\ Opening(ch)') /\ ~(Dialling(ch) /\ Opening(ch))
  BY DEF Dialling, Opening, At
<1>2. /\ FlightMoves(ch) /\ ReaderMoves(ch) /\ ClientMoves(ch) /\ ServerMoves(ch)
  BY DEF Moves
<1> USE DEF FlightMoves, ReaderMoves, ClientMoves, ServerMoves, OpenInv, Answered
<1>3. (handler[ch] = "start" =>
         /\ ~Asked(ch) /\ ~Dialling(ch) /\ ~Opening(ch) /\ ~Answered(ch) /\ ~Known(ch)
         /\ relay[ch] = "none")'
  BY <1>2 DEF Known
<1>4. (Asked(ch) => ~Dialling(ch) /\ ~Opening(ch) /\ ~Answered(ch) /\ ~Known(ch) /\ ~Agreed(ch))'
  BY <1>2 DEF Known, Agreed
<1>5. (Dialling(ch) \/ Opening(ch) => ~Answered(ch) /\ ~Known(ch) /\ ~Agreed(ch))'
  BY <1>1, <1>2 DEF Known, Agreed
<1>6. (Answered(ch) => ~Known(ch) /\ ~Agreed(ch))'
  BY <1>1, <1>2 DEF Known, Agreed
<1>7. (Known(ch) => ~Agreed(ch) /\ ch \notin openResults)'
  BY <1>1, <1>2 DEF Known, Agreed
<1>8. (Asked(ch) \/ Dialling(ch) \/ SaidErr(ch) \/ resCh[ch] = "err" => relay[ch] = "none")'
  BY <1>1, <1>2 DEF Known, Agreed
<1>9. (Opening(ch) \/ SaidOK(ch) \/ resCh[ch] = "ok" \/ Agreed(ch) => relay[ch] # "none")'
  BY <1>1, <1>2 DEF Known, Agreed
<1> QED BY <1>3, <1>4, <1>5, <1>6, <1>7, <1>8, <1>9

LEMMA CloseMoves ==
    ASSUME NEW ch, OpenInv(ch), CloseInv(ch), Moves(ch)
    PROVE  CloseInv(ch)'
<1>1. /\ FlightMoves(ch) /\ ReaderMoves(ch) /\ ClientMoves(ch) /\ ServerMoves(ch)
  BY DEF Moves
<1>2. handler[ch] = "copy" => Agreed(ch) /\ ch \notin closeSeen /\ ~Opening(ch)
  BY DEF Agreed, CloseInv, OpenInv
<1> USE DEF FlightMoves, ReaderMoves, ClientMoves, ServerMoves, CloseInv
<1>3. (Closing(ch) \/ ch \in closeSeen =>
         handler[ch] \in {"closing", "done"} /\ relay[ch] # "none" /\ ~Opening(ch))'
  BY <1>1, <1>2 DEF OpenInv
<1>4. (Closing(ch) => ch \notin closeSeen)'
  BY <1>1, <1>2
<1>5. (Up(ch) \/ Down(ch) \/ Holds("client", ch) \/ Holds("server", ch) => relay[ch] # "none")'
  BY <1>1, <1>2 DEF OpenInv
<1> QED BY <1>3, <1>4, <1>5

\* What keeps a second frame of a kind from being queued is the stage of its channel.
LEMMA StepOneOfEach ==
    ASSUME Typed, Step, \A c \in Ch : OneOfEach(c) /\ OpenInv(c) /\ CloseInv(c), NEW ch \in Ch
    PROVE  OneOfEach(ch)'
<1>1. /\ QueuesOK(Ctl, Dat) /\ EndsOK /\ HistoryOK /\ "server" \in Side /\ "client" \in Side
  BY TypedParts DEF Side
<1>2. /\ Asks(ch) \in KindsOf(Ctl, Dat) /\ Answers(ch) \in KindsOf(Ctl, Dat)
      /\ Closes(ch) \in KindsOf(Ctl, Dat) /\ OneOfEach(ch)
  BY Kinds
<1>3. ASSUME Keeps("client", Ctl, Dat) \/ \E f : Loses("client", f, Ctl, Dat)
      PROVE  InOrder("client", Asks(ch))' /\ InOrder("client", Closes(ch))'
  BY <1>2, <1>3 DEF Keeps, Loses, OneOfEach
<1>4. ASSUME Keeps("server", Ctl, Dat) \/ \E f : Loses("server", f, Ctl, Dat)
      PROVE  InOrder("server", Answers(ch))'
  BY <1>2, <1>4 DEF Keeps, Loses, OneOfEach
<1>5. ASSUME NEW f, Gains("client", f, Ctl, Dat),
             f \in Asks(ch) => ~Asked(ch), f \in Closes(ch) => ~Closing(ch)
      PROVE  InOrder("client", Asks(ch))' /\ InOrder("client", Closes(ch))'
  <2>1. /\ f \in Asks(ch) => Flying("client") \intersect Asks(ch) = {}
        /\ f \in Closes(ch) => Flying("client") \intersect Closes(ch) = {}
    BY <1>5 DEF Asks, Closes, Asked, Closing
  <2> QED BY <1>2, <1>5, <2>1 DEF Gains, OneOfEach
<1>6. ASSUME NEW f, Gains("server", f, Ctl, Dat), f \in Answers(ch) => ~Answered(ch)
      PROVE  InOrder("server", Answers(ch))'
  <2>1. f \in Answers(ch) => Flying("server") \intersect Answers(ch) = {}
    BY <1>6 DEF Answers, Answered, SaidOK, SaidErr
  <2> QED BY <1>2, <1>6, <2>1 DEF Gains, OneOfEach
<1>7. ASSUME \A s \in Side : Keeps(s, Ctl, Dat)
      PROVE  OneOfEach(ch)'
  BY <1>1, <1>3, <1>4, <1>7 DEF OneOfEach
<1>8. CASE ServerReads
  <2>1. CASE ServerRefuses \/ ServerOpen \/ ServerData \/ ServerClose
    BY <1>1, <1>3, <1>4, <2>1, ServerReadsOne DEF OneOfEach
  <2>2. CASE ServerAuth
    <3>1. /\ Frame("AUTHOK", NoCh, 0) \notin Answers(ch) /\ Frame("AUTHERR", NoCh, 0) \notin Answers(ch)
      BY DEF Answers, Frame
    <3> QED BY <1>1, <1>3, <1>4, <1>6, <2>2, <3>1, ServerAuthFlows DEF OneOfEach
  <2>3. CASE ServerDialFails \/ ServerOpened
    <3>0. reader["server"] \in Readers /\ reader["server"].pc \in {"dial", "opened"}
      BY <1>1, <2>3 DEF EndsOK, ServerDialFails, ServerOpened
    <3>1. PICK c \in Ch : c = reader["server"].ch /\ (Dialling(c) \/ Opening(c))
      BY <3>0, ReaderIs DEF Dialling, Opening
    <3>2. ~Answered(c)
      BY <3>1 DEF OpenInv
    <3>3. /\ Frame("OPENOK", c, 0) \in Answers(ch) => c = ch
          /\ Frame("OPENERR", c, 0) \in Answers(ch) => c = ch
      BY DEF Answers, Frame
    <3>4. /\ Keeps("client", Ctl, Dat)
          /\ \/ Keeps("server", Ctl, Dat)
             \/ Gains("server", Frame("OPENOK", c, 0), Ctl, Dat)
             \/ Gains("server", Frame("OPENERR", c, 0), Ctl, Dat)
      BY <1>1, <2>3, <3>1, ServerAnswers
    <3> QED BY <1>3, <1>4, <1>6, <3>2, <3>3, <3>4 DEF OneOfEach
  <2>4. CASE ServerDials \/ ServerWrites
    BY <1>1, <1>7, <2>4, QuietIsQuiet, QuietFlows DEF Quiet
  <2> QED BY <1>8, <2>1, <2>2, <2>3, <2>4 DEF ServerReads
<1>9. CASE ClientReads
  <2>1. CASE ClientWrites
    BY <1>1, <1>7, <2>1, QuietIsQuiet, QuietFlows DEF Quiet
  <2> QED BY <1>1, <1>3, <1>4, <1>9, <2>1, ClientReadsOne DEF ClientReads, OneOfEach
<1>10. CASE Link
  BY <1>1, <1>7, <1>10, LinkStepKeeps DEF Link, Ctl, Dat
<1>11. ASSUME NEW c \in Ch, RelayRuns(c) \/ TargetCloses(c)
       PROVE  OneOfEach(ch)'
  <2>1. CASE RelayCopies(c) \/ RelayEnds(c)
    <3>1. \A n : Frame("TCPDATA", c, n) \notin Answers(ch) /\ Frame("TCPCLOSE", c, n) \notin Answers(ch)
      BY DEF Answers, Frame
    <3> QED BY <1>1, <1>3, <1>4, <1>6, <2>1, <3>1, RelayCopiesFlows, RelayEndsFlows DEF HistoryOK, OneOfEach
  <2>2. CASE RelayCloses(c) \/ TargetCloses(c)
    BY <1>1, <1>7, <2>2, QuietIsQuiet, QuietFlows DEF Quiet
  <2> QED BY <1>11, <2>1, <2>2 DEF RelayRuns
<1>12. ASSUME NEW c \in Ch,
              HandlerRuns(c) \/ HandlerGivesUp(c) \/ HandlerTimesOut(c) \/ AppCloses(c)
       PROVE  OneOfEach(ch)'
  <2>1. CASE HandlerOpens(c)
    <3>1. ~Asked(c)
      BY <2>1 DEF HandlerOpens, OpenInv
    <3>2. /\ Frame("OPENTCP", c, 0) \in Asks(ch) => c = ch
          /\ Frame("OPENTCP", c, 0) \notin Closes(ch)
      BY DEF Asks, Closes, Frame
    <3> QED BY <1>1, <1>3, <1>4, <1>5, <2>1, <3>1, <3>2, HandlerOpensFlows DEF OneOfEach
  <2>2. CASE HandlerEnds(c)
    <3>1. ~Closing(c)
      BY <2>2 DEF HandlerEnds, CloseInv
    <3>2. /\ Frame("TCPCLOSE", c, 0) \in Closes(ch) => c = ch
          /\ Frame("TCPCLOSE", c, 0) \notin Asks(ch)
      BY DEF Asks, Closes, Frame
    <3> QED BY <1>1, <1>3, <1>4, <1>5, <2>2, <3>1, <3>2, HandlerEndsFlows DEF OneOfEach
  <2>3. CASE HandlerCopies(c)
    <3>1. \A n : Frame("TCPDATA", c, n) \notin Asks(ch) /\ Frame("TCPDATA", c, n) \notin Closes(ch)
      BY DEF Asks, Closes, Frame
    <3> QED BY <1>1, <1>3, <1>4, <1>5, <2>3, <3>1, HandlerCopiesFlows DEF HistoryOK, OneOfEach
  <2>4. CASE \/ HandlerAnswered(c) \/ HandlerRefuses(c) \/ HandlerReplies(c) \/ HandlerCloses(c)
             \/ HandlerGivesUp(c) \/ HandlerTimesOut(c) \/ AppCloses(c)
    BY <1>1, <1>7, <2>4, QuietIsQuiet, QuietFlows DEF Quiet
  <2> QED BY <1>12, <2>1, <2>2, <2>3, <2>4 DEF HandlerRuns
<1> QED BY <1>8, <1>9, <1>10, <1>11, <1>12 DEF Step

Stages == \A ch \in Ch : OneOfEach(ch) /\ OpenInv(ch) /\ CloseInv(ch)

LEMMA InitStages == Init => Stages
<1> SUFFICES ASSUME Init, NEW ch \in Ch
             PROVE  OneOfEach(ch) /\ OpenInv(ch) /\ CloseInv(ch)
  BY DEF Stages
<1> DEFINE first == IF authFirst THEN << Frame("AUTH", NoCh, 0) >> ELSE << >>
<1>1. /\ control["client"] = first /\ control["server"] = << >>
      /\ \A s \in Side : data[s] = << >> /\ wire[s] = << >> /\ reader[s] = Reading
      /\ "client" \in Side /\ "server" \in Side
  BY DEF Init, LinkInit, Side
<1>2. Elems(<< >>) = {} /\ Elems(first) \subseteq {Frame("AUTH", NoCh, 0)} /\ Len(first) <= 1
  BY DEF Elems
<1>3. Flying("client") \subseteq {Frame("AUTH", NoCh, 0)} /\ Flying("server") = {}
  BY <1>1, <1>2 DEF Flying
<1>4. OneOfEach(ch)
  <2>1. \A K : Rising(<< >>, K) /\ Before(<< >>, << >>, K) /\ Before(<< >>, first, K)
    BY <1>2 DEF Rising, Before
  <2>2. \A K : Rising(first, K)
    <3>1. Len(first) \in {0, 1}
      OBVIOUS
    <3> QED BY <3>1 DEF Rising
  <2> HIDE DEF first
  <2> QED BY <1>1, <2>1, <2>2 DEF OneOfEach, InOrder, Ordered
<1>5. /\ ~Asked(ch) /\ ~Answered(ch) /\ ~Closing(ch) /\ ~Up(ch) /\ ~Down(ch)
  BY <1>3 DEF Asked, Answered, SaidOK, SaidErr, Closing, Up, Down, Data, Dat, Frame
<1>6. ~Dialling(ch) /\ ~Opening(ch) /\ ~Holds("client", ch) /\ ~Holds("server", ch)
  BY <1>1 DEF Dialling, Opening, Holds, Reading, At
<1>7. /\ handler[ch] = "start" /\ relay[ch] = "none" /\ resCh[ch] = "empty" /\ closeSeen = {}
      /\ openResults = {}
  BY DEF Init
<1> QED BY <1>4, <1>5, <1>6, <1>7 DEF OpenInv, CloseInv, Known, Agreed, Answered

LEMMA NextStages == Typed /\ Stages /\ [Next]_vars => Stages' /\ (Next => \A ch \in Ch : Moves(ch))
<1> SUFFICES ASSUME Typed, Stages, [Next]_vars, NEW ch \in Ch
             PROVE  (OneOfEach(ch) /\ OpenInv(ch) /\ CloseInv(ch))' /\ (Next => Moves(ch))
  BY DEF Stages
<1>1. OpenInv(ch) /\ CloseInv(ch) /\ \A c \in Ch : OneOfEach(c)
  BY DEF Stages
<1>2. CASE Next
  <2>1. Step
    BY <1>2 DEF Next
  <2>2. Moves(ch)
    BY <1>1, <2>1, StepFlights, StepReaders, StepClientMoves, StepServerMoves DEF Moves
  <2>3. resCh'[ch] \in {"empty", "ok", "err"}
    BY <2>1, StepClient DEF ClientOK
  <2>4. OneOfEach(ch)'
    BY <2>1, StepOneOfEach DEF Stages
  <2> QED BY <1>1, <2>2, <2>3, <2>4, OpenMoves, CloseMoves
<1>3. CASE UNCHANGED vars
  <2>1. /\ UNCHANGED <<control, data, wire, reader, handler, resCh, openResults, relay, closeSeen>>
    BY <1>3 DEF vars, linkVars, sessionVars, endVars, clientVars, serverVars, historyVars
  <2>2. Flying("client")' = Flying("client") /\ Flying("server")' = Flying("server")
    BY <2>1 DEF Flying
  <2>3. OneOfEach(ch)'
    BY <1>1, <2>1 DEF OneOfEach, InOrder, Asks, Answers, Closes
  <2>4. OpenInv(ch)'
    BY <1>1, <2>1, <2>2 DEF OpenInv, Asked, Dialling, Opening, Answered, SaidOK, SaidErr, Known, Agreed
  <2>5. CloseInv(ch)'
    BY <1>1, <2>1, <2>2 DEF CloseInv, Closing, Opening, Up, Down, Holds
  <2>6. Next => Moves(ch)
    BY <2>1, <2>2 DEF Moves, FlightMoves, ReaderMoves, ClientMoves, ServerMoves, Asked, Dialling, Opening,
         Answered, SaidOK, SaidErr, Known, Agreed, Closing, Up, Down, Holds
  <2> QED BY <2>3, <2>4, <2>5, <2>6
<1> QED BY <1>2, <1>3

\* The answer a handler waits for is the one to its own OPENTCP, and a late one
\* finds resCh empty or nobody listed: a channel is at one stage of its open at a
\* time (main.go:159-168, 186-208, server.go:96-105).
THEOREM AnswersMatchOpens == Spec => []AnswersAreTrue
<1>1. Typed /\ Stages => AnswersAreTrue
  BY DEF Stages, OpenInv, AnswersAreTrue, Known, Agreed, Opening
<1>2. Typed /\ Stages /\ [Next]_vars => Typed' /\ Stages'
  BY NextTyped, NextStages
<1>3. Init => Typed /\ Stages
  BY InitTyped, InitStages
<1> QED BY <1>1, <1>2, <1>3, PTL DEF Spec

-----------------------------------------------------------------------------
(* The relay's connections *)

\* What has ended stays ended.
Persists(ch) ==
    /\ relay[ch] = "done" => relay'[ch] = "done"
    /\ tgtConn[ch] \in {"eof", "closed"} => tgtConn'[ch] \in {"eof", "closed"}
    /\ appConn[ch] # "open" => appConn'[ch] # "open"

LEMMA StepRelay ==
    ASSUME Typed, Stages, Step, NEW ch \in Ch, RelayInv(ch)
    PROVE  /\ RelayInv(ch)'
           /\ relay[ch] = "done" => relay'[ch] = "done"
           /\ tgtConn[ch] \in {"eof", "closed"} => tgtConn'[ch] \in {"eof", "closed"}
<1> DEFINE Goal ==
             /\ RelayInv(ch)'
             /\ relay[ch] = "done" => relay'[ch] = "done"
             /\ tgtConn[ch] \in {"eof", "closed"} => tgtConn'[ch] \in {"eof", "closed"}
<1>1. QueuesOK(Ctl, Dat) /\ EndsOK /\ ServerOK /\ "server" \in Side
  BY TypedParts DEF Side
<1>2. ASSUME UNCHANGED <<relay, tgtConn, conns, closeSeen>>
      PROVE  Goal
  BY <1>2 DEF RelayInv
<1>3. CASE ServerReads
  <2>1. CASE ServerDials
    <3>0. PICK c \in Ch : c = reader["server"].ch /\ Dialling(c)
      BY <1>1, <2>1, ReaderIs DEF ServerDials, EndsOK, Dialling
    <3>1. relay[c] = "none"
      BY <3>0 DEF Stages, OpenInv
    <3>2. /\ tgtConn' = [tgtConn EXCEPT ![c] = "open"] /\ conns' = conns \union {c}
          /\ relay' = [relay EXCEPT ![c] = "copy"] /\ UNCHANGED closeSeen
      BY <2>1, <3>0 DEF ServerDials, historyVars
    <3> QED BY <1>1, <3>1, <3>2 DEF RelayInv, ServerOK
  <2>2. CASE ServerClose
    <3>0. PICK c \in Ch : c = Received("server").ch
      BY <1>1, <2>2, ServerReadsOne, FrameIs
    <3>1. CloseTarget(c) /\ UNCHANGED relay /\ closeSeen' = closeSeen \union {c}
      BY <2>2, <3>0 DEF ServerClose
    <3> QED BY <1>1, <3>1 DEF RelayInv, ServerOK, CloseTarget
  <2>3. CASE \/ ServerRefuses \/ ServerAuth \/ ServerOpen \/ ServerDialFails \/ ServerOpened
             \/ ServerData \/ ServerWrites
    BY <1>2, <2>3 DEF ServerRefuses, ServerAuth, ServerOpen, ServerDialFails, ServerOpened, ServerData,
         ServerWrites, serverVars, historyVars
  <2> QED BY <1>3, <2>1, <2>2, <2>3 DEF ServerReads
<1>4. CASE ClientReads
  BY <1>2, <1>4 DEF ClientReads, ClientOpenOK, ClientOpenErr, SignalOpen, ClientClose, ClientAuthOK,
       ClientAuthErr, ClientData, ClientWrites, serverVars, historyVars
<1>5. CASE Link
  BY <1>2, <1>5 DEF Link, serverVars, historyVars
<1>6. ASSUME NEW c \in Ch, RelayRuns(c) \/ TargetCloses(c)
      PROVE  Goal
  <2>1. CASE RelayEnds(c)
    BY <1>1, <2>1 DEF RelayEnds, RelayInv, ServerOK, historyVars
  <2>2. CASE RelayCloses(c)
    BY <1>1, <2>2 DEF RelayCloses, CloseTarget, RelayInv, ServerOK, historyVars
  <2>3. CASE TargetCloses(c)
    BY <1>1, <2>3 DEF TargetCloses, RelayInv, ServerOK, historyVars
  <2>4. CASE RelayCopies(c)
    BY <1>2, <2>4 DEF RelayCopies, serverVars, historyVars
  <2> QED BY <1>6, <2>1, <2>2, <2>3, <2>4 DEF RelayRuns
<1>7. ASSUME NEW c \in Ch,
             HandlerRuns(c) \/ HandlerGivesUp(c) \/ HandlerTimesOut(c) \/ AppCloses(c)
      PROVE  Goal
  BY <1>2, <1>7 DEF HandlerRuns, HandlerGivesUp, HandlerTimesOut, AppCloses, HandlerOpens,
       HandlerAnswered, HandlerRefuses, HandlerReplies, HandlerCopies, HandlerEnds, HandlerCloses,
       serverVars, historyVars
<1> QED BY <1>3, <1>4, <1>5, <1>6, <1>7 DEF Step

LEMMA StepApp ==
    ASSUME Typed, Step, NEW ch \in Ch, EndsInv(ch)
    PROVE  /\ appConn[ch] # "open" => appConn'[ch] # "open"
           /\ handler'[ch] # "start" /\ ch \notin tcpConns' => appConn'[ch] = "closed"
<1> DEFINE Goal ==
             /\ appConn[ch] # "open" => appConn'[ch] # "open"
             /\ handler'[ch] # "start" /\ ch \notin tcpConns' => appConn'[ch] = "closed"
<1>1. QueuesOK(Ctl, Dat) /\ ClientOK
  BY TypedParts
<1>2. ASSUME UNCHANGED <<handler, tcpConns, appConn>>
      PROVE  Goal
  BY <1>2 DEF EndsInv
<1>3. CASE ServerReads
  BY <1>2, <1>3 DEF ServerReads, ServerRefuses, ServerAuth, ServerOpen, ServerDialFails, ServerDials,
       ServerOpened, ServerData, ServerWrites, ServerClose, clientVars
<1>4. CASE ClientReads
  <2>1. CASE ClientClose
    <3>0. PICK c \in Ch : c = Received("client").ch
      BY <1>1, <2>1, ClientReadsOne, FrameIs
    <3>1. CloseApp(c) /\ UNCHANGED handler
      BY <2>1, <3>0 DEF ClientClose
    <3> QED BY <1>1, <3>1 DEF CloseApp, ClientOK, EndsInv
  <2>2. CASE ~ClientClose
    BY <1>2, <1>4, <2>2 DEF ClientReads, ClientOpenOK, ClientOpenErr, SignalOpen, ClientAuthOK,
         ClientAuthErr, ClientData, ClientWrites, clientVars
  <2> QED BY <2>1, <2>2
<1>5. CASE Link
  BY <1>2, <1>5 DEF Link, clientVars
<1>6. ASSUME NEW c \in Ch, RelayRuns(c) \/ TargetCloses(c)
      PROVE  Goal
  BY <1>2, <1>6 DEF RelayRuns, RelayCopies, RelayEnds, RelayCloses, TargetCloses, clientVars
<1>7. ASSUME NEW c \in Ch,
             HandlerRuns(c) \/ HandlerGivesUp(c) \/ HandlerTimesOut(c) \/ AppCloses(c)
      PROVE  Goal
  <2>1. CASE HandlerOpens(c) \/ HandlerAnswered(c) \/ HandlerRefuses(c)
    BY <1>1, <2>1 DEF HandlerOpens, HandlerAnswered, HandlerRefuses, ClientOK, EndsInv
  <2>2. CASE HandlerReplies(c) \/ HandlerCopies(c) \/ HandlerEnds(c)
    BY <1>1, <2>2 DEF HandlerReplies, HandlerCopies, HandlerEnds, ClientOK, clientVars, EndsInv
  <2>3. CASE HandlerCloses(c) \/ HandlerGivesUp(c) \/ HandlerTimesOut(c) \/ AppCloses(c)
    BY <1>1, <2>3 DEF HandlerCloses, HandlerGivesUp, HandlerTimesOut, AppCloses, ClientOK, EndsInv
  <2> QED BY <1>7, <2>1, <2>2, <2>3 DEF HandlerRuns
<1> QED BY <1>3, <1>4, <1>5, <1>6, <1>7 DEF Step

LEMMA StepSent ==
    ASSUME Typed, Stages, Step, NEW ch \in Ch, EndsInv(ch)
    PROVE  relay'[ch] = "none" => appSent'[ch] = 0
<1>1. HistoryOK /\ QueuesOK(Ctl, Dat) /\ Moves(ch)
  BY TypedParts, StepFlights, StepReaders, StepClientMoves, StepServerMoves DEF Moves, Stages
<1>2. relay'[ch] = "none" => relay[ch] = "none"
  BY <1>1 DEF Moves, ServerMoves
<1>3. ASSUME NEW c \in Ch, HandlerCopies(c)
      PROVE  relay'[ch] = "none" => appSent'[ch] = 0
  <2>1. relay[c] # "none"
    BY <1>3 DEF HandlerCopies, Stages, OpenInv, Agreed
  <2> QED BY <1>1, <1>2, <1>3, <2>1 DEF HandlerCopies, HistoryOK, EndsInv
<1>4. ASSUME UNCHANGED appSent
      PROVE  relay'[ch] = "none" => appSent'[ch] = 0
  BY <1>2, <1>4 DEF EndsInv
<1>5. CASE ServerReads
  BY <1>4, <1>5 DEF ServerReads, ServerRefuses, ServerAuth, ServerOpen, ServerDialFails, ServerDials,
       ServerOpened, ServerData, ServerWrites, ServerClose, historyVars
<1>6. CASE ClientReads
  BY <1>4, <1>6 DEF ClientReads, ClientOpenOK, ClientOpenErr, SignalOpen, ClientClose, ClientAuthOK,
       ClientAuthErr, ClientData, ClientWrites, historyVars
<1>7. CASE Link
  BY <1>4, <1>7 DEF Link, historyVars
<1>8. ASSUME NEW c \in Ch, RelayRuns(c) \/ TargetCloses(c)
      PROVE  relay'[ch] = "none" => appSent'[ch] = 0
  BY <1>4, <1>8 DEF RelayRuns, RelayCopies, RelayEnds, RelayCloses, TargetCloses, historyVars
<1>9. ASSUME NEW c \in Ch,
             HandlerRuns(c) \/ HandlerGivesUp(c) \/ HandlerTimesOut(c) \/ AppCloses(c)
      PROVE  relay'[ch] = "none" => appSent'[ch] = 0
  BY <1>3, <1>4, <1>9 DEF HandlerRuns, HandlerGivesUp, HandlerTimesOut, AppCloses, HandlerOpens,
       HandlerAnswered, HandlerRefuses, HandlerReplies, HandlerEnds, HandlerCloses, historyVars
<1> QED BY <1>5, <1>6, <1>7, <1>8, <1>9 DEF Step

Connections == \A ch \in Ch : RelayInv(ch) /\ EndsInv(ch)

LEMMA InitConnections == Init => Connections
BY DEF Init, Connections, RelayInv, EndsInv

LEMMA NextConnections ==
    Typed /\ Stages /\ Connections /\ [Next]_vars =>
      Connections' /\ \A ch \in Ch : Persists(ch)
<1> SUFFICES ASSUME Typed, Stages, Connections, [Next]_vars, NEW ch \in Ch
             PROVE  RelayInv(ch)' /\ EndsInv(ch)' /\ Persists(ch)
  BY DEF Connections
<1>1. RelayInv(ch) /\ EndsInv(ch)
  BY DEF Connections
<1>2. CASE Next
  BY <1>1, <1>2, StepRelay, StepApp, StepSent DEF Next, Persists, EndsInv
<1>3. CASE UNCHANGED vars
  BY <1>1, <1>3 DEF vars, clientVars, serverVars, historyVars, RelayInv, EndsInv, Persists
<1> QED BY <1>2, <1>3

\* Every connection of the relay has the copier that will close it, whichever of
\* the copier, the client's TCPCLOSE and the target comes first (tcp.go:32-56,
\* 69-86).
THEOREM NoConnLeftBehind == Spec => []RelayConnsHaveCopiers
<1>1. Connections => RelayConnsHaveCopiers
  BY DEF Connections, RelayInv, RelayConnsHaveCopiers
<1>2. Typed /\ Stages /\ Connections /\ [Next]_vars => Typed' /\ Stages' /\ Connections'
  BY NextTyped, NextStages, NextConnections
<1>3. Init => Typed /\ Stages /\ Connections
  BY InitTyped, InitStages, InitConnections
<1> QED BY <1>1, <1>2, <1>3, PTL DEF Spec

-----------------------------------------------------------------------------
(* Authentication *)

LEMMA HeadStays ==
    ASSUME NEW S, NEW q \in Seq(S), NEW e \in S, q # << >>
    PROVE  Append(q, e) # << >> /\ Head(Append(q, e)) = Head(q)
OBVIOUS

\* The client's writer sends that frame first.
LEMMA WriterKeepsAuth ==
    ASSUME QueuesOK(Ctl, Dat), AuthAhead, NEW s \in Side, Writes(s)
    PROVE  AuthAhead'
<1>1. /\ "client" \in Side
      /\ control \in [Side -> Seq(Ctl)] /\ data \in [Side -> Seq(Dat)]
      /\ wire \in [Side -> Seq(Ctl \union Dat)] /\ phase \in [Side -> {"select", "data", "stopped"}]
      /\ \A t \in Side : phase[t] = "data" => data[t] # << >>
  BY DEF Side, QueuesOK
<1>2. ASSUME UNCHANGED <<wire, control>>, phase'["client"] = phase["client"] \/ phase'["client"] # "data"
      PROVE  AuthAhead'
  BY <1>2 DEF AuthAhead
<1>3. CASE s # "client"
  <2>1. /\ wire'["client"] = wire["client"] /\ control'["client"] = control["client"]
        /\ phase'["client"] = phase["client"]
    BY <1>1, <1>3 DEF Writes, WriteControl, WriteData, Send
  <2> QED BY <2>1 DEF AuthAhead
<1>4. CASE s = "client" /\ wire["client"] # << >>
  <2>1. \/ wire'["client"] = wire["client"]
        \/ \E e \in Ctl \union Dat : wire'["client"] = Append(wire["client"], e)
    <3>1. /\ control["client"] # << >> => Head(control["client"]) \in Ctl
          /\ phase["client"] = "data" => Head(data["client"]) \in Dat
      BY <1>1, Tailed
    <3> QED BY <1>1, <1>4, <3>1 DEF Writes, WriteControl, WriteData, Send
  <2>2. wire'["client"] # << >> /\ Head(wire'["client"]) = Head(wire["client"])
    BY <1>1, <1>4, <2>1, HeadStays
  <2> QED BY <1>4, <2>2 DEF AuthAhead
<1>5. CASE s = "client" /\ wire["client"] = << >>
  <2>1. /\ control["client"] # << >> /\ Head(control["client"]).type = "AUTH"
        /\ phase["client"] # "data"
    BY <1>5 DEF AuthAhead
  <2>2. Writes(s) => WriteControl(s)
    BY <1>5, <2>1 DEF Writes, WriteData
  <2>3. CASE phase' = [phase EXCEPT ![s] = "stopped"] /\ UNCHANGED <<control, wire>>
    BY <1>1, <1>2, <1>5, <2>3
  <2>4. CASE Send(s, Head(control[s]))
    <3>1. wire'["client"] = Append(wire["client"], Head(control["client"]))
      BY <1>1, <1>5, <2>4 DEF Send
    <3>2. Head(control["client"]) \in Ctl
      BY <1>1, <2>1, Tailed
    <3>3. /\ Append(<< >>, Head(control["client"])) # << >>
          /\ Head(Append(<< >>, Head(control["client"]))) = Head(control["client"])
      BY <3>2
    <3> QED BY <1>5, <2>1, <3>1, <3>3 DEF AuthAhead
  <2> QED BY <1>5, <2>1, <2>2, <2>3, <2>4 DEF WriteControl
<1> QED BY <1>3, <1>4, <1>5

\* Nothing but the server's reader takes it away, and nothing gets ahead of it.
LEMMA StepAuthAhead ==
    ASSUME Typed, Step, AuthAhead,
           ~(ServerRefuses \/ ServerAuth \/ ServerOpen \/ ServerData \/ ServerClose)
    PROVE  AuthAhead'
<1>1. /\ QueuesOK(Ctl, Dat) /\ "client" \in Side /\ "server" \in Side
      /\ control \in [Side -> Seq(Ctl)] /\ wire \in [Side -> Seq(Ctl \union Dat)]
      /\ phase \in [Side -> {"select", "data", "stopped"}]
  BY TypedParts DEF Side, QueuesOK
<1>2. ASSUME wire'["client"] = wire["client"], control'["client"] = control["client"],
             phase'["client"] = phase["client"]
      PROVE  AuthAhead'
  BY <1>2 DEF AuthAhead
<1>3. ASSUME NEW f \in Ctl, QueueControl("client", f), UNCHANGED <<wire, phase>>
      PROVE  AuthAhead'
  <2>1. control'["client"] = Append(control["client"], f)
    BY <1>1, <1>3 DEF QueueControl
  <2>2. control["client"] # << >> =>
          control'["client"] # << >> /\ Head(control'["client"]) = Head(control["client"])
    <3>1. control["client"] \in Seq(Ctl)
      BY <1>1
    <3> QED BY <2>1, <3>1, HeadStays
  <2> QED BY <1>3, <2>2 DEF AuthAhead
<1>4. CASE ServerReads
  <2>1. CASE ServerDialFails \/ ServerOpened
    <3>1. UNCHANGED <<wire, phase>> /\ control'["client"] = control["client"]
      BY <1>1, <2>1 DEF ServerDialFails, ServerOpened, Answer, QueueControl
    <3> QED BY <1>2, <3>1
  <2>2. CASE ServerDials \/ ServerWrites
    BY <1>2, <2>2 DEF ServerDials, ServerWrites, sessionVars
  <2> QED BY <1>4, <2>1, <2>2 DEF ServerReads
<1>5. CASE ClientReads
  <2>1. CASE ClientWrites
    BY <1>2, <2>1 DEF ClientWrites, sessionVars
  <2>2. CASE ~ClientWrites
    <3>1. UNCHANGED <<control, phase>> /\ wire' = [wire EXCEPT !["server"] = Tail(@)]
      BY <1>5, <2>2 DEF ClientReads, ClientAuthOK, ClientAuthErr, ClientOpenOK, ClientOpenErr, SignalOpen,
           ClientData, ClientClose, Receive, Peer
    <3>2. wire'["client"] = wire["client"]
      BY <1>1, <3>1
    <3> QED BY <1>2, <3>1, <3>2
  <2> QED BY <2>1, <2>2
<1>6. CASE Link
  <2>1. CASE ClientSeesEnd \/ LinkBreaks \/ \E s \in Side : RunCloses(s)
    BY <1>2, <2>1 DEF ClientSeesEnd, LinkBreaks, RunCloses, sessionVars
  <2>2. CASE ClientWriteFails
    <3>1. UNCHANGED <<wire, control>> /\ phase'["client"] = "stopped"
      BY <1>1, <2>2 DEF ClientWriteFails
    <3> QED BY <3>1 DEF AuthAhead
  <2>3. CASE \E s \in Side : Writes(s)
    BY <1>1, <2>3, WriterKeepsAuth
  <2> QED BY <1>6, <2>1, <2>2, <2>3 DEF Link, LinkStep
<1>7. ASSUME NEW c \in Ch, RelayRuns(c) \/ TargetCloses(c)
      PROVE  AuthAhead'
  <2>1. CASE RelayEnds(c)
    <3>1. UNCHANGED <<wire, phase>> /\ control'["client"] = control["client"]
      BY <1>1, <2>1 DEF RelayEnds, TryQueueControl, QueueControl
    <3> QED BY <1>2, <3>1
  <2> QED BY <1>2, <1>7, <2>1 DEF RelayRuns, RelayCopies, RelayCloses, TargetCloses, linkVars, sessionVars
<1>8. ASSUME NEW c \in Ch,
             HandlerRuns(c) \/ HandlerGivesUp(c) \/ HandlerTimesOut(c) \/ AppCloses(c)
      PROVE  AuthAhead'
  <2>1. CASE HandlerOpens(c)
    BY <1>2, <1>3, <2>1, FrameTyped DEF HandlerOpens
  <2>2. CASE HandlerEnds(c)
    BY <1>2, <1>3, <2>2, FrameTyped DEF HandlerEnds, TryQueueControl
  <2>3. CASE HandlerCopies(c)
    BY <1>2, <2>3 DEF HandlerCopies
  <2>4. CASE \/ HandlerAnswered(c) \/ HandlerRefuses(c) \/ HandlerReplies(c) \/ HandlerCloses(c)
             \/ HandlerGivesUp(c) \/ HandlerTimesOut(c) \/ AppCloses(c)
    BY <1>2, <2>4 DEF HandlerAnswered, HandlerRefuses, HandlerReplies, HandlerCloses, HandlerGivesUp,
         HandlerTimesOut, AppCloses, linkVars, sessionVars
  <2> QED BY <1>8, <2>1, <2>2, <2>3, <2>4 DEF HandlerRuns
<1> QED BY <1>4, <1>5, <1>6, <1>7, <1>8 DEF Step

\* What a step does to authOK, to the gauge and to the server's reader and error.
LEMMA StepAuth ==
    ASSUME Typed, Stages, AuthInv, Step, UNCHANGED authFirst
    PROVE  /\ authOK' => authFirst
           /\ authOK => authOK'
           /\ active' # 0 => active # 0 \/ reader["server"].pc = "opened" \/ authOK
           /\ reader'["server"].pc \in {"dial", "opened", "write"} =>
                reader["server"].pc \in {"dial", "opened", "write"} \/ authOK
           /\ authFirst => cause'["server"] # "auth required"
           /\ authFirst /\ ~authOK' /\ reader'["server"].pc = "read" => AuthAhead'
<1> DEFINE Goal ==
             /\ authOK' => authFirst
             /\ authOK => authOK'
             /\ active' # 0 => active # 0 \/ reader["server"].pc = "opened" \/ authOK
             /\ reader'["server"].pc \in {"dial", "opened", "write"} =>
                  reader["server"].pc \in {"dial", "opened", "write"} \/ authOK
             /\ authFirst => cause'["server"] # "auth required"
             /\ authFirst /\ ~authOK' /\ reader'["server"].pc = "read" => AuthAhead'
<1>1. /\ QueuesOK(Ctl, Dat) /\ EndsOK /\ "client" \in Side /\ "server" \in Side
      /\ DOMAIN cause = Side /\ DOMAIN reader = Side /\ reader["server"] \in Readers
  BY TypedParts DEF Side, EndsOK
<1>2. /\ authOK => authFirst
      /\ reader["server"].pc \in {"dial", "opened", "write"} => authOK
      /\ authFirst => cause["server"] # "auth required"
      /\ authFirst /\ ~authOK /\ reader["server"].pc = "read" => AuthAhead
  BY DEF AuthInv, AuthComesFirst
<1>3. \A err : /\ ReaderFails("server", err) => cause'["server"] = err /\ reader'["server"].pc = "done"
              /\ \A ch, n : ReaderFailsOn("server", err, ch, n) =>
                   cause'["server"] = err /\ reader'["server"].pc = "done"
  BY <1>1 DEF ReaderFails, ReaderFailsOn, At
<1>4. ReaderGoesOn("server") => cause'["server"] = cause["server"] /\ reader'["server"].pc = "read"
  BY <1>1 DEF ReaderGoesOn, Reading
<1>5. ASSUME authOK, UNCHANGED authOK, cause'["server"] \in {cause["server"], "unknown channel",
               "channel write", "queue full", "link", "eof"}
      PROVE  Goal
  BY <1>2, <1>5
<1>6. CASE ServerRefuses
  <2>1. ~authFirst
    <3>1. /\ reader["server"].pc = "read" /\ ~authOK /\ wire["client"] # << >>
          /\ Head(wire["client"]).type # "AUTH"
      BY <1>6 DEF ServerRefuses, Receive, Peer
    <3> QED BY <1>2, <3>1 DEF AuthAhead
  <2>2. reader'["server"].pc \notin {"dial", "opened", "write", "read"}
    BY <1>3, <1>6 DEF ServerRefuses
  <2>3. UNCHANGED <<authOK, active>>
    BY <1>6 DEF ServerRefuses, serverVars
  <2>4. authOK' = authOK /\ active' = active
    BY <2>3
  <2> QED BY <1>2, <2>1, <2>2, <2>4
<1>7. CASE ServerAuth
  <2>1. authFirst
    BY <1>1, <1>7, ServerAuthFlows DEF AuthInv
  <2>2. /\ authOK' = TRUE \/ (authOK' = authOK /\ reader'["server"].pc = "done")
        /\ reader'["server"].pc \in {"read", "done"}
        /\ cause'["server"] \in {cause["server"], "queue full", "auth"}
        /\ UNCHANGED active
    BY <1>3, <1>4, <1>7 DEF ServerAuth, Answer
  <2>3. authOK => authOK'
    BY <2>2
  <2>4. reader'["server"].pc = "read" => authOK'
    BY <2>2
  <2>5. reader'["server"].pc \notin {"dial", "opened", "write"}
    BY <2>2
  <2>6. cause["server"] # "auth required" => cause'["server"] # "auth required"
    BY <2>2
  <2> QED BY <1>2, <2>1, <2>2, <2>3, <2>4, <2>5, <2>6
<1>8. CASE ServerOpen \/ ServerData \/ ServerClose
  <2>1. authOK /\ UNCHANGED authOK
    BY <1>8 DEF ServerOpen, ServerData, ServerClose, serverVars
  <2>2. cause'["server"] \in {cause["server"], "unknown channel"}
    BY <1>3, <1>8 DEF ServerOpen, ServerData, ServerClose, endVars
  <2> QED BY <1>5, <2>1, <2>2
<1>9. CASE ServerDialFails \/ ServerDials \/ ServerOpened \/ ServerWrites
  <2>1. authOK /\ UNCHANGED authOK
    BY <1>2, <1>9 DEF ServerDialFails, ServerDials, ServerOpened, ServerWrites, serverVars
  <2>2. cause'["server"] \in {cause["server"], "queue full", "channel write"}
    BY <1>3, <1>4, <1>9 DEF ServerDialFails, ServerDials, ServerOpened, ServerWrites, Answer
  <2> QED BY <1>5, <2>1, <2>2
<1>10. CASE ~ServerReads
  <2>1. AuthAhead => AuthAhead'
    BY <1>10, StepAuthAhead DEF ServerReads
  <2>2. ASSUME UNCHANGED <<authOK, active>>,
               \/ reader'["server"] = reader["server"] /\ cause'["server"] = cause["server"]
               \/ reader'["server"].pc = "done" /\ cause'["server"] = "link"
        PROVE  Goal
    BY <1>2, <2>1, <2>2
  <2>3. CASE ClientReads
    <3>1. /\ UNCHANGED <<authOK, active>>
          /\ reader'["server"] = reader["server"] /\ cause'["server"] = cause["server"]
      BY <1>1, <2>3 DEF ClientReads, ClientOpenOK, ClientOpenErr, SignalOpen, ClientClose, ClientAuthOK,
           ClientAuthErr, ClientData, ClientWrites, serverVars, endVars, ReaderFails, ReaderFailsOn, ReaderGoesOn
    <3> QED BY <2>2, <3>1
  <2>4. CASE Link
    <3>1. \/ reader'["server"] = reader["server"] /\ cause'["server"] = cause["server"]
          \/ reader'["server"].pc = "done" /\ cause'["server"] = "link"
      BY <1>1, <1>3, <2>4 DEF Link, LinkStep, ClientSeesEnd, ClientWriteFails, LinkBreaks, RunCloses, Writes,
           WriteControl, WriteData, endVars, ReaderFails, ReaderFailsOn
    <3> QED BY <2>2, <2>4, <3>1 DEF Link, serverVars
  <2>5. ASSUME NEW c \in Ch, RelayRuns(c) \/ TargetCloses(c)
        PROVE  Goal
    BY <2>2, <2>5 DEF RelayRuns, RelayCopies, RelayEnds, RelayCloses, TargetCloses, serverVars, linkVars, endVars
  <2>6. ASSUME NEW c \in Ch,
               HandlerRuns(c) \/ HandlerGivesUp(c) \/ HandlerTimesOut(c) \/ AppCloses(c)
        PROVE  Goal
    BY <2>2, <2>6 DEF HandlerRuns, HandlerGivesUp, HandlerTimesOut, AppCloses, HandlerOpens,
         HandlerAnswered, HandlerRefuses, HandlerReplies, HandlerCopies, HandlerEnds, HandlerCloses,
         serverVars, linkVars, endVars
  <2> QED BY <1>10, <2>3, <2>4, <2>5, <2>6 DEF Step
<1> QED BY <1>6, <1>7, <1>8, <1>9, <1>10 DEF ServerReads

\* The client never queues a second AUTH.
LEMMA StepAuthFrames ==
    ASSUME Typed, Step
    PROVE  Frame("AUTH", NoCh, 0) \in Flying("client")' => Frame("AUTH", NoCh, 0) \in Flying("client")
<1> DEFINE Goal == Frame("AUTH", NoCh, 0) \in Flying("client")' => Frame("AUTH", NoCh, 0) \in Flying("client")
<1>1. QueuesOK(Ctl, Dat) /\ EndsOK /\ HistoryOK /\ "client" \in Side
  BY TypedParts DEF Side
<1>2. CASE ServerReads
  <2>1. CASE ServerDialFails \/ ServerOpened
    <3>1. reader["server"].ch \in Ch
      BY <1>1, <2>1, ReaderIs DEF ServerDialFails, ServerOpened, EndsOK, Side
    <3> QED BY <1>1, <2>1, <3>1, ServerAnswers DEF Keeps
  <2> QED BY <1>1, <1>2, <2>1, ServerReadsOne, ServerAuthFlows, QuietIsQuiet, QuietFlows
          DEF ServerReads, Quiet, Keeps, Loses
<1>3. CASE ClientReads
  BY <1>1, <1>3, ClientReadsOne, QuietIsQuiet, QuietFlows DEF ClientReads, Quiet, Keeps
<1>4. CASE Link
  BY <1>1, <1>4, LinkStepKeeps DEF Link, Ctl, Dat, Keeps
<1>5. ASSUME NEW c \in Ch, RelayRuns(c) \/ TargetCloses(c)
      PROVE  Goal
  BY <1>1, <1>5, RelayCopiesFlows, RelayEndsFlows, QuietIsQuiet, QuietFlows
     DEF RelayRuns, Quiet, Keeps, HistoryOK
<1>6. ASSUME NEW c \in Ch,
             HandlerRuns(c) \/ HandlerGivesUp(c) \/ HandlerTimesOut(c) \/ AppCloses(c)
      PROVE  Goal
  <2>1. \A n : /\ Frame("AUTH", NoCh, 0) # Frame("OPENTCP", c, n)
               /\ Frame("AUTH", NoCh, 0) # Frame("TCPCLOSE", c, n)
               /\ Frame("AUTH", NoCh, 0) # Frame("TCPDATA", c, n)
    BY DEF Frame
  <2> QED BY <1>1, <1>6, <2>1, HandlerOpensFlows, HandlerEndsFlows, HandlerCopiesFlows, QuietIsQuiet, QuietFlows
          DEF HandlerRuns, Quiet, Keeps, Gains, HistoryOK
<1> QED BY <1>2, <1>3, <1>4, <1>5, <1>6 DEF Step

LEMMA InitAuth == Init => AuthInv
<1> SUFFICES ASSUME Init
             PROVE  AuthInv
  OBVIOUS
<1> DEFINE first == IF authFirst THEN << Frame("AUTH", NoCh, 0) >> ELSE << >>
<1>1. /\ control["client"] = first /\ wire["client"] = << >> /\ data["client"] = << >>
      /\ phase["client"] = "select" /\ cause["server"] = "none" /\ reader["server"] = Reading
  BY DEF Init, LinkInit, Side
<1>2. ~authOK /\ active = 0 /\ \A ch \in Ch : relay[ch] = "none"
  BY DEF Init
<1>3. Frame("AUTH", NoCh, 0) \in Flying("client") => authFirst
  <2>1. ASSUME ~authFirst
        PROVE  Flying("client") = {}
    BY <1>1, <2>1 DEF Flying, Elems
  <2> QED BY <2>1
<1>4. authFirst => AuthAhead
  <2>1. ASSUME authFirst
        PROVE  first # << >> /\ Head(first).type = "AUTH"
    BY <2>1 DEF Frame
  <2> QED BY <1>1, <2>1 DEF AuthAhead
<1>5. reader["server"].pc = "read"
  BY <1>1 DEF Reading
<1> QED BY <1>1, <1>2, <1>3, <1>4, <1>5 DEF AuthInv, AuthComesFirst

LEMMA NextAuth == Typed /\ Stages /\ AuthInv /\ [Next]_vars => AuthInv'
<1> SUFFICES ASSUME Typed, Stages, AuthInv, [Next]_vars
             PROVE  AuthInv'
  OBVIOUS
<1>1. CASE Next
  <2>1. Step /\ authFirst' = authFirst
    BY <1>1 DEF Next
  <2>2. /\ authOK' => authFirst
        /\ authOK => authOK'
        /\ active' # 0 => active # 0 \/ reader["server"].pc = "opened" \/ authOK
        /\ reader'["server"].pc \in {"dial", "opened", "write"} =>
             reader["server"].pc \in {"dial", "opened", "write"} \/ authOK
        /\ authFirst => cause'["server"] # "auth required"
        /\ authFirst /\ ~authOK' /\ reader'["server"].pc = "read" => AuthAhead'
    BY <2>1, StepAuth
  <2>3. Frame("AUTH", NoCh, 0) \in Flying("client")' => authFirst
    BY <2>1, StepAuthFrames DEF AuthInv
  <2>4. ASSUME NEW ch \in Ch, relay'[ch] # "none"
        PROVE  authOK'
    <3>1. relay[ch] # "none" \/ Dialling(ch)
      BY <1>1, <2>4, NextStages DEF Moves, ServerMoves
    <3>2. Dialling(ch) => authOK
      <4>1. Dialling(ch) => reader["server"].pc \in {"dial", "opened", "write"}
        BY DEF Dialling, At
      <4> QED BY <4>1 DEF AuthInv
    <3> QED BY <2>2, <3>1, <3>2 DEF AuthInv
  <2>5. active' # 0 \/ reader'["server"].pc \in {"dial", "opened", "write"} => authOK'
    BY <2>2 DEF AuthInv
  <2> QED BY <2>1, <2>2, <2>3, <2>4, <2>5 DEF AuthInv, AuthComesFirst
<1>2. CASE UNCHANGED vars
  <2>1. UNCHANGED <<control, data, wire, phase, reader, cause, authFirst, authOK, active, relay>>
    BY <1>2 DEF vars, linkVars, sessionVars, endVars, serverVars
  <2> QED BY <2>1 DEF AuthInv, AuthComesFirst, AuthAhead, Flying
<1> QED BY <1>1, <1>2

\* No connection is opened and nothing is counted before the client has
\* authenticated, and a client whose first frame is AUTH is never told "auth
\* required": no frame gets ahead of the AUTH (server.go:77-93, main.go:638-641).
THEOREM NothingBeforeAuth == Spec => []AuthGate
<1>1. Connections /\ Typed /\ AuthInv => AuthGate
  BY DEF Connections, RelayInv, AuthInv, AuthGate, Typed, TypeOK
<1>2. /\ Typed /\ Stages /\ Connections /\ AuthInv /\ [Next]_vars
      => Typed' /\ Stages' /\ Connections' /\ AuthInv'
  BY NextTyped, NextStages, NextConnections, NextAuth
<1>3. Init => Typed /\ Stages /\ Connections /\ AuthInv
  BY InitTyped, InitStages, InitConnections, InitAuth
<1> QED BY <1>1, <1>2, <1>3, PTL DEF Spec

-----------------------------------------------------------------------------
(* The gauge *)

Gauge == IsFiniteSet(Opened) /\ active = Cardinality(Opened \ closeSeen)

\* The server's reader leaves "opened" only to answer.
LEMMA OpeningStays ==
    ASSUME Typed, Step, ~ServerOpened, NEW ch \in Ch, Opening(ch)
    PROVE  Opening(ch)'
<1>1. /\ reader["server"].pc = "opened" /\ reader["server"] = At("opened", ch, 0)
      /\ "server" \in Side /\ "client" \in Side /\ DOMAIN reader = Side
  BY TypedParts DEF Opening, At, EndsOK, Side
<1>2. ASSUME reader'["server"] = reader["server"]
      PROVE  Opening(ch)'
  BY <1>2 DEF Opening
<1>3. CASE ServerReads
  BY <1>1, <1>3 DEF ServerReads, ServerRefuses, ServerAuth, ServerOpen, ServerDialFails, ServerDials,
       ServerData, ServerWrites, ServerClose, Receive
<1>4. CASE ClientReads
  <2>1. reader'["server"] = reader["server"]
    BY <1>1, <1>4 DEF ClientReads, ClientOpenOK, ClientOpenErr, SignalOpen, ClientClose, ClientAuthOK,
         ClientAuthErr, ClientData, ClientWrites, endVars, ReaderFails, ReaderFailsOn, ReaderGoesOn
  <2> QED BY <1>2, <2>1
<1>5. CASE Link
  <2>1. reader'["server"] = reader["server"]
    BY <1>1, <1>5 DEF Link, LinkStep, ClientSeesEnd, ClientWriteFails, LinkBreaks, RunCloses, Writes,
         WriteControl, WriteData, endVars, ReaderFails, ReaderFailsOn
  <2> QED BY <1>2, <2>1
<1>6. ASSUME NEW c \in Ch, RelayRuns(c) \/ TargetCloses(c)
      PROVE  Opening(ch)'
  BY <1>2, <1>6 DEF RelayRuns, RelayCopies, RelayEnds, RelayCloses, TargetCloses, linkVars, endVars
<1>7. ASSUME NEW c \in Ch,
             HandlerRuns(c) \/ HandlerGivesUp(c) \/ HandlerTimesOut(c) \/ AppCloses(c)
      PROVE  Opening(ch)'
  BY <1>2, <1>7 DEF HandlerRuns, HandlerGivesUp, HandlerTimesOut, AppCloses, HandlerOpens,
       HandlerAnswered, HandlerRefuses, HandlerReplies, HandlerCopies, HandlerEnds, HandlerCloses,
       linkVars, endVars
<1> QED BY <1>3, <1>4, <1>5, <1>6, <1>7 DEF Step

\* A channel is opened when its OPENOK is on its way, and stays so.
LEMMA OpenedGrows ==
    ASSUME Typed, Stages, Step, \A ch \in Ch : Moves(ch)
    PROVE  /\ ~ServerOpened => Opened' = Opened
           /\ \A c \in Ch : ServerOpened /\ Opening(c) => c \notin Opened /\ Opened' = Opened \union {c}
<1>1. \A ch \in Ch : ch \in Opened <=> relay[ch] # "none" /\ ~Opening(ch)
  BY DEF Opened, Opening
<1>2. \A ch \in Ch : ch \in Opened' <=> relay'[ch] # "none" /\ ~Opening(ch)'
  BY DEF Opened, Opening
<1>3. ASSUME NEW ch \in Ch
      PROVE  ch \in Opened' <=> ch \in Opened \/ (Opening(ch) /\ ~Opening(ch)')
  <2>1. /\ relay[ch] # "none" => relay'[ch] # "none"
        /\ relay'[ch] # "none" => relay[ch] # "none" \/ (Dialling(ch) /\ Opening(ch)')
        /\ Opening(ch)' => Opening(ch) \/ (Dialling(ch) /\ relay'[ch] # "none")
    BY DEF Moves, ServerMoves, ReaderMoves
  <2>2. /\ Dialling(ch) => relay[ch] = "none"
        /\ Opening(ch) => relay[ch] # "none"
    BY DEF Stages, OpenInv
  <2> QED BY <1>1, <1>2, <2>1, <2>2
<1>4. Opened \subseteq Ch /\ Opened' \subseteq Ch
  BY DEF Opened
<1>5. ASSUME ~ServerOpened
      PROVE  Opened' = Opened
  <2>1. \A ch \in Ch : Opening(ch) => Opening(ch)'
    BY <1>5, OpeningStays
  <2> QED BY <1>3, <1>4, <2>1
<1>6. ASSUME NEW c \in Ch, ServerOpened, Opening(c)
      PROVE  c \notin Opened /\ Opened' = Opened \union {c}
  <2>1. EndsOK /\ "server" \in Side /\ (ReaderGoesOn("server") \/ \E err : ReaderFails("server", err))
    BY <1>6, TypedParts DEF ServerOpened, Answer, Side
  <2>2. \A ch \in Ch : ~Opening(ch)'
    BY <2>1, ReaderLeaves DEF Opening
  <2>3. \A ch \in Ch : Opening(ch) => ch = c
    BY <1>6 DEF Opening, At
  <2> QED BY <1>1, <1>3, <1>4, <1>6, <2>2, <2>3
<1> QED BY <1>5, <1>6

LEMMA InitGauge == Init => Gauge
<1>1. Init => Opened = {} /\ active = 0 /\ closeSeen = {}
  BY DEF Init, Opened
<1>2. ({}) \ ({}) = {}
  OBVIOUS
<1> QED BY <1>1, <1>2, FS_EmptySet DEF Gauge

LEMMA NextGauge == Typed /\ Stages /\ Gauge /\ [Next]_vars => Gauge'
<1> SUFFICES ASSUME Typed, Stages, Gauge, [Next]_vars
             PROVE  Gauge'
  OBVIOUS
<1>1. EndsOK /\ ServerOK /\ HistoryOK /\ QueuesOK(Ctl, Dat)
  BY TypedParts
<1>2. IsFiniteSet(Opened) /\ IsFiniteSet(Opened \ closeSeen) /\ active = Cardinality(Opened \ closeSeen)
  BY FS_Subset DEF Gauge
<1>3. closeSeen \subseteq Opened
  BY <1>1 DEF Stages, CloseInv, Opened, Opening, HistoryOK
<1>4. CASE Next
  <2>0. Step /\ \A ch \in Ch : Moves(ch)
    BY <1>4, NextStages DEF Next
  <2>1. CASE ServerOpened
    <3>1. PICK c \in Ch : Opening(c)
      BY <1>1, <2>1, ReaderIs DEF ServerOpened, EndsOK, Opening, Side
    <3>2. c \notin Opened /\ Opened' = Opened \union {c}
      BY <2>0, <2>1, <3>1, OpenedGrows
    <3>3. active' = active + 1 /\ closeSeen' = closeSeen
      BY <2>1 DEF ServerOpened, historyVars
    <3>4. Opened' \ closeSeen' = (Opened \ closeSeen) \union {c} /\ c \notin Opened \ closeSeen
      BY <1>3, <3>2, <3>3
    <3>5. /\ IsFiniteSet(Opened') /\ Cardinality((Opened \ closeSeen) \union {c}) = active + 1
      BY <1>2, <3>2, <3>4, FS_AddElement
    <3> QED BY <3>3, <3>4, <3>5 DEF Gauge
  <2>2. CASE ServerClose
    <3>1. PICK c \in Ch : c = Received("server").ch
      BY <1>1, <2>2, ServerReadsOne, FrameIs
    <3>2. Closing(c)
      <4>1. Received("server") = Frame("TCPCLOSE", c, 0) /\ Received("server") \in Flying("client")
        BY <1>1, <2>2, <3>1, ServerReadsOne, FrameIs
      <4> QED BY <4>1 DEF Closing
    <3>3. c \in Opened \ closeSeen
      BY <3>2 DEF Stages, CloseInv, Opened, Opening
    <3>4. ~ServerOpened
      BY <2>2 DEF ServerClose, ServerOpened, Receive
    <3>5. Opened' = Opened
      BY <2>0, <3>4, OpenedGrows
    <3>6. active' = active - 1 /\ closeSeen' = closeSeen \union {c}
      BY <2>2, <3>1 DEF ServerClose
    <3>7. Opened' \ closeSeen' = (Opened \ closeSeen) \ {c}
      BY <3>5, <3>6
    <3>8. Cardinality((Opened \ closeSeen) \ {c}) = active - 1
      BY <1>2, <3>3, FS_RemoveElement
    <3> QED BY <1>2, <3>5, <3>6, <3>7, <3>8 DEF Gauge
  <2>3. CASE ~ServerOpened /\ ~ServerClose
    <3>1. Opened' = Opened
      BY <2>0, <2>3, OpenedGrows
    <3>2. UNCHANGED <<active, closeSeen>>
      <4>1. CASE ServerReads
        BY <2>3, <4>1 DEF ServerReads, ServerRefuses, ServerAuth, ServerOpen, ServerDialFails, ServerDials,
             ServerData, ServerWrites, serverVars, historyVars
      <4>2. CASE ClientReads
        BY <4>2 DEF ClientReads, ClientOpenOK, ClientOpenErr, SignalOpen, ClientClose, ClientAuthOK,
             ClientAuthErr, ClientData, ClientWrites, serverVars, historyVars
      <4>3. CASE Link
        BY <4>3 DEF Link, serverVars, historyVars
      <4>4. ASSUME NEW c \in Ch, RelayRuns(c) \/ TargetCloses(c)
            PROVE  UNCHANGED <<active, closeSeen>>
        BY <4>4 DEF RelayRuns, RelayCopies, RelayEnds, RelayCloses, TargetCloses, serverVars, historyVars
      <4>5. ASSUME NEW c \in Ch,
                   HandlerRuns(c) \/ HandlerGivesUp(c) \/ HandlerTimesOut(c) \/ AppCloses(c)
            PROVE  UNCHANGED <<active, closeSeen>>
        BY <4>5 DEF HandlerRuns, HandlerGivesUp, HandlerTimesOut, AppCloses, HandlerOpens,
             HandlerAnswered, HandlerRefuses, HandlerReplies, HandlerCopies, HandlerEnds, HandlerCloses,
             serverVars, historyVars
      <4> QED BY <2>0, <4>1, <4>2, <4>3, <4>4, <4>5 DEF Step
    <3> QED BY <3>1, <3>2 DEF Gauge
  <2> QED BY <2>1, <2>2, <2>3
<1>5. CASE UNCHANGED vars
  <2>1. UNCHANGED <<active, closeSeen, relay, reader>>
    BY <1>5 DEF vars, linkVars, endVars, serverVars, historyVars
  <2> QED BY <2>1 DEF Gauge, Opened
<1> QED BY <1>4, <1>5

\* activeChannels is what its name says for every interleaving: a TCPCLOSE reaches
\* the server once for a channel, and only after its OPENTCP (server.go:103,
\* 108-111).
THEOREM GaugeCountsOpenChannels == Spec => []GaugeIsExact
<1>1. Typed /\ Stages /\ Gauge => GaugeIsExact
  BY TypedParts DEF Stages, CloseInv, Opened, Opening, HistoryOK, Gauge, GaugeIsExact
<1>2. Typed /\ Stages /\ Gauge /\ [Next]_vars => Typed' /\ Stages' /\ Gauge'
  BY NextTyped, NextStages, NextGauge
<1>3. Init => Typed /\ Stages /\ Gauge
  BY InitTyped, InitStages, InitGauge
<1> QED BY <1>1, <1>2, <1>3, PTL DEF Spec

-----------------------------------------------------------------------------
(* Why a channel ends the session *)

\* The errors a chunk can end a session with, and what is then true of its channel.
ChunkErrors == {"unknown channel", "channel write"}
Met(s, err, ch) ==
    /\ relay[ch] # "none"
    /\ s = "server" /\ err = "unknown channel" => relay[ch] = "done" \/ ch \in closeSeen
    /\ s = "server" /\ err = "channel write" => tgtConn[ch] \in {"eof", "closed"}
    /\ s = "client" => appConn[ch] # "open"
ErrorInv(s) ==
    /\ cause[s] # "none" => reader[s].pc = "done"
    /\ cause[s] \in ChunkErrors => reader[s].ch \in Ch /\ Met(s, cause[s], reader[s].ch)
Errors == \A s \in Side : ErrorInv(s)

\* How a step can change the reader of s and its error.
EndMoves(s) ==
    \/ reader'[s] = reader[s] /\ cause'[s] = cause[s]
    \/ reader[s].pc # "done" /\ cause'[s] = cause[s]
    \/ /\ reader'[s].pc = "done"
       /\ cause'[s] \in ChunkErrors => reader'[s].ch \in Ch /\ Met(s, cause'[s], reader'[s].ch)

LEMMA StepErrors ==
    ASSUME Typed, Stages, Connections, Step, NEW s \in Side
    PROVE  EndMoves(s)
<1>1. /\ QueuesOK(Ctl, Dat) /\ EndsOK /\ ServerOK /\ "client" \in Side /\ "server" \in Side
      /\ DOMAIN cause = Side /\ DOMAIN reader = Side
      /\ reader["server"] \in Readers /\ reader["client"] \in Readers
  BY TypedParts DEF Side, EndsOK
<1>2. ASSUME UNCHANGED <<reader, cause>>
      PROVE  EndMoves(s)
  BY <1>2 DEF EndMoves
<1>3. ASSUME NEW t \in Side, NEW r, reader[t].pc # "done", reader' = [reader EXCEPT ![t] = r],
             UNCHANGED cause
      PROVE  EndMoves(s)
  BY <1>1, <1>3 DEF EndMoves
<1>4. ASSUME NEW t \in Side, reader[t].pc # "done", ReaderGoesOn(t)
      PROVE  EndMoves(s)
  BY <1>3, <1>4 DEF ReaderGoesOn
<1>5. ASSUME NEW t \in Side, NEW err, err \notin ChunkErrors, ReaderFails(t, err)
      PROVE  EndMoves(s)
  <2>1. /\ reader'[t].pc = "done" /\ cause'[t] = err
        /\ t # s => reader'[s] = reader[s] /\ cause'[s] = cause[s]
    BY <1>1, <1>5 DEF ReaderFails, ReaderFailsOn, At
  <2> QED BY <1>5, <2>1 DEF EndMoves
<1>6. ASSUME NEW t \in Side, NEW err, NEW ch \in Ch, NEW n, ReaderFailsOn(t, err, ch, n),
             Met(t, err, ch)
      PROVE  EndMoves(s)
  <2>1. /\ reader'[t].pc = "done" /\ reader'[t].ch = ch /\ cause'[t] = err
        /\ t # s => reader'[s] = reader[s] /\ cause'[s] = cause[s]
    BY <1>1, <1>6 DEF ReaderFailsOn, At
  <2> QED BY <1>6, <2>1 DEF EndMoves, Met
<1>7. CASE ServerReads
  <2>1. CASE ServerData
    <3>1. PICK c \in Ch : c = Received("server").ch /\ Up(c)
      <4>1. PICK c \in Ch : c = Received("server").ch
        BY <1>1, <2>1, ServerReadsOne, FrameIs
      <4>2. Received("server") \in Data(c) /\ Received("server") \in Flying("client")
        BY <1>1, <2>1, <4>1, ServerReadsOne, FrameIs
      <4> QED BY <4>1, <4>2 DEF Up
    <3>2. CASE /\ c \notin conns
               /\ ReaderFailsOn("server", "unknown channel", c, Received("server").n)
      <4>1. relay[c] # "none"
        BY <3>1 DEF Stages, CloseInv
      <4>2. Met("server", "unknown channel", c)
        BY <3>2, <4>1 DEF Connections, RelayInv, Met
      <4> QED BY <1>1, <1>6, <3>2, <4>2
    <3>3. reader["server"].pc # "done"
      BY <2>1 DEF ServerData, Receive
    <3> QED BY <1>1, <1>3, <2>1, <3>1, <3>2, <3>3 DEF ServerData
  <2>2. CASE ServerWrites
    <3>1. PICK c \in Ch : c = reader["server"].ch /\ Holds("server", c)
      BY <1>1, <2>2, ReaderIs DEF ServerWrites, Holds
    <3>2. CASE /\ tgtConn[c] # "open"
               /\ ReaderFailsOn("server", "channel write", c, reader["server"].n)
      <4>1. relay[c] # "none"
        BY <3>1 DEF Stages, CloseInv
      <4>2. Met("server", "channel write", c)
        BY <1>1, <3>2, <4>1 DEF Connections, RelayInv, ServerOK, Met
      <4> QED BY <1>1, <1>6, <3>2, <4>2
    <3>3. reader["server"].pc # "done"
      BY <2>2 DEF ServerWrites
    <3> QED BY <1>1, <1>4, <2>2, <3>1, <3>2, <3>3 DEF ServerWrites
  <2>3. CASE ServerRefuses \/ ServerAuth \/ ServerDialFails \/ ServerOpened
    <3>1. reader["server"].pc # "done"
      BY <2>3 DEF ServerRefuses, ServerAuth, ServerDialFails, ServerOpened, Receive
    <3> QED BY <1>1, <1>4, <1>5, <2>3, <3>1
            DEF ServerRefuses, ServerAuth, ServerDialFails, ServerOpened, Answer, ChunkErrors
  <2>4. CASE ServerOpen \/ ServerDials
    BY <1>1, <1>3, <2>4 DEF ServerOpen, ServerDials, Receive
  <2>5. CASE ServerClose
    BY <1>2, <2>5 DEF ServerClose, endVars
  <2> QED BY <1>7, <2>1, <2>2, <2>3, <2>4, <2>5 DEF ServerReads
<1>8. CASE ClientReads
  <2>1. CASE ClientWrites
    <3>1. PICK c \in Ch : c = reader["client"].ch /\ Holds("client", c)
      BY <1>1, <2>1, ReaderIs DEF ClientWrites, Holds
    <3>2. CASE /\ appConn[c] # "open"
               /\ ReaderFailsOn("client", "channel write", c, reader["client"].n)
      <4>1. Met("client", "channel write", c)
        BY <3>1, <3>2 DEF Stages, CloseInv, Met
      <4> QED BY <1>1, <1>6, <3>2, <4>1
    <3>3. reader["client"].pc # "done"
      BY <2>1 DEF ClientWrites
    <3> QED BY <1>1, <1>4, <2>1, <3>1, <3>2, <3>3 DEF ClientWrites
  <2>2. CASE ClientAuthErr
    BY <1>1, <1>5, <2>2 DEF ClientAuthErr, ChunkErrors
  <2>3. CASE ClientData
    BY <1>1, <1>2, <1>3, <2>3 DEF ClientData, Receive
  <2>4. CASE ClientOpenOK \/ ClientOpenErr \/ ClientClose \/ ClientAuthOK
    BY <1>2, <2>4 DEF ClientOpenOK, ClientOpenErr, SignalOpen, ClientClose, ClientAuthOK, endVars
  <2> QED BY <1>8, <2>1, <2>2, <2>3, <2>4 DEF ClientReads
<1>9. CASE Link
  <2>1. CASE ClientSeesEnd \/ LinkBreaks
    BY <1>1, <1>5, <2>1 DEF ClientSeesEnd, LinkBreaks, ChunkErrors
  <2> QED BY <1>2, <1>9, <2>1 DEF Link, LinkStep, ClientWriteFails, RunCloses, Writes,
         WriteControl, WriteData, endVars
<1>10. ASSUME NEW c \in Ch, RelayRuns(c) \/ TargetCloses(c)
       PROVE  EndMoves(s)
  BY <1>2, <1>10 DEF RelayRuns, RelayCopies, RelayEnds, RelayCloses, TargetCloses, linkVars, endVars
<1>11. ASSUME NEW c \in Ch,
              HandlerRuns(c) \/ HandlerGivesUp(c) \/ HandlerTimesOut(c) \/ AppCloses(c)
       PROVE  EndMoves(s)
  BY <1>2, <1>11 DEF HandlerRuns, HandlerGivesUp, HandlerTimesOut, AppCloses, HandlerOpens,
       HandlerAnswered, HandlerRefuses, HandlerReplies, HandlerCopies, HandlerEnds, HandlerCloses,
       linkVars, endVars
<1> QED BY <1>7, <1>8, <1>9, <1>10, <1>11 DEF Step

LEMMA InitErrors == Init => Errors
BY DEF Init, LinkInit, Errors, ErrorInv, ChunkErrors, Side

LEMMA NextErrors ==
    Typed /\ Stages /\ Connections /\ Errors /\ [Next]_vars => Errors'
<1> SUFFICES ASSUME Typed, Stages, Connections, Errors, [Next]_vars, NEW s \in Side
             PROVE  ErrorInv(s)'
  BY DEF Errors
<1>1. ErrorInv(s)
  BY DEF Errors
<1>2. CASE Next
  <2>1. ASSUME NEW err, NEW ch \in Ch, Met(s, err, ch)
        PROVE  Met(s, err, ch)'
    <3>1. /\ relay[ch] # "none" => relay'[ch] # "none"
          /\ ch \in closeSeen => ch \in closeSeen'
          /\ Persists(ch)
      BY <1>2, NextStages, NextConnections DEF Moves, ServerMoves
    <3> QED BY <2>1, <3>1 DEF Met, Persists
  <2>2. CASE reader'[s] = reader[s] /\ cause'[s] = cause[s]
    <3>1. CASE cause[s] \in ChunkErrors
      <4>1. PICK ch \in Ch, err \in ChunkErrors : ch = reader[s].ch /\ err = cause[s] /\ Met(s, err, ch)
        BY <1>1, <3>1 DEF ErrorInv
      <4>2. Met(s, err, ch)'
        BY <2>1, <4>1
      <4> QED BY <1>1, <2>2, <4>1, <4>2 DEF ErrorInv, Met
    <3> QED BY <1>1, <2>2, <3>1 DEF ErrorInv
  <2>3. CASE reader[s].pc # "done" /\ cause'[s] = cause[s]
    BY <1>1, <2>3 DEF ErrorInv, ChunkErrors
  <2>4. CASE /\ reader'[s].pc = "done"
             /\ cause'[s] \in ChunkErrors =>
                  reader'[s].ch \in Ch /\ Met(s, cause'[s], reader'[s].ch)
    <3>1. CASE cause'[s] \in ChunkErrors
      <4>1. PICK ch \in Ch, err \in ChunkErrors : ch = reader'[s].ch /\ err = cause'[s] /\ Met(s, err, ch)
        BY <2>4, <3>1 DEF Met
      <4>2. Met(s, err, ch)'
        BY <2>1, <4>1
      <4> QED BY <2>4, <4>1, <4>2 DEF ErrorInv, Met
    <3> QED BY <2>4, <3>1 DEF ErrorInv
  <2>5. EndMoves(s)
    BY <1>2, StepErrors DEF Next
  <2> QED BY <2>2, <2>3, <2>4, <2>5 DEF EndMoves
<1>3. CASE UNCHANGED vars
  BY <1>1, <1>3 DEF vars, linkVars, endVars, clientVars, serverVars, historyVars, ErrorInv, Met
<1> QED BY <1>2, <1>3

\* A chunk that ends a session has met a close of the channel it was for: it was
\* opened, and its connections are not both open any more, whatever the other
\* channels do (main.go:131-134, tcp.go:58-67, server.go:106-107).
THEOREM ChannelErrorsMeetCloses == Spec => []ChannelErrorsAreRaces
<1>1. Errors => ChannelErrorsAreRaces
  BY DEF Errors, ErrorInv, ChunkErrors, Met, ChannelErrorsAreRaces, Side
<1>2. /\ Typed /\ Stages /\ Connections /\ Errors /\ [Next]_vars
      => Typed' /\ Stages' /\ Connections' /\ Errors'
  BY NextTyped, NextStages, NextConnections, NextErrors
<1>3. Init => Typed /\ Stages /\ Connections /\ Errors
  BY InitTyped, InitStages, InitConnections, InitErrors
<1> QED BY <1>1, <1>2, <1>3, PTL DEF Spec

-----------------------------------------------------------------------------
(* The streams *)

\* What is known of a stream: the number of chunks sent, those a full queue has
\* refused, those in flight, the one its receiver's reader holds, those received,
\* and whether the end that receives them is open.  Chunks are received, held and
\* in flight in the order in which they were sent, and as long as the end is open
\* none of them is missing.
Complete(lost, got) ==
    \A i \in 1 .. Len(got) : got[i] # 0 =>
      /\ \A j \in 1 .. i - 1 : got[j] < got[i]
      /\ \A n \in 1 .. got[i] - 1 : n \in lost \/ \E j \in 1 .. i - 1 : got[j] = n
Stream(sent, lost, flying, held, got, open) ==
    /\ flying \subseteq 1 .. sent /\ held \subseteq 1 .. sent
    /\ \A h \in held, f \in flying : h < f
    /\ \A i \in 1 .. Len(got) : got[i] <= sent /\ \A m \in held \union flying : got[i] < m
    /\ open => \A n \in 1 .. sent :
         n \in lost \union held \union flying \/ \E i \in 1 .. Len(got) : got[i] = n
    /\ Complete(lost, got)

\* The stream of ch that s sends.
Sent(s, ch) == IF s = "client" THEN appSent[ch] ELSE tgtSent[ch]
Lost(s, ch) == {n \in Nat : <<ch, n>> \in dropped[s]}
Chunks(s, ch) == {n \in Nat : Frame("TCPDATA", ch, n) \in Flying(s)}
Held(s, ch) == IF Holds(Peer(s), ch) THEN {reader[Peer(s)].n} ELSE {}
Got(s, ch) == IF s = "client" THEN tgtIn[ch] ELSE appIn[ch]
EndOpen(s, ch) == IF s = "client" THEN tgtConn[ch] = "open" ELSE appConn[ch] = "open"
StreamInv(s, ch) ==
    /\ InOrder(s, Data(ch))
    /\ Stream(Sent(s, ch), Lost(s, ch), Chunks(s, ch), Held(s, ch), Got(s, ch), EndOpen(s, ch))

\* What a step can do to it.
StreamRests(s, ch) ==
    UNCHANGED <<Sent(s, ch), Lost(s, ch), Chunks(s, ch), Held(s, ch), Got(s, ch)>>
StreamCopies(s, ch) ==
    /\ Sent(s, ch)' = Sent(s, ch) + 1
    /\ \/ Chunks(s, ch)' = Chunks(s, ch) \union {Sent(s, ch) + 1} /\ Lost(s, ch)' = Lost(s, ch)
       \/ Chunks(s, ch)' = Chunks(s, ch) /\ Lost(s, ch)' = Lost(s, ch) \union {Sent(s, ch) + 1}
    /\ UNCHANGED <<Held(s, ch), Got(s, ch), EndOpen(s, ch)>>
StreamTakes(s, ch) ==
    /\ \E m \in Chunks(s, ch) :
         /\ Chunks(s, ch) = Chunks(s, ch)' \union {m}
         /\ \A f \in Chunks(s, ch)' : m < f
         /\ Held(s, ch)' = {m} \/ (Held(s, ch)' = {} /\ ~EndOpen(s, ch))
    /\ Held(s, ch) = {}
    /\ UNCHANGED <<Sent(s, ch), Lost(s, ch), Got(s, ch)>>
StreamDelivers(s, ch) ==
    /\ \/ /\ EndOpen(s, ch)
          /\ \E m \in Nat \ {0} : Held(s, ch) = {m} /\ Got(s, ch)' = Append(Got(s, ch), m)
       \/ ~EndOpen(s, ch) /\ Got(s, ch)' = Got(s, ch)
    /\ Held(s, ch)' = {}
    /\ UNCHANGED <<Sent(s, ch), Lost(s, ch), Chunks(s, ch)>>
StreamReplies(s, ch) ==
    /\ Got(s, ch)' = Append(Got(s, ch), 0)
    /\ UNCHANGED <<Sent(s, ch), Lost(s, ch), Chunks(s, ch), Held(s, ch)>>
StreamMoves(s, ch) ==
    \/ StreamRests(s, ch) \/ StreamCopies(s, ch) \/ StreamTakes(s, ch)
    \/ StreamDelivers(s, ch) \/ StreamReplies(s, ch)

\* The stream goes on when it is complete up to what is received next.
LEMMA CompleteNext ==
    ASSUME NEW lost, NEW got \in Seq(Nat), NEW n \in Nat, Complete(lost, got),
           n # 0 => /\ \A i \in 1 .. Len(got) : got[i] < n
                    /\ \A m \in 1 .. n - 1 : m \in lost \/ \E i \in 1 .. Len(got) : got[i] = m
    PROVE  Complete(lost, Append(got, n))
<1> DEFINE r == Append(got, n)
<1>1. /\ Len(r) = Len(got) + 1 /\ Len(got) \in Nat /\ r[Len(got) + 1] = n
      /\ \A i \in 1 .. Len(got) : r[i] = got[i]
  BY Appended
<1> HIDE DEF r
<1>2. ASSUME NEW i \in 1 .. Len(got), r[i] # 0
      PROVE  /\ \A j \in 1 .. i - 1 : r[j] < r[i]
             /\ \A m \in 1 .. r[i] - 1 : m \in lost \/ \E j \in 1 .. i - 1 : r[j] = m
  <2>1. r[i] = got[i] /\ \A j \in 1 .. i - 1 : j \in 1 .. Len(got) /\ r[j] = got[j]
    BY <1>1
  <2>2. /\ \A j \in 1 .. i - 1 : got[j] < got[i]
        /\ \A m \in 1 .. got[i] - 1 : m \in lost \/ \E j \in 1 .. i - 1 : got[j] = m
    BY <1>2, <2>1 DEF Complete
  <2> QED BY <2>1, <2>2
<1>3. ASSUME n # 0
      PROVE  /\ \A j \in 1 .. Len(got) : r[j] < n
             /\ \A m \in 1 .. n - 1 : m \in lost \/ \E j \in 1 .. Len(got) : r[j] = m
  BY <1>1, <1>3
<1>4. ASSUME NEW i \in 1 .. Len(r), r[i] # 0
      PROVE  /\ \A j \in 1 .. i - 1 : r[j] < r[i]
             /\ \A m \in 1 .. r[i] - 1 : m \in lost \/ \E j \in 1 .. i - 1 : r[j] = m
  <2>1. CASE i \in 1 .. Len(got)
    BY <1>2, <1>4, <2>1
  <2>2. CASE i = Len(got) + 1
    <3>1. r[i] = n /\ i - 1 = Len(got)
      BY <1>1, <2>2
    <3> QED BY <1>3, <1>4, <3>1
  <2> QED BY <1>1, <2>1, <2>2
<1> QED BY <1>4 DEF Complete, r

\* A stream stays one as long as no open end misses a chunk.
LEMMA StreamShrinks ==
    ASSUME NEW sent \in Nat, NEW lost, NEW flying, NEW held, NEW got \in Seq(Nat), NEW open,
           Stream(sent, lost, flying, held, got, open),
           NEW flying2, flying2 \subseteq flying, NEW held2, held2 \subseteq held,
           NEW open2, open2 => sent = 0 \/ (open /\ held2 = held /\ flying2 = flying)
    PROVE  Stream(sent, lost, flying2, held2, got, open2)
<1>1. open2 => \A n \in 1 .. sent :
        n \in lost \union held2 \union flying2 \/ \E i \in 1 .. Len(got) : got[i] = n
  BY DEF Stream
<1> QED BY <1>1 DEF Stream

LEMMA StreamGrows ==
    ASSUME NEW sent \in Nat, NEW lost, NEW flying, NEW held, NEW got \in Seq(Nat), NEW open,
           Stream(sent, lost, flying, held, got, open)
    PROVE  /\ Stream(sent + 1, lost, flying \union {sent + 1}, held, got, open)
           /\ Stream(sent + 1, lost \union {sent + 1}, flying, held, got, open)
<1>1. /\ flying \subseteq 1 .. sent /\ held \subseteq 1 .. sent
      /\ \A h \in held, f \in flying : h < f
      /\ \A i \in 1 .. Len(got) : got[i] \in Nat /\ got[i] <= sent /\ \A m \in held \union flying : got[i] < m
      /\ Complete(lost, got)
  BY DEF Stream
<1>2. /\ flying \union {sent + 1} \subseteq 1 .. sent + 1 /\ held \subseteq 1 .. sent + 1
      /\ flying \subseteq 1 .. sent + 1
  BY <1>1
<1>3. \A h \in held, f \in flying \union {sent + 1} : h < f
  BY <1>1
<1>4. \A i \in 1 .. Len(got) :
        got[i] <= sent + 1 /\ \A m \in held \union flying \union {sent + 1} : got[i] < m
  BY <1>1
<1>5. ASSUME open, NEW n \in 1 .. sent + 1
      PROVE  \/ n = sent + 1
             \/ n \in lost \union held \union flying \/ \E i \in 1 .. Len(got) : got[i] = n
  BY <1>5 DEF Stream
<1>6. Complete(lost \union {sent + 1}, got)
  BY <1>1 DEF Complete
<1>7. Stream(sent + 1, lost, flying \union {sent + 1}, held, got, open)
  BY <1>1, <1>2, <1>3, <1>4, <1>5 DEF Stream
<1>8. Stream(sent + 1, lost \union {sent + 1}, flying, held, got, open)
  BY <1>1, <1>2, <1>4, <1>5, <1>6 DEF Stream
<1> QED BY <1>7, <1>8

LEMMA StreamHolds ==
    ASSUME NEW sent \in Nat, NEW lost, NEW flying, NEW got \in Seq(Nat), NEW open,
           Stream(sent, lost, flying, {}, got, open),
           NEW m, NEW flying2, flying = flying2 \union {m}, \A f \in flying2 : m < f
    PROVE  Stream(sent, lost, flying2, {m}, got, open)
BY DEF Stream

LEMMA StreamGrants ==
    ASSUME NEW sent \in Nat, NEW lost, NEW flying, NEW m \in Nat \ {0}, NEW got \in Seq(Nat),
           Stream(sent, lost, flying, {m}, got, TRUE), NEW open
    PROVE  Stream(sent, lost, flying, {}, Append(got, m), open)
<1> DEFINE r == Append(got, m)
<1>1. /\ Len(r) = Len(got) + 1 /\ Len(got) \in Nat /\ r[Len(got) + 1] = m
      /\ \A i \in 1 .. Len(got) : r[i] = got[i]
  BY Appended
<1>2. /\ flying \subseteq 1 .. sent /\ m \in 1 .. sent
      /\ \A f \in flying : m < f
      /\ \A i \in 1 .. Len(got) : got[i] <= sent /\ got[i] < m /\ \A f \in flying : got[i] < f
      /\ \A n \in 1 .. sent : n \in lost \union flying \/ n = m \/ \E i \in 1 .. Len(got) : got[i] = n
      /\ Complete(lost, got)
  BY DEF Stream
<1>3. Complete(lost, r)
  <2>1. \A n \in 1 .. m - 1 : n \in lost \/ \E i \in 1 .. Len(got) : got[i] = n
    BY <1>2
  <2> QED BY <1>2, <2>1, CompleteNext
<1> HIDE DEF r
<1>4. \A i \in 1 .. Len(r) : r[i] <= sent /\ \A f \in flying : r[i] < f
  <2> SUFFICES ASSUME NEW i \in 1 .. Len(r)
               PROVE  r[i] <= sent /\ \A f \in flying : r[i] < f
    OBVIOUS
  <2>1. CASE i \in 1 .. Len(got)
    <3>1. r[i] = got[i]
      BY <1>1, <2>1
    <3> QED BY <1>2, <2>1, <3>1
  <2>2. CASE i = Len(got) + 1
    <3>1. r[i] = m
      BY <1>1, <2>2
    <3> QED BY <1>2, <3>1
  <2> QED BY <1>1, <2>1, <2>2
<1>5. \A n \in 1 .. sent : n \in lost \union flying \/ \E i \in 1 .. Len(r) : r[i] = n
  <2> SUFFICES ASSUME NEW n \in 1 .. sent, n \notin lost \union flying
               PROVE  \E i \in 1 .. Len(r) : r[i] = n
    OBVIOUS
  <2>1. CASE n = m
    BY <1>1, <2>1
  <2>2. CASE n # m
    <3>1. PICK i \in 1 .. Len(got) : got[i] = n
      BY <1>2, <2>2
    <3> QED BY <1>1, <3>1
  <2> QED BY <2>1, <2>2
<1>6. Stream(sent, lost, flying, {}, r, open)
  BY <1>2, <1>3, <1>4, <1>5 DEF Stream
<1> QED BY <1>6 DEF r

LEMMA StreamHears ==
    ASSUME NEW sent \in Nat, NEW lost, NEW flying, NEW held, NEW got \in Seq(Nat), NEW open,
           Stream(sent, lost, flying, held, got, open)
    PROVE  Stream(sent, lost, flying, held, Append(got, 0), open)
<1> DEFINE r == Append(got, 0)
<1>1. /\ Len(r) = Len(got) + 1 /\ Len(got) \in Nat /\ r[Len(got) + 1] = 0
      /\ \A i \in 1 .. Len(got) : r[i] = got[i] /\ i \in 1 .. Len(r)
  BY Appended
<1>2. Complete(lost, r)
  BY CompleteNext DEF Stream
<1> HIDE DEF r
<1>3. \A i \in 1 .. Len(r) : r[i] <= sent /\ \A m \in held \union flying : r[i] < m
  BY <1>1 DEF Stream
<1>4. open => \A n \in 1 .. sent :
        n \in lost \union held \union flying \/ \E i \in 1 .. Len(r) : r[i] = n
  BY <1>1 DEF Stream
<1>5. Stream(sent, lost, flying, held, r, open)
  BY <1>2, <1>3, <1>4 DEF Stream
<1> QED BY <1>5 DEF r

\* An end may open as long as nothing has been sent to it.
LEMMA StreamMoved ==
    ASSUME Typed, NEW s \in Side, NEW ch \in Ch, StreamInv(s, ch), StreamMoves(s, ch),
           EndOpen(s, ch)' => EndOpen(s, ch) \/ Sent(s, ch) = 0
    PROVE  Stream(Sent(s, ch), Lost(s, ch), Chunks(s, ch), Held(s, ch), Got(s, ch), EndOpen(s, ch))'
<1>1. /\ Sent(s, ch) \in Nat /\ Got(s, ch) \in Seq(Nat)
      /\ Stream(Sent(s, ch), Lost(s, ch), Chunks(s, ch), Held(s, ch), Got(s, ch), EndOpen(s, ch))
  BY TypedParts DEF HistoryOK, Sent, Got, StreamInv
<1>2. EndOpen(s, ch) \in BOOLEAN /\ EndOpen(s, ch)' \in BOOLEAN
  BY DEF EndOpen
<1> SUFFICES Stream(Sent(s, ch)', Lost(s, ch)', Chunks(s, ch)', Held(s, ch)', Got(s, ch)', EndOpen(s, ch)')
  BY DEF Stream, Complete
<1>3. CASE StreamRests(s, ch)
  BY <1>1, <1>3, StreamShrinks DEF StreamRests
<1>4. CASE StreamCopies(s, ch)
  <2>1. /\ Sent(s, ch)' = Sent(s, ch) + 1
        /\ \/ Chunks(s, ch)' = Chunks(s, ch) \union {Sent(s, ch) + 1} /\ Lost(s, ch)' = Lost(s, ch)
           \/ Chunks(s, ch)' = Chunks(s, ch) /\ Lost(s, ch)' = Lost(s, ch) \union {Sent(s, ch) + 1}
    BY <1>4 DEF StreamCopies
  <2>2. /\ Stream(Sent(s, ch) + 1, Lost(s, ch), Chunks(s, ch) \union {Sent(s, ch) + 1},
                  Held(s, ch), Got(s, ch), EndOpen(s, ch))
        /\ Stream(Sent(s, ch) + 1, Lost(s, ch) \union {Sent(s, ch) + 1}, Chunks(s, ch),
                  Held(s, ch), Got(s, ch), EndOpen(s, ch))
    BY <1>1, StreamGrows
  <2>3. Stream(Sent(s, ch)', Lost(s, ch)', Chunks(s, ch)', Held(s, ch), Got(s, ch), EndOpen(s, ch))
    BY <2>1, <2>2, Zenon
  <2>4. UNCHANGED <<Held(s, ch), Got(s, ch), EndOpen(s, ch)>>
    BY <1>4 DEF StreamCopies
  <2> QED BY <2>3, <2>4
<1>5. CASE StreamTakes(s, ch)
  <2>1. PICK m \in Chunks(s, ch) :
          /\ Chunks(s, ch) = Chunks(s, ch)' \union {m}
          /\ \A f \in Chunks(s, ch)' : m < f
          /\ Held(s, ch)' = {m} \/ (Held(s, ch)' = {} /\ ~EndOpen(s, ch))
    BY <1>5 DEF StreamTakes
  <2>2. Stream(Sent(s, ch), Lost(s, ch), Chunks(s, ch)', {m}, Got(s, ch), EndOpen(s, ch))
    BY <1>1, <1>5, <2>1, StreamHolds DEF StreamTakes
  <2>3. UNCHANGED <<Sent(s, ch), Lost(s, ch), Got(s, ch)>> /\ Sent(s, ch) # 0
    BY <1>1, <1>5, <2>1 DEF StreamTakes, Stream
  <2>4. Held(s, ch)' \subseteq {m} /\ (EndOpen(s, ch)' => EndOpen(s, ch) /\ Held(s, ch)' = {m})
    BY <2>1, <2>3
  <2>5. Stream(Sent(s, ch), Lost(s, ch), Chunks(s, ch)', Held(s, ch)', Got(s, ch), EndOpen(s, ch)')
    BY <1>1, <1>2, <2>2, <2>4, StreamShrinks
  <2> QED BY <2>3, <2>5
<1>6. CASE StreamDelivers(s, ch)
  <2>1. CASE EndOpen(s, ch)
    <3>1. PICK m \in Nat \ {0} : Held(s, ch) = {m} /\ Got(s, ch)' = Append(Got(s, ch), m)
      BY <1>6, <2>1 DEF StreamDelivers
    <3>2. Stream(Sent(s, ch), Lost(s, ch), Chunks(s, ch), {m}, Got(s, ch), TRUE)
      BY <1>1, <2>1, <3>1 DEF Stream
    <3>3. Stream(Sent(s, ch), Lost(s, ch), Chunks(s, ch), {}, Append(Got(s, ch), m), EndOpen(s, ch)')
      BY <1>1, <3>2, StreamGrants
    <3>4. UNCHANGED <<Sent(s, ch), Lost(s, ch), Chunks(s, ch)>> /\ Held(s, ch)' = {}
      BY <1>6 DEF StreamDelivers
    <3>5. Stream(Sent(s, ch)', Lost(s, ch)', Chunks(s, ch)', Held(s, ch)', Got(s, ch)', EndOpen(s, ch)')
      BY <3>1, <3>3, <3>4, Zenon
    <3> QED BY <3>5
  <2>2. CASE ~EndOpen(s, ch)
    BY <1>1, <1>6, <2>2, StreamShrinks DEF StreamDelivers
  <2> QED BY <2>1, <2>2
<1>7. CASE StreamReplies(s, ch)
  <2>1. /\ Got(s, ch)' = Append(Got(s, ch), 0)
        /\ UNCHANGED <<Sent(s, ch), Lost(s, ch), Chunks(s, ch), Held(s, ch)>>
    BY <1>7 DEF StreamReplies
  <2>2. Append(Got(s, ch), 0) \in Seq(Nat)
    BY <1>1, Appended
  <2>3. Stream(Sent(s, ch), Lost(s, ch), Chunks(s, ch), Held(s, ch), Append(Got(s, ch), 0), EndOpen(s, ch))
    BY <1>1, StreamHears
  <2>4. Stream(Sent(s, ch), Lost(s, ch), Chunks(s, ch), Held(s, ch), Append(Got(s, ch), 0), EndOpen(s, ch)')
    BY <1>1, <1>2, <2>1, <2>2, <2>3, StreamShrinks
  <2> QED BY <2>1, <2>4
<1> QED BY <1>3, <1>4, <1>5, <1>6, <1>7 DEF StreamMoves

\* What a flow of frames is to the chunks of a channel.
LEMMA ChunksKept ==
    ASSUME NEW s \in Side, NEW ch \in Ch, InOrder(s, Data(ch)), Keeps(s, Ctl, Dat)
    PROVE  InOrder(s, Data(ch))' /\ Chunks(s, ch)' = Chunks(s, ch)
BY Kinds DEF Keeps, Chunks

LEMMA ChunkIsFrame ==
    ASSUME NEW s \in Side, NEW ch \in Ch, NEW f \in Ctl \union Dat
    PROVE  /\ f \in Data(ch) => f = Frame("TCPDATA", ch, f.n) /\ f.n \in Nat \ {0}
           /\ \A n \in Nat : f = Frame("TCPDATA", ch, n) => f \in Data(ch) /\ f.n = n
           /\ \A n \in Nat \ {0} : Frame("TCPDATA", ch, n) \in Data(ch)
BY FrameIs, FrameFields DEF Data, Dat, Ctl, Frame

LEMMA FlyingTyped ==
    ASSUME QueuesOK(Ctl, Dat), NEW s \in Side
    PROVE  Flying(s) \subseteq Ctl \union Dat
<1>1. control[s] \in Seq(Ctl) /\ data[s] \in Seq(Dat) /\ wire[s] \in Seq(Ctl \union Dat)
  BY DEF QueuesOK
<1> QED BY <1>1, ElemsTyped DEF Flying

LEMMA ChunksLost ==
    ASSUME NEW s \in Side, NEW ch \in Ch, InOrder(s, Data(ch)), QueuesOK(Ctl, Dat)',
           NEW f \in Ctl \union Dat, Loses(s, f, Ctl, Dat)
    PROVE  /\ InOrder(s, Data(ch))'
           /\ f \notin Data(ch) => Chunks(s, ch)' = Chunks(s, ch)
           /\ f \in Data(ch) =>
                /\ f.n \in Chunks(s, ch) /\ Chunks(s, ch) = Chunks(s, ch)' \union {f.n}
                /\ \A n \in Chunks(s, ch)' : f.n < n
<1>1. /\ Flying(s) = Flying(s)' \union {f} /\ InOrder(s, Data(ch))'
      /\ f \in Data(ch) => \A g \in Flying(s)' \intersect Data(ch) : f.n < g.n
  BY Kinds DEF Loses
<1>2. Flying(s)' \subseteq Ctl \union Dat
  <2>1. (Flying(s) \subseteq Ctl \union Dat)'
    BY FlyingTyped, PTL
  <2> QED BY <2>1
<1>3. ASSUME f \in Data(ch)
      PROVE  /\ f.n \in Chunks(s, ch) /\ Chunks(s, ch) = Chunks(s, ch)' \union {f.n}
             /\ \A n \in Chunks(s, ch)' : f.n < n
  <2>1. f = Frame("TCPDATA", ch, f.n) /\ f.n \in Nat \ {0}
    BY <1>3, ChunkIsFrame
  <2>2. f.n \in Chunks(s, ch) /\ Chunks(s, ch) = Chunks(s, ch)' \union {f.n}
    BY <1>1, <2>1, ChunkIsFrame DEF Chunks
  <2>3. ASSUME NEW n \in Chunks(s, ch)'
        PROVE  f.n < n
    <3>1. n \in Nat /\ Frame("TCPDATA", ch, n) \in Flying(s)'
      BY DEF Chunks
    <3>2. Frame("TCPDATA", ch, n) \in Data(ch) /\ Frame("TCPDATA", ch, n).n = n
      BY <1>2, <3>1, ChunkIsFrame
    <3> QED BY <1>1, <1>3, <3>1, <3>2
  <2> QED BY <2>2, <2>3
<1>4. f \notin Data(ch) => Chunks(s, ch)' = Chunks(s, ch)
  BY <1>1, ChunkIsFrame DEF Chunks
<1> QED BY <1>1, <1>3, <1>4

LEMMA ChunksGained ==
    ASSUME NEW s \in Side, NEW ch \in Ch, InOrder(s, Data(ch)), QueuesOK(Ctl, Dat),
           NEW f \in Ctl \union Dat, Gains(s, f, Ctl, Dat)
    PROVE  /\ f \notin Data(ch) => InOrder(s, Data(ch))' /\ Chunks(s, ch)' = Chunks(s, ch)
           /\ f \in Data(ch) =>
                /\ Chunks(s, ch)' = Chunks(s, ch) \union {f.n}
                /\ (\A n \in Chunks(s, ch) : n < f.n) => InOrder(s, Data(ch))'
<1>1. Flying(s)' = Flying(s) \union {f}
  BY DEF Gains
<1>2. f \notin Data(ch) => InOrder(s, Data(ch))' /\ Chunks(s, ch)' = Chunks(s, ch)
  BY <1>1, Kinds, ChunkIsFrame DEF Gains, Chunks
<1>3. ASSUME f \in Data(ch)
      PROVE  Chunks(s, ch)' = Chunks(s, ch) \union {f.n}
  <2>1. f = Frame("TCPDATA", ch, f.n) /\ f.n \in Nat \ {0}
    BY <1>3, ChunkIsFrame
  <2> QED BY <1>1, <2>1, ChunkIsFrame DEF Chunks
<1>4. ASSUME f \in Data(ch), \A n \in Chunks(s, ch) : n < f.n
      PROVE  InOrder(s, Data(ch))'
  <2>1. ASSUME NEW g \in Flying(s) \intersect Data(ch)
        PROVE  g.n < f.n
    <3>1. g \in Ctl \union Dat
      BY FlyingTyped
    <3>2. g = Frame("TCPDATA", ch, g.n) /\ g.n \in Nat
      BY <3>1, ChunkIsFrame
    <3>3. g.n \in Chunks(s, ch)
      BY <3>2 DEF Chunks
    <3> QED BY <1>4, <3>3
  <2> QED BY <2>1, Kinds DEF Gains
<1> QED BY <1>2, <1>3, <1>4

\* A stream rests when the chunks in flight, the reader and the ends do.
LEMMA HeldRests ==
    ASSUME NEW s \in Side, NEW ch \in Ch,
           \/ UNCHANGED reader[Peer(s)]
           \/ reader[Peer(s)].pc # "write" /\ reader'[Peer(s)].pc # "write"
    PROVE  Held(s, ch)' = Held(s, ch)
BY DEF Held, Holds

LEMMA EndsRest ==
    ASSUME NEW s \in Side, NEW ch \in Ch,
           UNCHANGED <<appSent, tgtSent, dropped>>, UNCHANGED <<appIn, tgtIn>>
    PROVE  UNCHANGED <<Sent(s, ch), Lost(s, ch), Got(s, ch)>>
BY DEF Sent, Lost, Got

\* What the server's reader does to what the server sends.
LEMMA ServerReadsDown ==
    ASSUME Typed, NEW ch \in Ch, InOrder("server", Data(ch)), ServerReads
    PROVE  InOrder("server", Data(ch))' /\ StreamRests("server", ch)
<1>1. /\ QueuesOK(Ctl, Dat) /\ EndsOK /\ "server" \in Side /\ "client" \in Side
      /\ Peer("server") = "client"
  BY TypedParts DEF Side, Peer
<1>2. InOrder("server", Data(ch))' /\ Chunks("server", ch)' = Chunks("server", ch)
  <2>1. CASE Keeps("server", Ctl, Dat)
    BY <1>1, <2>1, ChunksKept
  <2>2. ASSUME NEW f \in Ctl, Gains("server", f, Ctl, Dat)
        PROVE  InOrder("server", Data(ch))' /\ Chunks("server", ch)' = Chunks("server", ch)
    <3>1. f \in Ctl \union Dat /\ f \notin Data(ch)
      BY Kinds DEF Data
    <3> QED BY <1>1, <2>2, <3>1, ChunksGained
  <2>3. CASE ServerRefuses \/ ServerOpen \/ ServerData \/ ServerClose
    BY <1>1, <2>1, <2>3, ServerReadsOne
  <2>4. CASE ServerAuth
    BY <1>1, <2>1, <2>2, <2>4, ServerAuthFlows, FrameTyped
  <2>5. CASE ServerDialFails \/ ServerOpened
    <3>1. reader["server"].ch \in Ch
      BY <1>1, <2>5, ReaderIs DEF EndsOK, ServerDialFails, ServerOpened
    <3> QED BY <1>1, <2>1, <2>2, <2>5, <3>1, ServerAnswers, FrameTyped
  <2>6. CASE ServerDials \/ ServerWrites
    BY <1>1, <2>1, <2>6, QuietIsQuiet, QuietFlows DEF Quiet
  <2> QED BY <2>3, <2>4, <2>5, <2>6 DEF ServerReads
<1>3. UNCHANGED <<appSent, tgtSent, dropped, appIn>> /\ reader'["client"] = reader["client"]
  BY <1>1 DEF ServerReads, ServerRefuses, ServerAuth, ServerOpen, ServerDialFails, ServerDials, ServerOpened,
     ServerData, ServerWrites, ServerClose, historyVars, endVars, Answer, ReaderFails, ReaderFailsOn, ReaderGoesOn, EndsOK
<1>4. UNCHANGED <<Sent("server", ch), Lost("server", ch), Got("server", ch)>>
  BY <1>3 DEF Sent, Lost, Got
<1> QED BY <1>1, <1>2, <1>3, <1>4, HeldRests DEF StreamRests

\* What the server's reader does to what the client sends.
LEMMA ServerReadsUp ==
    ASSUME Typed, Stages, Connections, AuthInv, NEW ch \in Ch, InOrder("client", Data(ch)), ServerReads
    PROVE  InOrder("client", Data(ch))' /\ StreamMoves("client", ch)
<1> DEFINE Goal == InOrder("client", Data(ch))' /\ StreamMoves("client", ch)
<1>1. /\ QueuesOK(Ctl, Dat) /\ QueuesOK(Ctl, Dat)' /\ EndsOK /\ ServerOK /\ HistoryOK
      /\ "server" \in Side /\ "client" \in Side /\ Peer("client") = "server"
      /\ reader["server"] \in Readers
  BY TypedParts, StepQueues DEF Side, Peer, Step, EndsOK
<1>2. ASSUME InOrder("client", Data(ch))', Chunks("client", ch)' = Chunks("client", ch),
             reader["server"].pc # "write", reader'["server"].pc # "write",
             UNCHANGED <<appSent, tgtSent, dropped>>, UNCHANGED <<appIn, tgtIn>>
      PROVE  Goal
  BY <1>1, <1>2, HeldRests, EndsRest DEF StreamMoves, StreamRests
<1>3. CASE ServerRefuses \/ ServerOpen \/ ServerClose
  <2>1. Received("server") \notin Data(ch)
    <3>1. CASE ServerRefuses
      <4>1. relay[ch] = "none"
        BY <3>1 DEF AuthInv, ServerRefuses
      <4>2. ~Up(ch)
        BY <4>1 DEF Stages, CloseInv
      <4> QED BY <1>1, <3>1, <4>2, ServerReadsOne DEF Up
    <3> QED BY <1>1, <1>3, <3>1, ServerReadsOne DEF Data, Dat
  <2>2. InOrder("client", Data(ch))' /\ Chunks("client", ch)' = Chunks("client", ch)
    BY <1>1, <1>3, <2>1, ServerReadsOne, ChunksLost
  <2>3. /\ reader["server"].pc # "write" /\ reader'["server"].pc # "write"
        /\ UNCHANGED <<appSent, tgtSent, dropped>> /\ UNCHANGED <<appIn, tgtIn>>
    <3>1. reader["server"].pc = "read"
      BY <1>3 DEF ServerRefuses, ServerOpen, ServerClose, Receive
    <3>2. reader'["server"].pc # "write"
      <4>1. CASE ServerRefuses
        BY <1>1, <4>1, ReaderLeaves DEF ServerRefuses
      <4>2. CASE ServerOpen
        BY <1>1, <4>2 DEF ServerOpen, At, EndsOK
      <4>3. CASE ServerClose
        BY <3>1, <4>3 DEF ServerClose, endVars
      <4> QED BY <1>3, <4>1, <4>2, <4>3
    <3>3. UNCHANGED <<appSent, tgtSent, dropped>> /\ UNCHANGED <<appIn, tgtIn>>
      BY <1>3 DEF ServerRefuses, ServerOpen, ServerClose, historyVars
    <3> QED BY <3>1, <3>2, <3>3
  <2> QED BY <1>2, <2>2, <2>3
<1>4. CASE ServerAuth
  <2>1. Received("server") \in Ctl \union Dat /\ Received("server") \notin Data(ch)
    BY <1>1, <1>4, ServerAuthFlows, FrameTyped, FrameFields DEF Data, Dat
  <2>2. InOrder("client", Data(ch))' /\ Chunks("client", ch)' = Chunks("client", ch)
    BY <1>1, <1>4, <2>1, ServerAuthFlows, ChunksLost
  <2>3. /\ reader["server"].pc # "write" /\ reader'["server"].pc # "write"
        /\ UNCHANGED <<appSent, tgtSent, dropped>> /\ UNCHANGED <<appIn, tgtIn>>
    BY <1>1, <1>4, ReaderLeaves DEF ServerAuth, Answer, Receive, historyVars
  <2> QED BY <1>2, <2>2, <2>3
<1>5. CASE ServerDialFails \/ ServerOpened
  <2>1. reader["server"].ch \in Ch
    BY <1>1, <1>5, ReaderIs DEF ServerDialFails, ServerOpened
  <2>2. InOrder("client", Data(ch))' /\ Chunks("client", ch)' = Chunks("client", ch)
    BY <1>1, <1>5, <2>1, ServerAnswers, ChunksKept
  <2>3. /\ reader["server"].pc # "write" /\ reader'["server"].pc # "write"
        /\ UNCHANGED <<appSent, tgtSent, dropped>> /\ UNCHANGED <<appIn, tgtIn>>
    BY <1>1, <1>5, ReaderLeaves DEF ServerDialFails, ServerOpened, Answer, historyVars
  <2> QED BY <1>2, <2>2, <2>3
<1>6. CASE ServerDials
  <2>1. InOrder("client", Data(ch))' /\ Chunks("client", ch)' = Chunks("client", ch)
    BY <1>1, <1>6, QuietIsQuiet, QuietFlows, ChunksKept DEF Quiet
  <2>2. /\ reader["server"].pc # "write" /\ reader'["server"].pc # "write"
        /\ UNCHANGED <<appSent, tgtSent, dropped>> /\ UNCHANGED <<appIn, tgtIn>>
    BY <1>1, <1>6 DEF ServerDials, At, EndsOK, historyVars
  <2> QED BY <1>2, <2>1, <2>2
<1>7. CASE ServerData
  <2> DEFINE f == Received("server")
  <2>1. /\ f \in Ctl \union Dat /\ f.ch \in Ch /\ f.n \in Nat \ {0} /\ f \in Data(f.ch)
        /\ f \in Flying("client") /\ Loses("client", f, Ctl, Dat)
    BY <1>1, <1>7, ServerReadsOne, FrameIs
  <2>2. /\ reader["server"].pc = "read"
        /\ UNCHANGED <<appSent, tgtSent, dropped>> /\ UNCHANGED <<appIn, tgtIn>>
        /\ \/ f.ch \in conns /\ reader'["server"] = At("write", f.ch, f.n)
           \/ f.ch \notin conns /\ reader'["server"] = At("done", f.ch, f.n)
    BY <1>1, <1>7 DEF ServerData, Receive, ReaderFailsOn, EndsOK, historyVars
  <2>3. relay[f.ch] # "none"
    BY <2>1 DEF Stages, CloseInv, Up
  <2>4. f.ch \notin conns => tgtConn[f.ch] = "closed"
    BY <2>1, <2>3 DEF Connections, RelayInv
  <2> HIDE DEF f
  <2>5. UNCHANGED <<Sent("client", ch), Lost("client", ch), Got("client", ch)>>
    BY <1>1, <2>2, EndsRest
  <2>6. Held("client", ch) = {}
    BY <1>1, <2>2 DEF Held, Holds
  <2>7. CASE f.ch = ch
    <3>1. /\ InOrder("client", Data(ch))'
          /\ f.n \in Chunks("client", ch) /\ Chunks("client", ch) = Chunks("client", ch)' \union {f.n}
          /\ \A n \in Chunks("client", ch)' : f.n < n
      BY <1>1, <2>1, <2>7, ChunksLost
    <3>2. Held("client", ch)' = {f.n} \/ (Held("client", ch)' = {} /\ ~EndOpen("client", ch))
      BY <1>1, <2>2, <2>4, <2>7 DEF Held, Holds, At, EndOpen
    <3> QED BY <2>5, <2>6, <3>1, <3>2 DEF StreamTakes, StreamMoves
  <2>8. CASE f.ch # ch
    <3>1. InOrder("client", Data(ch))' /\ Chunks("client", ch)' = Chunks("client", ch)
      BY <1>1, <2>1, <2>8, ChunksLost DEF Data
    <3>2. Held("client", ch)' = {}
      BY <1>1, <2>2, <2>8 DEF Held, Holds, At
    <3> QED BY <2>5, <2>6, <3>1, <3>2 DEF StreamRests, StreamMoves
  <2> QED BY <2>7, <2>8
<1>8. CASE ServerWrites
  <2>1. InOrder("client", Data(ch))' /\ Chunks("client", ch)' = Chunks("client", ch)
    BY <1>1, <1>8, QuietIsQuiet, QuietFlows, ChunksKept DEF Quiet
  <2>2. PICK c \in Ch, n \in Nat \ {0} : c = reader["server"].ch /\ n = reader["server"].n
    BY <1>1, <1>8, ReaderIs DEF ServerWrites
  <2>3. /\ reader["server"].pc = "write" /\ UNCHANGED <<appSent, tgtSent, dropped>>
        /\ \/ tgtConn[c] = "open" /\ tgtIn' = [tgtIn EXCEPT ![c] = Append(@, n)]
           \/ tgtConn[c] # "open" /\ UNCHANGED tgtIn
    BY <1>8, <2>2 DEF ServerWrites
  <2>4. reader'["server"].pc # "write"
    BY <1>1, <1>8, ReaderLeaves DEF ServerWrites
  <2>5. UNCHANGED <<Sent("client", ch), Lost("client", ch)>> /\ Held("client", ch)' = {}
    BY <1>1, <2>3, <2>4 DEF Sent, Lost, Held, Holds
  <2>6. CASE c = ch
    <3>1. Held("client", ch) = {n}
      BY <1>1, <2>2, <2>3, <2>6 DEF Held, Holds
    <3>2. \/ EndOpen("client", ch) /\ Got("client", ch)' = Append(Got("client", ch), n)
          \/ ~EndOpen("client", ch) /\ Got("client", ch)' = Got("client", ch)
      BY <1>1, <2>3, <2>6 DEF EndOpen, Got, HistoryOK
    <3> QED BY <2>1, <2>5, <3>1, <3>2 DEF StreamDelivers, StreamMoves
  <2>7. CASE c # ch
    <3>1. Held("client", ch) = {}
      BY <1>1, <2>2, <2>7 DEF Held, Holds
    <3>2. Got("client", ch)' = Got("client", ch)
      BY <1>1, <2>3, <2>7 DEF Got, HistoryOK
    <3> QED BY <2>1, <2>5, <3>1, <3>2 DEF StreamRests, StreamMoves
  <2> QED BY <2>6, <2>7
<1> QED BY <1>3, <1>4, <1>5, <1>6, <1>7, <1>8 DEF ServerReads

\* What the client's reader does to what the client sends: nothing.
LEMMA ClientReadsUp ==
    ASSUME Typed, NEW ch \in Ch, InOrder("client", Data(ch)), ClientReads
    PROVE  InOrder("client", Data(ch))' /\ StreamRests("client", ch)
<1>1. /\ QueuesOK(Ctl, Dat) /\ EndsOK /\ "server" \in Side /\ "client" \in Side
      /\ Peer("client") = "server"
  BY TypedParts DEF Side, Peer
<1>2. InOrder("client", Data(ch))' /\ Chunks("client", ch)' = Chunks("client", ch)
  <2>1. Keeps("client", Ctl, Dat)
    BY <1>1, ClientReadsOne, QuietIsQuiet, QuietFlows DEF Quiet, ClientReads
  <2> QED BY <1>1, <2>1, ChunksKept
<1>3. UNCHANGED <<appSent, tgtSent, dropped, tgtIn>> /\ reader'["server"] = reader["server"]
  BY <1>1 DEF ClientReads, ClientOpenOK, ClientOpenErr, SignalOpen, ClientClose, ClientAuthOK, ClientAuthErr,
     ClientData, ClientWrites, historyVars, endVars, ReaderFails, ReaderFailsOn, ReaderGoesOn, EndsOK
<1>4. UNCHANGED <<Sent("client", ch), Lost("client", ch), Got("client", ch)>>
  BY <1>3 DEF Sent, Lost, Got
<1> QED BY <1>1, <1>2, <1>3, <1>4, HeldRests DEF StreamRests

\* What the client's reader does to what the server sends.
LEMMA ClientReadsDown ==
    ASSUME Typed, Stages, Connections, NEW ch \in Ch, InOrder("server", Data(ch)), ClientReads
    PROVE  InOrder("server", Data(ch))' /\ StreamMoves("server", ch)
<1> DEFINE Goal == InOrder("server", Data(ch))' /\ StreamMoves("server", ch)
<1>1. /\ QueuesOK(Ctl, Dat) /\ QueuesOK(Ctl, Dat)' /\ EndsOK /\ ClientOK /\ HistoryOK
      /\ "server" \in Side /\ "client" \in Side /\ Peer("server") = "client"
      /\ reader["client"] \in Readers
  BY TypedParts, StepQueues DEF Side, Peer, Step, EndsOK
<1>2. CASE ClientOpenOK \/ ClientOpenErr \/ ClientAuthOK \/ ClientAuthErr \/ ClientClose
  <2>1. Received("client") \in Ctl \union Dat /\ Received("client") \notin Data(ch)
    BY <1>1, <1>2, ClientReadsOne DEF Data, Dat
  <2>2. InOrder("server", Data(ch))' /\ Chunks("server", ch)' = Chunks("server", ch)
    BY <1>1, <1>2, <2>1, ClientReadsOne, ChunksLost
  <2>3. reader["client"].pc = "read"
    BY <1>2 DEF ClientOpenOK, ClientOpenErr, SignalOpen, ClientClose, ClientAuthOK, ClientAuthErr, Receive
  <2>4. reader'["client"].pc # "write"
    <3>1. CASE ClientAuthErr
      BY <1>1, <3>1, ReaderLeaves DEF ClientAuthErr
    <3>2. CASE ClientOpenOK \/ ClientOpenErr \/ ClientAuthOK \/ ClientClose
      BY <2>3, <3>2 DEF ClientOpenOK, ClientOpenErr, SignalOpen, ClientClose, ClientAuthOK, endVars
    <3> QED BY <1>2, <3>1, <3>2
  <2>5. UNCHANGED <<appSent, tgtSent, dropped>> /\ UNCHANGED <<appIn, tgtIn>>
    BY <1>2 DEF ClientOpenOK, ClientOpenErr, SignalOpen, ClientClose, ClientAuthOK, ClientAuthErr, historyVars
  <2> QED BY <1>1, <2>2, <2>3, <2>4, <2>5, HeldRests, EndsRest DEF StreamMoves, StreamRests
<1>3. CASE ClientData
  <2> DEFINE f == Received("client")
  <2>1. /\ f \in Ctl \union Dat /\ f.ch \in Ch /\ f.n \in Nat \ {0} /\ f \in Data(f.ch)
        /\ f \in Flying("server") /\ Loses("server", f, Ctl, Dat)
    BY <1>1, <1>3, ClientReadsOne, FrameIs
  <2>2. /\ reader["client"].pc = "read"
        /\ UNCHANGED <<appSent, tgtSent, dropped>> /\ UNCHANGED <<appIn, tgtIn>>
        /\ \/ f.ch \in tcpConns /\ reader'["client"] = At("write", f.ch, f.n)
           \/ f.ch \notin tcpConns /\ reader' = reader
    BY <1>1, <1>3 DEF ClientData, Receive, EndsOK, historyVars
  <2>3. handler[f.ch] # "start"
    BY <2>1 DEF Stages, CloseInv, OpenInv, Down
  <2>4. f.ch \notin tcpConns => appConn[f.ch] = "closed"
    BY <2>1, <2>3 DEF Connections, EndsInv
  <2> HIDE DEF f
  <2>5. UNCHANGED <<Sent("server", ch), Lost("server", ch), Got("server", ch)>>
    BY <1>1, <2>2, EndsRest
  <2>6. Held("server", ch) = {}
    BY <1>1, <2>2 DEF Held, Holds
  <2>7. CASE f.ch = ch
    <3>1. /\ InOrder("server", Data(ch))'
          /\ f.n \in Chunks("server", ch) /\ Chunks("server", ch) = Chunks("server", ch)' \union {f.n}
          /\ \A n \in Chunks("server", ch)' : f.n < n
      BY <1>1, <2>1, <2>7, ChunksLost
    <3>2. Held("server", ch)' = {f.n} \/ (Held("server", ch)' = {} /\ ~EndOpen("server", ch))
      BY <1>1, <2>2, <2>4, <2>7 DEF Held, Holds, At, EndOpen
    <3> QED BY <2>5, <2>6, <3>1, <3>2 DEF StreamTakes, StreamMoves
  <2>8. CASE f.ch # ch
    <3>1. InOrder("server", Data(ch))' /\ Chunks("server", ch)' = Chunks("server", ch)
      BY <1>1, <2>1, <2>8, ChunksLost DEF Data
    <3>2. Held("server", ch)' = {}
      BY <1>1, <2>2, <2>8 DEF Held, Holds, At
    <3> QED BY <2>5, <2>6, <3>1, <3>2 DEF StreamRests, StreamMoves
  <2> QED BY <2>7, <2>8
<1>4. CASE ClientWrites
  <2>1. InOrder("server", Data(ch))' /\ Chunks("server", ch)' = Chunks("server", ch)
    BY <1>1, <1>4, QuietIsQuiet, QuietFlows, ChunksKept DEF Quiet
  <2>2. PICK c \in Ch, n \in Nat \ {0} : c = reader["client"].ch /\ n = reader["client"].n
    BY <1>1, <1>4, ReaderIs DEF ClientWrites
  <2>3. /\ reader["client"].pc = "write" /\ UNCHANGED <<appSent, tgtSent, dropped>>
        /\ \/ appConn[c] = "open" /\ appIn' = [appIn EXCEPT ![c] = Append(@, n)]
           \/ appConn[c] # "open" /\ UNCHANGED appIn
    BY <1>4, <2>2 DEF ClientWrites
  <2>4. reader'["client"].pc # "write"
    BY <1>1, <1>4, ReaderLeaves DEF ClientWrites
  <2>5. UNCHANGED <<Sent("server", ch), Lost("server", ch)>> /\ Held("server", ch)' = {}
    BY <1>1, <2>3, <2>4 DEF Sent, Lost, Held, Holds
  <2>6. CASE c = ch
    <3>1. Held("server", ch) = {n}
      BY <1>1, <2>2, <2>3, <2>6 DEF Held, Holds
    <3>2. \/ EndOpen("server", ch) /\ Got("server", ch)' = Append(Got("server", ch), n)
          \/ ~EndOpen("server", ch) /\ Got("server", ch)' = Got("server", ch)
      BY <1>1, <2>3, <2>6 DEF EndOpen, Got, HistoryOK
    <3> QED BY <2>1, <2>5, <3>1, <3>2 DEF StreamDelivers, StreamMoves
  <2>7. CASE c # ch
    <3>1. Held("server", ch) = {}
      BY <1>1, <2>2, <2>7 DEF Held, Holds
    <3>2. Got("server", ch)' = Got("server", ch)
      BY <1>1, <2>3, <2>7 DEF Got, HistoryOK
    <3> QED BY <2>1, <2>5, <3>1, <3>2 DEF StreamRests, StreamMoves
  <2> QED BY <2>6, <2>7
<1> QED BY <1>2, <1>3, <1>4 DEF ClientReads

\* A copier of s hands the chunk n of c to QueueData.
LEMMA CopierMoves ==
    ASSUME Typed, NEW s \in Side, NEW ch \in Ch, StreamInv(s, ch), NEW c \in Ch,
           CopyChunk(s, c, Sent(s, c) + 1), UNCHANGED <<control, phase, wire>>,
           Sent(s, c)' = Sent(s, c) + 1, c # ch => UNCHANGED Sent(s, ch),
           UNCHANGED <<Held(s, ch), Got(s, ch), EndOpen(s, ch)>>
    PROVE  InOrder(s, Data(ch))' /\ StreamMoves(s, ch)
<1> DEFINE f == Frame("TCPDATA", c, Sent(s, c) + 1)
<1>1. /\ QueuesOK(Ctl, Dat) /\ HistoryOK /\ Ctl \intersect Dat = {}
      /\ Sent(s, c) \in Nat /\ f \in Data(c) /\ f \in Dat /\ f.n = Sent(s, c) + 1 /\ f.ch = c
  BY TypedParts, Kinds, FrameTyped, FrameFields DEF HistoryOK, Sent
<1>2. /\ TryQueueData(s, f)
      /\ dropped' = IF DataFull(s) THEN [dropped EXCEPT ![s] = @ \union {<<c, f.n>>}] ELSE dropped
  BY <1>1 DEF CopyChunk
<1>3. InOrder(s, Data(ch)) /\ Chunks(s, ch) \subseteq 1 .. Sent(s, ch)
  BY DEF StreamInv, Stream
<1> HIDE DEF f
<1>4. CASE DataFull(s)
  <2>1. InOrder(s, Data(ch))' /\ Chunks(s, ch)' = Chunks(s, ch)
    BY <1>1, <1>2, <1>3, <1>4, TryQueueDataGains, ChunksKept
  <2>2. Lost(s, ch)' = IF c = ch THEN Lost(s, ch) \union {f.n} ELSE Lost(s, ch)
    <3>1. dropped'[s] = dropped[s] \union {<<c, f.n>>} /\ f.n \in Nat
      BY <1>1, <1>2, <1>4 DEF HistoryOK
    <3> QED BY <3>1 DEF Lost
  <2>3. CASE c = ch
    BY <1>1, <2>1, <2>2, <2>3 DEF StreamMoves, StreamCopies
  <2>4. CASE c # ch
    BY <2>1, <2>2, <2>4 DEF StreamMoves, StreamRests
  <2> QED BY <2>3, <2>4
<1>5. CASE ~DataFull(s)
  <2>1. Gains(s, f, Ctl, Dat) /\ f \in Ctl \union Dat
    BY <1>1, <1>2, <1>5, TryQueueDataGains
  <2>2. Lost(s, ch)' = Lost(s, ch)
    BY <1>2, <1>5 DEF Lost
  <2>3. CASE c = ch
    <3>1. \A n \in Chunks(s, ch) : n < f.n
      BY <1>1, <1>3, <2>3
    <3>2. InOrder(s, Data(ch))' /\ Chunks(s, ch)' = Chunks(s, ch) \union {f.n}
      BY <1>1, <1>3, <2>1, <2>3, <3>1, ChunksGained
    <3> QED BY <1>1, <2>2, <2>3, <3>2 DEF StreamMoves, StreamCopies
  <2>4. CASE c # ch
    <3>1. f \notin Data(ch)
      BY <1>1, <2>4 DEF Data
    <3>2. InOrder(s, Data(ch))' /\ Chunks(s, ch)' = Chunks(s, ch)
      BY <1>1, <1>3, <2>1, <3>1, ChunksGained
    <3> QED BY <2>2, <2>4, <3>2 DEF StreamMoves, StreamRests
  <2> QED BY <2>3, <2>4
<1> QED BY <1>4, <1>5

\* What the link, the relay and the handlers do.
LEMMA OthersMove ==
    ASSUME Typed, NEW s \in Side, NEW ch \in Ch, StreamInv(s, ch), Step, ~ServerReads, ~ClientReads
    PROVE  InOrder(s, Data(ch))' /\ StreamMoves(s, ch)
<1> DEFINE Goal == InOrder(s, Data(ch))' /\ StreamMoves(s, ch)
<1>1. /\ QueuesOK(Ctl, Dat) /\ EndsOK /\ HistoryOK /\ Ctl \intersect Dat = {}
      /\ "server" \in Side /\ "client" \in Side /\ Peer(s) \in Side
      /\ InOrder(s, Data(ch)) /\ reader \in [Side -> Readers]
  BY TypedParts, Kinds, PeerIsOther DEF Side, StreamInv, EndsOK
<1>2. ASSUME \/ Keeps(s, Ctl, Dat)
             \/ \E f \in Ctl : Gains(s, f, Ctl, Dat),
             Held(s, ch)' = Held(s, ch),
             UNCHANGED <<appSent, tgtSent, dropped>>, UNCHANGED <<appIn, tgtIn>>
      PROVE  Goal
  <2>1. InOrder(s, Data(ch))' /\ Chunks(s, ch)' = Chunks(s, ch)
    <3>1. CASE Keeps(s, Ctl, Dat)
      BY <1>1, <3>1, ChunksKept
    <3>2. ASSUME NEW f \in Ctl, Gains(s, f, Ctl, Dat)
          PROVE  InOrder(s, Data(ch))' /\ Chunks(s, ch)' = Chunks(s, ch)
      <4>1. f \in Ctl \union Dat /\ f \notin Data(ch)
        BY <1>1 DEF Data
      <4> QED BY <1>1, <3>2, <4>1, ChunksGained
    <3> QED BY <1>2, <3>1, <3>2
  <2> QED BY <1>2, <2>1, EndsRest DEF StreamMoves, StreamRests
<1>3. CASE Link
  <2>1. Keeps(s, Ctl, Dat)
    BY <1>1, <1>3, LinkStepKeeps DEF Link
  <2>2. \/ UNCHANGED reader[Peer(s)]
        \/ reader[Peer(s)].pc # "write" /\ reader'[Peer(s)].pc # "write"
    BY <1>1, <1>3 DEF Link, LinkStep, ClientSeesEnd, LinkBreaks, RunCloses, ClientWriteFails, Writes,
         WriteControl, WriteData, endVars, ReaderFails, ReaderFailsOn, At
  <2>3. UNCHANGED <<appSent, tgtSent, dropped>> /\ UNCHANGED <<appIn, tgtIn>>
    BY <1>3 DEF Link, historyVars
  <2> QED BY <1>2, <2>1, <2>2, <2>3, HeldRests
<1>4. ASSUME UNCHANGED reader
      PROVE  Held(s, ch)' = Held(s, ch)
  BY <1>4, HeldRests
<1>5. ASSUME NEW c \in Ch, RelayRuns(c) \/ TargetCloses(c)
      PROVE  Goal
  <2>1. CASE RelayCopies(c)
    <3>1. /\ UNCHANGED <<control, phase, wire>> /\ UNCHANGED reader
          /\ CopyChunk("server", c, tgtSent[c] + 1) /\ tgtSent' = [tgtSent EXCEPT ![c] = @ + 1]
          /\ UNCHANGED <<appSent, tgtConn, appConn>> /\ UNCHANGED <<appIn, tgtIn>>
      BY <2>1 DEF RelayCopies, endVars, clientVars, serverVars
    <3>2. CASE s = "server"
      <4>1. /\ CopyChunk(s, c, Sent(s, c) + 1) /\ Sent(s, c)' = Sent(s, c) + 1
            /\ c # ch => UNCHANGED Sent(s, ch)
            /\ UNCHANGED <<Got(s, ch), EndOpen(s, ch)>>
        BY <1>1, <3>1, <3>2 DEF Sent, Got, EndOpen, HistoryOK
      <4> QED BY <1>4, <3>1, <4>1, CopierMoves
    <3>3. CASE s = "client"
      <4>1. Keeps(s, Ctl, Dat)
        BY <1>1, <2>1, <3>3, RelayCopiesFlows DEF HistoryOK
      <4>2. InOrder(s, Data(ch))' /\ Chunks(s, ch)' = Chunks(s, ch)
        BY <1>1, <4>1, ChunksKept
      <4>3. dropped'[s] = dropped[s]
        BY <1>1, <3>1, <3>3 DEF CopyChunk, HistoryOK
      <4>4. UNCHANGED <<Sent(s, ch), Lost(s, ch), Got(s, ch)>>
        BY <3>1, <3>3, <4>3 DEF Sent, Lost, Got
      <4> QED BY <1>4, <3>1, <4>2, <4>4 DEF StreamMoves, StreamRests
    <3> QED BY <3>2, <3>3 DEF Side
  <2>2. CASE RelayEnds(c)
    <3>1. Keeps(s, Ctl, Dat) \/ \E f \in Ctl : Gains(s, f, Ctl, Dat)
      BY <1>1, <2>2, RelayEndsFlows, FrameTyped DEF Side
    <3>2. /\ UNCHANGED reader
          /\ UNCHANGED <<appSent, tgtSent, dropped>> /\ UNCHANGED <<appIn, tgtIn>>
      BY <2>2 DEF RelayEnds, endVars, historyVars
    <3> QED BY <1>2, <1>4, <3>1, <3>2
  <2>3. CASE RelayCloses(c) \/ TargetCloses(c)
    <3>1. Keeps(s, Ctl, Dat)
      BY <1>1, <2>3, QuietIsQuiet, QuietFlows DEF Quiet
    <3>2. /\ UNCHANGED reader
          /\ UNCHANGED <<appSent, tgtSent, dropped>> /\ UNCHANGED <<appIn, tgtIn>>
      BY <2>3 DEF RelayCloses, TargetCloses, linkVars, endVars, historyVars
    <3> QED BY <1>2, <1>4, <3>1, <3>2
  <2> QED BY <1>5, <2>1, <2>2, <2>3 DEF RelayRuns
<1>6. ASSUME NEW c \in Ch,
             HandlerRuns(c) \/ HandlerGivesUp(c) \/ HandlerTimesOut(c) \/ AppCloses(c)
      PROVE  Goal
  <2>1. CASE HandlerCopies(c)
    <3>1. /\ UNCHANGED <<control, phase, wire>> /\ UNCHANGED reader
          /\ CopyChunk("client", c, appSent[c] + 1) /\ appSent' = [appSent EXCEPT ![c] = @ + 1]
          /\ UNCHANGED <<tgtSent, tgtConn, appConn>> /\ UNCHANGED <<appIn, tgtIn>>
      BY <2>1 DEF HandlerCopies, endVars, clientVars, serverVars
    <3>2. CASE s = "client"
      <4>1. /\ CopyChunk(s, c, Sent(s, c) + 1) /\ Sent(s, c)' = Sent(s, c) + 1
            /\ c # ch => UNCHANGED Sent(s, ch)
            /\ UNCHANGED <<Got(s, ch), EndOpen(s, ch)>>
        BY <1>1, <3>1, <3>2 DEF Sent, Got, EndOpen, HistoryOK
      <4> QED BY <1>4, <3>1, <4>1, CopierMoves
    <3>3. CASE s = "server"
      <4>1. Keeps(s, Ctl, Dat)
        BY <1>1, <2>1, <3>3, HandlerCopiesFlows DEF HistoryOK
      <4>2. InOrder(s, Data(ch))' /\ Chunks(s, ch)' = Chunks(s, ch)
        BY <1>1, <4>1, ChunksKept
      <4>3. dropped'[s] = dropped[s]
        BY <1>1, <3>1, <3>3 DEF CopyChunk, HistoryOK
      <4>4. UNCHANGED <<Sent(s, ch), Lost(s, ch), Got(s, ch)>>
        BY <3>1, <3>3, <4>3 DEF Sent, Lost, Got
      <4> QED BY <1>4, <3>1, <4>2, <4>4 DEF StreamMoves, StreamRests
    <3> QED BY <3>2, <3>3 DEF Side
  <2>2. CASE HandlerReplies(c)
    <3>1. Keeps(s, Ctl, Dat)
      BY <1>1, <2>2, QuietIsQuiet, QuietFlows DEF Quiet
    <3>2. InOrder(s, Data(ch))' /\ Chunks(s, ch)' = Chunks(s, ch)
      BY <1>1, <3>1, ChunksKept
    <3>3. /\ UNCHANGED reader
          /\ UNCHANGED <<appSent, tgtSent, dropped, tgtIn>>
          /\ UNCHANGED appIn \/ appIn' = [appIn EXCEPT ![c] = Append(@, 0)]
      BY <2>2 DEF HandlerReplies, linkVars, endVars
    <3>4. UNCHANGED <<Sent(s, ch), Lost(s, ch)>>
      BY <3>3 DEF Sent, Lost
    <3>5. UNCHANGED Got(s, ch) \/ Got(s, ch)' = Append(Got(s, ch), 0)
      BY <1>1, <3>3 DEF Got, HistoryOK
    <3> QED BY <1>4, <3>2, <3>3, <3>4, <3>5 DEF StreamMoves, StreamRests, StreamReplies
  <2>3. CASE HandlerOpens(c) \/ HandlerEnds(c)
    <3>1. Keeps(s, Ctl, Dat) \/ \E f \in Ctl : Gains(s, f, Ctl, Dat)
      BY <1>1, <2>3, HandlerOpensFlows, HandlerEndsFlows, FrameTyped DEF Side
    <3>2. /\ UNCHANGED reader
          /\ UNCHANGED <<appSent, tgtSent, dropped>> /\ UNCHANGED <<appIn, tgtIn>>
      BY <2>3 DEF HandlerOpens, HandlerEnds, endVars, historyVars
    <3> QED BY <1>2, <1>4, <3>1, <3>2
  <2>4. CASE \/ HandlerAnswered(c) \/ HandlerRefuses(c) \/ HandlerCloses(c)
             \/ HandlerGivesUp(c) \/ HandlerTimesOut(c) \/ AppCloses(c)
    <3>1. Keeps(s, Ctl, Dat)
      BY <1>1, <2>4, QuietIsQuiet, QuietFlows DEF Quiet
    <3>2. /\ UNCHANGED reader
          /\ UNCHANGED <<appSent, tgtSent, dropped>> /\ UNCHANGED <<appIn, tgtIn>>
      BY <2>4 DEF HandlerAnswered, HandlerRefuses, HandlerCloses, HandlerGivesUp, HandlerTimesOut, AppCloses,
           linkVars, endVars, historyVars
    <3> QED BY <1>2, <1>4, <3>1, <3>2
  <2> QED BY <1>6, <2>1, <2>2, <2>3, <2>4 DEF HandlerRuns
<1> QED BY <1>3, <1>5, <1>6 DEF Step

Streams == \A s \in Side, ch \in Ch : StreamInv(s, ch)

LEMMA InitStreams == Init => Streams
<1> SUFFICES ASSUME Init, NEW s \in Side, NEW ch \in Ch
             PROVE  StreamInv(s, ch)
  BY DEF Streams
<1>1. /\ data[s] = << >> /\ wire[s] = << >> /\ reader[Peer(s)] = Reading
      /\ control[s] = << >> \/ control[s] = << Frame("AUTH", NoCh, 0) >>
      /\ appSent[ch] = 0 /\ tgtSent[ch] = 0 /\ appIn[ch] = << >> /\ tgtIn[ch] = << >>
  BY PeerIsOther DEF Init, LinkInit
<1>2. /\ Elems(data[s]) = {} /\ Elems(wire[s]) = {} /\ Elems(control[s]) \subseteq {Frame("AUTH", NoCh, 0)}
      /\ Rising(data[s], Data(ch)) /\ Rising(wire[s], Data(ch)) /\ Rising(control[s], Data(ch))
  BY <1>1 DEF Elems, Rising
<1>3. InOrder(s, Data(ch))
  BY <1>2 DEF InOrder, Ordered, Before
<1>4. Chunks(s, ch) = {} /\ Held(s, ch) = {} /\ Sent(s, ch) = 0 /\ Got(s, ch) = << >>
  BY <1>1, <1>2 DEF Chunks, Flying, Frame, Held, Holds, Reading, Sent, Got
<1>5. Stream(0, Lost(s, ch), {}, {}, << >>, EndOpen(s, ch))
  BY DEF Stream, Complete
<1> QED BY <1>3, <1>4, <1>5 DEF StreamInv

LEMMA NextStreams ==
    Typed /\ Stages /\ Connections /\ AuthInv /\ Streams /\ [Next]_vars => Streams'
<1> SUFFICES ASSUME Typed, Stages, Connections, AuthInv, Streams, [Next]_vars,
                    NEW s \in Side, NEW ch \in Ch
             PROVE  StreamInv(s, ch)'
  BY DEF Streams
<1>1. StreamInv(s, ch) /\ InOrder(s, Data(ch))
  BY DEF Streams, StreamInv
<1>2. CASE Next
  <2>1. InOrder(s, Data(ch))' /\ StreamMoves(s, ch)
    BY <1>1, <1>2, ServerReadsUp, ServerReadsDown, ClientReadsUp, ClientReadsDown, OthersMove
       DEF Next, StreamMoves, Side
  <2>2. EndOpen(s, ch)' => EndOpen(s, ch) \/ Sent(s, ch) = 0
    <3>1. Persists(ch) /\ RelayInv(ch) /\ EndsInv(ch) /\ tgtConn[ch] \in {"none", "open", "eof", "closed"}
      BY <1>2, NextConnections, TypedParts DEF Connections, ServerOK
    <3> QED BY <3>1 DEF Persists, RelayInv, EndsInv, EndOpen, Sent
  <2> QED BY <1>1, <2>1, <2>2, StreamMoved DEF StreamInv
<1>3. CASE UNCHANGED vars
  <2>1. UNCHANGED <<control, data, wire>> /\ UNCHANGED reader
    BY <1>3 DEF vars, linkVars, sessionVars, endVars
  <2>2. InOrder(s, Data(ch))' /\ UNCHANGED <<Chunks(s, ch), Held(s, ch)>>
    BY <1>1, <2>1 DEF InOrder, Chunks, Flying, Held, Holds
  <2>3. UNCHANGED <<Sent(s, ch), Lost(s, ch), Got(s, ch), EndOpen(s, ch)>>
    BY <1>3 DEF vars, historyVars, clientVars, serverVars, Sent, Lost, Got, EndOpen
  <2> QED BY <1>1, <2>2, <2>3, StreamMoved DEF StreamInv, StreamMoves, StreamRests
<1> QED BY <1>2, <1>3

\* Each end of a channel receives the other's chunks in the order in which they
\* were sent, none twice and none missing but what QueueData refused: whatever
\* the two queues, the race of the writer and the closes do (session.go:96-119,
\* tcp.go:58-86, main.go:127-136, 352-367).
THEOREM ChunksArriveInOrder == Spec => []StreamsInOrder
<1>1. ASSUME Typed, Streams
      PROVE  StreamsInOrder
  <2>1. HistoryOK /\ "client" \in Side /\ "server" \in Side
    BY <1>1, TypedParts DEF Side
  <2>2. ASSUME NEW s \in Side, NEW ch \in Ch
        PROVE  InOrderBut(s, ch, Got(s, ch))
    <3>1. Complete(Lost(s, ch), Got(s, ch))
      BY <1>1 DEF Streams, StreamInv, Stream
    <3> QED BY <3>1 DEF Complete, Lost, InOrderBut
  <2> QED BY <2>1, <2>2 DEF Got, StreamsInOrder
<1>2. /\ Typed /\ Stages /\ Connections /\ AuthInv /\ Streams /\ [Next]_vars
      => Typed' /\ Stages' /\ Connections' /\ AuthInv' /\ Streams'
  BY NextTyped, NextStages, NextConnections, NextAuth, NextStreams
<1>3. Init => Typed /\ Stages /\ Connections /\ AuthInv /\ Streams
  BY InitTyped, InitStages, InitConnections, InitAuth, InitStreams
<1> QED BY <1>1, <1>2, <1>3, PTL DEF Spec
=============================================================================
