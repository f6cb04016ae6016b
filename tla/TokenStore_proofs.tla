------------------------- MODULE TokenStore_proofs --------------------------
(***************************************************************************)
(* For every set of tokens, nonces and commands and every bound: the token *)
(* store keeps to its types, a server accepts a nonce once until the entry *)
(* of its replay cache ends, and what a command has reported is in the     *)
(* file, and in the servers started since, unless two commands overlapped. *)
(***************************************************************************)
EXTENDS TokenStore, SequenceTheorems, TLAPS

USE TimeAssumption, StoreBoundAssumption

-----------------------------------------------------------------------------
(* Tables of tokens *)

LEMMA EmptyIsTable == IsTable(EmptyTable) /\ DOMAIN EmptyTable = {}
BY DEF IsTable, EmptyTable

\* Generate adds a record.
LEMMA WithIsTable ==
    ASSUME NEW table, IsTable(table), NEW t \in Token, NEW rec \in Record
    PROVE  IsTable(With(table, t, rec))
BY DEF IsTable, With

\* Revoke sets the flag of a record.
LEMMA RevokedIsTable ==
    ASSUME NEW table, IsTable(table), NEW t \in DOMAIN table
    PROVE  IsTable([table EXCEPT ![t].revoked = TRUE])
<1> DEFINE new == [table EXCEPT ![t].revoked = TRUE]
<1>1. DOMAIN new = DOMAIN table
  OBVIOUS
<1>2. ASSUME NEW u \in DOMAIN table PROVE new[u] \in Record
  BY DEF IsTable, Record
<1> QED BY <1>1, <1>2 DEF IsTable

\* What os.WriteFile leaves is a table, or nothing that parses.
LEMMA WrittenIsTable ==
    ASSUME NEW table, IsTable(table), NEW f \in Written(table)
    PROVE  /\ f.state \in {"absent", "torn", "list"} /\ IsTable(f.table)
           /\ DOMAIN f.table \subseteq DOMAIN table
BY EmptyIsTable DEF Written, Holding, Torn

-----------------------------------------------------------------------------
(* Types *)

\* The file and the commands, too, know only tokens that have been drawn: without
\* it a server that starts might load any other.
OnlyDrawn ==
    /\ DOMAIN file.table \subseteq drawn
    /\ \A c \in Cmd : DOMAIN copy[c] \subseteq drawn

TypeInv == StoreTypeOK /\ OnlyDrawn

LEMMA TypeInit == StoreInit => TypeInv
<1> SUFFICES ASSUME StoreInit PROVE TypeInv
  OBVIOUS
<1>1. IsTable(EmptyTable) /\ DOMAIN EmptyTable = {}
  BY EmptyIsTable
<1>2. /\ file.state \in {"absent", "torn", "list"} /\ IsTable(file.table)
      /\ OnlyDrawn
  BY <1>1 DEF StoreInit, Absent, OnlyDrawn
<1>3. /\ pc \in [Cmd -> {"idle", "truncate", "write"}]
      /\ op \in [Cmd -> [name : {"none", "gen", "revoke"}, ids : SUBSET Token]]
      /\ \A c \in Cmd : IsTable(copy[c]) /\ op[c].ids \subseteq drawn
  BY <1>1 DEF StoreInit, NoOp
<1>4. DOMAIN replay = {} /\ accepted \in Seq(Acceptance)
  BY DEF StoreInit
<1> QED BY <1>1, <1>2, <1>3, <1>4 DEF StoreInit, StoreTypeOK, TypeInv

\* A command begins with a table of tokens drawn.
LEMMA TypeBegin ==
    ASSUME TypeInv, NEW c \in Cmd, NEW name \in {"gen", "revoke"}, NEW t \in Token,
           NEW table, IsTable(table), Begin(c, name, t, table),
           drawn \subseteq drawn', drawn' \subseteq Token,
           t \in drawn', DOMAIN table \subseteq drawn'
    PROVE  TypeInv'
<1>1. /\ pc' \in [Cmd -> {"idle", "truncate", "write"}]
      /\ op' \in [Cmd -> [name : {"none", "gen", "revoke"}, ids : SUBSET Token]]
  BY DEF Begin, TypeInv, StoreTypeOK
<1>2. ASSUME NEW d \in Cmd
      PROVE  IsTable(copy'[d]) /\ DOMAIN copy'[d] \subseteq drawn' /\ op'[d].ids \subseteq drawn'
  <2>1. CASE d = c
    <3>1. copy'[d] = table /\ op'[d] = [name |-> name, ids |-> {t}]
      BY <2>1 DEF Begin, TypeInv, StoreTypeOK
    <3> QED BY <3>1
  <2>2. CASE d # c
    <3>1. copy'[d] = copy[d] /\ op'[d] = op[d]
      BY <2>2 DEF Begin, TypeInv, StoreTypeOK
    <3> QED BY <3>1 DEF TypeInv, StoreTypeOK, OnlyDrawn
  <2> QED BY <2>1, <2>2
<1>3. commands' \in Nat /\ overlapped' \in BOOLEAN /\ DOMAIN copy' = Cmd
  BY DEF Begin, TypeInv, StoreTypeOK
<1>4. UNCHANGED <<now, file, issued, revoked, up, starts, tokens, replay, revokedAtStart, accepted>>
  BY DEF Begin, validatorVars
<1> QED BY <1>1, <1>2, <1>3, <1>4 DEF TypeInv, StoreTypeOK, OnlyDrawn

\* A command ends: its slot is empty again, and the file a table of tokens drawn.
LEMMA TypeEnd ==
    ASSUME TypeInv, NEW c \in Cmd,
           pc' = [pc EXCEPT ![c] = "idle"],
           op' = [op EXCEPT ![c] = NoOp],
           copy' = [copy EXCEPT ![c] = EmptyTable],
           file'.state \in {"absent", "torn", "list"},
           IsTable(file'.table), DOMAIN file'.table \subseteq drawn,
           issued' \subseteq Token, revoked' \subseteq Token,
           UNCHANGED <<now, drawn, commands, overlapped, validatorVars, accepted>>
    PROVE  TypeInv'
<1>1. /\ pc' \in [Cmd -> {"idle", "truncate", "write"}]
      /\ op' \in [Cmd -> [name : {"none", "gen", "revoke"}, ids : SUBSET Token]]
  BY DEF NoOp, TypeInv, StoreTypeOK
<1>2. ASSUME NEW d \in Cmd
      PROVE  IsTable(copy'[d]) /\ DOMAIN copy'[d] \subseteq drawn /\ op'[d].ids \subseteq drawn
  <2>1. CASE d = c
    <3>1. copy'[d] = EmptyTable /\ op'[d] = NoOp
      BY <2>1 DEF TypeInv, StoreTypeOK
    <3> QED BY <3>1, EmptyIsTable DEF NoOp
  <2>2. CASE d # c
    <3>1. copy'[d] = copy[d] /\ op'[d] = op[d]
      BY <2>2 DEF TypeInv, StoreTypeOK
    <3> QED BY <3>1 DEF TypeInv, StoreTypeOK, OnlyDrawn
  <2> QED BY <2>1, <2>2
<1>3. DOMAIN copy' = Cmd
  BY DEF TypeInv, StoreTypeOK
<1> QED BY <1>1, <1>2, <1>3 DEF TypeInv, StoreTypeOK, OnlyDrawn, validatorVars

\* The server starts with a table, or stops with none.
LEMMA TypeServer ==
    ASSUME TypeInv, up' \in BOOLEAN, starts' \in Nat,
           IsTable(tokens'), DOMAIN tokens' \subseteq drawn,
           replay' = << >>, revokedAtStart' \subseteq Token,
           UNCHANGED <<now, file, commandVars, accepted>>
    PROVE  TypeInv'
<1>1. DOMAIN replay' = {}
  OBVIOUS
<1> QED BY <1>1 DEF TypeInv, StoreTypeOK, OnlyDrawn, commandVars

LEMMA TypeStep == TypeInv /\ [StoreNext]_storeVars => TypeInv'
<1> SUFFICES ASSUME TypeInv, [StoreNext]_storeVars PROVE TypeInv'
  OBVIOUS
<1>1. CASE Tick
  BY <1>1 DEF Tick, TypeInv, StoreTypeOK, OnlyDrawn, commandVars, validatorVars
<1>2. ASSUME NEW c \in Cmd, NEW t \in Token, RevokeToken(c, t) PROVE TypeInv'
  <2> DEFINE table == [file.table EXCEPT ![t].revoked = TRUE]
  <2>1. t \in DOMAIN file.table /\ IsTable(file.table)
    BY <1>2 DEF RevokeToken, TypeInv, StoreTypeOK
  <2>2. IsTable(table) /\ DOMAIN table = DOMAIN file.table
    BY <2>1, RevokedIsTable
  <2>3. Begin(c, "revoke", t, table) /\ drawn' = drawn
    BY <1>2 DEF RevokeToken
  <2>4. drawn \subseteq Token /\ DOMAIN file.table \subseteq drawn
    BY DEF TypeInv, StoreTypeOK, OnlyDrawn
  <2> HIDE DEF table
  <2> QED BY <2>1, <2>2, <2>3, <2>4, TypeBegin
<1>3. ASSUME NEW c \in Cmd, NEW t \in Token, NEW ttl \in TTL, GenToken(c, t, ttl)
      PROVE  TypeInv'
  <2> DEFINE rec == [expires |-> now + ttl, revoked |-> FALSE]
             table == With(file.table, t, rec)
  <2>1. rec \in Record
    BY DEF Record, TypeInv, StoreTypeOK
  <2>2. IsTable(table) /\ DOMAIN table = DOMAIN file.table \union {t}
    <3>1. IsTable(file.table)
      BY DEF TypeInv, StoreTypeOK
    <3> HIDE DEF rec
    <3>2. IsTable(table)
      BY <2>1, <3>1, WithIsTable
    <3> QED BY <3>2 DEF With
  <2>3. Begin(c, "gen", t, table) /\ drawn' = drawn \union {t}
    BY <1>3 DEF GenToken
  <2>4. drawn \subseteq Token /\ DOMAIN file.table \subseteq drawn
    BY DEF TypeInv, StoreTypeOK, OnlyDrawn
  <2> HIDE DEF table
  <2> QED BY <2>2, <2>3, <2>4, TypeBegin
<1>4. ASSUME NEW c \in Cmd, Truncate(c) PROVE TypeInv'
  <2>1. file'.state = "torn" /\ file'.table = EmptyTable
    BY <1>4 DEF Truncate, Torn
  <2>2. pc' \in [Cmd -> {"idle", "truncate", "write"}]
    BY <1>4 DEF Truncate, TypeInv, StoreTypeOK
  <2> QED BY <1>4, <2>1, <2>2, EmptyIsTable DEF Truncate, TypeInv, StoreTypeOK, OnlyDrawn, validatorVars
<1>5. ASSUME NEW c \in Cmd, Write(c) PROVE TypeInv'
  <2>1. IsTable(copy[c]) /\ DOMAIN copy[c] \subseteq drawn /\ op[c].ids \subseteq Token
    BY DEF TypeInv, StoreTypeOK, OnlyDrawn
  <2>2. /\ file'.state \in {"absent", "torn", "list"} /\ IsTable(file'.table)
        /\ DOMAIN file'.table \subseteq drawn
    BY <1>5, <2>1, WrittenIsTable DEF Write
  <2>3. issued' \subseteq Token /\ revoked' \subseteq Token
    BY <1>5, <2>1 DEF Write, TypeInv, StoreTypeOK
  <2> QED BY <1>5, <2>2, <2>3, TypeEnd DEF Write
<1>6. ASSUME NEW c \in Cmd, CommandDies(c) PROVE TypeInv'
  <2>1. file' = file /\ issued' = issued /\ revoked' = revoked
    BY <1>6 DEF CommandDies
  <2> QED BY <1>6, <2>1, TypeEnd DEF CommandDies, TypeInv, StoreTypeOK, OnlyDrawn
<1>7. CASE ServerStarts
  BY <1>7, TypeServer DEF ServerStarts, TypeInv, StoreTypeOK, OnlyDrawn
<1>8. CASE ServerStops
  BY <1>8, TypeServer, EmptyIsTable DEF ServerStops, TypeInv, StoreTypeOK
<1>9. ASSUME NEW t \in Token, NEW n \in Nonce, NEW later \in now .. MaxTime,
             Validate(t, n, later)
      PROVE  TypeInv'
  <2>1. now \in Nat /\ now' \in Nat /\ later - now \in Nat /\ tokens[t].expires \in Nat
    BY <1>9 DEF Validate, TypeInv, StoreTypeOK, IsTable, Record
  <2>2. accepted' \in Seq(Acceptance)
    BY <1>9, <2>1 DEF Validate, TypeInv, StoreTypeOK, Acceptance
  <2>3. /\ DOMAIN replay' \subseteq Token \X Nonce
        /\ \A key \in DOMAIN replay' : replay'[key] \in Int
    BY <1>9, <2>1 DEF Validate, ReplayExpiry, TypeInv, StoreTypeOK
  <2> QED BY <1>9, <2>1, <2>2, <2>3 DEF Validate, TypeInv, StoreTypeOK, OnlyDrawn, commandVars
<1>10. CASE UNCHANGED storeVars
  BY <1>10 DEF storeVars, commandVars, validatorVars, TypeInv, StoreTypeOK, OnlyDrawn
<1> QED BY <1>1, <1>2, <1>3, <1>4, <1>5, <1>6, <1>7, <1>8, <1>9, <1>10 DEF StoreNext

\* The token file, the commands and the store keep to their types, and no
\* process knows a token that was not drawn, whatever the commands, crashes and
\* restarts (token.go:34-141).
THEOREM TypeCorrect == StoreSpec => []StoreTypeOK
<1>1. StoreInit => TypeInv
  BY TypeInit
<1>2. TypeInv /\ [StoreNext]_storeVars => TypeInv'
  BY TypeStep
<1>3. TypeInv => StoreTypeOK
  BY DEF TypeInv
<1> QED BY <1>1, <1>2, <1>3, PTL DEF StoreSpec

-----------------------------------------------------------------------------
(* A nonce is accepted once *)

Key(a) == <<a.token, a.nonce>>

\* When the replay cache may forget the acceptance a.
Until(a) == a.expires - a.delay

\* The server that accepted a is still running.
OfThisServer(a) == up /\ a.start = starts

\* The cache has an entry for a that lasts until then, or that time has come.
Covered(a) ==
    /\ a.token \in DOMAIN tokens /\ a.expires = tokens[a.token].expires
    /\ Key(a) \in DOMAIN replay
    /\ replay[Key(a)] >= Until(a) \/ now >= Until(a)

\* NonceOnce is not inductive: it says nothing of the cache.  What Validate keeps
\* is an entry for each acceptance of the running server; a second acceptance
\* replaces the entry, but only when the first has ended.
NonceInv ==
    /\ \A i \in 1 .. Len(accepted) :
         /\ accepted[i].start <= starts
         /\ OfThisServer(accepted[i]) => Covered(accepted[i])
    /\ NonceOnce

LEMMA NonceInit == StoreInit => NonceInv
BY DEF StoreInit, NonceInv, NonceOnce

\* A step that leaves the acceptances, the server and its memory alone, while the
\* clock goes on.
LEMMA NonceUntouched ==
    ASSUME TypeInv, NonceInv, now' \in Nat, now' >= now,
           UNCHANGED <<up, starts, tokens, replay, accepted>>
    PROVE  NonceInv'
<1>1. ASSUME NEW i \in 1 .. Len(accepted), OfThisServer(accepted[i])
      PROVE  Covered(accepted[i])'
  <2>1. Covered(accepted[i])
    BY <1>1 DEF NonceInv
  <2>2. accepted[i] \in Acceptance
    BY DEF TypeInv, StoreTypeOK
  <2>3. Until(accepted[i]) \in Int /\ now \in Nat
    <3>1. accepted[i].expires \in Nat /\ accepted[i].delay \in Nat
      BY <2>2 DEF Acceptance
    <3>2. now \in Nat
      BY DEF TypeInv, StoreTypeOK
    <3> QED BY <3>1, <3>2 DEF Until
  <2>4. now >= Until(accepted[i]) => now' >= Until(accepted[i])
    BY <2>3
  <2> QED BY <2>1, <2>4 DEF Covered, Key, Until
<1> QED BY <1>1 DEF NonceInv, NonceOnce, OfThisServer

LEMMA NonceValidate ==
    ASSUME TypeInv, NonceInv, NEW t \in Token, NEW n \in Nonce, NEW later \in now .. MaxTime,
           Validate(t, n, later)
    PROVE  NonceInv'
<1>0. PICK N \in Nat : N = Len(accepted) + 1
  BY DEF TypeInv, StoreTypeOK
<1>1. /\ now \in Nat /\ now' = later /\ later \in Nat /\ now' >= now
      /\ tokens[t].expires \in Nat
  BY DEF Validate, TypeInv, StoreTypeOK, IsTable, Record
<1>2. /\ Len(accepted') = N /\ N \in Nat
      /\ \A i \in 1 .. Len(accepted) : accepted'[i] = accepted[i]
      /\ accepted'[N] =
           [token |-> t, nonce |-> n, at |-> now, delay |-> later - now,
            expires |-> tokens[t].expires, start |-> starts,
            revoked |-> t \in revoked, revokedAtStart |-> t \in revokedAtStart]
  BY <1>0 DEF Validate, TypeInv, StoreTypeOK
<1>3. ASSUME NEW i \in 1 .. Len(accepted)
      PROVE  /\ accepted[i].start <= starts
             /\ Until(accepted[i]) \in Int
             /\ Key(accepted[i]) \in DOMAIN replay => replay[Key(accepted[i])] \in Int
             /\ OfThisServer(accepted[i]) => Covered(accepted[i])
  <2>1. accepted[i] \in Acceptance
    BY DEF TypeInv, StoreTypeOK
  <2>2. Until(accepted[i]) \in Int
    BY <2>1 DEF Acceptance, Until
  <2>3. \A key \in DOMAIN replay : replay[key] \in Int
    BY DEF TypeInv, StoreTypeOK
  <2> QED BY <2>2, <2>3 DEF NonceInv
\* Whatever was accepted before with this nonce may be forgotten now.
<1>4. ASSUME NEW i \in 1 .. Len(accepted), Key(accepted[i]) = <<t, n>>,
             OfThisServer(accepted[i])
      PROVE  now >= Until(accepted[i])
  <2>1. Covered(accepted[i]) /\ Until(accepted[i]) \in Int
    BY <1>3, <1>4
  <2>2. <<t, n>> \in DOMAIN replay /\ replay[<<t, n>>] \in Int
    BY <1>3, <1>4, <2>1 DEF Covered
  <2>3. ~(replay[<<t, n>>] > now)
    BY <2>2 DEF Validate, Replayed
  <2> QED BY <1>1, <1>4, <2>1, <2>2, <2>3 DEF Covered
<1>5. /\ DOMAIN replay' = DOMAIN replay \union {<<t, n>>}
      /\ replay'[<<t, n>>] = now + (tokens[t].expires - later)
      /\ \A key \in DOMAIN replay : key # <<t, n>> => replay'[key] = replay[key]
      /\ UNCHANGED <<up, starts, tokens>> /\ up /\ t \in DOMAIN tokens
  BY DEF Validate, ReplayExpiry
<1>6. ASSUME NEW i \in 1 .. Len(accepted), OfThisServer(accepted[i])
      PROVE  Covered(accepted[i])'
  <2>1. Covered(accepted[i])
    BY <1>3, <1>6
  <2>2. accepted'[i] = accepted[i]
    BY <1>2
  <2>3. CASE Key(accepted[i]) = <<t, n>>
    <3>1. now >= Until(accepted[i]) /\ Until(accepted[i]) \in Int
      BY <1>3, <1>4, <1>6, <2>3
    <3>2. now' >= Until(accepted[i])
      BY <1>1, <3>1
    <3> QED BY <1>5, <2>1, <2>2, <2>3, <3>2 DEF Covered, Key, Until
  <2>4. CASE Key(accepted[i]) # <<t, n>>
    <3>1. Key(accepted[i]) \in DOMAIN replay' /\ replay'[Key(accepted[i])] = replay[Key(accepted[i])]
      BY <1>5, <2>1, <2>4 DEF Covered
    <3>2. Until(accepted[i]) \in Int
      BY <1>3
    <3>3. now >= Until(accepted[i]) => now' >= Until(accepted[i])
      BY <1>1, <3>2
    <3> QED BY <1>5, <2>1, <2>2, <3>1, <3>3 DEF Covered, Key, Until
  <2> QED BY <2>3, <2>4
<1>7. Covered(accepted[N])'
  <2>1. /\ accepted'[N].token = t /\ accepted'[N].nonce = n
        /\ accepted'[N].expires = tokens[t].expires /\ accepted'[N].delay = later - now
    BY <1>2
  <2>2. replay'[<<t, n>>] >= tokens[t].expires - (later - now)
    BY <1>1, <1>5
  <2> QED BY <1>5, <2>1, <2>2 DEF Covered, Key, Until
<1>8. \A i \in 1 .. Len(accepted') :
        /\ accepted'[i].start <= starts'
        /\ OfThisServer(accepted[i])' => Covered(accepted[i])'
  <2> SUFFICES ASSUME NEW i \in 1 .. N
               PROVE  /\ accepted'[i].start <= starts'
                      /\ OfThisServer(accepted[i])' => Covered(accepted[i])'
    BY <1>2
  <2>1. CASE i = N
    <3>1. accepted'[i].start = starts /\ starts \in Nat /\ starts' = starts
      BY <1>2, <1>5, <2>1 DEF TypeInv, StoreTypeOK
    <3> QED BY <1>7, <2>1, <3>1
  <2>2. CASE i # N
    BY <1>0, <1>2, <1>3, <1>5, <1>6, <2>2 DEF OfThisServer
  <2> QED BY <2>1, <2>2
<1>9. NonceOnce'
  <2> SUFFICES ASSUME NEW i \in 1 .. N, NEW j \in 1 .. N, i < j,
                      accepted'[i].token = accepted'[j].token,
                      accepted'[i].nonce = accepted'[j].nonce,
                      accepted'[i].start = accepted'[j].start
               PROVE  accepted'[j].at >= accepted'[i].expires - accepted'[i].delay
    BY <1>2 DEF NonceOnce
  <2>1. i \in 1 .. Len(accepted) /\ accepted'[i] = accepted[i]
    BY <1>0, <1>2
  <2>2. CASE j = N
    BY <1>2, <1>4, <1>5, <2>1, <2>2 DEF Key, OfThisServer, Until
  <2>3. CASE j # N
    BY <1>0, <1>2, <2>1, <2>3 DEF NonceInv, NonceOnce
  <2> QED BY <2>2, <2>3
<1> QED BY <1>8, <1>9 DEF NonceInv

LEMMA NonceStep == TypeInv /\ NonceInv /\ [StoreNext]_storeVars => NonceInv'
<1> SUFFICES ASSUME TypeInv, NonceInv, [StoreNext]_storeVars PROVE NonceInv'
  OBVIOUS
<1>0. now \in Nat /\ starts \in Nat /\ accepted \in Seq(Acceptance)
  BY DEF TypeInv, StoreTypeOK
<1>1. CASE Tick
  BY <1>0, <1>1, NonceUntouched DEF Tick, validatorVars
<1>2. ASSUME NEW c \in Cmd,
             \/ \E t \in Token : RevokeToken(c, t) \/ \E ttl \in TTL : GenToken(c, t, ttl)
             \/ Truncate(c) \/ Write(c) \/ CommandDies(c)
      PROVE  NonceInv'
  <2>1. UNCHANGED <<now, validatorVars, accepted>>
    BY <1>2 DEF RevokeToken, GenToken, Begin, Truncate, Write, CommandDies
  <2> QED BY <1>0, <2>1, NonceUntouched DEF validatorVars
<1>3. CASE ServerStarts
  \* The new server is none that has accepted anything.
  <2>1. ASSUME NEW i \in 1 .. Len(accepted)
        PROVE  accepted[i].start <= starts' /\ accepted[i].start # starts'
    <3>1. accepted[i] \in Acceptance
      BY <1>0
    <3>2. accepted[i].start \in Nat /\ accepted[i].start <= starts
      BY <3>1 DEF Acceptance, NonceInv
    <3> QED BY <1>0, <1>3, <3>2 DEF ServerStarts
  <2> QED BY <1>3, <2>1 DEF ServerStarts, NonceInv, NonceOnce, OfThisServer
<1>4. CASE ServerStops
  BY <1>4 DEF ServerStops, NonceInv, NonceOnce, OfThisServer
<1>5. ASSUME NEW t \in Token, NEW n \in Nonce, NEW later \in now .. MaxTime,
             Validate(t, n, later)
      PROVE  NonceInv'
  BY <1>5, NonceValidate
<1>6. CASE UNCHANGED storeVars
  BY <1>0, <1>6, NonceUntouched DEF storeVars, validatorVars
<1> QED BY <1>1, <1>2, <1>3, <1>4, <1>5, <1>6 DEF StoreNext

\* A running server accepts a nonce of a token once, until the entry in its
\* replay cache ends, however many sessions and replays come in between
\* (token.go:60-84).
THEOREM NoncesAreAcceptedOnce == StoreSpec => []NonceOnce
<1>1. StoreInit => TypeInv /\ NonceInv
  BY TypeInit, NonceInit
<1>2. TypeInv /\ NonceInv /\ [StoreNext]_storeVars => (TypeInv /\ NonceInv)'
  BY TypeStep, NonceStep
<1>3. NonceInv => NonceOnce
  BY DEF NonceInv
<1> QED BY <1>1, <1>2, <1>3, PTL DEF StoreSpec

-----------------------------------------------------------------------------
(* What was reported is in the file *)

\* A table that misses nothing reported to a user.
Keeps(table) ==
    /\ issued \union revoked \subseteq DOMAIN table
    /\ \A t \in revoked : table[t].revoked

\* What the command in slot c is about to report is in its copy.
CarriesOut(c) ==
    /\ op[c].ids \subseteq DOMAIN copy[c]
    /\ op[c].name = "revoke" => \A t \in op[c].ids : copy[c][t].revoked

\* FileKeepsWhatWasReported is not inductive: it says nothing of the copies,
\* which are all there is of the list between a truncation and the write.  As
\* long as commands have not overlapped, one runs at most, its copy misses
\* nothing, and the file is torn exactly since that command truncated it, or
\* since one died that had.
FileInv ==
    ~overlapped =>
      /\ \A c, d \in Running : c = d
      /\ file.state # "torn" => Keeps(file.table)
      /\ \A c \in Running :
           /\ pc[c] = "truncate" <=> file.state # "torn"
           /\ Keeps(copy[c]) /\ CarriesOut(c)

LEMMA FileInit == StoreInit => FileInv
BY EmptyIsTable DEF StoreInit, FileInv, Keeps, Absent, Running

\* A command begins alone, with a copy that keeps and carries out.
LEMMA FileBegin ==
    ASSUME TypeInv, FileInv, NEW c \in Cmd, NEW name \in {"gen", "revoke"}, NEW t \in Token,
           NEW table, Begin(c, name, t, table), file.state # "torn",
           Keeps(file.table) => Keeps(table),
           t \in DOMAIN table, name = "revoke" => table[t].revoked
    PROVE  FileInv'
<1> SUFFICES ASSUME ~overlapped' PROVE FileInv'
  BY DEF FileInv
<1>1. /\ pc' = [pc EXCEPT ![c] = "truncate"]
      /\ op' = [op EXCEPT ![c] = [name |-> name, ids |-> {t}]]
      /\ copy' = [copy EXCEPT ![c] = table]
      /\ UNCHANGED <<file, issued, revoked>>
  BY DEF Begin
<1>2. ~overlapped /\ Running = {}
  BY DEF Begin
<1>3. pc \in [Cmd -> {"idle", "truncate", "write"}] /\ DOMAIN op = Cmd /\ DOMAIN copy = Cmd
  BY DEF TypeInv, StoreTypeOK
<1>4. Running' = {c} /\ pc'[c] = "truncate"
  BY <1>1, <1>2, <1>3 DEF Running
<1>5. Keeps(table) /\ Keeps(file.table)
  BY <1>2 DEF FileInv
<1>6. /\ op'[c].name = name /\ op'[c].ids = {t} /\ copy'[c] = table
  BY <1>1, <1>3
<1>7. Keeps(copy[c])' /\ CarriesOut(c)'
  BY <1>1, <1>5, <1>6 DEF Keeps, CarriesOut
<1>8. Keeps(file.table)'
  BY <1>1, <1>5 DEF Keeps
<1> QED BY <1>1, <1>4, <1>7, <1>8 DEF FileInv

\* The only command that ran has ended: nobody runs, and the file that is left
\* misses nothing of what is reported now.
LEMMA FileEnd ==
    ASSUME TypeInv, FileInv, NEW c \in Cmd, pc[c] # "idle",
           pc' = [pc EXCEPT ![c] = "idle"], UNCHANGED overlapped,
           ~overlapped /\ file'.state # "torn" => Keeps(file.table)'
    PROVE  FileInv'
<1> SUFFICES ASSUME ~overlapped PROVE FileInv'
  BY DEF FileInv
<1>1. pc \in [Cmd -> {"idle", "truncate", "write"}]
  BY DEF TypeInv, StoreTypeOK
<1>2. Running = {c}
  BY DEF FileInv, Running
<1>3. Running' = {}
  BY <1>1, <1>2 DEF Running
<1> QED BY <1>3 DEF FileInv

LEMMA FileStep == TypeInv /\ FileInv /\ [StoreNext]_storeVars => FileInv'
<1> SUFFICES ASSUME TypeInv, FileInv, [StoreNext]_storeVars PROVE FileInv'
  OBVIOUS
<1>1. CASE UNCHANGED <<file, commandVars>>
  BY <1>1 DEF FileInv, Keeps, CarriesOut, Running, commandVars
<1>2. ASSUME NEW c \in Cmd, NEW t \in Token, RevokeToken(c, t) PROVE FileInv'
  <2> DEFINE table == [file.table EXCEPT ![t].revoked = TRUE]
  <2>1. t \in DOMAIN file.table /\ IsTable(file.table)
    BY <1>2 DEF RevokeToken, TypeInv, StoreTypeOK
  <2>2. DOMAIN table = DOMAIN file.table
    OBVIOUS
  <2>3. \A u \in DOMAIN file.table : table[u].revoked = (u = t \/ file.table[u].revoked)
    BY <2>1 DEF IsTable, Record
  <2>4. Begin(c, "revoke", t, table) /\ file.state # "torn"
    BY <1>2 DEF RevokeToken, Readable
  <2> HIDE DEF table
  <2>5. Keeps(file.table) => Keeps(table)
    BY <2>2, <2>3 DEF Keeps
  <2> QED BY <2>1, <2>2, <2>3, <2>4, <2>5, FileBegin
<1>3. ASSUME NEW c \in Cmd, NEW t \in Token, NEW ttl \in TTL, GenToken(c, t, ttl)
      PROVE  FileInv'
  <2> DEFINE rec == [expires |-> now + ttl, revoked |-> FALSE]
             table == With(file.table, t, rec)
  <2>1. DOMAIN table = DOMAIN file.table \union {t}
    BY DEF With
  \* A token just drawn has never been revoked.
  <2>2. t \notin DOMAIN file.table
    BY <1>3 DEF GenToken, TypeInv, OnlyDrawn
  <2>3. \A u \in DOMAIN file.table : table[u] = file.table[u]
    BY <2>2 DEF With
  <2>4. Begin(c, "gen", t, table) /\ file.state # "torn"
    BY <1>3 DEF GenToken, Readable
  <2> HIDE DEF table
  <2>5. Keeps(file.table) => Keeps(table)
    BY <2>1, <2>3 DEF Keeps
  <2> QED BY <2>1, <2>4, <2>5, FileBegin
<1>4. ASSUME NEW c \in Cmd, Truncate(c) PROVE FileInv'
  <2> SUFFICES ASSUME ~overlapped PROVE FileInv'
    BY <1>4 DEF Truncate, FileInv
  <2>1. pc \in [Cmd -> {"idle", "truncate", "write"}]
    BY DEF TypeInv, StoreTypeOK
  <2>2. /\ pc[c] = "truncate" /\ pc' = [pc EXCEPT ![c] = "write"]
        /\ file'.state = "torn"
        /\ UNCHANGED <<op, copy, issued, revoked, overlapped>>
    BY <1>4 DEF Truncate, Torn
  <2>3. Running = {c}
    BY <2>2 DEF FileInv, Running
  <2>4. Running' = {c} /\ pc'[c] = "write"
    BY <2>1, <2>2, <2>3 DEF Running
  <2>5. Keeps(copy[c])' /\ CarriesOut(c)'
    BY <2>2, <2>3 DEF FileInv, Keeps, CarriesOut
  <2> QED BY <2>2, <2>4, <2>5 DEF FileInv
<1>5. ASSUME NEW c \in Cmd, Write(c) PROVE FileInv'
  <2>1. /\ pc[c] = "write" /\ pc' = [pc EXCEPT ![c] = "idle"]
        /\ file' \in Written(copy[c])
        /\ UNCHANGED overlapped
    BY <1>5 DEF Write
  <2>2. ASSUME ~overlapped PROVE Keeps(file.table)'
    <3>1. c \in Running
      BY <2>1 DEF Running
    <3>2. Keeps(copy[c]) /\ CarriesOut(c) /\ file.state = "torn"
      BY <2>1, <2>2, <3>1 DEF FileInv
    <3>3. file'.table = copy[c]
      BY <2>1, <3>2 DEF Written, Holding
    <3>4. issued' \union revoked' \subseteq issued \union revoked \union op[c].ids
      BY <1>5 DEF Write
    <3>5. revoked' = revoked \/ (op[c].name = "revoke" /\ revoked' = revoked \union op[c].ids)
      BY <1>5 DEF Write
    <3> QED BY <3>2, <3>3, <3>4, <3>5 DEF Keeps, CarriesOut
  <2> QED BY <2>1, <2>2, FileEnd
<1>6. ASSUME NEW c \in Cmd, CommandDies(c) PROVE FileInv'
  <2>1. /\ pc[c] # "idle" /\ pc' = [pc EXCEPT ![c] = "idle"]
        /\ UNCHANGED <<file, issued, revoked, overlapped>>
    BY <1>6 DEF CommandDies
  <2>2. ~overlapped /\ file'.state # "torn" => Keeps(file.table)'
    BY <2>1 DEF FileInv, Keeps
  <2> QED BY <2>1, <2>2, FileEnd
<1>7. CASE Tick \/ ServerStarts \/ ServerStops
  BY <1>1, <1>7 DEF Tick, ServerStarts, ServerStops
<1>8. ASSUME NEW t \in Token, NEW n \in Nonce, NEW later \in now .. MaxTime,
             Validate(t, n, later)
      PROVE  FileInv'
  BY <1>1, <1>8 DEF Validate
<1>9. CASE UNCHANGED storeVars
  BY <1>1, <1>9 DEF storeVars
<1> QED BY <1>2, <1>3, <1>4, <1>5, <1>6, <1>7, <1>8, <1>9 DEF StoreNext

\* A file that parses holds every token gen-token has printed and every
\* revocation revoke-token has reported, whatever commands died on the way, as
\* long as no two have run at the same time (token.go:98-116, 128-141).
THEOREM ReportsReachTheFile == StoreSpec => []FileKeepsWhatWasReported
<1>1. StoreInit => TypeInv /\ FileInv
  BY TypeInit, FileInit
<1>2. TypeInv /\ FileInv /\ [StoreNext]_storeVars => (TypeInv /\ FileInv)'
  BY TypeStep, FileStep
<1>3. FileInv => FileKeepsWhatWasReported
  BY DEF FileInv, Keeps, FileKeepsWhatWasReported
<1> QED BY <1>1, <1>2, <1>3, PTL DEF StoreSpec

-----------------------------------------------------------------------------
(* A revocation survives a restart *)

\* The server has loaded every revocation reported before it started, and has
\* accepted none of those tokens.
ServerInv ==
    ~overlapped =>
      /\ up => \A t \in DOMAIN tokens \intersect revokedAtStart : tokens[t].revoked
      /\ \A i \in 1 .. Len(accepted) : ~accepted[i].revokedAtStart

LEMMA ServerStep == TypeInv /\ FileInv /\ ServerInv /\ [StoreNext]_storeVars => ServerInv'
<1> SUFFICES ASSUME TypeInv, FileInv, ServerInv, [StoreNext]_storeVars PROVE ServerInv'
  OBVIOUS
<1>1. CASE UNCHANGED <<overlapped, validatorVars, accepted>>
  BY <1>1 DEF ServerInv, validatorVars
<1>2. ASSUME NEW c \in Cmd,
             \/ \E t \in Token : RevokeToken(c, t) \/ \E ttl \in TTL : GenToken(c, t, ttl)
             \/ Truncate(c) \/ Write(c) \/ CommandDies(c)
      PROVE  ServerInv'
  <2>1. UNCHANGED <<validatorVars, accepted>>
    BY <1>2 DEF RevokeToken, GenToken, Begin, Truncate, Write, CommandDies
  <2>2. overlapped => overlapped'
    BY <1>2 DEF RevokeToken, GenToken, Begin, Truncate, Write, CommandDies
  <2> QED BY <2>1, <2>2 DEF ServerInv, validatorVars
<1>3. CASE ServerStarts
  <2>1. /\ file.state # "torn" /\ tokens' = file.table /\ revokedAtStart' = revoked
        /\ UNCHANGED <<overlapped, accepted>>
    BY <1>3 DEF ServerStarts, Readable, commandVars
  <2> QED BY <2>1 DEF ServerInv, FileInv, Keeps
<1>4. CASE ServerStops
  BY <1>4 DEF ServerStops, ServerInv, commandVars
<1>5. ASSUME NEW t \in Token, NEW n \in Nonce, NEW later \in now .. MaxTime,
             Validate(t, n, later)
      PROVE  ServerInv'
  <2> SUFFICES ASSUME ~overlapped PROVE ServerInv'
    BY <1>5 DEF Validate, commandVars, ServerInv
  <2>1. /\ UNCHANGED <<overlapped, up, tokens, revokedAtStart>>
        /\ up /\ t \in DOMAIN tokens /\ ~tokens[t].revoked
    BY <1>5 DEF Validate, commandVars, Usable
  <2>2. t \notin revokedAtStart
    BY <2>1 DEF ServerInv
  <2>3. \A i \in 1 .. Len(accepted') : ~accepted'[i].revokedAtStart
    <3> DEFINE a == [token |-> t, nonce |-> n, at |-> now, delay |-> later - now,
                     expires |-> tokens[t].expires, start |-> starts,
                     revoked |-> t \in revoked, revokedAtStart |-> t \in revokedAtStart]
    <3>1. accepted' = Append(accepted, a) /\ accepted \in Seq(Acceptance)
      BY <1>5 DEF Validate, TypeInv, StoreTypeOK
    <3>2. ~a.revokedAtStart
      BY <2>2
    <3> HIDE DEF a
    <3>3. \A i \in 1 .. Len(accepted') :
            (i \in 1 .. Len(accepted) /\ accepted'[i] = accepted[i]) \/ accepted'[i] = a
      BY <3>1
    <3> QED BY <3>2, <3>3 DEF ServerInv
  <2> QED BY <2>1, <2>3 DEF ServerInv
<1>6. CASE Tick \/ UNCHANGED storeVars
  BY <1>1, <1>6 DEF Tick, storeVars, commandVars
<1> QED BY <1>2, <1>3, <1>4, <1>5, <1>6 DEF StoreNext

\* A server never accepts a token whose revocation was reported before it
\* started, through commands, crashes and restarts, as long as no two commands
\* have run at the same time (token.go:34-58, 86-96, 128-141).
THEOREM RevocationsSurvive == StoreSpec => []RevocationSurvivesRestart
<1>1. StoreInit => TypeInv /\ FileInv /\ ServerInv
  BY TypeInit, FileInit DEF StoreInit, ServerInv
<1>2. TypeInv /\ FileInv /\ ServerInv /\ [StoreNext]_storeVars => (TypeInv /\ FileInv /\ ServerInv)'
  BY TypeStep, FileStep, ServerStep
<1>3. ServerInv => RevocationSurvivesRestart
  BY DEF ServerInv, RevocationSurvivesRestart
<1> QED BY <1>1, <1>2, <1>3, PTL DEF StoreSpec
=============================================================================
