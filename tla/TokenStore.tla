----------------------------- MODULE TokenStore -----------------------------
(***************************************************************************)
(* Tokens: auth.Store (internal/auth/token.go) in the processes that use   *)
(* it (cmd/slppd/main.go).  A server loads the token file once, when it    *)
(* starts, and validates from memory; gen-token and revoke-token are       *)
(* processes of their own, which load the file, change their copy and      *)
(* write it back, with nothing that keeps them apart.                      *)
(*                                                                         *)
(* os.WriteFile is a truncation and then a write; a process may be killed  *)
(* between any two steps.  A record is its expiry and its Revoked flag;    *)
(* its ID and its Token, random strings, are one value.                    *)
(***************************************************************************)
EXTENDS Integers, Sequences, FiniteSets

CONSTANTS
    Token,        \* the tokens gen-token may draw, each drawn once
    Nonce,        \* the nonces of AUTH frames
    Cmd,          \* slots for commands that run at the same time
    TTL,          \* the lifetimes given to gen-token
    MaxTime,      \* bound of the model: the clock
    MaxCommands,  \* bound of the model: commands run in all
    MaxStarts,    \* bound of the model: server starts
    MaxSessions   \* bound of the model: AUTH frames accepted

ASSUME TimeAssumption == MaxTime \in Nat /\ TTL \subseteq Nat
ASSUME StoreBoundAssumption == MaxCommands \in Nat /\ MaxStarts \in Nat /\ MaxSessions \in Nat

VARIABLES
    now,         \* the clock of the machine
    file,        \* the token file
    drawn,       \* the tokens gen-token has drawn
    pc,          \* pc[c]: "idle", "truncate" or "write"
    op,          \* op[c]: the command that runs in slot c
    copy,        \* copy[c]: the tokens of that process's Store
    commands,    \* commands run so far
    issued,      \* tokens gen-token has printed
    revoked,     \* tokens revoke-token has reported as revoked
    overlapped,  \* two commands have run at the same time
    up,          \* the server is running
    starts,      \* how often it has been started
    tokens,      \* s.tokens of the running server
    replay,      \* s.replay of the running server
    revokedAtStart,  \* revoked, when this server started
    accepted     \* the AUTH frames accepted, in order

commandVars == <<drawn, pc, op, copy, commands, issued, revoked, overlapped>>
validatorVars == <<up, starts, tokens, replay, revokedAtStart>>
storeVars == <<now, file, commandVars, validatorVars, accepted>>

Record == [expires : Nat, revoked : BOOLEAN]
IsTable(f) == DOMAIN f \subseteq Token /\ \A t \in DOMAIN f : f[t] \in Record
EmptyTable == [t \in {} |-> [expires |-> 0, revoked |-> FALSE]]

\* The file: absent, not JSON (empty after a truncation, or mixed up), or a list.
Absent == [state |-> "absent", table |-> EmptyTable]
Torn == [state |-> "torn", table |-> EmptyTable]
Holding(table) == [state |-> "list", table |-> table]

NoOp == [name |-> "none", ids |-> {}]

StoreInit ==
    /\ now = 0 /\ file = Absent /\ drawn = {}
    /\ pc = [c \in Cmd |-> "idle"] /\ op = [c \in Cmd |-> NoOp]
    /\ copy = [c \in Cmd |-> EmptyTable]
    /\ commands = 0 /\ issued = {} /\ revoked = {} /\ overlapped = FALSE
    /\ up = FALSE /\ starts = 0 /\ tokens = EmptyTable /\ replay = << >>
    /\ revokedAtStart = {} /\ accepted = << >>

Tick ==
    /\ now < MaxTime
    /\ now' = now + 1
    /\ UNCHANGED <<file, commandVars, validatorVars, accepted>>

-----------------------------------------------------------------------------
(* The commands *)

\* Mutant: NewStore takes an empty file for an empty list.
MutReadable == TRUE

\* NewStore succeeds unless the file does not parse.
Readable == file.state # "torn"

Running == {c \in Cmd : pc[c] # "idle"}

\* A command loads the file, which fails if it does not parse, and has its
\* changed copy ready to be flushed.
Begin(c, name, t, table) ==
    /\ pc[c] = "idle" /\ commands < MaxCommands
    /\ commands' = commands + 1
    /\ pc' = [pc EXCEPT ![c] = "truncate"]
    /\ op' = [op EXCEPT ![c] = [name |-> name, ids |-> {t}]]
    /\ copy' = [copy EXCEPT ![c] = table]
    /\ overlapped' = (overlapped \/ Running # {})
    /\ UNCHANGED <<now, file, issued, revoked, validatorVars, accepted>>

With(table, t, rec) ==
    [u \in DOMAIN table \union {t} |-> IF u = t THEN rec ELSE table[u]]

GenToken(c, t, ttl) ==
    /\ Readable /\ t \notin drawn
    /\ Begin(c, "gen", t, With(file.table, t, [expires |-> now + ttl, revoked |-> FALSE]))
    /\ drawn' = drawn \union {t}

\* Mutant: Revoke of an unknown ID makes a record of it.
MutRevokeToken(c, t) ==
    /\ Readable
    /\ Begin(c, "revoke", t, With(file.table, t, [expires |-> 0, revoked |-> TRUE]))
    /\ UNCHANGED drawn

\* Revoke of an unknown ID is an error and writes nothing.
RevokeToken(c, t) ==
    /\ Readable /\ t \in DOMAIN file.table
    /\ Begin(c, "revoke", t, [file.table EXCEPT ![t].revoked = TRUE])
    /\ UNCHANGED drawn

\* os.WriteFile opens the file with O_TRUNC ...
Truncate(c) ==
    /\ pc[c] = "truncate"
    /\ file' = Torn
    /\ pc' = [pc EXCEPT ![c] = "write"]
    /\ UNCHANGED <<now, drawn, op, copy, commands, issued, revoked, overlapped,
                   validatorVars, accepted>>

\* ... and writes from offset 0.  What another command has written since the
\* truncation is overwritten, and its end stays if it was longer.
Written(table) ==
    IF file.state = "list" /\ file.table # table
       /\ Cardinality(DOMAIN table) <= Cardinality(DOMAIN file.table)
    THEN {Holding(table), Torn}
    ELSE {Holding(table)}

\* Mutant: Revoked is left out of what is written.
MutWrite(c) ==
    /\ pc[c] = "write"
    /\ file' \in Written([t \in DOMAIN copy[c] |-> [copy[c][t] EXCEPT !.revoked = FALSE]])
    /\ pc' = [pc EXCEPT ![c] = "idle"]
    /\ issued' = IF op[c].name = "gen" THEN issued \union op[c].ids ELSE issued
    /\ revoked' = IF op[c].name = "revoke" THEN revoked \union op[c].ids ELSE revoked
    /\ op' = [op EXCEPT ![c] = NoOp]
    /\ copy' = [copy EXCEPT ![c] = EmptyTable]
    /\ UNCHANGED <<now, drawn, commands, overlapped, validatorVars, accepted>>

\* The command then reports its result and ends.
Write(c) ==
    /\ pc[c] = "write"
    /\ file' \in Written(copy[c])
    /\ pc' = [pc EXCEPT ![c] = "idle"]
    /\ issued' = IF op[c].name = "gen" THEN issued \union op[c].ids ELSE issued
    /\ revoked' = IF op[c].name = "revoke" THEN revoked \union op[c].ids ELSE revoked
    /\ op' = [op EXCEPT ![c] = NoOp]
    /\ copy' = [copy EXCEPT ![c] = EmptyTable]
    /\ UNCHANGED <<now, drawn, commands, overlapped, validatorVars, accepted>>

\* The process is killed, or the machine stops: a file truncated stays so.
CommandDies(c) ==
    /\ pc[c] # "idle"
    /\ pc' = [pc EXCEPT ![c] = "idle"]
    /\ op' = [op EXCEPT ![c] = NoOp]
    /\ copy' = [copy EXCEPT ![c] = EmptyTable]
    /\ UNCHANGED <<now, file, drawn, commands, issued, revoked, overlapped,
                   validatorVars, accepted>>

-----------------------------------------------------------------------------
(* The server *)

\* runServerMain loads the file; it gives up if the file does not parse.
ServerStarts ==
    /\ ~up /\ starts < MaxStarts /\ Readable
    /\ up' = TRUE
    /\ starts' = starts + 1
    /\ tokens' = file.table
    /\ replay' = << >>
    /\ revokedAtStart' = revoked
    /\ UNCHANGED <<now, file, commandVars, accepted>>

\* It is stopped, or crashes: what is in memory is gone.
ServerStops ==
    /\ up
    /\ up' = FALSE
    /\ tokens' = EmptyTable
    /\ replay' = << >>
    /\ UNCHANGED <<now, file, commandVars, starts, revokedAtStart, accepted>>

\* Mutant: an entry of replay expires with the clock, not with the token.
MutReplayExpiry(t, later) == later

\* now.Add(time.Until(ExpiresAt)): time.Until reads the clock again.
ReplayExpiry(t, later) == now + (tokens[t].expires - later)

Usable(t) == ~tokens[t].revoked /\ now <= tokens[t].expires

\* An entry of replay counts while its expiry is after now.
Replayed(key) == key \in DOMAIN replay /\ replay[key] > now

\* Validate accepts the token t with nonce n; a refusal changes nothing.  The
\* lock makes it one step, in which the clock goes from now to later.
Validate(t, n, later) ==
    /\ up /\ Len(accepted) < MaxSessions
    /\ t \in DOMAIN tokens /\ Usable(t) /\ ~Replayed(<<t, n>>)
    /\ replay' = [k \in DOMAIN replay \union {<<t, n>>} |->
                    IF k = <<t, n>> THEN ReplayExpiry(t, later) ELSE replay[k]]
    /\ accepted' = Append(accepted,
         [token |-> t, nonce |-> n, at |-> now, delay |-> later - now,
          expires |-> tokens[t].expires, start |-> starts,
          revoked |-> t \in revoked, revokedAtStart |-> t \in revokedAtStart])
    /\ now' = later
    /\ UNCHANGED <<file, commandVars, up, starts, tokens, revokedAtStart>>

StoreNext ==
    \/ Tick
    \/ \E c \in Cmd :
         \/ \E t \in Token : RevokeToken(c, t) \/ \E ttl \in TTL : GenToken(c, t, ttl)
         \/ Truncate(c) \/ Write(c) \/ CommandDies(c)
    \/ ServerStarts \/ ServerStops
    \/ \E t \in Token, n \in Nonce, later \in now .. MaxTime : Validate(t, n, later)

StoreSpec == StoreInit /\ [][StoreNext]_storeVars

-----------------------------------------------------------------------------
(* Properties *)

Acceptance ==
    [token : Token, nonce : Nonce, at : Nat, delay : Nat, expires : Nat, start : Nat,
     revoked : BOOLEAN, revokedAtStart : BOOLEAN]

\* The file, the commands and the store keep to their types, and the server and
\* the commands know only tokens that have been drawn.
StoreTypeOK ==
    /\ now \in Nat
    /\ file.state \in {"absent", "torn", "list"} /\ IsTable(file.table)
    /\ drawn \subseteq Token /\ issued \subseteq Token /\ revoked \subseteq Token
    /\ pc \in [Cmd -> {"idle", "truncate", "write"}]
    /\ op \in [Cmd -> [name : {"none", "gen", "revoke"}, ids : SUBSET Token]]
    /\ DOMAIN copy = Cmd
    /\ \A c \in Cmd : IsTable(copy[c]) /\ op[c].ids \subseteq drawn
    /\ commands \in Nat /\ starts \in Nat
    /\ overlapped \in BOOLEAN /\ up \in BOOLEAN
    /\ IsTable(tokens) /\ DOMAIN tokens \subseteq drawn
    /\ DOMAIN replay \subseteq Token \X Nonce
    /\ \A key \in DOMAIN replay : replay[key] \in Int
    /\ revokedAtStart \subseteq Token
    /\ accepted \in Seq(Acceptance)

\* A server accepts a nonce of a token once, until the entry in its replay cache
\* ends: at the expiry of the token less what passed between the two times
\* Validate read the clock.  Nothing else in a long run of the server, neither
\* other sessions nor a replay accepted in that last moment, brings an earlier
\* second acceptance (token.go:63, 75, 78-82).
NonceOnce ==
    \A i, j \in 1 .. Len(accepted) :
      ( /\ i < j
        /\ accepted[i].token = accepted[j].token /\ accepted[i].nonce = accepted[j].nonce
        /\ accepted[i].start = accepted[j].start )
        => accepted[j].at >= accepted[i].expires - accepted[i].delay

\* As long as no two commands have run at the same time, a server that starts
\* after revoke-token has reported a revocation never accepts the token,
\* whatever commands and crashes came in between (token.go:34-58, 86-96,
\* 128-141, cmd/slppd/main.go:236-245).
RevocationSurvivesRestart ==
    ~overlapped => \A i \in 1 .. Len(accepted) : ~accepted[i].revokedAtStart

\* As long as no two commands have run at the same time, a file that parses
\* holds every token that gen-token has printed and every revocation reported:
\* a command that dies leaves the old list or no list, never a shorter one
\* (token.go:98-116, 128-141).
FileKeepsWhatWasReported ==
    (~overlapped /\ file.state = "list") =>
      /\ issued \subseteq DOMAIN file.table
      /\ \A t \in revoked : file.table[t].revoked
=============================================================================
