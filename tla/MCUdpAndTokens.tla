--------------------------- MODULE MCUdpAndTokens ---------------------------
(* Two parts of the program that share no state, in one run: a behaviour is  *)
(* one of a part of its choice while the other rests.                        *)
(*                                                                           *)
(* Udp: two remotes and two channels, one of which may be given up.  Tokens: *)
(* two tokens, two nonces and commands that overlap.                         *)
EXTENDS MCUdpTunnel, TokenStore

CONSTANTS t1, t2, n1, n2, cmd1, cmd2

VARIABLE part

MCToken == {t1, t2}
MCNonce == {n1, n2}
MCCmd == {cmd1, cmd2}
MCTTL == {2}
EitherSymmetric ==
    Permutations(TwoChannels) \union Permutations(MCToken) \union Permutations(MCNonce)
    \union Permutations(MCCmd)

EitherInit == Init /\ StoreInit /\ part \in {"udp", "tokens"}

EitherNext ==
    \/ part = "udp" /\ Next /\ UNCHANGED <<storeVars, part>>
    \/ part = "tokens" /\ StoreNext /\ UNCHANGED <<vars, part>>

EitherSpec == EitherInit /\ [][EitherNext]_<<vars, storeVars, part>>
=============================================================================
