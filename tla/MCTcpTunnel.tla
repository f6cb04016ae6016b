---------------------------- MODULE MCTcpTunnel -----------------------------
(* TcpTunnel with a few channels and short queues.                           *)
EXTENDS TcpTunnel, TLC

CONSTANTS c1, c2

OneChannel == {c1}
TwoChannels == {c1, c2}
Symmetric == Permutations(TwoChannels)
=============================================================================
