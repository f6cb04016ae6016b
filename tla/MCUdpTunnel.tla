---------------------------- MODULE MCUdpTunnel -----------------------------
(* UdpTunnel with two remotes and two channels, one of which may be given up. *)
EXTENDS UdpTunnel, TLC

CONSTANTS c1, c2

TwoChannels == {c1, c2}
Remotes == {1, 2}
Symmetric == Permutations(TwoChannels)
=============================================================================
