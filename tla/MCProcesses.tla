---------------------------- MODULE MCProcesses -----------------------------
(* Two runs of slppd, one after the other or at once, one of slppc in each of *)
(* its modes, and a connection to its listener.                               *)
EXTENDS ClientProcess

AllModes == {"connect", "socks5", "caller"}
Command == {"socks5"}
=============================================================================
