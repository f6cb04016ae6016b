---------------------------- MODULE MCParts ---------------------------------
(* Five parts of the program that share no state, in one run: a behaviour is  *)
(* one of a part of its choice while the others rest.  Only the stream can go *)
(* on for ever, and must; the others end when their bounds are used up.       *)
(*                                                                            *)
(* Stream: a ring of three slots against a bound of 4 bytes, so that both     *)
(* bounds bite, apart and together, and the ring wraps.  A payload can be cut *)
(* in the middle; one frame is too long for the codec and one has a type it   *)
(* does not know.  Wheel: a key that is scheduled again, and two tasks due in *)
(* one round.  Reassembly: chunks of 2 bytes, datagrams of none, of two whole *)
(* chunks and of three, and more datagrams than IDs.  Expiry: a clock that    *)
(* wraps twice, and a server's clock that is right, ahead or behind.  Socks:  *)
(* an address of each form, two that are IPv4 addresses in another one, a     *)
(* short name, and two datagrams cut anywhere.                                *)
EXTENDS FrameStream, TimerWheel, Reassembly, Expiry, SocksAddress

CONSTANTS empty, odd, small, large

VARIABLE part

MCFrames == {empty, odd, small, large}
MCKnown == {empty, small, large}
MCSize == [f \in MCFrames |-> CASE f \in {empty, odd} -> 0 [] f = small -> 2 [] f = large -> 3]
MCSkew == {-9, -3, 0, 2, 5}

Host4 == <<1, 2, 3, 4>>
HostDotted == <<49, 46, 50, 46, 51, 46, 52>>
Host6 == <<253, 0, 0, 0, 0, 0, 0, 0, 0, 0, 0, 0, 0, 0, 0, 1>>
HostMapped == <<0, 0, 0, 0, 0, 0, 0, 0, 0, 0, 255, 255>> \o Host4
MCTarget ==
    {[atyp |-> h[1], host |-> h[2], port |-> <<1, 187>>] :
        h \in {<<1, Host4>>, <<3, HostDotted>>, <<3, <<97>>>>, <<4, Host6>>, <<4, HostMapped>>}}
MCDotted == [h \in {HostDotted} |-> Host4]
MCData == {<< >>, <<7, 8, 9>>}

partVars == <<queueVars, streamVars, wheelVars, reassemblyVars, expiryVars, socksVars, part>>

PartsInit ==
    /\ StreamInit /\ WheelInit /\ ReassemblyInit /\ ExpiryInit /\ SocksInit
    /\ part \in {"stream", "wheel", "reassembly", "expiry", "socks"}
    /\ part # "expiry" => skew = 0

StreamPart ==
    /\ part = "stream" /\ StreamNext
    /\ UNCHANGED <<wheelVars, reassemblyVars, expiryVars, socksVars, part>>

WheelPart ==
    /\ part = "wheel" /\ WheelNext
    /\ UNCHANGED <<queueVars, streamVars, reassemblyVars, expiryVars, socksVars, part>>

ReassemblyPart ==
    /\ part = "reassembly" /\ ReassemblyNext
    /\ UNCHANGED <<queueVars, streamVars, wheelVars, expiryVars, socksVars, part>>

ExpiryPart ==
    /\ part = "expiry" /\ ExpiryNext
    /\ UNCHANGED <<queueVars, streamVars, wheelVars, reassemblyVars, socksVars, part>>

SocksPart ==
    /\ part = "socks" /\ SocksNext
    /\ UNCHANGED <<queueVars, streamVars, wheelVars, reassemblyVars, expiryVars, part>>

Rest == part # "stream" /\ UNCHANGED partVars

PartsNext == StreamPart \/ WheelPart \/ ReassemblyPart \/ ExpiryPart \/ SocksPart \/ Rest

PartsSpec ==
    /\ PartsInit /\ [][PartsNext]_partVars
    /\ part = "wheel" => WheelFairness
=============================================================================
