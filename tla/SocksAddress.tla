---------------------------- MODULE SocksAddress ----------------------------
(***************************************************************************)
(* The addresses of SOCKS requests and datagrams (cmd/slppc/main.go):      *)
(* readSocksAddr takes one off the front of a connection, readPacketAddr   *)
(* finds one in a datagram, encodeSocksUDPDatagram writes one before an    *)
(* answer.  An association reads all its datagrams into one buffer, each   *)
(* over what is left of the others.                                        *)
(*                                                                         *)
(* A packet is a sequence of bytes.  The text of a host is what the code   *)
(* holds between reading and writing: an address, or a name.               *)
(***************************************************************************)
EXTENDS Integers, Sequences

CONSTANTS
    Target,        \* the addresses applications ask for: atyp, host and port
    Data,          \* what they send after them
    MaxLocal,      \* MaxLocalUDPDatagram
    Dotted,        \* the dotted names that are addresses, and which
    MaxReceived    \* bound of the model: datagrams received

Octets == Seq(0 .. 255)

\* An address has the form RFC 1928 gives it; a name has at most 255 bytes.
ASSUME SocksAssumption ==
    /\ Target \subseteq [atyp : {1, 3, 4}, host : Octets, port : Octets]
    /\ \A t \in Target :
         /\ t.atyp = 1 => Len(t.host) = 4
         /\ t.atyp = 3 => Len(t.host) \in 0 .. 255
         /\ t.atyp = 4 => Len(t.host) = 16
         /\ Len(t.port) = 2
    /\ Data \subseteq Octets
    /\ \A name \in DOMAIN Dotted : Dotted[name] \in Octets /\ Len(Dotted[name]) = 4
    /\ MaxLocal \in Nat /\ MaxReceived \in Nat

VARIABLES
    buf,       \* handleUDPAssociate: the buffer
    received,  \* how many datagrams it has received
    given,     \* the last one: target, data, and how many of its bytes came
    read,      \* what became of it
    request    \* the last CONNECT: target, data, and what readSocksAddr made of them

socksVars == <<buf, received, given, read, request>>

IPv4 == 1  \* the values of atyp
Name == 3
IPv6 == 4

Mapped(host) == SubSeq(host, 1, 12) = <<0, 0, 0, 0, 0, 0, 0, 0, 0, 0, 255, 255>>

\* net.IP.String and a name's string: an IPv4 address may come as one of three.
Text(atyp, host) ==
    CASE atyp = IPv6 /\ Mapped(host) -> [kind |-> IPv4, host |-> SubSeq(host, 13, 16)]
      [] atyp = Name /\ host \in DOMAIN Dotted -> [kind |-> IPv4, host |-> Dotted[host]]
      [] OTHER -> [kind |-> atyp, host |-> host]

\* An address as an application writes it.
Written(t) ==
    <<t.atyp>> \o (IF t.atyp = Name THEN <<Len(t.host)>> ELSE << >>) \o t.host \o t.port

\* What the application means by it.
Meant(t) == [text |-> Text(t.atyp, t.host), port |-> t.port]

-----------------------------------------------------------------------------
(* Reading *)

Nothing == [n |-> 0, addr |-> << >>]

\* Where the host begins, and the length of the host.
HostAt(atyp) == IF atyp = Name THEN 3 ELSE 2
HostLen(p) == CASE p[1] = IPv4 -> 4 [] p[1] = IPv6 -> 16 [] p[1] = Name -> p[2]

\* readPacketAddr: the address at the front of p, and how many bytes it takes.
ReadPacketAddr(p) ==
    IF p = << >> \/ p[1] \notin {IPv4, Name, IPv6} \/ (p[1] = Name /\ Len(p) < 2)
    THEN Nothing
    ELSE LET from == HostAt(p[1])
             end == from + HostLen(p) - 1
         IN IF Len(p) < end + 2
            THEN Nothing
            ELSE [n |-> end + 2,
                  addr |-> [text |-> Text(p[1], SubSeq(p, from, end)),
                            port |-> SubSeq(p, end + 1, end + 2)]]

Dropped == [addr |-> << >>, payload |-> << >>]

Prefix(s, n) == SubSeq(s, 1, IF n < Len(s) THEN n ELSE Len(s))

\* Mutant: the address is looked for in the whole buffer.
MutReadDatagram(b, n) ==
    LET found == ReadPacketAddr(SubSeq(b, 4, Len(b))) IN
      IF n < 10 \/ found.n = 0 \/ 3 + found.n > n
      THEN Dropped
      ELSE [addr |-> found.addr, payload |-> Prefix(SubSeq(b, 3 + found.n + 1, Len(b)), MaxLocal)]

\* The loop body of handleUDPAssociate, on the n bytes received: three bytes
\* nobody looks at, an address and the payload.
ReadDatagram(b, n) ==
    LET found == ReadPacketAddr(SubSeq(b, 4, n)) IN
      IF n < 10 \/ found.n = 0 \/ 3 + found.n > n
      THEN Dropped
      ELSE [addr |-> found.addr, payload |-> Prefix(SubSeq(b, 3 + found.n + 1, n), MaxLocal)]

\* readSocksAddr reads as far as the address goes: the address, the bytes that
\* are repeated in the reply, and what is left on the connection.
ReadSocksAddr(s) ==
    LET n == ReadPacketAddr(s).n IN
      [addr |-> ReadPacketAddr(s).addr, raw |-> SubSeq(s, 1, n), left |-> SubSeq(s, n + 1, Len(s))]

-----------------------------------------------------------------------------
(* Writing *)

\* encodeSocksUDPDatagram, of an address that readPacketAddr has returned.  Its
\* three errors are left out, for such an address meets none: the port is the
\* decimal of 16 bits, a name has at most the 255 bytes that its length byte can
\* count, and an address that does not split into host and port (a name with a
\* bracket) is refused with OPENERR by the server, which splits it first.
EncodeSocksUDPDatagram(addr, payload) ==
    <<0, 0, 0>> \o Written([atyp |-> addr.text.kind, host |-> addr.text.host, port |-> addr.port])
        \o payload

-----------------------------------------------------------------------------
(* The association *)

SocksInit ==
    /\ buf = << >> /\ received = 0
    /\ given = [target |-> << >>, data |-> << >>, bytes |-> 0] /\ read = Dropped
    /\ request = << >>

\* A datagram of an application, which may be shorter than its address.
ReceivesDatagram ==
    /\ received < MaxReceived /\ request = << >>
    /\ received' = received + 1
    /\ \E t \in Target, d \in Data :
         LET packet == <<0, 0, 0>> \o Written(t) \o d IN
         \E n \in 0 .. Len(packet) :
           /\ buf' = SubSeq(packet, 1, n) \o SubSeq(buf, n + 1, Len(buf))
           /\ given' = [target |-> t, data |-> d, bytes |-> n]
           /\ read' = ReadDatagram(buf', n)
    /\ UNCHANGED request

\* A request, with what the application sends without waiting for the reply.  It
\* shares nothing with an association: a behaviour has one or the other.
ReceivesRequest ==
    /\ request = << >> /\ received = 0
    /\ \E t \in Target, d \in Data :
         request' = [target |-> t, data |-> d, taken |-> ReadSocksAddr(Written(t) \o d)]
    /\ UNCHANGED <<buf, received, given, read>>

SocksNext == ReceivesDatagram \/ ReceivesRequest

SocksSpec == SocksInit /\ [][SocksNext]_socksVars

-----------------------------------------------------------------------------
(* Properties *)

\* A datagram whose address came whole is sent to that address with its own
\* payload, as far as the limit goes, and any other is dropped; bytes of earlier
\* datagrams, still in the buffer, never count.  The header an application gets
\* with an answer means the address it asked for, though it may write it in
\* another form.  Of a request, exactly the address is taken off the connection
\* (main.go:314-350, 385-400, 428-501).
AddressesAreKept ==
    /\ received > 0 =>
         LET start == 3 + Len(Written(given.target))
             answer == EncodeSocksUDPDatagram(Meant(given.target), given.data)
         IN /\ read = IF given.bytes >= start /\ given.bytes >= 10
                      THEN [addr |-> Meant(given.target),
                            payload |-> Prefix(SubSeq(given.data, 1, given.bytes - start), MaxLocal)]
                      ELSE Dropped
            /\ ReadPacketAddr(SubSeq(answer, 4, Len(answer))).addr = Meant(given.target)
    /\ request # << >> =>
         request.taken = [addr |-> Meant(request.target), raw |-> Written(request.target),
                          left |-> request.data]
=============================================================================
