------------------------------- MODULE Neighbor -------------------------------
(***************************************************************************)
(* xbridge as the host's neighbour: which packets of the host it takes for *)
(* a Neighbor Solicitation of the default gateway, and the Neighbor        *)
(* Advertisements that it makes, with the checksum that both depend on.    *)
(*                                                                         *)
(* A packet is what follows the Ethernet header: the fields of the IPv6    *)
(* header that the code looks at, and the bytes of the ICMPv6 message.     *)
(* Reserved bytes are left out.                                             *)
(***************************************************************************)
EXTENDS Integers, Sequences

CONSTANTS
  B,             \* the values of a byte, 256
  SizeofAddress, \* the bytes of an address, 16
  Packets,       \* the packets that the host sends
  Gateway,       \* linkLocalDefaultGatewayIPv6
  AllNodes,      \* linkLocalAllNodesIPv6
  Mac,           \* eHeader.ether_shost
  Icmp6, Solicit, Advert, Solicited, Router, TargetLinkAddr, NoPacket

Bytes == 0 .. B - 1
Addresses == [1 .. SizeofAddress -> Bytes]

\* Of struct nd_neighbor_solicit and struct nd_neighbor_advert.
SizeofSolicit == 4 + SizeofAddress
SizeofAdvert == 6 + SizeofAddress + 2 + Len(Mac)

ASSUME BytesAssumption ==
  /\ B \in Nat /\ B > 1
  /\ {Icmp6, Solicit, Advert, Solicited, Router, TargetLinkAddr} \subseteq Bytes
  /\ Solicited + Router \in Bytes /\ Solicit # Advert

ASSUME AddressAssumption ==
  /\ SizeofAddress \in Nat /\ SizeofAddress % 2 = 0
  /\ SizeofSolicit <= B + 2
  /\ {Gateway, AllNodes} \subseteq Addresses
  /\ Mac \in Seq(Bytes) /\ SizeofAdvert < B * B

VARIABLES
  packet, \* the packet in callback()
  sent    \* the advertisement last sent, or the packet forwarded

vars == <<packet, sent>>

IsPacket(p) ==
  /\ p.version \in Nat
  /\ p.nxt \in Bytes
  /\ p.plen \in Bytes \X Bytes
  /\ {p.src, p.dst} \subseteq Addresses
  /\ p.icmp6 \in Seq(Bytes) /\ Len(p.icmp6) < B * B

ASSUME PacketsAssumption == \A p \in Packets : IsPacket(p)

TypeOK ==
  /\ packet = NoPacket \/ IsPacket(packet)
  /\ sent = NoPacket \/ IsPacket(sent)

Init ==
  /\ packet = NoPacket
  /\ sent = NoPacket

-----------------------------------------------------------------------------
(***************************************************************************)
(* checksum() adds the 16-bit words of its data, as a little-endian        *)
(* machine reads them, the last odd byte for itself, and then the carries. *)
(* The sum of a capture's words does not reach 2^32.                       *)
(***************************************************************************)
Weighted(data, i) == IF i % 2 = 1 THEN data[i] ELSE B * data[i]

\* After each byte, from none to all.
Sums(data) ==
  LET sum[n \in 0 .. Len(data)] ==
        IF n = 0 THEN 0 ELSE sum[n - 1] + Weighted(data, n)
  IN  sum

Sum(data) == Sums(data)[Len(data)]

Carry(sum) == sum \div (B * B)
Low(sum) == sum % (B * B)

AddCarries[sum \in Nat] ==
  IF Carry(sum) = 0 THEN sum ELSE AddCarries[Carry(sum) + Low(sum)]

\* Of the carries only the first are added.
ChecksumOnce(data) == Low(Carry(Sum(data)) + Low(Sum(data)))

Checksum(data) == AddCarries[Sum(data)]

AllOnes == B * B - 1

\* A word of which only the first byte is stored.
WordInByte(n) == <<n, 0>>

\* A 16-bit word in memory, and one after htons().
Word(n) == <<n % B, n \div B>>
Htons(n) == <<n \div B, n % B>>

PseudoHeader(src, dst, len) ==
  src \o dst \o Htons(len) \o <<0, 0>> \o <<0, 0, 0, Icmp6>>

-----------------------------------------------------------------------------
(***************************************************************************)
(* isNeighborSolicitation(): the message is long enough, is a solicitation *)
(* by its fields, asks for the gateway and has the right checksum.         *)
(***************************************************************************)
\* ip6_plen is compared without ntohs().
PlenRead(p) == p.plen[1] + B * p.plen[2]

Target(p) == SubSeq(p.icmp6, 5, 4 + SizeofAddress)

LooksRight(p) ==
  /\ SizeofSolicit <= Len(p.icmp6)
  /\ SizeofSolicit <= PlenRead(p)
  /\ p.nxt = Icmp6
  /\ p.icmp6[1] = Solicit
  /\ p.icmp6[2] = 0
  /\ p.version = 6
  /\ Target(p) = Gateway

ChecksumRight(p) ==
  AllOnes = Checksum(Word(Checksum(PseudoHeader(p.src, p.dst, Len(p.icmp6))))
                       \o Word(Checksum(p.icmp6)))

\* The target is not compared.
IsSolicitationOfAny(p) ==
  /\ SizeofSolicit <= Len(p.icmp6)
  /\ p.nxt = Icmp6 /\ p.version = 6
  /\ p.icmp6[1] = Solicit /\ p.icmp6[2] = 0
  /\ ChecksumRight(p)

IsNeighborSolicitation(p) == LooksRight(p) /\ ChecksumRight(p)

(***************************************************************************)
(* sendNeighborAdvert(): the checksum field holds that of the pseudo       *)
(* header while that of the message is computed, and then the complement.  *)
(***************************************************************************)
AdvertMessage(cksum, solicited) ==
  <<Advert, 0>> \o Word(cksum)
    \o <<(IF solicited THEN Solicited ELSE 0) + Router, 0>>
    \o Gateway \o <<TargetLinkAddr, 1>> \o Mac

\* The pseudo header is left out of the checksum.
CksumWithoutHeader(dst, solicited) ==
  AllOnes - Checksum(AdvertMessage(0, solicited))

Cksum(dst, solicited) ==
  LET header == Checksum(PseudoHeader(Gateway, dst, SizeofAdvert))
  IN  AllOnes - Checksum(AdvertMessage(header, solicited))

NeighborAdvert(dst, solicited) ==
  [version |-> 6, nxt |-> Icmp6, plen |-> Htons(SizeofAdvert),
   src |-> Gateway, dst |-> dst,
   icmp6 |-> AdvertMessage(Cksum(dst, solicited), solicited)]

-----------------------------------------------------------------------------
Receive ==
  /\ packet = NoPacket
  /\ packet' \in Packets
  /\ sent' = NoPacket

\* callback(), for a packet of the host: answered or forwarded.
Callback ==
  /\ packet # NoPacket
  /\ sent = NoPacket
  /\ sent' = IF IsNeighborSolicitation(packet)
               THEN NeighborAdvert(packet.src, TRUE)
               ELSE packet
  /\ UNCHANGED packet

\* The unsolicited advertisement to all nodes.
Advertise ==
  /\ packet = NoPacket
  /\ sent' = NeighborAdvert(AllNodes, FALSE)
  /\ UNCHANGED packet

Return ==
  /\ packet # NoPacket
  /\ sent # NoPacket
  /\ packet' = NoPacket
  /\ sent' = NoPacket

Next == Receive \/ Callback \/ Advertise \/ Return

Spec == Init /\ [][Next]_vars

-----------------------------------------------------------------------------
(***************************************************************************)
(* The reference: the ones'-complement sum, with an end-around carry, of   *)
(* the words of pseudo header and message in network order, which is all   *)
(* ones for a valid packet.                                                *)
(***************************************************************************)
OnesPlus(a, b) == IF a + b >= B * B THEN a + b - B * B + 1 ELSE a + b

Padded(data) == IF Len(data) % 2 = 0 THEN data ELSE Append(data, 0)

NetworkWord(data, i) == data[2 * i - 1] * B + data[2 * i]

OnesSums(data) ==
  LET sum[n \in 0 .. Len(data) \div 2] ==
        IF n = 0 THEN 0 ELSE OnesPlus(sum[n - 1], NetworkWord(data, n))
  IN  sum

OnesSum(data) == OnesSums(Padded(data))[Len(Padded(data)) \div 2]

\* The length takes four bytes, in network order.
ProtocolHeader(src, dst, len) ==
  src \o dst \o <<0, 0>> \o Htons(len) \o <<0, 0, 0, Icmp6>>

Valid(p) ==
  AllOnes = OnesSum(ProtocolHeader(p.src, p.dst, Len(p.icmp6)) \o p.icmp6)

\* A solicitation of the gateway, its length field included.
Genuine(p) ==
  /\ p.version = 6 /\ p.nxt = Icmp6
  /\ p.plen = Htons(Len(p.icmp6))
  /\ Len(p.icmp6) >= SizeofSolicit
  /\ p.icmp6[1] = Solicit /\ p.icmp6[2] = 0
  /\ Target(p) = Gateway
  /\ Valid(p)

(***************************************************************************)
(* Properties.                                                             *)
(***************************************************************************)

\* The check of a received packet, made in three parts and in the byte order
\* of the machine, with the length where htons() leaves it in the pseudo
\* header, is the one of the protocol, also for an odd length.
ChecksumAgrees == packet # NoPacket => (ChecksumRight(packet) <=> Valid(packet))

\* A packet whose length field is right is answered if and only if it is a
\* solicitation of the gateway.  The comparison of ip6_plen without ntohs()
\* fails for lengths of which the low byte is 0, the first of them 256, with
\* 232 bytes of options.
GenuineAnswered ==
  /\ packet # NoPacket /\ sent # NoPacket
  /\ packet.plen = Htons(Len(packet.icmp6)) /\ packet.plen[2] # 0
  => ((sent # packet) <=> Genuine(packet))

\* Every advertisement is valid, and goes to who asked or to all nodes.
AdvertValid ==
  sent \notin {NoPacket, packet} =>
    /\ Valid(sent)
    /\ sent.dst = IF packet = NoPacket THEN AllNodes ELSE packet.src

=============================================================================
