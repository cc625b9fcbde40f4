------------------------------ MODULE MCNeighbor ------------------------------
(***************************************************************************)
(* Neighbor, instantiated for TLC with bytes of two bits and words of      *)
(* four: few additions then carry, and carry again.  Every checksum field  *)
(* and up to three bytes of options, an odd number among them, under       *)
(* headers in which at most one field is not a solicitation's.             *)
(***************************************************************************)
EXTENDS Neighbor

MCGateway == <<3, 1>>
MCAllNodes == <<3, 2>>
MCMac == <<1, 2>>

Hosts == {<<2, 1>>, <<3, 3>>}

Options == UNION {[1 .. n -> Bytes] : n \in 0 .. 3}

\* version, next header, type, code and target.
Headers ==
  LET right == <<6, Icmp6, Solicit, 0, MCGateway>>
      wrong == <<4, 0, Advert, 1, MCAllNodes>>
  IN  {right} \cup {[right EXCEPT ![i] = wrong[i]] : i \in 1 .. 5}

Message(header, cksum, options) ==
  <<header[3], header[4]>> \o cksum \o header[5] \o options

Packet(header, plen, src, message) ==
  [version |-> header[1], nxt |-> header[2], plen |-> plen, src |-> src,
   dst |-> MCAllNodes, icmp6 |-> message]

WholePackets ==
  {Packet(h, Htons(Len(MCGateway) + 4 + Len(o)), s, Message(h, c, o)) :
     h \in Headers, s \in Hosts, c \in Bytes \X Bytes, o \in Options}

\* The length field is wrong, or the message too short to be a solicitation.
BrokenPackets ==
  {Packet(h, plen, s, Message(h, c, << >>)) :
     h \in Headers, plen \in {<<0, 1>>, <<2, 3>>}, s \in Hosts,
     c \in Bytes \X Bytes}
    \cup {Packet(h, <<0, 2>>, s, <<h[3], h[4]>>) : h \in Headers, s \in Hosts}

MCPackets == WholePackets \cup BrokenPackets

=============================================================================
