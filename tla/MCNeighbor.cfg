SPECIFICATION Spec
CONSTANTS
  B = 4
  SizeofAddress = 2
  Packets <- MCPackets
  Gateway <- MCGateway
  AllNodes <- MCAllNodes
  Mac <- MCMac
  Icmp6 = 3
  Solicit = 2
  Advert = 3
  Solicited = 1
  Router = 2
  TargetLinkAddr = 2
  NoPacket = NoPacket
INVARIANTS
  TypeOK
  ChecksumAgrees
  GenuineAnswered
  AdvertValid
