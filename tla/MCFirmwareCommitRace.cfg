\* MCFirmwareCommitRace
SPECIFICATION Spec
CONSTANTS
  p1 = p1
  p2 = p2
  p3 = p3
  u1 = u1
  u2 = u2
  NoUri = NoUri
  NoPid = NoPid
  NoValue = NoValue
  Pids <- MCPids
  Uris <- MCUris
  ExitCodes <- MCExitCodes
  Signals <- MCSignals
  BootLimit <- MCBootLimit
  MaxBootcount <- MCMaxBootcount
  SettleClears = FALSE
PROPERTIES
  CommitNeedsTrial
