SPECIFICATION Spec
CONSTANTS
  Modes <- MCModes
  OtherModes <- MCOtherModes
  NoLink = "none"
PROPERTIES
  RebootsWhenChanged
