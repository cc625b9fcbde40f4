SPECIFICATION Spec
CONSTANTS
  Modes <- MCModes
  OtherModes <- MCOtherModes
  NoLink = "none"
INVARIANTS
  TypeOK
  LinkOnlyLostMidway
PROPERTIES
  ModeTakesEffect
