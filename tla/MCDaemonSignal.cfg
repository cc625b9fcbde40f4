SPECIFICATION FairSpec
CONSTANTS
  Addresses <- MCAddresses
  NoAddress = "none"
PROPERTIES
  SignalEndsLoop
