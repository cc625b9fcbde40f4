SPECIFICATION FairSpec
CONSTANTS
  Addresses <- MCAddresses
  NoAddress = "none"
INVARIANTS
  TypeOK
  LinkMade
PROPERTIES
  LinkKept
  Serves
