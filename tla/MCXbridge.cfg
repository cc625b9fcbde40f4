SPECIFICATION FairSpec
CONSTANTS
  Kinds <- MCKinds
  Tags <- MCTags
  Room <- MCRoom
  Batch = 1
  Period = 2
INVARIANTS
  TypeOK
  OnceInOrder
  WellFormed
PROPERTIES
  QuitEnds
  AdvertisesForever
  RequestFollowed
