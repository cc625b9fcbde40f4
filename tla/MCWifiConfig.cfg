SPECIFICATION Spec
CONSTANTS
  c1 = c1
  c2 = c2
  Empty = Empty
  Torn = Torn
  Missing = Missing
  Contents <- MCContents
INVARIANTS
  TypeOK
  FileIsWhole
  RefusedPutKeepsFile
  InSync
PROPERTIES
  PutAtomic
