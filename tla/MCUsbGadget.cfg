SPECIFICATION Spec
CONSTANTS
  Serial = TRUE
  Hss = TRUE
INVARIANTS
  TypeOK
  EnabledComplete
  StopRemoves
  StartEnables
