SPECIFICATION FairSpec
CONSTANTS
  Leaves = {"/firmware_version", "/firmware/update_uri"}
  Members = {"/firmware/update_uri"}
  Status = "/wifi/status"
  Aggregates = {"/", "/firmware", "/wifi"}
  Children <- MCChildren
  Registered = {"/", "/firmware_version", "/wifi/status"}
  Names = {"firmware", "wifi", "update_URI", "running_image", "status"}
  Values = {v}
  NoText = NoText
  Null = Null
  Height = 2
  Addresses = {a}
  Ssids = {n}
INVARIANTS
  TypeOK
  AnswersMomentary
  ConnectedHasAddress
  AnswersComplete
PROPERTIES
  Answered
