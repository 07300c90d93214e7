SPECIFICATION Spec
CONSTANTS
  Capabilities <- Bits
  FamilyKinds <- Families
  RequestKinds <- Requests
  MaxFamilies = 2
  MaxRequests = 2
  Null = Null
\* The set-up ends, with a pool or an error.
CHECK_DEADLOCK FALSE
INVARIANTS
  TypeOK
  DeviceQueuesValid
  NothingLost
  DedicatedFamilyRight
