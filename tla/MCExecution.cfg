SPECIFICATION Spec
CONSTANTS
  Turns = {t1, t2}
  Registry <- MCRegistry
  Devices <- MCDevices
  DeviceStates <- MCDeviceStates
  Proposals <- MCProposals
  MaxRevision = 1
CHECK_DEADLOCK FALSE
INVARIANTS
  TypeOK
  RepeatsAreReplayed
  BatchReportsAreHonest
PROPERTIES
  CallsAreLawful
  ImplementsLedger
