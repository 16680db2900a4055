SPECIFICATION FairSpec
CONSTANTS
  Homes <- MCHomes
  Cases <- MCCases
  MaxDeliveries = 3
  MaxWorkers = 2
  MaxMembers = 2
  RememberLimit = 1
  HandoffsKept = 1
  MaxFacts = 4
CHECK_DEADLOCK FALSE
INVARIANTS
  TypeOK
  AnswersAreExecutable
  ConsultsWithinPrivacy
  RepeatsAreFarApart
  DuplicatesAreReplayed
  MemoryIsBounded
  BatchIsWhatWasNamed
PROPERTIES
  EveryRouteOnce
  AdmittedIsAnswered
