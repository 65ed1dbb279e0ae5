SPECIFICATION FairSpec
CONSTANTS
  Results = {1, 2, 3}
  Pool = {1, 2}
  DeviceName <- DistinctNames
  Writers <- TwoWriters
  OwnWritesSeen = TRUE
INVARIANTS TypeOK DevicesAgree
PROPERTIES FailedNotRescheduled ClaimServed AnsweredOnAll
