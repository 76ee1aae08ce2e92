SPECIFICATION FairSpec
CONSTANTS
  Nobody = Nobody
  r1 = r1
  r2 = r2
  r3 = r3
  r4 = r4
  Requests = {r1, r2, r3, r4}
  Serves <- MCServes
  Threads = 2
  Connections = 2
INVARIANTS
  TypeOK
  StallNeedsCrowd
  StallTimesOut
  RowHolderRuns
  NothingLeaks
PROPERTY
  EveryRequestAnswered
