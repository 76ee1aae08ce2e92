SPECIFICATION Spec
CONSTANTS
  ann = ann
  bob = bob
  proxy = proxy
  nat = nat
  list = list
  health = health
  nowhere = nowhere
  t1 = t1
  t2 = t2
  Slots = {t1, t2}
  Clients = {ann, bob}
  Addresses = {proxy, nat}
  Limited = {list}
  Exempt = {health}
  Unknown = {nowhere}
  Requests <- MCRequests
  Limit = 2
  Window = 2
  MaxTime = 2
  MaxRestarts = 1
SYMMETRY Interchangeable
INVARIANTS
  TypeOK
  FailureHasEnvelope
  EveryReplyTraced
  BurstBound
PROPERTY
  RefusedOnlyAfterOwnLimit
