SPECIFICATION Spec
CONSTANTS
  Nobody = Nobody
  ann = ann
  bob = bob
  root = root
  show = show
  gig = gig
  key = key
  w1 = w1
  w2 = w2
  w3 = w3
  Workers = {w1, w2, w3}
  Users <- MCUsers
  Admins <- MCAdmins
  Events = {show, gig}
  Keys = {key}
  Engine = "postgres"
  Requests <- Retries
  MaxSeats = 2
  MaxCapacity = 2
  MaxBookings = 3
SYMMETRY Interchangeable
INVARIANTS
  LockedReadIsCurrent
  KeyNamesOneBooking
  LoserFindsWinner
  LocksHaveOwners
  AnswerNamesOwnBooking
  NoDeadlock
PROPERTIES
  OnlySeatTestRefusesRetries
