SPECIFICATION Spec
CONSTANTS
  Nobody = Nobody
  ann = ann
  bob = bob
  root = root
  show = show
  gig = gig
  key = key
  w1 = w1
  w2 = w2
  Workers = {w1, w2}
  Users <- MCUsers
  Admins <- MCAdmins
  Events = {show}
  Keys = {key}
  Engine = "postgres"
  Requests <- Changes
  MaxSeats = 2
  MaxCapacity = 2
  MaxBookings = 2
SYMMETRY Interchangeable
INVARIANTS
  NoOversell
