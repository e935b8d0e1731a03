\* Two shipment events, two workers whose handlers may outlive their lease, two admins.
CONSTANTS
  w1 = w1
  w2 = w2
  a1 = a1
  a2 = a2
  Workers <- TwoWorkers
  Admins <- TwoAdmins
  Events <- TwoEvents
  MaxParcels = 2
  MAX_ATTEMPTS = 2
SPECIFICATION Spec
SYMMETRY ActorSymmetry
CONSTRAINT OneCase
VIEW Dispatch
INVARIANTS SentinelIsWatched WorkersShipOnce
PROPERTIES LinkIsKept
CHECK_DEADLOCK FALSE
