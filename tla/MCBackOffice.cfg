SPECIFICATION Spec
CONSTANTS
  Addresses = {a1, a2, a3}
  Pages = {c1, c2}
  NoAddress = NoAddress
  Items = {i1, i2}
  Instances = {c1, c2}
  MaxChanges = 3
  Clients = {c1, c2}
  MaxEdits = 1
  MaxStock = 1
  Account = Account
  TTL = 2
SYMMETRY Symmetry
CONSTRAINT Explored
VIEW Visible
INVARIANTS DefaultsStayUnique RemindedOncePerChange EditsAreShown SoldVariantsStay RollingBound PatientIsServed
CHECK_DEADLOCK FALSE
