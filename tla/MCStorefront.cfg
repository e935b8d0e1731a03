\* Two tabs, with two handlers each.
CONSTANTS
  Tabs = {t1, t2}
  Threads = {h1, h2}
  MaxUnits = 2
  MaxRequests = 3
  MaxMessages = 2
  MaxKeys = 2
SPECIFICATION Spec
SYMMETRY Symmetry
VIEW Visible
INVARIANTS QuietTabsAgree OneOrderPerPage
CHECK_DEADLOCK FALSE
