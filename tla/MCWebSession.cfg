\* Two tabs, one with two overlapping calls of which one is an upload.
CONSTANTS
  t1 = t1
  t2 = t2
  h1 = h1
  h2 = h2
  c1 = c1
  c2 = c2
  c3 = c3
  Tabs = {t1, t2}
  Http = {h1, h2}
  Calls = {c1, c2, c3}
  TabOf <- TwoInOne
  HttpOf <- ThreeCalls
  Uploads = {c2}
  Staff = TRUE
  MaxTokens = 2
  MaxExpired = 2
SPECIFICATION FairSpec
PROPERTY CallsSettle
CHECK_DEADLOCK FALSE
