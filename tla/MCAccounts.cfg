\* Two overlapping requests on one account, every kind of code; two tabs of the
\* browser, one with two calls, of which one is an upload, and one with a third
\* through another client; a read of the row that two requests change.
CONSTANTS
  Requests = {r1, r2}
  Kinds = {"verify", "reset"}
  Providers = {google}
  NoProvider = NoProvider
  MAX_ATTEMPTS = 1
  MaxIssued = 3
  MaxPasswords = 2
  Windows = {"w1", "w2"}
  Http = {"h1", "h2"}
  TabOf <- TwoInOne
  Calls = {"c1", "c2", "c3"}
  HttpOf <- ThreeCalls
  Uploads = {"c2"}
  Staff = TRUE
  MaxTokens = 2
  MaxExpired = 2
  Readers = {rd}
  Null = Null
  MaxVersion = 2
  MaxClock = 2
  MaxGen = 3
SPECIFICATION MCSpec
SYMMETRY Symmetry
VIEW Visible
CONSTRAINT TwoCodes
INVARIANTS RotatedOnce ResetEndsSessions AttemptsAreLimited DeniedForAReason CurrentWithoutMishap
CHECK_DEADLOCK FALSE
