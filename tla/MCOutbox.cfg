\* Two overlapping ticks and one crash; handlers end within their lease.
\* Liveness is checked, so there is no symmetry; two attempts instead of three.
CONSTANTS
  w1 = w1
  w2 = w2
  Workers <- MCWorkers
  Events <- MCEvents
  MAX_ATTEMPTS = 2
  BatchSize = 2
  MaxCrashes = 1
  SlowHandlers = FALSE
SPECIFICATION FairSpec
INVARIANTS HandlersExclusive
PROPERTIES ImplementsContract EventuallySettled
