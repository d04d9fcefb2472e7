\* No Amnezia config (executeSimplePreflight): three callers, two destinations.
CONSTANTS
  c1 = c1  c2 = c2  c3 = c3  d1 = d1  d2 = d2
  Callers <- MCCallers
  Dsts <- MCDsts
  Batches <- MCBatches
  Interval = 1
  MaxTime = 3
  HasConfig = FALSE
  Sig <- MCSig
  JcBeforeHS = 4
  Jc = 1
  JcAfterI1 = 0
  JcAfterHS = 0
  Jmin = 2
  Jmax = 2
  AllowZeroSize = FALSE
  JunkOutcomes <- MCJunkOutcomes
SPECIFICATION Spec
INVARIANTS RateSeparation
PROPERTIES LastSentNeverBack OrchestratorRefined
