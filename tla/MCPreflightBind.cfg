\* Two Send calls to one destination; the Amnezia sequence configured
\* with a capped synchronous junk train (JcBeforeHS = 4 > 3) and one Jc junk.
CONSTANTS
  c1 = c1  c2 = c2  c3 = c3  d1 = d1  d2 = d2
  Callers <- TwoCallers
  Dsts <- OneDst
  Batches <- MCBatches
  Interval = 2
  MaxTime = 2
  HasConfig = TRUE
  Sig <- MCSig
  JcBeforeHS = 4
  Jc = 1
  JcAfterI1 = 0
  JcAfterHS = 0
  Jmin = 2
  Jmax = 2
  AllowZeroSize = FALSE
  JunkOutcomes <- MCJunkOutcomes
SPECIFICATION Spec
INVARIANTS TypeOK RateSeparation PreJunkBound
PROPERTIES DecoysEventuallyAttempted LastSentNeverBack OrchestratorRefined
