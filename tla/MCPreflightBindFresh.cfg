\* I1 with a random tag, two admitted sequences: are its bytes ever reused?
CONSTANTS
  c1 = c1  c2 = c2  c3 = c3  d1 = d1  d2 = d2
  Callers <- TwoCallers
  Dsts <- OneDst
  Batches <- MCBatches
  Interval = 1
  MaxTime = 2
  HasConfig = TRUE
  Sig <- RandomI1Sig
  JcBeforeHS = 4
  Jc = 1
  JcAfterI1 = 0
  JcAfterHS = 0
  Jmin = 2
  Jmax = 2
  AllowZeroSize = FALSE
  JunkOutcomes <- MCJunkOutcomes
SPECIFICATION Spec
INVARIANT SignaturesFresh
