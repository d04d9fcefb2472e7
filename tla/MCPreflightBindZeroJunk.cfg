\* Zero-length junk only (Jmin = Jmax = 0), JcBeforeHS = 3: datagrams before the handshake.
CONSTANTS
  c1 = c1  c2 = c2  c3 = c3  d1 = d1  d2 = d2
  Callers <- TwoCallers
  Dsts <- OneDst
  Batches <- MCBatches
  Interval = 2
  MaxTime = 2
  HasConfig = TRUE
  Sig <- MCSig
  JcBeforeHS = 3
  Jc = 0
  JcAfterI1 = 0
  JcAfterHS = 0
  Jmin = 0
  Jmax = 0
  AllowZeroSize = FALSE
  JunkOutcomes <- MCJunkOutcomes
SPECIFICATION Spec
INVARIANT PreJunkBound
