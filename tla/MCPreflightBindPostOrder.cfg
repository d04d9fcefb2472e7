\* The goroutine started before inner.Send: can its junk precede the handshake?
CONSTANTS
  c1 = c1  c2 = c2  c3 = c3  d1 = d1  d2 = d2
  Callers <- TwoCallers
  Dsts <- OneDst
  Batches <- MCBatches
  Interval = 2
  MaxTime = 2
  HasConfig = TRUE
  Sig <- MCSig
  JcBeforeHS = 4
  Jc = 1
  JcAfterI1 = 0
  JcAfterHS = 0
  Jmin = 2
  Jmax = 2
  AllowZeroSize = FALSE
  JunkOutcomes <- MCJunkOutcomes
SPECIFICATION Spec
INVARIANT PostAfterReal
