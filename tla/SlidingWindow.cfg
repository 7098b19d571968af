CONSTANTS
  COUNT = 5
  WINDOW = 3
  Lossy = TRUE
  Corrupting = TRUE
  MayStop = TRUE
SPECIFICATION FairSpec
INVARIANTS WindowBound DoneMeansAnswered LossIsFatal
PROPERTY BothFinish
\* The programs end, or wait for ever after a loss.
CHECK_DEADLOCK FALSE
