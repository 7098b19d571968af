CONSTANTS
  MaxFileSize = 6
  CHUNK = 2
  Lossy = TRUE
  Corrupting = TRUE
  MayStop = TRUE
SPECIFICATION FairSpec
INVARIANTS OneOutstanding WrittenInOrder
PROPERTY SenderFinishes
\* The receiver waits for ever; so does the sender after a loss.
CHECK_DEADLOCK FALSE
