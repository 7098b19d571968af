\* Two frames from host 1 and a reply after the registrations, a buffer of one
\* frame, and a wakeup nobody signalled.
CONSTANTS
  BUFFER_SIZE = 1
  SerializationDelay = 2
  Delay = 1
  Loss = 50
  Corrupt = 100
  MaxFrames = 3
  MaxReplies = 2
  MaxLag = 1
  MaxSpurious = 1
SPECIFICATION FairSpec
INVARIANTS Conservation ChecksStillHold ParkedMeansDrained Timing
PROPERTY ImplementsChannel
\* The process may abort, and a parked scheduler with no more frames to come waits.
CHECK_DEADLOCK FALSE
