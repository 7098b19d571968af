CONSTANTS
  BUFFER_SIZE = 1
  SerializationDelay = 1
  Delay = 1
  Loss = 0
  Corrupt = 0
  MaxFrames = 3
  MaxReplies = 1
  MaxLag = 1
  MaxSpurious = 0
SPECIFICATION Spec
INVARIANT AssertBufferEmpty
CHECK_DEADLOCK FALSE
