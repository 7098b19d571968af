CONSTANTS
  Elem = {m1, m2}
  Entry = {a1, a2, a3, a4}
  NULL = NULL
SPECIFICATION QueueSpec
PROPERTY ImplementsFifo
