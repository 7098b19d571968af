CONSTANTS
  OCTET = 2
  MaxRoutes = 3
SPECIFICATION TableSpec
INVARIANTS CloseIsSorted LookUpHolds LabLongestMatch
\* One look-up per behaviour.
CHECK_DEADLOCK FALSE
