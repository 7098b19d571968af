CONSTANTS
  OCTET = 2
  MaxRoutes = 2
SPECIFICATION TableSpec
INVARIANT BestOrNull
\* One look-up per behaviour.
CHECK_DEADLOCK FALSE
