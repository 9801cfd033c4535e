SPECIFICATION FairSpec
CONSTANTS
  Count = 4
  Limit = 2
INVARIANTS
  QuietPrefix
  LateCallsBounded
PROPERTIES
  Returns
  ContractHolds
\* The pool returns once and is over.
CHECK_DEADLOCK FALSE
