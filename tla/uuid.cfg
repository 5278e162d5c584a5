\* Every range of a seven-bit word; lengths around 32 and around the sum of
\* the parts of an identifier.
SPECIFICATION Spec
CONSTANTS
  Words = 128
  Templates <- MCTemplates
  Requests <- MCRequests
  Gaps <- MCGaps
CHECK_DEADLOCK FALSE
INVARIANTS
  TypeOK
  Unbiased
  FoundIfFirstAndLast
