\* Every list of at most three extensions, well formed or not, at six account
\* sizes, and every single defect of the base fields.
CONSTANTS
  Mints <- MCMints
SPECIFICATION FairSpec
CHECK_DEADLOCK FALSE
INVARIANTS
  TypeOK
  InBounds
  Exact
  Walked
PROPERTIES
  Terminates
