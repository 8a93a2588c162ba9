\* A byte of three values, the offsets and the widths of the code.
CONSTANTS
  Radix = 3
  Calls <- MCCalls
  Balances <- MCBalances
SPECIFICATION Spec
CHECK_DEADLOCK FALSE
INVARIANTS
  HeardAsAsked
  NoPrefixDecodes
  OnlyItselfWraps
