\* Lists of the SDK and lists with one thing wrong, check by check.
CONSTANTS
  Address <- MCAddress
  Account <- MCAccount
  PositionOf <- MCPositionOf
  PortfolioOf <- MCPortfolioOf
  Transaction <- AllTransactions
SPECIFICATION Spec
CHECK_DEADLOCK FALSE
INVARIANTS
  OwnListPasses
  OnlyThoseOpen
  SignsForTheBearer
  NeverMisdecoded
