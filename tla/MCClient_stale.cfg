\* A leg cut between the read of the command and its send.
CONSTANTS
  Nft = {n1}
  Wallet = {w1}
  Stash = {s1}
  Market = {mk1}
  Asset = {a1}
  Size = {3}
  Amount = {3}
  OtherBuys = TRUE
  OrderFee = 1
  Maintenance = 1
  PnlBound = 2
  InitialTokens = 3
  InitialHouse = 1
  InitialSol = 1
  RentMint = 0
  RentToken = 0
  RentPortfolio = 1
  FeeEstimate = 1
  MaxMoves = 3
SPECIFICATION AloneSpec
CHECK_DEADLOCK FALSE
INVARIANTS
  RedeemedIsFlat
