\* What the client leaves in the portfolio of a position it redeemed.
CONSTANTS
  Nft = {n1}
  Wallet = {w1}
  Stash = {s1}
  Market = {mk1}
  Asset = {a1}
  Size = {0, 1, 2}
  Amount = {0, 1, 2, 3}
  OtherBuys = TRUE
  OrderFee = 1
  Maintenance = 0
  PnlBound = 2
  InitialTokens = 4
  InitialHouse = 1
  InitialSol = 5
  RentMint = 1
  RentToken = 1
  RentPortfolio = 1
  FeeEstimate = 1
  MaxMoves = 2
SPECIFICATION AloneSpec
CHECK_DEADLOCK FALSE
INVARIANTS
  NothingLeftBehind
