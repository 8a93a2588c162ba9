\* Two holders, one after the other, who keep running the close: donations,
\* sales, market moves, settles and liquidations in parts in between.
CONSTANTS
  Nft = {n1}
  Wallet = {w1, w2}
  Stash = {s1}
  Market = {mk1}
  Asset = {a1}
  Size = {3}
  Amount = {3}
  OtherBuys = TRUE
  OrderFee = 1
  Maintenance = 1
  PnlBound = 2
  InitialTokens = 3
  InitialHouse = 1
  InitialSol = 1
  RentMint = 0
  RentToken = 0
  RentPortfolio = 1
  FeeEstimate = 1
  MaxMoves = 2
SPECIFICATION AloneSpec
CHECK_DEADLOCK FALSE
INVARIANTS
  ClientInductive
  AccurateIsAccepted
PROPERTIES
  PrincipalPaid
  OnlyCutLegsStay
  RedeemedUnlessOwing
