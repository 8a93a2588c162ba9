\* The mint of a redeemed position, created once more by whoever holds its key.
CONSTANTS
  Nft = {n1}
  Wallet = {w1, w2}
  Stash = {s1}
  Market = {mk1, mk2}
  Asset = {a1}
  Size = {0, 1}
  Amount = {0, 1, 2}
  OtherBuys = TRUE
  OrderFee = 0
  Maintenance = 0
  PnlBound = 1
  InitialTokens = 2
  InitialHouse = 1
  InitialSol = 1
  RentMint = 0
  RentToken = 0
  RentPortfolio = 1
SPECIFICATION Spec
SYMMETRY WalletSymmetry
CHECK_DEADLOCK FALSE
INVARIANTS
  NeverHeldAgain
