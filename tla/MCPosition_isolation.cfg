\* Two positions that share a market and its counterparty, two wallets: opens
\* and redemptions of one, with every portfolio account a client may pass,
\* while the other is open, liquidated, transferred or donated to.
CONSTANTS
  Nft = {n1, n2}
  Wallet = {w1, w2}
  Stash = {s1}
  Market = {mk1}
  Asset = {a1}
  Size = {0, 1}
  Amount = {0, 1, 2}
  OtherBuys = TRUE
  OrderFee = 0
  Maintenance = 0
  PnlBound = 1
  InitialTokens = 1
  InitialHouse = 1
  InitialSol = 1
  RentMint = 0
  RentToken = 0
  RentPortfolio = 1
SPECIFICATION Spec
SYMMETRY NftAndWalletSymmetry
CHECK_DEADLOCK FALSE
INVARIANTS
  NeverWedged
PROPERTIES
  PositionsIsolated
  OnlyHolderPaid
