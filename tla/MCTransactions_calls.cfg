\* One position, two wallets: every request a client may send, wrong ones
\* included, CPI by CPI.
CONSTANTS
  Nft = {n1}
  Wallet = {w1, w2}
  Stash = {s1}
  Market = {mk1}
  Asset = {a1}
  Size = {0, 1, 2}
  Amount = {0, 1, 2}
  OtherBuys = TRUE
  OrderFee = 1
  Maintenance = 0
  PnlBound = 1
  InitialTokens = 1
  InitialHouse = 1
  InitialSol = 3
  RentMint = 1
  RentToken = 1
  RentPortfolio = 1
SPECIFICATION TxSpec
SYMMETRY NftAndWalletSymmetry
CHECK_DEADLOCK FALSE
INVARIANTS
  TxTypeOK
  RefusedForCause
  Balanced
PROPERTIES
  AtomicHandlers
