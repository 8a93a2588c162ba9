\* One position, two assets, two wallets: every order of funding, donating,
\* opening, transferring, market moves, liquidation and redemption, with every
\* wrong flatten and payout a client may send.
CONSTANTS
  Nft = {n1}
  Wallet = {w1, w2}
  Stash = {s1}
  Market = {mk1}
  Asset = {a1, a2}
  Size = {0, 1, 2}
  Amount = {0, 1, 2, 3}
  OtherBuys = TRUE
  OrderFee = 1
  Maintenance = 0
  PnlBound = 2
  InitialTokens = 2
  InitialHouse = 1
  InitialSol = 3
  RentMint = 1
  RentToken = 1
  RentPortfolio = 1
SPECIFICATION Spec
SYMMETRY WalletSymmetry
CHECK_DEADLOCK FALSE
INVARIANTS
  TypeOK
  OneOfOne
  NeverWedged
  NamedExposure
PROPERTIES
  OnlyHolderPaid
  RentReturns
