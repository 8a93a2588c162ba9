\* One position mint on two markets, rents and fees zero: the mint is burned
\* outside the program or redeemed, created again under the same key, vetted
\* or not, and opened again on either market.
CONSTANTS
  Nft = {n1}
  Wallet = {w1, w2}
  Stash = {s1}
  Market = {mk1, mk2}
  Asset = {a1}
  Size = {0, 1}
  Amount = {0, 1, 2}
  OtherBuys = TRUE
  OrderFee = 0
  Maintenance = 0
  PnlBound = 1
  InitialTokens = 2
  InitialHouse = 1
  InitialSol = 1
  RentMint = 0
  RentToken = 0
  RentPortfolio = 1
SPECIFICATION Spec
SYMMETRY WalletSymmetry
CHECK_DEADLOCK FALSE
INVARIANTS
  OneOfOne
  NeverWedged
  Inductive
PROPERTIES
  BurnedForGood
  ImplementsBearer
