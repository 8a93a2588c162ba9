------------------------------ MODULE MCPosition ------------------------------
(* Small instances of PositionProgram for TLC. *)
EXTENDS PositionProperties, TLC

(* Wallets are interchangeable, and so are position mints: nothing orders  *)
(* or names them, and every one starts with the same endowment.            *)
WalletSymmetry == Permutations(Wallet)
NftAndWalletSymmetry == Permutations(Wallet) \cup Permutations(Nft)
=============================================================================
