---------------------------- MODULE MCTransactions ----------------------------
(* Small instances of Transactions for TLC. *)
EXTENDS Transactions, TLC

(* Nothing orders or names wallets or mints. *)
NftAndWalletSymmetry == Permutations(Wallet) \cup Permutations(Nft)
=============================================================================
