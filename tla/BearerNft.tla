------------------------------ MODULE BearerNft ------------------------------
(***************************************************************************)
(* What a bearer position promises, with no account, market or program in  *)
(* sight (README.md: "Bearer instrument", processor.rs:3-8): a unit is     *)
(* issued to a wallet, passed on by whoever bears it, and ended by whoever *)
(* bears it; only the end of a unit puts money into a purse, and into one. *)
(***************************************************************************)
EXTENDS Integers

CONSTANTS Nft, Wallet

VARIABLES
  bearer,   \* {w} when wallet w bears the unit of n, {} when there is none
  side,     \* the side the unit of n announces
  purse     \* the collateral each wallet has

bvars == <<bearer, side, purse>>

Init ==
  /\ bearer = [n \in Nft |-> {}]
  /\ side = [n \in Nft |-> "none"]
  /\ purse \in [Wallet -> Nat]

(* A unit appears where there is none, on one of the two sides. *)
Issue(n, w, s) ==
  /\ bearer[n] = {}
  /\ bearer' = [bearer EXCEPT ![n] = {w}]
  /\ side' = [side EXCEPT ![n] = s]
  /\ UNCHANGED purse

(* The bearer hands it over; what it announces does not change. *)
Pass(n, w, x) ==
  /\ bearer[n] = {w}
  /\ bearer' = [bearer EXCEPT ![n] = {x}]
  /\ UNCHANGED <<side, purse>>

(* The bearer's unit ends, and at most one wallet, y, is paid. *)
Retire(n, w, y) ==
  /\ bearer[n] = {w}
  /\ bearer' = [bearer EXCEPT ![n] = {}]
  /\ side' = [side EXCEPT ![n] = "none"]
  /\ purse'[y] >= purse[y]
  /\ purse' = [purse EXCEPT ![y] = purse'[y]]

(* A wallet spends. *)
Spend(w) ==
  /\ purse'[w] \in 0 .. purse[w]
  /\ purse' = [purse EXCEPT ![w] = purse'[w]]
  /\ UNCHANGED <<bearer, side>>

Next ==
  \/ \E n \in Nft, w \in Wallet :
       \/ \E s \in {"long", "short"} : Issue(n, w, s)
       \/ \E x \in Wallet : Pass(n, w, x)
       \/ \E y \in Wallet : Retire(n, w, y)
  \/ \E w \in Wallet : Spend(w)

Spec == Init /\ [][Next]_bvars
=============================================================================
