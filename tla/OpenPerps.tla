----------------------------- MODULE OpenPerps -----------------------------
(***************************************************************************)
(* The OpenPerps deployment behind a market, as far as this program uses   *)
(* it: the five instructions program/src/opcpi.rs encodes (InitPortfolio,  *)
(* Deposit, Withdraw, PlaceOrder, SettlePnl).  The wrapper and its engine  *)
(* are not part of this repository, so everything here is external: it is  *)
(* what the handlers, their comments and the SDK rely on.                  *)
(*                                                                         *)
(* A portfolio q holds withdrawable capital, the profit or loss not yet    *)
(* turned into capital, and one signed leg per asset (a long is positive). *)
(* The counterparty of a market (house liquidity and insurance together)   *)
(* is one number h.  An operation that moves money between the two works   *)
(* on the pair s = [q |-> portfolio, h |-> house].                         *)
(***************************************************************************)
EXTENDS Integers

CONSTANTS
  Asset,        \* the assets a market lists
  OtherBuys,    \* what the engine makes of a side byte that is neither 0 nor
                \* 1: TRUE, it buys; FALSE, it refuses the order
  OrderFee,     \* what the engine charges for one order
  Maintenance   \* equity at or below which a portfolio may be liquidated

ASSUME OtherBuysAssumption == OtherBuys \in BOOLEAN
ASSUME OrderFeeAssumption == OrderFee \in Nat
ASSUME MaintenanceAssumption == Maintenance \in Nat

(* The side byte of an order; 2 stands for all the values of a u8 to which *)
(* the SDK gives no meaning and which the handlers pass on.                *)
Long  == 0
Short == 1
Side  == 0 .. 2

Understood(side) == side \in {Long, Short} \/ OtherBuys

(* The upstream decoder's side byte: 1 sells, 0 buys. *)
Signed(side, size) == IF side = Short THEN -size ELSE size

Portfolio ==
  [exists : BOOLEAN, cap : Nat, pnl : Int, leg : [Asset -> Int]]

NoPortfolio ==
  [exists |-> FALSE, cap |-> 0, pnl |-> 0, leg |-> [a \in Asset |-> 0]]

Flat(q) == \A a \in Asset : q.leg[a] = 0

Equity(q) == q.cap + q.pnl

(* InitPortfolio: an empty portfolio at the derived address. *)
InitPortfolio == [NoPortfolio EXCEPT !.exists = TRUE]

(* Deposit: collateral becomes capital. *)
Deposit(q, amount) == [q EXCEPT !.cap = @ + amount]

Least(i, j) == IF i <= j THEN i ELSE j

Magnitude(i) == IF i < 0 THEN -i ELSE i

(* PlaceOrder, the risk stack: an order that shrinks a leg always passes,  *)
(* one that does not needs equity left after its fee.                      *)
OrderAccepted(q, a, side, size) ==
  /\ q.exists
  /\ Understood(side)
  /\ \/ Magnitude(q.leg[a] + Signed(side, size)) < Magnitude(q.leg[a])
     \/ Equity(q) > OrderFee

PlaceOrder(s, a, side, size) ==
  LET fee == Least(OrderFee, s.q.cap) IN
  [q |-> [s.q EXCEPT !.cap = @ - fee, !.leg[a] = @ + Signed(side, size)],
   h |-> s.h + fee]

(* SettlePnl: a loss is paid out of capital, and a profit becomes capital  *)
(* once it is released, which the engine does only for a flat portfolio    *)
(* and never beyond what the counterparty holds.                           *)
Settled(s) ==
  IF s.q.pnl < 0 THEN -Least(-s.q.pnl, s.q.cap)
  ELSE IF Flat(s.q) THEN Least(s.q.pnl, s.h)
  ELSE 0

SettlePnl(s) ==
  [q |-> [s.q EXCEPT !.cap = @ + Settled(s), !.pnl = @ - Settled(s)],
   h |-> s.h - Settled(s)]

(* Withdraw refuses while any leg is open and beyond the capital. *)
WithdrawAccepted(q, amount) == q.exists /\ Flat(q) /\ amount <= q.cap

Withdraw(q, amount) == [q EXCEPT !.cap = @ - amount]

(* The permissionless liquidation of a portfolio whose equity is gone: the *)
(* leg in asset a is cut by any part of it, or taken whole ("already flat, *)
(* e.g. fully liquidated", processor.rs:393), and the rest is settled.     *)
Liquidatable(q) == q.exists /\ ~Flat(q) /\ Equity(q) <= Maintenance

Toward(i, cut) == IF i < 0 THEN i + cut ELSE i - cut

Liquidate(s, a, cut) ==
  SettlePnl([s EXCEPT !.q.leg[a] = Toward(@, cut)])
=============================================================================
