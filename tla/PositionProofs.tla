---------------------------- MODULE PositionProofs ----------------------------
(***************************************************************************)
(* Proofs about PositionProgram, for every number of NFTs, wallets,        *)
(* markets and assets and every fee, rent and amount.                      *)
(***************************************************************************)
EXTENDS PositionProperties, TLAPS

(* What an engine operation works on. *)
Accounts == [q : Portfolio, h : Nat]

USE DEF Long, Short

-----------------------------------------------------------------------------
(* The engine operators stay within portfolios and natural numbers. *)

(* An order moves one leg and pays its fee to the house. *)
LEMMA PlaceOrderType ==
  ASSUME NEW s \in Accounts, NEW a \in Asset, NEW side \in Side, NEW size \in Nat
  PROVE  /\ PlaceOrder(s, a, side, size) \in Accounts
         /\ PlaceOrder(s, a, side, size).q.exists = s.q.exists
<1> DEFINE fee == Least(OrderFee, s.q.cap)
<1>1. Signed(side, size) \in Int
  BY DEF Signed
<1>2. s.q \in Portfolio /\ s.h \in Nat
  BY DEF Accounts
<1>3. fee \in Nat /\ s.q.cap - fee \in Nat
  BY <1>2, OrderFeeAssumption DEF Least, Portfolio
<1>4. [s.q.leg EXCEPT ![a] = @ + Signed(side, size)] \in [Asset -> Int]
  BY <1>1, <1>2 DEF Portfolio
<1> DEFINE leg == [s.q.leg EXCEPT ![a] = @ + Signed(side, size)]
           q   == [s.q EXCEPT !.cap = @ - fee, !.leg = leg]
           h   == s.h + fee
<1>5. PlaceOrder(s, a, side, size) = [q |-> q, h |-> h]
  BY <1>2 DEF PlaceOrder, Portfolio
<1> HIDE DEF fee
<1>6. leg \in [Asset -> Int]
  BY <1>4
<1> HIDE DEF leg
<1>7. q \in Portfolio /\ q.exists = s.q.exists /\ q.leg = leg
  BY <1>2, <1>3, <1>6 DEF Portfolio
<1>8. h \in Nat
  BY <1>2, <1>3
<1> HIDE DEF q, h
<1>9. /\ PlaceOrder(s, a, side, size) \in Accounts
      /\ PlaceOrder(s, a, side, size).q = q
  BY <1>5, <1>7, <1>8 DEF Accounts
<1> QED
  BY <1>7, <1>9

(* An order moves the leg it names. *)
LEMMA PlaceOrderLegs ==
  ASSUME NEW s \in Accounts, NEW a \in Asset, NEW side, NEW size
  PROVE  /\ PlaceOrder(s, a, side, size).q.leg[a] =
              s.q.leg[a] + Signed(side, size)
         /\ \A b \in Asset \ {a} :
              PlaceOrder(s, a, side, size).q.leg[b] = s.q.leg[b]
<1> DEFINE leg == [s.q.leg EXCEPT ![a] = @ + Signed(side, size)]
           cap == s.q.cap - Least(OrderFee, s.q.cap)
<1>1. PlaceOrder(s, a, side, size).q = [s.q EXCEPT !.cap = cap, !.leg = leg]
  BY DEF PlaceOrder, Accounts, Portfolio
<1>2. s.q \in Portfolio
  BY DEF Accounts
<1> HIDE DEF cap, leg
<1>3. PlaceOrder(s, a, side, size).q.leg = leg
  BY <1>1, <1>2 DEF Portfolio
<1> QED
  BY <1>2, <1>3 DEF leg, Portfolio

(* An order takes its fee from the capital and leaves the profit alone. *)
LEMMA OrderMoney ==
  ASSUME NEW s \in Accounts, NEW a \in Asset, NEW side, NEW size
  PROVE  /\ PlaceOrder(s, a, side, size).q.cap =
              s.q.cap - Least(OrderFee, s.q.cap)
         /\ PlaceOrder(s, a, side, size).q.pnl = s.q.pnl
<1> DEFINE leg == [s.q.leg EXCEPT ![a] = @ + Signed(side, size)]
           cap == s.q.cap - Least(OrderFee, s.q.cap)
<1>1. PlaceOrder(s, a, side, size).q = [s.q EXCEPT !.cap = cap, !.leg = leg]
  BY DEF PlaceOrder, Accounts, Portfolio
<1>2. s.q \in Portfolio
  BY DEF Accounts
<1> HIDE DEF cap, leg
<1>3. /\ PlaceOrder(s, a, side, size).q.cap = cap
      /\ PlaceOrder(s, a, side, size).q.pnl = s.q.pnl
  BY <1>1, <1>2 DEF Portfolio
<1> QED
  BY <1>3 DEF cap

(* What a settle moves is covered on both sides. *)
LEMMA SettledRange ==
  ASSUME NEW s \in Accounts
  PROVE  Settled(s) \in Int /\ Settled(s) <= s.h /\ -Settled(s) <= s.q.cap
BY DEF Settled, Least, Accounts, Portfolio

(* A settle leaves the legs and the equity alone. *)
LEMMA SettlePnlType ==
  ASSUME NEW s \in Accounts
  PROVE  /\ SettlePnl(s) \in Accounts
         /\ SettlePnl(s).q.exists = s.q.exists
         /\ SettlePnl(s).q.leg = s.q.leg
         /\ Equity(SettlePnl(s).q) = Equity(s.q)
<1> DEFINE moved == Settled(s)
           q     == [s.q EXCEPT !.cap = @ + moved, !.pnl = @ - moved]
           h     == s.h - moved
<1>1. s.q \in Portfolio /\ s.h \in Nat
  BY DEF Accounts
<1>2. moved \in Int /\ moved <= s.h /\ -moved <= s.q.cap
  BY SettledRange
<1>3. SettlePnl(s) = [q |-> q, h |-> h]
  BY DEF SettlePnl
<1> HIDE DEF moved
<1>4. /\ q \in Portfolio /\ q.exists = s.q.exists /\ q.leg = s.q.leg
      /\ Equity(q) = Equity(s.q)
  <2>1. s.q.cap \in Nat /\ s.q.pnl \in Int
    BY <1>1 DEF Portfolio
  <2>2. /\ s.q.cap + moved \in Nat /\ s.q.pnl - moved \in Int
        /\ (s.q.cap + moved) + (s.q.pnl - moved) = s.q.cap + s.q.pnl
    BY <1>2, <2>1
  <2>3. /\ q.cap = s.q.cap + moved /\ q.pnl = s.q.pnl - moved
        /\ q.exists = s.q.exists /\ q.leg = s.q.leg
    BY <1>1 DEF Portfolio
  <2>4. q \in Portfolio
    BY <1>1, <2>2 DEF Portfolio
  <2> QED
    BY <2>2, <2>3, <2>4 DEF Equity
<1>5. h \in Nat
  BY <1>1, <1>2
<1> HIDE DEF q, h
<1>6. SettlePnl(s) \in Accounts /\ SettlePnl(s).q = q
  BY <1>3, <1>4, <1>5 DEF Accounts
<1> QED
  BY <1>4, <1>6

(* A settle moves the same amount between capital and profit. *)
LEMMA SettleMoney ==
  ASSUME NEW s \in Accounts
  PROVE  /\ SettlePnl(s).q.cap = s.q.cap + Settled(s)
         /\ SettlePnl(s).q.pnl = s.q.pnl - Settled(s)
<1> DEFINE moved == Settled(s)
<1>1. s.q \in Portfolio
  BY DEF Accounts
<1>2. SettlePnl(s).q = [s.q EXCEPT !.cap = @ + moved, !.pnl = @ - moved]
  BY DEF SettlePnl
<1> HIDE DEF moved
<1>3. /\ SettlePnl(s).q.cap = s.q.cap + moved
      /\ SettlePnl(s).q.pnl = s.q.pnl - moved
  BY <1>1, <1>2 DEF Portfolio
<1> QED
  BY <1>3 DEF moved

(* No settle releases more than the profit there is, and a loss takes at   *)
(* least what is there of the capital.                                     *)
LEMMA SettledBound ==
  ASSUME NEW s \in Accounts
  PROVE  /\ s.q.pnl >= 0 => Settled(s) <= s.q.pnl
         /\ s.q.pnl < 0 => \/ Settled(s) = s.q.pnl
                           \/ Settled(s) = -s.q.cap
         /\ ~Flat(s.q) => Settled(s) <= 0
<1>1. s.q.pnl \in Int /\ s.q.cap \in Nat /\ s.h \in Nat
  BY DEF Accounts, Portfolio
<1> QED
  BY <1>1 DEF Settled, Least

(* Leg i is what is left of leg j: nothing, or some of it on its side. *)
CutFrom(i, j) ==
  /\ i \in Int
  /\ j >= 0 => 0 <= i /\ i <= j
  /\ j <= 0 => j <= i /\ i <= 0

(* A leg is what is left of itself. *)
LEMMA Uncut == \A i \in Int : CutFrom(i, i)
BY DEF CutFrom

(* What is left of a leg is on its side, or nothing. *)
LEMMA CutSide ==
  \A j \in Int : \A i : CutFrom(i, j) =>
    i \in Int /\ (j = 0 => i = 0) /\ (j > 0 => i >= 0) /\ (j < 0 => i <= 0)
BY DEF CutFrom

(* A liquidation only cuts legs, keeps the equity, and lets no capital     *)
(* grow under a leg.                                                       *)
LEMMA LiquidateType ==
  ASSUME NEW s \in Accounts, NEW a \in Asset,
         NEW cut \in 1 .. Magnitude(s.q.leg[a])
  PROVE  /\ Liquidate(s, a, cut) \in Accounts
         /\ Liquidate(s, a, cut).q.exists = s.q.exists
         /\ \A b \in Asset :
              CutFrom(Liquidate(s, a, cut).q.leg[b], s.q.leg[b])
         /\ Equity(Liquidate(s, a, cut).q) = Equity(s.q)
         /\ ~Flat(Liquidate(s, a, cut).q) =>
              Liquidate(s, a, cut).q.cap <= s.q.cap
<1> DEFINE left == Toward(s.q.leg[a], cut)
           t == [s EXCEPT !.q.leg[a] = left]
<1>1. s.q \in Portfolio /\ \A b \in Asset : s.q.leg[b] \in Int
  BY DEF Accounts, Portfolio
<1>2. left \in Int /\ CutFrom(left, s.q.leg[a])
  BY <1>1 DEF Toward, Magnitude, CutFrom
<1>3. Liquidate(s, a, cut) = SettlePnl(t)
  BY <1>1 DEF Liquidate
<1> HIDE DEF left
<1>4. /\ t \in Accounts
      /\ t.q.exists = s.q.exists /\ t.q.cap = s.q.cap /\ t.q.pnl = s.q.pnl
      /\ t.q.leg = [s.q.leg EXCEPT ![a] = left]
  BY <1>1, <1>2 DEF Accounts, Portfolio
<1>5. \A b \in Asset : CutFrom(t.q.leg[b], s.q.leg[b])
  BY <1>1, <1>2, <1>4, Uncut DEF Portfolio
<1> HIDE DEF t
<1>6. /\ SettlePnl(t) \in Accounts
      /\ SettlePnl(t).q.exists = t.q.exists
      /\ SettlePnl(t).q.leg = t.q.leg
      /\ Equity(SettlePnl(t).q) = Equity(t.q)
  BY <1>4, SettlePnlType
<1>7. ~Flat(SettlePnl(t).q) => SettlePnl(t).q.cap <= t.q.cap
  <2>1. /\ SettlePnl(t).q.cap = t.q.cap + Settled(t)
        /\ ~Flat(t.q) => Settled(t) <= 0
        /\ Settled(t) \in Int /\ t.q.cap \in Nat
    BY <1>4, SettleMoney, SettledBound, SettledRange DEF Accounts, Portfolio
  <2>2. Flat(SettlePnl(t).q) <=> Flat(t.q)
    BY <1>6 DEF Flat
  <2> QED
    BY <2>1, <2>2
<1>8. Equity(SettlePnl(t).q) = Equity(s.q)
  BY <1>4, <1>6 DEF Equity
<1>9. \A b \in Asset : CutFrom(SettlePnl(t).q.leg[b], s.q.leg[b])
  BY <1>5, <1>6
<1> QED
  BY <1>3, <1>4, <1>6, <1>7, <1>8, <1>9

-----------------------------------------------------------------------------
(* Type correctness. *)

(* The genesis balances are natural numbers. *)
LEMMA InitTypeOK == Init => TypeOK
BY EndowmentAssumption
   DEF Init, TypeOK, Mint, NoMint, Portfolio, NoPortfolio

(* Every engine step writes back a portfolio and a house. *)
LEMMA EngineOnlyTypeOK ==
  ASSUME TypeOK, NEW n \in Nft, NEW mk \in Market, NEW s \in Accounts,
         EngineOnly(n, mk, s)
  PROVE  TypeOK'
BY DEF EngineOnly, TypeOK, Accounts

(* What a close's CPIs find is a portfolio and its counterparty. *)
LEMMA BeforeType ==
  ASSUME TypeOK, NEW n \in Nft, NEW mk \in Market
  PROVE  /\ Before(mk, n) \in Accounts
         /\ Before(mk, n).q = pf[n][mk] /\ Before(mk, n).h = house[mk]
BY DEF Before, TypeOK, Accounts

(* What an open starts from. *)
LEMMA OpeningType ==
  ASSUME TypeOK, NEW mk \in Market, NEW amount \in Amount
  PROVE  /\ Opening(mk, amount) \in Accounts
         /\ Opening(mk, amount).q.exists
         /\ Opening(mk, amount).q.leg = [a \in Asset |-> 0]
<1>1. /\ InitPortfolio \in Portfolio
      /\ InitPortfolio.exists
      /\ InitPortfolio.leg = [a \in Asset |-> 0]
  <2>1. /\ NoPortfolio \in Portfolio
        /\ NoPortfolio.leg = [a \in Asset |-> 0]
    BY DEF NoPortfolio, Portfolio
  <2> QED
    BY <2>1 DEF InitPortfolio, Portfolio
<1>2. /\ Deposit(InitPortfolio, amount) \in Portfolio
      /\ Deposit(InitPortfolio, amount).exists
      /\ Deposit(InitPortfolio, amount).leg = [a \in Asset |-> 0]
  <2>1. InitPortfolio.cap + amount \in Nat
    BY <1>1, InputAssumption DEF Portfolio
  <2> QED
    BY <1>1, <2>1 DEF Deposit, Portfolio
<1> QED
  BY <1>2 DEF Opening, TypeOK, Accounts

(* The CPIs of a close end in a portfolio that exists if it did before. *)
LEMMA AfterSettleType ==
  ASSUME TypeOK, NEW n \in Nft, NEW mk \in Market, NEW a \in Asset,
         NEW side \in Side, NEW size \in Nat
  PROVE  /\ AfterSettle(mk, n, a, side, size) \in Accounts
         /\ AfterSettle(mk, n, a, side, size).q.exists = pf[n][mk].exists
<1>1. /\ Flattened(mk, n, a, side, size) \in Accounts
      /\ Flattened(mk, n, a, side, size).q.exists = pf[n][mk].exists
  <2>1. CASE size > 0
    <3>1. Flattened(mk, n, a, side, size) =
            PlaceOrder(Before(mk, n), a, side, size)
      BY <2>1 DEF Flattened
    <3> QED
      BY <3>1, BeforeType, PlaceOrderType
  <2>2. CASE ~(size > 0)
    BY <2>2, BeforeType DEF Flattened
  <2> QED
    BY <2>1, <2>2
<1> QED
  BY <1>1, SettlePnlType DEF AfterSettle

(* The order of a close moves the leg it names. *)
LEMMA AfterOrderLegs ==
  ASSUME TypeOK, NEW n \in Nft, NEW mk \in Market, NEW a \in Asset,
         NEW side \in Side, NEW size \in Nat, size > 0
  PROVE  /\ AfterSettle(mk, n, a, side, size).q.leg[a] =
              pf[n][mk].leg[a] + Signed(side, size)
         /\ \A b \in Asset \ {a} :
              AfterSettle(mk, n, a, side, size).q.leg[b] = pf[n][mk].leg[b]
<1> DEFINE s == PlaceOrder(Before(mk, n), a, side, size)
<1>1. AfterSettle(mk, n, a, side, size) = SettlePnl(s)
  BY DEF AfterSettle, Flattened
<1>2. s \in Accounts
  BY BeforeType, PlaceOrderType
<1>3. /\ s.q.leg[a] = pf[n][mk].leg[a] + Signed(side, size)
      /\ \A b \in Asset \ {a} : s.q.leg[b] = pf[n][mk].leg[b]
  BY BeforeType, PlaceOrderLegs
<1> HIDE DEF s
<1>4. SettlePnl(s).q.leg = s.q.leg
  BY <1>2, SettlePnlType
<1> QED
  BY <1>1, <1>3, <1>4

(* A close without an order leaves the legs and the equity alone. *)
LEMMA SettleOnly ==
  ASSUME TypeOK, NEW n \in Nft, NEW mk \in Market, NEW a, NEW side
  PROVE  /\ AfterSettle(mk, n, a, side, 0).q.leg = pf[n][mk].leg
         /\ Equity(AfterSettle(mk, n, a, side, 0).q) = Equity(pf[n][mk])
<1>1. Flattened(mk, n, a, side, 0) = Before(mk, n)
  BY DEF Flattened
<1> QED
  BY <1>1, BeforeType, SettlePnlType DEF AfterSettle

(* A liquidation writes back a portfolio with its legs cut. *)
LEMMA LiquidationCuts ==
  ASSUME TypeOK, NEW n \in Nft, NEW mk \in Market, Liquidation(n, mk)
  PROVE  \E s \in Accounts :
           /\ EngineOnly(n, mk, s)
           /\ s.q.exists = pf[n][mk].exists
           /\ \A a \in Asset : CutFrom(s.q.leg[a], pf[n][mk].leg[a])
           /\ Equity(s.q) = Equity(pf[n][mk])
           /\ ~Flat(s.q) => s.q.cap <= pf[n][mk].cap
<1> DEFINE b == Before(mk, n)
<1>1. b \in Accounts /\ b.q = pf[n][mk]
  BY BeforeType
<1>2. PICK a \in Asset : \E cut \in 1 .. Magnitude(b.q.leg[a]) :
        EngineOnly(n, mk, Liquidate(b, a, cut))
  BY <1>1 DEF Liquidation
<1>3. PICK cut \in 1 .. Magnitude(b.q.leg[a]) :
        EngineOnly(n, mk, Liquidate(b, a, cut))
  BY <1>2
<1> HIDE DEF b
<1>4. /\ Liquidate(b, a, cut) \in Accounts
      /\ Liquidate(b, a, cut).q.exists = b.q.exists
      /\ \A c \in Asset :
           CutFrom(Liquidate(b, a, cut).q.leg[c], b.q.leg[c])
      /\ Equity(Liquidate(b, a, cut).q) = Equity(b.q)
      /\ ~Flat(Liquidate(b, a, cut).q) =>
           Liquidate(b, a, cut).q.cap <= b.q.cap
  BY <1>1, LiquidateType
<1> QED
  BY <1>1, <1>3, <1>4

(* A burn outside the program needs the supply to match the accounts. *)
LEMMA ClientTypeOK == TypeOK /\ OneBearer /\ ClientNext => TypeOK'
<1> SUFFICES ASSUME TypeOK, OneBearer, NEW w \in Wallet, NEW n \in Nft,
                    \/ \E vetted \in BOOLEAN : CreateMint(w, n, vetted)
                    \/ \E x \in Wallet : CreateNftAccount(w, x, n)
                    \/ \E st \in Stash : CreateStaging(w, n, st)
                    \/ \E st \in Stash, amount \in Amount :
                         FundStaging(w, n, st, amount)
                    \/ FundPda(w, n)
                    \/ \E x \in Wallet : TransferNft(w, x, n)
                    \/ BurnOutside(w, n)
             PROVE  TypeOK'
  BY DEF ClientNext
<1> USE RentAssumption, InputAssumption
<1>1. ASSUME NEW vetted \in BOOLEAN, CreateMint(w, n, vetted) PROVE TypeOK'
  <2> DEFINE new == [NoMint EXCEPT !.exists = TRUE, !.vetted = vetted,
                                   !.authority = TRUE]
  <2>1. new \in Mint
    BY DEF NoMint, Mint
  <2>2. /\ mint' = [mint EXCEPT ![n] = new]
        /\ sol[w] >= RentMint /\ sol' = [sol EXCEPT ![w] = @ - RentMint]
    BY <1>1 DEF CreateMint
  <2> HIDE DEF new
  <2>3. mint' \in [Nft -> Mint]
    BY <2>1, <2>2 DEF TypeOK
  <2>4. sol' \in [Wallet -> Nat]
    BY <2>2 DEF TypeOK
  <2> QED
    BY <1>1, <2>3, <2>4 DEF CreateMint, TypeOK
<1>2. ASSUME NEW x \in Wallet, CreateNftAccount(w, x, n) PROVE TypeOK'
  BY <1>2 DEF CreateNftAccount, TypeOK
<1>3. ASSUME NEW st \in Stash, CreateStaging(w, n, st) PROVE TypeOK'
  BY <1>3 DEF CreateStaging, TypeOK
<1>4. ASSUME NEW st \in Stash, NEW amount \in Amount,
             FundStaging(w, n, st, amount)
      PROVE  TypeOK'
  BY <1>4 DEF FundStaging, TypeOK
<1>5. CASE FundPda(w, n)
  BY <1>5 DEF FundPda, TypeOK
<1>6. ASSUME NEW x \in Wallet, TransferNft(w, x, n) PROVE TypeOK'
  BY <1>6 DEF TransferNft, TypeOK
<1>7. CASE BurnOutside(w, n)
  <2>1. mint[n].supply - 1 \in Nat
    <3>1. ~Unissued(n)
      BY <1>7 DEF BurnOutside, Unissued
    <3>2. mint[n].supply = 1
      BY <3>1 DEF OneBearer, BearerOf
    <3> QED
      BY <3>2
  <2>2. mint' \in [Nft -> Mint]
    <3>1. mint[n] \in Mint
      BY DEF TypeOK
    <3>2. [mint[n] EXCEPT !.supply = mint[n].supply - 1] \in Mint
      BY <2>1, <3>1 DEF Mint
    <3> QED
      BY <1>7, <3>2 DEF BurnOutside, TypeOK
  <2>3. nftAmt' \in [Nft -> [Wallet -> Nat]]
    BY <1>7 DEF BurnOutside, TypeOK
  <2> QED
    BY <1>7, <2>2, <2>3 DEF BurnOutside, TypeOK
<1> QED
  BY <1>1, <1>2, <1>3, <1>4, <1>5, <1>6, <1>7

(* The mark, the liquidator and the crank write back what they read. *)
LEMMA EngineTypeOK == TypeOK /\ EngineNext => TypeOK'
<1> SUFFICES ASSUME TypeOK, NEW n \in Nft, NEW mk \in Market,
                    \/ \E pnl \in -PnlBound .. PnlBound : Accrue(n, mk, pnl)
                    \/ Liquidation(n, mk)
                    \/ Crank(n, mk)
             PROVE  TypeOK'
  BY DEF EngineNext
<1>1. ASSUME NEW pnl \in -PnlBound .. PnlBound, Accrue(n, mk, pnl) PROVE TypeOK'
  <2>1. [Before(mk, n) EXCEPT !.q.pnl = pnl] \in Accounts
    BY BeforeType DEF Accounts, Portfolio
  <2> QED
    BY <1>1, <2>1, EngineOnlyTypeOK DEF Accrue
<1>2. CASE Liquidation(n, mk)
  BY <1>2, LiquidationCuts, EngineOnlyTypeOK
<1>3. CASE Crank(n, mk)
  BY <1>3, BeforeType, SettlePnlType, EngineOnlyTypeOK DEF Crank
<1> QED
  BY <1>1, <1>2, <1>3

(* An open takes from every account at most what is in it. *)
LEMMA OpenTypeOK ==
  ASSUME TypeOK, NEW x \in Wallet, NEW n \in Nft, NEW pn \in Nft,
         NEW mk \in Market, NEW st \in Stash, NEW a \in Asset,
         NEW side \in Side, NEW size \in Size, NEW amount \in Amount,
         OpenPosition(x, n, mk, pn, st, a, side, size, amount)
  PROVE  TypeOK'
<1> USE RentAssumption, InputAssumption
<1>2. PlaceOrder(Opening(mk, amount), a, side, size) \in Accounts
  BY OpeningType, PlaceOrderType
<1>3. /\ pf' \in [Nft -> [Market -> Portfolio]]
      /\ house' \in [Market -> Nat]
  BY <1>2 DEF OpenPosition, TypeOK, Accounts
<1>4. /\ pda' \in [Nft -> Nat]
      /\ staged' \in [Nft -> [Stash -> Nat]]
  BY DEF OpenPosition, CanOpen, DepositFunded, TypeOK
<1>5. nftAmt' \in [Nft -> [Wallet -> Nat]]
  BY DEF OpenPosition, MintUnit, TypeOK
<1>6. mint' \in [Nft -> Mint]
  <2>1. mint[n] \in Mint
    BY DEF TypeOK
  <2>2. mint[n].supply + MintUnit \in Nat
    BY <2>1 DEF MintUnit, Mint
  <2>3. PositionName(side) \in {"none", "long", "short"}
    BY DEF PositionName
  <2>4. Minted(mint[n], side, mk) \in Mint
    BY <2>1, <2>2, <2>3 DEF Minted, Mint
  <2> QED
    BY <2>4 DEF OpenPosition, TypeOK
<1> QED
  BY <1>3, <1>4, <1>5, <1>6 DEF OpenPosition, TypeOK

(* A close takes from every account at most what is in it. *)
LEMMA CloseTypeOK ==
  ASSUME TypeOK, NEW w \in Wallet, NEW n \in Nft, NEW pn \in Nft,
         NEW y \in Wallet, NEW mk \in Market, NEW st \in Stash,
         NEW a \in Asset, NEW side \in Side, NEW size \in Nat,
         NEW amount \in Nat,
         ClosePosition(w, y, n, mk, pn, st, a, side, size, amount)
  PROVE  TypeOK'
<1> USE RentAssumption, InputAssumption
<1> DEFINE s == AfterSettle(mk, pn, a, side, size)
           q == IF amount > 0 THEN Withdraw(s.q, amount) ELSE s.q
<1>1. s \in Accounts
  BY AfterSettleType
<1>2. q \in Portfolio
  <2>1. CASE amount > 0
    <3>1. s.q.cap - amount \in Nat
      BY <1>1, <2>1 DEF ClosePosition, CanClose, PayoutAccepted,
                        WithdrawAccepted, Accounts, Portfolio
    <3> QED
      BY <1>1, <2>1, <3>1 DEF Withdraw, Accounts, Portfolio
  <2>2. CASE ~(amount > 0)
    BY <1>1, <2>2 DEF Accounts
  <2> QED
    BY <2>1, <2>2
<1>3. /\ pf' \in [Nft -> [Market -> Portfolio]]
      /\ house' \in [Market -> Nat]
  <2>1. pf' = [pf EXCEPT ![pn][mk] = q] /\ house' = [house EXCEPT ![mk] = s.h]
    BY DEF ClosePosition
  <2> HIDE DEF q, s
  <2> QED
    BY <1>1, <1>2, <2>1 DEF TypeOK, Accounts
<1>4. mint' \in [Nft -> Mint]
  BY DEF ClosePosition, RetireNft, NoMint, TypeOK, Mint
<1>5. /\ nftAcct' \subseteq Nft \X Wallet
      /\ nftAmt' \in [Nft -> [Wallet -> Nat]]
  BY DEF ClosePosition, RetireNft, CanClose, HoldsNft, TypeOK
<1>6. /\ tok' \in [Wallet -> Nat] /\ sol' \in [Wallet -> Nat]
      /\ staged' \in [Nft -> [Stash -> Nat]] /\ pda' \in [Nft -> Nat]
      /\ staging' \subseteq Nft \X Stash /\ redeemed' \subseteq Nft
  BY DEF ClosePosition, Drained, Leftover, TypeOK
<1> QED
  BY <1>3, <1>4, <1>5, <1>6 DEF TypeOK

-----------------------------------------------------------------------------
(* The bearer token. *)

(* The token of position n is left alone; other accounts of its mint, and  *)
(* its staging account, may appear.                                        *)
TokenKept(n) ==
  /\ mint'[n] = mint[n] /\ nftAmt'[n] = nftAmt[n]
  /\ \A w \in Wallet : <<n, w>> \in nftAcct => <<n, w>> \in nftAcct'
  /\ \A st \in Stash : <<n, st>> \in staging => <<n, st>> \in staging'

(* Such a step leaves the position in the state it was in. *)
LEMMA TokenFrame ==
  ASSUME NEW n \in Nft, TokenKept(n),
         Unissued(n) \/ \E w \in Wallet : BearerOf(n, w)
  PROVE  Unissued(n)' \/ \E w \in Wallet : BearerOf(n, w)'
BY DEF TokenKept, Unissued, BearerOf, HoldsNft

(* Whoever has a unit is the bearer. *)
LEMMA UnitIsBearer ==
  ASSUME OneBearer, NEW n \in Nft, NEW w \in Wallet, nftAmt[n][w] = 1
  PROVE  BearerOf(n, w)
<1>1. ~Unissued(n)
  BY DEF Unissued
<1>2. PICK x \in Wallet : BearerOf(n, x)
  BY <1>1 DEF OneBearer
<1>3. x = w
  BY <1>2 DEF BearerOf
<1> QED
  BY <1>2, <1>3

(* A transfer passes the unit on, a burn retires it, and no client can     *)
(* create a mint where one exists. *)
LEMMA ClientOneBearer == TypeOK /\ OneBearer /\ ClientNext => OneBearer'
<1> SUFFICES ASSUME TypeOK, OneBearer, NEW w \in Wallet, NEW n \in Nft,
                    \/ \E vetted \in BOOLEAN : CreateMint(w, n, vetted)
                    \/ \E x \in Wallet : CreateNftAccount(w, x, n)
                    \/ \E st \in Stash : CreateStaging(w, n, st)
                    \/ \E st \in Stash, amount \in Amount :
                         FundStaging(w, n, st, amount)
                    \/ FundPda(w, n)
                    \/ \E x \in Wallet : TransferNft(w, x, n)
                    \/ BurnOutside(w, n),
                    NEW m \in Nft
             PROVE  Unissued(m)' \/ \E x \in Wallet : BearerOf(m, x)'
  BY DEF ClientNext, OneBearer
<1>0. Unissued(m) \/ \E x \in Wallet : BearerOf(m, x)
  BY DEF OneBearer
<1>1. ASSUME NEW vetted \in BOOLEAN, CreateMint(w, n, vetted)
      PROVE  Unissued(m)' \/ \E x \in Wallet : BearerOf(m, x)'
  <2>1. CASE m = n
    <3>1. Unissued(n)
      BY <1>0, <1>1, <2>1 DEF CreateMint, BearerOf
    <3> QED
      BY <1>1, <2>1, <3>1 DEF CreateMint, NoMint, Unissued, TypeOK
  <2>2. CASE m # n
    BY <1>0, <1>1, <2>2, TokenFrame DEF CreateMint, TokenKept, TypeOK
  <2> QED
    BY <2>1, <2>2
<1>2. ASSUME NEW x \in Wallet, CreateNftAccount(w, x, n) PROVE TokenKept(m)
  BY <1>2 DEF CreateNftAccount, TokenKept
<1>3. ASSUME NEW st \in Stash, CreateStaging(w, n, st)
      PROVE  TokenKept(m)
  BY <1>3 DEF CreateStaging, TokenKept
<1>4. ASSUME NEW st \in Stash, NEW amount \in Amount,
             FundStaging(w, n, st, amount)
      PROVE  TokenKept(m)
  BY <1>4 DEF FundStaging, TokenKept
<1>5. CASE FundPda(w, n)
  BY <1>0, <1>5, TokenFrame DEF FundPda, TokenKept
<1>6. ASSUME NEW x \in Wallet, TransferNft(w, x, n)
      PROVE  Unissued(m)' \/ \E y \in Wallet : BearerOf(m, y)'
  <2>1. CASE m = n
    <3>1. BearerOf(n, w)
      BY <1>6, UnitIsBearer DEF TransferNft
    <3>2. BearerOf(n, x)'
      BY <1>6, <3>1 DEF TransferNft, BearerOf, HoldsNft, TypeOK
    <3> QED
      BY <2>1, <3>2
  <2>2. CASE m # n
    BY <1>0, <1>6, <2>2, TokenFrame DEF TransferNft, TokenKept, TypeOK
  <2> QED
    BY <2>1, <2>2
<1>7. CASE BurnOutside(w, n)
  <2>1. CASE m = n
    <3>1. BearerOf(n, w)
      BY <1>7, UnitIsBearer DEF BurnOutside
    <3>2. Unissued(n)'
      BY <1>7, <3>1 DEF BurnOutside, BearerOf, Unissued, TypeOK, Mint
    <3> QED
      BY <2>1, <3>2
  <2>2. CASE m # n
    BY <1>0, <1>7, <2>2, TokenFrame DEF BurnOutside, TokenKept, TypeOK
  <2> QED
    BY <2>1, <2>2
<1> QED
  BY <1>0, <1>1, <1>2, <1>3, <1>4, <1>5, <1>6, <1>7, TokenFrame

(* An open issues the unit of a mint that had none, to one account. *)
LEMMA OpenOneBearer ==
  ASSUME TypeOK, OneBearer, NEW x \in Wallet, NEW n \in Nft, NEW pn \in Nft,
         NEW mk \in Market, NEW st \in Stash, NEW a \in Asset,
         NEW side \in Side, NEW size \in Size, NEW amount \in Amount,
         OpenPosition(x, n, mk, pn, st, a, side, size, amount)
  PROVE  OneBearer'
<1> SUFFICES ASSUME NEW m \in Nft
             PROVE  Unissued(m)' \/ \E y \in Wallet : BearerOf(m, y)'
  BY DEF OneBearer
<1>1. CASE m = n
  <2>1. /\ mint[n] \in Mint
        /\ mint[n].exists /\ mint[n].vetted /\ mint[n].supply = 0
        /\ <<n, x>> \in nftAcct /\ <<n, st>> \in staging
    BY DEF OpenPosition, CanOpen, VerifyPositionMint, DepositFunded, TypeOK
  <2>2. Unissued(n)
    BY <2>1 DEF OneBearer, BearerOf
  <2>3. /\ mint'[n].exists /\ mint'[n].vetted
        /\ ~mint'[n].authority /\ mint'[n].supply = 1
        /\ mint'[n].name = PositionName(side)
    <3>1. mint'[n] = Minted(mint[n], side, mk)
      BY DEF OpenPosition, TypeOK
    <3>2. /\ Minted(mint[n], side, mk).exists = mint[n].exists
          /\ Minted(mint[n], side, mk).vetted = mint[n].vetted
          /\ Minted(mint[n], side, mk).authority = FALSE
          /\ Minted(mint[n], side, mk).supply = mint[n].supply + MintUnit
          /\ Minted(mint[n], side, mk).name = PositionName(side)
      BY <2>1 DEF Minted, Mint
    <3> QED
      BY <2>1, <3>1, <3>2 DEF MintUnit
  <2>4. /\ nftAmt'[n][x] = 1
        /\ \A y \in Wallet \ {x} : nftAmt'[n][y] = 0
    BY <2>2 DEF OpenPosition, MintUnit, Unissued, TypeOK
  <2>5. BearerOf(n, x)'
    BY <2>1, <2>3, <2>4 DEF OpenPosition, BearerOf, HoldsNft, PositionName
  <2> QED
    BY <1>1, <2>5
<1>2. CASE m # n
  <2>1. TokenKept(m)
    BY <1>2 DEF OpenPosition, TokenKept, TypeOK
  <2> QED
    BY <2>1, TokenFrame DEF OneBearer
<1> QED
  BY <1>1, <1>2

(* A close retires the unit its signer holds, and leaves every other       *)
(* position's unit where it was. *)
LEMMA CloseOneBearer ==
  ASSUME TypeOK, OneBearer, NEW w \in Wallet, NEW n \in Nft, NEW pn \in Nft,
         NEW y \in Wallet, NEW mk \in Market, NEW st \in Stash,
         NEW a \in Asset, NEW side \in Side, NEW size \in Nat,
         NEW amount \in Nat,
         ClosePosition(w, y, n, mk, pn, st, a, side, size, amount)
  PROVE  OneBearer' /\ Unissued(n)'
<1>1. BearerOf(n, w)
  BY UnitIsBearer DEF ClosePosition, CanClose, HoldsNft
<1>2. Unissued(n)'
  BY <1>1 DEF ClosePosition, RetireNft, NoMint, Unissued, BearerOf, HoldsNft,
              TypeOK
<1>3. ASSUME NEW m \in Nft, m # n
      PROVE  Unissued(m)' \/ \E x \in Wallet : BearerOf(m, x)'
  <2>1. TokenKept(m)
    BY <1>3 DEF ClosePosition, RetireNft, TokenKept, TypeOK
  <2> QED
    BY <2>1, TokenFrame DEF OneBearer
<1> QED
  BY <1>2, <1>3 DEF OneBearer

(* The engine never touches the NFT. *)
LEMMA EngineOneBearer == OneBearer /\ EngineNext => OneBearer'
BY TokenFrame
   DEF EngineNext, Accrue, Liquidation, Crank, EngineOnly, OneBearer, TokenKept

-----------------------------------------------------------------------------
(* The exposure of a live position. *)

(* What NamedExposure says of a live position. *)
Named(n) ==
  /\ mint[n].market \in Market
  /\ Exposed(pf[n][mint[n].market], mint[n].name)

(* A position that was live keeps its name and its market, and of its legs *)
(* keeps what a liquidation leaves.                                        *)
ExposureKept(n) ==
  Live(n)' =>
    /\ Live(n)
    /\ mint'[n].name = mint[n].name /\ mint'[n].market = mint[n].market
    /\ \A mk \in Market :
         /\ pf'[n][mk].exists = pf[n][mk].exists
         /\ \A a \in Asset : CutFrom(pf'[n][mk].leg[a], pf[n][mk].leg[a])

(* What is left of a portfolio is exposed as it was, or flat. *)
LEMMA CutExposed ==
  ASSUME NEW p, NEW q, NEW name, Exposed(q, name), p.exists = q.exists,
         \A a \in Asset : q.leg[a] \in Int /\ CutFrom(p.leg[a], q.leg[a])
  PROVE  Exposed(p, name)
<1>1. \A a \in Asset :
        /\ p.leg[a] \in Int
        /\ q.leg[a] = 0 => p.leg[a] = 0
        /\ q.leg[a] > 0 => p.leg[a] >= 0
        /\ q.leg[a] < 0 => p.leg[a] <= 0
  <2> TAKE a \in Asset
  <2>1. q.leg[a] \in Int /\ CutFrom(p.leg[a], q.leg[a])
    BY Zenon
  <2> DEFINE i == p.leg[a]
             j == q.leg[a]
  <2> HIDE DEF i, j
  <2>2. CutFrom(i, j) => i \in Int /\ (j = 0 => i = 0) /\ (j > 0 => i >= 0)
                                   /\ (j < 0 => i <= 0)
    BY <2>1, CutSide DEF i, j
  <2> QED
    BY <2>1, <2>2 DEF i, j
<1>2. CASE Flat(q)
  <2>1. Flat(p)
    BY <1>1, <1>2, Zenon DEF Flat
  <2>2. p.exists
    BY DEF Exposed
  <2> QED
    BY <2>1, <2>2 DEF Exposed
<1>3. CASE ~Flat(q)
  <2>1. PICK a \in Asset :
          OnSide(q, a, name) /\ \A b \in Asset \ {a} : q.leg[b] = 0
    BY <1>3 DEF Exposed
  <2>2. \A b \in Asset \ {a} : p.leg[b] = 0
    BY <1>1, <2>1
  <2>3. p.leg[a] = 0 \/ OnSide(p, a, name)
    BY <1>1, <2>1 DEF OnSide
  <2>4. p.leg[a] = 0 => Flat(p)
    BY <2>2 DEF Flat
  <2> QED
    BY <2>2, <2>3, <2>4 DEF Exposed
<1> QED
  BY <1>2, <1>3

(* Such a step leaves the portfolio exposed as before, or flat. *)
LEMMA ExposureFrame ==
  ASSUME TypeOK, NEW n \in Nft, ExposureKept(n), Live(n)', Live(n) => Named(n)
  PROVE  Named(n)'
<1> DEFINE mk == mint[n].market
<1>1. /\ mk \in Market /\ Exposed(pf[n][mk], mint[n].name)
      /\ mint'[n].name = mint[n].name /\ mint'[n].market = mk
  BY DEF ExposureKept, Named
<1>2. /\ pf'[n][mk].exists = pf[n][mk].exists
      /\ \A a \in Asset : CutFrom(pf'[n][mk].leg[a], pf[n][mk].leg[a])
  BY <1>1 DEF ExposureKept
<1>3. \A a \in Asset : pf[n][mk].leg[a] \in Int
  BY <1>1 DEF TypeOK, Portfolio
<1> HIDE DEF mk
<1>4. Exposed(pf'[n][mk], mint[n].name)
  BY <1>1, <1>2, <1>3, CutExposed
<1> QED
  BY <1>1, <1>4 DEF Named

(* A step that leaves a position's portfolios alone cuts nothing. *)
LEMMA PortfoliosKept ==
  ASSUME TypeOK, NEW n \in Nft, NEW mk \in Market,
         pf'[n][mk].leg = pf[n][mk].leg
  PROVE  \A a \in Asset : CutFrom(pf'[n][mk].leg[a], pf[n][mk].leg[a])
BY Uncut DEF TypeOK, Portfolio

(* Clients move the token, never the portfolio, and a mint they create or  *)
(* burn has no unit.                                                       *)
LEMMA ClientExposure ==
  TypeOK /\ OneBearer /\ NamedExposure /\ ClientNext => NamedExposure'
<1> SUFFICES ASSUME TypeOK, OneBearer, NamedExposure, ClientNext,
                    NEW m \in Nft
             PROVE  ExposureKept(m)
  BY ExposureFrame DEF NamedExposure, Named
<1>1. pf' = pf
  <2>1. ASSUME NEW w \in Wallet, NEW n \in Nft, NEW vetted \in BOOLEAN,
               CreateMint(w, n, vetted)
        PROVE  pf' = pf
    BY <2>1 DEF CreateMint
  <2>2. ASSUME NEW w \in Wallet, NEW n \in Nft, NEW x \in Wallet,
               CreateNftAccount(w, x, n) \/ TransferNft(w, x, n)
        PROVE  pf' = pf
    BY <2>2 DEF CreateNftAccount, TransferNft
  <2>3. ASSUME NEW w \in Wallet, NEW n \in Nft,
               FundPda(w, n) \/ BurnOutside(w, n)
        PROVE  pf' = pf
    BY <2>3 DEF FundPda, BurnOutside
  <2>4. ASSUME NEW w \in Wallet, NEW n \in Nft, NEW st \in Stash,
               \/ CreateStaging(w, n, st)
               \/ \E amount \in Amount : FundStaging(w, n, st, amount)
        PROVE  pf' = pf
    BY <2>4 DEF CreateStaging, FundStaging
  <2> QED
    BY <2>1, <2>2, <2>3, <2>4 DEF ClientNext
<1>2. Live(m)' => /\ Live(m) /\ mint'[m].name = mint[m].name
                  /\ mint'[m].market = mint[m].market
  <2>1. ASSUME mint' = mint PROVE <1>2!1 => <1>2!2
    BY <2>1 DEF Live
  <2>2. ASSUME NEW w \in Wallet, NEW n \in Nft, NEW vetted \in BOOLEAN,
               CreateMint(w, n, vetted)
        PROVE  <1>2!1 => <1>2!2
    BY <2>2 DEF CreateMint, NoMint, Live, TypeOK
  <2>3. ASSUME NEW w \in Wallet, NEW n \in Nft, BurnOutside(w, n)
        PROVE  <1>2!1 => <1>2!2
    <3>1. mint[n].supply = 1
      BY <2>3, UnitIsBearer DEF BurnOutside, BearerOf
    <3>2. mint'[n].supply = 0 /\ (m # n => mint'[m] = mint[m])
      BY <2>3, <3>1 DEF BurnOutside, TypeOK, Mint
    <3> QED
      BY <3>2 DEF Live
  <2>4. ASSUME NEW w \in Wallet, NEW n \in Nft,
               \/ \E x \in Wallet : CreateNftAccount(w, x, n)
               \/ \E x \in Wallet : TransferNft(w, x, n)
               \/ FundPda(w, n)
        PROVE  mint' = mint
    BY <2>4 DEF CreateNftAccount, TransferNft, FundPda
  <2>5. ASSUME NEW w \in Wallet, NEW n \in Nft, NEW st \in Stash,
               \/ CreateStaging(w, n, st)
               \/ \E amount \in Amount : FundStaging(w, n, st, amount)
        PROVE  mint' = mint
    BY <2>5 DEF CreateStaging, FundStaging
  <2> QED
    BY <2>1, <2>2, <2>3, <2>4, <2>5 DEF ClientNext
<1> QED
  BY <1>1, <1>2, PortfoliosKept DEF ExposureKept

(* The order of an open writes one leg, and the name of its side.  The     *)
(* portfolio is the position's own: the derivation is checked.             *)
LEMMA OpenExposure ==
  ASSUME TypeOK, NamedExposure, NEW x \in Wallet, NEW n \in Nft,
         NEW pn \in Nft, NEW mk \in Market, NEW st \in Stash,
         NEW a \in Asset, NEW side \in Side, NEW size \in Size,
         NEW amount \in Amount,
         OpenPosition(x, n, mk, pn, st, a, side, size, amount)
  PROVE  NamedExposure'
<1> USE InputAssumption
<1> SUFFICES ASSUME NEW m \in Nft, Live(m)'
             PROVE  Named(m)'
  BY DEF NamedExposure, Named
<1>1. CASE m = n
  <2> DEFINE t == PlaceOrder(Opening(mk, amount), a, side, size)
  <2>1. /\ t.q.exists
        /\ t.q.leg[a] = Signed(side, size)
        /\ \A b \in Asset \ {a} : t.q.leg[b] = 0
    <3>1. /\ t.q.exists
          /\ t.q.leg[a] = Opening(mk, amount).q.leg[a] + Signed(side, size)
          /\ \A b \in Asset \ {a} : t.q.leg[b] = Opening(mk, amount).q.leg[b]
      <4>1. Opening(mk, amount) \in Accounts /\ Opening(mk, amount).q.exists
        BY OpeningType
      <4>2. t.q.exists
        BY <4>1, PlaceOrderType
      <4> QED
        BY <4>1, <4>2, PlaceOrderLegs
    <3>2. Signed(side, size) \in Int
      BY DEF Signed
    <3> HIDE DEF t
    <3> QED
      BY <3>1, <3>2, OpeningType
  <2>2. pf'[n][mk] = t.q
    BY DEF OpenPosition, CanOpen, CanonicalPortfolio, TypeOK
  <2>3. mint'[n].name = PositionName(side) /\ mint'[n].market = mk
    <3>1. mint[n] \in Mint /\ mint'[n] = Minted(mint[n], side, mk)
      BY DEF OpenPosition, TypeOK
    <3>2. /\ Minted(mint[n], side, mk).name = PositionName(side)
          /\ Minted(mint[n], side, mk).market = mk
      BY <3>1 DEF Minted, Mint
    <3> QED
      BY <3>1, <3>2
  <2> HIDE DEF t
  <2>4. size > 0
    BY DEF OpenPosition, CanOpen
  <2>5. /\ OnSide(t.q, a, PositionName(side))
        /\ \A b \in Asset \ {a} : t.q.leg[b] = 0
    BY <2>1, <2>4 DEF OnSide, PositionName, Signed
  <2>6. Exposed(pf'[n][mk], mint'[n].name)
    BY <2>1, <2>2, <2>3, <2>5 DEF Exposed
  <2> QED
    BY <1>1, <2>3, <2>6 DEF Named
<1>2. CASE m # n
  <2>1. mint'[m] = mint[m] /\ pf'[m] = pf[m]
    BY <1>2 DEF OpenPosition, CanOpen, CanonicalPortfolio, TypeOK
  <2>2. Named(m)
    BY <2>1 DEF NamedExposure, Live, Named
  <2> QED
    BY <2>1, <2>2 DEF Named
<1> QED
  BY <1>1, <1>2

(* A close retires its own position; of any other one it can only settle   *)
(* the portfolio, since the order needs the other position's signature.    *)
LEMMA CloseExposure ==
  ASSUME TypeOK, OneBearer, NamedExposure, NEW w \in Wallet, NEW n \in Nft,
         NEW y \in Wallet, NEW pn \in Nft, NEW mk \in Market,
         NEW st \in Stash, NEW a \in Asset, NEW side \in Side,
         NEW size \in Nat, NEW amount \in Nat,
         ClosePosition(w, y, n, mk, pn, st, a, side, size, amount)
  PROVE  NamedExposure'
<1> USE InputAssumption
<1> SUFFICES ASSUME NEW m \in Nft PROVE ExposureKept(m)
  BY ExposureFrame DEF NamedExposure, Named
<1>1. CASE m = n
  BY <1>1, CloseOneBearer DEF Unissued, Live, ExposureKept
<1>2. CASE m # n /\ m # pn
  <2>1. mint'[m] = mint[m] /\ pf'[m] = pf[m]
    BY <1>2 DEF ClosePosition, RetireNft, TypeOK
  <2> QED
    BY <2>1, PortfoliosKept DEF ExposureKept, Live
<1>3. CASE m # n /\ m = pn
  <2> DEFINE s == AfterSettle(mk, pn, a, side, size)
  <2>1. size = 0 /\ amount = 0
    BY <1>3 DEF ClosePosition, CanClose, FlattenAccepted, PayoutAccepted
  <2>2. s.q.exists = pf[pn][mk].exists /\ s.q.leg = pf[pn][mk].leg
    BY <2>1, AfterSettleType, SettleOnly
  <2>3. mint'[m] = mint[m] /\ pf' = [pf EXCEPT ![pn][mk] = s.q]
    BY <1>3, <2>1 DEF ClosePosition, RetireNft, TypeOK
  <2> HIDE DEF s
  <2>4. ASSUME NEW k \in Market
        PROVE  /\ pf'[m][k].exists = pf[m][k].exists
               /\ pf'[m][k].leg = pf[m][k].leg
    BY <1>3, <2>2, <2>3 DEF TypeOK
  <2> QED
    BY <2>3, <2>4, PortfoliosKept DEF ExposureKept, Live
<1> QED
  BY <1>1, <1>2, <1>3

(* The engine only ever cuts. *)
LEMMA EngineExposure ==
  TypeOK /\ NamedExposure /\ EngineNext => NamedExposure'
<1> SUFFICES ASSUME TypeOK, NamedExposure, NEW n \in Nft, NEW mk \in Market,
                    \/ \E pnl \in -PnlBound .. PnlBound : Accrue(n, mk, pnl)
                    \/ Liquidation(n, mk)
                    \/ Crank(n, mk),
                    NEW m \in Nft
             PROVE  ExposureKept(m)
  BY ExposureFrame DEF NamedExposure, Named, EngineNext
<1>0. ASSUME NEW s, EngineOnly(n, mk, s), s.q.exists = pf[n][mk].exists,
             \A a \in Asset : CutFrom(s.q.leg[a], pf[n][mk].leg[a])
      PROVE  ExposureKept(m)
  <2>1. mint' = mint /\ pf' = [pf EXCEPT ![n][mk] = s.q]
    BY <1>0 DEF EngineOnly
  <2>2. ASSUME NEW k \in Market
        PROVE  /\ pf'[m][k].exists = pf[m][k].exists
               /\ \A a \in Asset : CutFrom(pf'[m][k].leg[a], pf[m][k].leg[a])
    <3>1. CASE m = n /\ k = mk
      BY <1>0, <2>1, <3>1 DEF TypeOK
    <3>2. CASE ~(m = n /\ k = mk)
      <4>1. pf'[m][k] = pf[m][k]
        BY <2>1, <3>2 DEF TypeOK
      <4> QED
        BY <4>1, PortfoliosKept
    <3> QED
      BY <3>1, <3>2
  <2> QED
    BY <2>1, <2>2 DEF ExposureKept, Live
<1>3. \A a \in Asset : CutFrom(pf[n][mk].leg[a], pf[n][mk].leg[a])
  BY Uncut DEF TypeOK, Portfolio
<1>1. ASSUME NEW pnl \in -PnlBound .. PnlBound, Accrue(n, mk, pnl)
      PROVE  ExposureKept(m)
  <2> DEFINE s == [Before(mk, n) EXCEPT !.q.pnl = pnl]
  <2>1. s.q.exists = pf[n][mk].exists /\ s.q.leg = pf[n][mk].leg
    BY BeforeType DEF Accounts, Portfolio
  <2>2. EngineOnly(n, mk, s)
    BY <1>1 DEF Accrue
  <2> HIDE DEF s
  <2> QED
    BY <1>0, <1>3, <2>1, <2>2
<1>2. CASE Liquidation(n, mk)
  BY <1>0, <1>2, LiquidationCuts
<1>4. CASE Crank(n, mk)
  <2> DEFINE s == SettlePnl(Before(mk, n))
  <2>1. s.q.exists = pf[n][mk].exists /\ s.q.leg = pf[n][mk].leg
    BY BeforeType, SettlePnlType
  <2>2. EngineOnly(n, mk, s)
    BY <1>4 DEF Crank
  <2> HIDE DEF s
  <2> QED
    BY <1>0, <1>3, <2>1, <2>2
<1> QED
  BY <1>1, <1>2, <1>4

-----------------------------------------------------------------------------
(* The invariant. *)

(* Nothing is issued and nothing exposed at the start. *)
LEMMA InductiveInit == Init => Inductive
<1> SUFFICES ASSUME Init PROVE OneBearer /\ NamedExposure
  BY InitTypeOK DEF Inductive
<1>1. \A n \in Nft : mint[n].supply = 0 /\ \A w \in Wallet : nftAmt[n][w] = 0
  BY DEF Init, NoMint
<1> QED
  BY <1>1 DEF OneBearer, Unissued, NamedExposure, Live

(* Every step preserves it. *)
LEMMA InductiveNext == Inductive /\ [Next]_vars => Inductive'
<1> SUFFICES ASSUME Inductive, [Next]_vars PROVE Inductive'
  OBVIOUS
<1> USE DEF Inductive
<1>1. CASE ClientNext
  BY <1>1, ClientTypeOK, ClientOneBearer, ClientExposure
<1>2. CASE ProgramNext
  <2> SUFFICES ASSUME NEW w \in Wallet, NEW n \in Nft, NEW pn \in Nft,
                      NEW y \in Wallet, NEW mk \in Market, NEW st \in Stash,
                      NEW a \in Asset, NEW side \in Side,
                      NEW size \in Size, NEW amount \in Amount,
                      \/ OpenPosition(w, n, mk, pn, st, a, side, size, amount)
                      \/ ClosePosition(w, y, n, mk, pn, st, a, side, size, amount)
               PROVE  Inductive'
    BY <1>2 DEF ProgramNext
  <2>1. CASE OpenPosition(w, n, mk, pn, st, a, side, size, amount)
    BY <2>1, OpenTypeOK, OpenOneBearer, OpenExposure
  <2>2. CASE ClosePosition(w, y, n, mk, pn, st, a, side, size, amount)
    <3>1. size \in Nat /\ amount \in Nat
      BY InputAssumption
    <3> QED
      BY <2>2, <3>1, CloseTypeOK, CloseOneBearer, CloseExposure
  <2> QED
    BY <2>1, <2>2
<1>3. CASE EngineNext
  BY <1>3, EngineTypeOK, EngineOneBearer, EngineExposure
<1>4. CASE UNCHANGED vars
  BY <1>4 DEF vars, TypeOK, OneBearer, Unissued, BearerOf, HoldsNft,
              NamedExposure, Live
<1> QED
  BY <1>1, <1>2, <1>3, <1>4 DEF Next

(* The inductive invariant holds in every reachable state. *)
THEOREM InductiveInvariant == Spec => []Inductive
BY InductiveInit, InductiveNext, PTL DEF Spec

(* Every account balance stays a natural number: in particular nothing is  *)
(* drained, burned, swept or withdrawn that is not there.                  *)
THEOREM TypeCorrect == Spec => []TypeOK
<1>1. Inductive => TypeOK
  BY DEF Inductive
<1> QED
  BY <1>1, InductiveInvariant, PTL

(* A live position has one unit, one bearer and no mint authority left     *)
(* (verify_position_mint, token_mint_to_one, token_revoke_mint_authority). *)
THEOREM BearerInstrument == Spec => []OneOfOne
<1>1. Inductive => OneOfOne
  <2> SUFFICES ASSUME Inductive, NEW n \in Nft
               PROVE  /\ mint[n].supply \in {0, 1}
                      /\ Live(n) => mint[n].exists /\ mint[n].vetted
                                     /\ ~mint[n].authority
                      /\ Live(n) <=> \E w \in Wallet : HoldsNft(w, n)
                      /\ \A w, x \in Wallet :
                           nftAmt[n][w] > 0 /\ nftAmt[n][x] > 0 => w = x
    BY DEF OneOfOne
  <2>1. CASE Unissued(n)
    <3>1. /\ mint[n].supply = 0 /\ ~Live(n)
          /\ \A w \in Wallet : ~(nftAmt[n][w] > 0) /\ ~HoldsNft(w, n)
      BY <2>1 DEF Unissued, Live, HoldsNft
    <3> QED
      BY <3>1
  <2>2. CASE \E b \in Wallet : BearerOf(n, b)
    <3>1. PICK b \in Wallet : BearerOf(n, b)
      BY <2>2
    <3>2. Live(n) /\ HoldsNft(b, n)
      BY <3>1 DEF BearerOf, Live
    <3>3. \A w \in Wallet : nftAmt[n][w] > 0 => w = b
      BY <3>1 DEF BearerOf
    <3> QED
      BY <3>1, <3>2, <3>3 DEF BearerOf
  <2> QED
    BY <2>1, <2>2 DEF Inductive, OneBearer
<1> QED
  BY <1>1, InductiveInvariant, PTL

(* The NFT names the side of the only exposure its position can have. *)
THEOREM ExposureAsNamed == Spec => []NamedExposure
<1>1. Inductive => NamedExposure
  BY DEF Inductive
<1> QED
  BY <1>1, InductiveInvariant, PTL

-----------------------------------------------------------------------------
(* Redemption. *)

(* A close whose order leaves the portfolio flat passes every check when   *)
(* it asks for the capital the settle leaves.                              *)
LEMMA FlatCloses ==
  ASSUME TypeOK, NEW n \in Nft, NEW w \in Wallet, BearerOf(n, w),
         NEW mk \in Market, NEW a \in Asset, NEW side \in Side,
         NEW size \in Nat, pf[n][mk].exists,
         size > 0 => OrderAccepted(pf[n][mk], a, side, size),
         Flat(AfterSettle(mk, n, a, side, size).q)
  PROVE  \E st \in Stash :
           CanClose(w, n, mk, n, st, a, side, size,
                    AfterSettle(mk, n, a, side, size).q.cap)
<1> DEFINE s == AfterSettle(mk, n, a, side, size)
<1>1. s \in Accounts /\ s.q.exists
  BY AfterSettleType
<1>2. s.q.cap <= s.q.cap
  BY <1>1 DEF Accounts, Portfolio
<1>3. PayoutAccepted(n, mk, n, a, side, size, s.q.cap)
  BY <1>1, <1>2 DEF PayoutAccepted, WithdrawAccepted
<1>4. FlattenAccepted(n, mk, n, a, side, size)
  BY DEF FlattenAccepted
<1>5. PICK st \in Stash : <<n, st>> \in staging
  BY DEF BearerOf
<1>6. AccountsCloseable(w, n, st) /\ HoldsNft(w, n)
  <2>1. staged[n][st] - staged[n][st] = 0
    BY DEF TypeOK
  <2> QED
    BY <1>5, <2>1 DEF AccountsCloseable, Drained, BearerOf, HoldsNft
<1>7. CanClose(w, n, mk, n, st, a, side, size, s.q.cap)
  BY <1>3, <1>4, <1>6 DEF CanClose
<1> QED
  BY <1>7

(* The order that takes a leg to zero is accepted whatever the equity, and *)
(* a portfolio with that leg only is flat after it.                        *)
LEMMA FlattenWorks ==
  ASSUME TypeOK, NEW n \in Nft, NEW mk \in Market, pf[n][mk].exists,
         NEW a \in Asset, pf[n][mk].leg[a] # 0,
         \A b \in Asset \ {a} : pf[n][mk].leg[b] = 0
  PROVE  LET size == Magnitude(pf[n][mk].leg[a])
             side == IF pf[n][mk].leg[a] < 0 THEN Long ELSE Short
         IN  /\ side \in Side /\ size \in Nat /\ size > 0
             /\ OrderAccepted(pf[n][mk], a, side, size)
             /\ Flat(AfterSettle(mk, n, a, side, size).q)
<1> DEFINE i    == pf[n][mk].leg[a]
           size == Magnitude(i)
           side == IF i < 0 THEN Long ELSE Short
<1>1. i \in Int
  BY DEF TypeOK, Portfolio
<1>2. /\ side \in Side /\ size \in Nat /\ size > 0
      /\ i + Signed(side, size) = 0
  BY <1>1 DEF Magnitude, Signed, Side
<1>3. Magnitude(0) = 0
  BY DEF Magnitude
<1>4. OrderAccepted(pf[n][mk], a, side, size)
  BY <1>2, <1>3 DEF OrderAccepted, Understood
<1> HIDE DEF side, size
<1>5. Flat(AfterSettle(mk, n, a, side, size).q)
  BY <1>2, AfterOrderLegs DEF Flat
<1> QED
  BY <1>2, <1>4, <1>5 DEF side, size

(* A bearer, a staging account to close and a portfolio with at most one   *)
(* leg are all that a redemption needs.                                    *)
LEMMA AlwaysRedeemable == Inductive => NeverWedged
<1> SUFFICES ASSUME Inductive, NEW n \in Nft, Live(n)
             PROVE  /\ mint[n].market \in Market
                    /\ \E w \in Wallet, st \in Stash, a \in Asset,
                          side \in Side :
                         RedeemsInFull(w, n, mint[n].market, st, a, side)
  BY DEF NeverWedged
<1> USE DEF Inductive
<1> DEFINE mk == mint[n].market
<1>1. PICK w \in Wallet : BearerOf(n, w)
  BY DEF OneBearer, Unissued, Live
<1>2. mk \in Market /\ Exposed(pf[n][mk], mint[n].name)
  BY DEF NamedExposure
<1> HIDE DEF mk
<1>3. CASE Flat(pf[n][mk])
  <2>1. PICK a \in Asset : TRUE
    BY AssetAssumption
  <2>2. Magnitude(pf[n][mk].leg[a]) = 0
    BY <1>3 DEF Flat, Magnitude
  <2>3. Flat(AfterSettle(mk, n, a, Long, 0).q)
    BY <1>2, <1>3, SettleOnly DEF Flat
  <2>4. PICK st \in Stash :
          CanClose(w, n, mk, n, st, a, Long, 0,
                   AfterSettle(mk, n, a, Long, 0).q.cap)
    <3>1. pf[n][mk].exists /\ Long \in Side
      BY <1>2 DEF Exposed, Side
    <3> QED
      BY <1>1, <1>2, <2>3, <3>1, FlatCloses
  <2>5. \E t \in Stash : RedeemsInFull(w, n, mk, t, a, Long)
    BY <2>2, <2>3, <2>4 DEF RedeemsInFull
  <2>6. Long \in Side
    BY DEF Side
  <2> HIDE DEF Long
  <2> QED
    BY <1>2, <2>5, <2>6 DEF mk
<1>4. CASE ~Flat(pf[n][mk])
  <2>1. PICK a \in Asset : /\ OnSide(pf[n][mk], a, mint[n].name)
                           /\ \A b \in Asset \ {a} : pf[n][mk].leg[b] = 0
    BY <1>2, <1>4 DEF Exposed
  <2> DEFINE size == Magnitude(pf[n][mk].leg[a])
             side == IF pf[n][mk].leg[a] < 0 THEN Long ELSE Short
  <2>2. pf[n][mk].exists /\ pf[n][mk].leg[a] # 0
    BY <1>2, <2>1 DEF OnSide, Exposed
  <2>3. /\ side \in Side /\ size \in Nat
        /\ OrderAccepted(pf[n][mk], a, side, size)
        /\ Flat(AfterSettle(mk, n, a, side, size).q)
    BY <1>2, <2>1, <2>2, FlattenWorks
  <2> HIDE DEF side
  <2>4. \E st \in Stash : RedeemsInFull(w, n, mk, st, a, side)
    BY <1>1, <1>2, <2>2, <2>3, FlatCloses DEF RedeemsInFull
  <2> QED
    BY <1>2, <2>3, <2>4 DEF mk
<1> QED
  BY <1>2, <1>3, <1>4 DEF mk

(* Every live position can be redeemed in full by its bearer: donations,   *)
(* transfers, market moves, other closes and liquidations cannot wedge it. *)
THEOREM NeverUnredeemable == Spec => []NeverWedged
BY AlwaysRedeemable, InductiveInvariant, PTL

-----------------------------------------------------------------------------
(* What a step may never do. *)

(* A step of a client or of the engine pays nobody, retires no mint and    *)
(* leaves, of a portfolio whose mint it does not touch, the money and the  *)
(* legs alone.                                                             *)
LEMMA ClientPaysNobody ==
  ASSUME Inductive, ClientNext
  PROVE  /\ pf' = pf
         /\ \A w \in Wallet : tok'[w] <= tok[w]
         /\ \A n \in Nft : mint[n].exists => mint'[n].exists
<1> SUFFICES ASSUME NEW w \in Wallet, NEW n \in Nft,
                    \/ \E vetted \in BOOLEAN : CreateMint(w, n, vetted)
                    \/ \E x \in Wallet : CreateNftAccount(w, x, n)
                    \/ \E st \in Stash : CreateStaging(w, n, st)
                    \/ \E st \in Stash, amount \in Amount :
                         FundStaging(w, n, st, amount)
                    \/ FundPda(w, n)
                    \/ \E x \in Wallet : TransferNft(w, x, n)
                    \/ BurnOutside(w, n)
             PROVE  /\ pf' = pf
                    /\ \A v \in Wallet : tok'[v] <= tok[v]
                    /\ \A m \in Nft : mint[m].exists => mint'[m].exists
  BY DEF ClientNext
<1> USE DEF Inductive, TypeOK
<1>1. ASSUME NEW vetted \in BOOLEAN, CreateMint(w, n, vetted)
      PROVE  /\ pf' = pf /\ tok' = tok
             /\ \A m \in Nft : mint[m].exists => mint'[m].exists
  BY <1>1 DEF CreateMint
<1>2. ASSUME NEW x \in Wallet, CreateNftAccount(w, x, n) \/ TransferNft(w, x, n)
      PROVE  pf' = pf /\ tok' = tok /\ mint' = mint
  BY <1>2 DEF CreateNftAccount, TransferNft
<1>3. ASSUME FundPda(w, n) \/ \E st \in Stash : CreateStaging(w, n, st)
      PROVE  pf' = pf /\ tok' = tok /\ mint' = mint
  BY <1>3 DEF CreateStaging, FundPda
<1>4. ASSUME NEW st \in Stash, NEW amount \in Amount,
             FundStaging(w, n, st, amount)
      PROVE  pf' = pf /\ mint' = mint /\ \A v \in Wallet : tok'[v] <= tok[v]
  BY <1>4 DEF FundStaging
<1>5. CASE BurnOutside(w, n)
  <2>1. \A m \in Nft : mint'[m].exists = mint[m].exists
    BY <1>5 DEF BurnOutside, Mint
  <2> QED
    BY <1>5, <2>1 DEF BurnOutside
<1>6. tok' = tok => \A v \in Wallet : tok'[v] <= tok[v]
  OBVIOUS
<1> QED
  BY <1>1, <1>2, <1>3, <1>4, <1>5, <1>6

(* What the order of a close costs and its withdraw pays is what the       *)
(* portfolio gives up: its equity falls by no less than the payout.        *)
LEMMA PayoutCovered ==
  ASSUME TypeOK, NEW w \in Wallet, NEW y \in Wallet, NEW n \in Nft,
         NEW pn \in Nft, NEW mk \in Market, NEW st \in Stash,
         NEW a \in Asset, NEW side \in Side, NEW size \in Nat,
         NEW amount \in Nat,
         ClosePosition(w, y, n, mk, pn, st, a, side, size, amount)
  PROVE  \E k \in Market : amount <= Equity(pf[n][k]) - Equity(pf'[n][k])
<1> DEFINE b == Before(mk, pn)
           t == Flattened(mk, pn, a, side, size)
           s == AfterSettle(mk, pn, a, side, size)
           q == IF amount > 0 THEN Withdraw(s.q, amount) ELSE s.q
<1>1. /\ b \in Accounts /\ b.q = pf[pn][mk]
      /\ b.q.cap \in Nat /\ b.q.pnl \in Int
  BY BeforeType DEF Accounts, Portfolio
<1>2. pf' = [pf EXCEPT ![pn][mk] = q]
  BY DEF ClosePosition
<1>3. t \in Accounts /\ Equity(t.q) <= Equity(b.q)
  <2>1. CASE size = 0
    <3>1. t = b
      BY <2>1 DEF Flattened
    <3> QED
      BY <1>1, <3>1 DEF Equity
  <2>2. CASE size # 0
    <3>1. t = PlaceOrder(b, a, side, size)
      BY <2>2 DEF Flattened
    <3> DEFINE fee == Least(OrderFee, b.q.cap)
    <3>2. /\ t \in Accounts
          /\ t.q.cap = b.q.cap - fee /\ t.q.pnl = b.q.pnl
      BY <1>1, <3>1, PlaceOrderType, OrderMoney
    <3>3. fee \in Nat
      BY <1>1, OrderFeeAssumption DEF Least
    <3> HIDE DEF fee, b, t
    <3> QED
      BY <1>1, <3>2, <3>3 DEF Equity
  <2> QED
    BY <2>1, <2>2
<1> HIDE DEF t
<1>4. s = SettlePnl(t)
  BY DEF AfterSettle, t
<1>5. s \in Accounts /\ Equity(s.q) = Equity(t.q)
  BY <1>3, <1>4, SettlePnlType
<1> HIDE DEF s
<1>6. /\ s.q \in Portfolio /\ s.q.cap \in Nat /\ s.q.pnl \in Int
      /\ t.q.cap \in Nat /\ t.q.pnl \in Int
  BY <1>3, <1>5 DEF Accounts, Portfolio
<1>7. q.cap = s.q.cap - amount /\ q.pnl = s.q.pnl
  BY <1>6 DEF Withdraw, Portfolio
<1> HIDE DEF q, b
<1>8. Equity(q) = Equity(s.q) - amount /\ Equity(q) \in Int
  BY <1>6, <1>7 DEF Equity
<1>9. CASE pn = n
  <2>1. pf'[n][mk] = q
    BY <1>2, <1>9 DEF TypeOK
  <2>2. Equity(pf[n][mk]) \in Int /\ Equity(b.q) = Equity(pf[n][mk])
    BY <1>1, <1>9 DEF Equity
  <2>3. Equity(t.q) \in Int
    BY <1>6 DEF Equity
  <2> QED
    BY <1>3, <1>5, <1>8, <2>1, <2>2, <2>3
<1>10. CASE pn # n
  <2>1. amount = 0
    BY <1>10 DEF ClosePosition, CanClose, PayoutAccepted
  <2>2. pf'[n][mk] = pf[n][mk]
    BY <1>2, <1>10 DEF TypeOK
  <2>3. Equity(pf[n][mk]) \in Int
    BY DEF TypeOK, Portfolio, Equity
  <2> QED
    BY <2>1, <2>2, <2>3
<1> QED
  BY <1>9, <1>10

(* Possession is the only credential: whoever is paid burns an NFT, and is *)
(* paid out of that position.                                              *)
THEOREM PaidForAnNft == Spec => OnlyHolderPaid
<1> DEFINE Burns(y, w, n, st, mk) ==
             /\ HoldsNft(w, n)
             /\ nftAmt'[n][w] = 0 /\ <<n, w>> \notin nftAcct'
             /\ <<n, st>> \in staging \ staging' /\ staged'[n][st] = 0
             /\ ~mint'[n].exists
             /\ tok'[y] - tok[y] <=
                  staged[n][st] + Equity(pf[n][mk]) - Equity(pf'[n][mk])
           Step == \A y \in Wallet : tok'[y] > tok[y] =>
                     \E w \in Wallet, n \in Nft, st \in Stash,
                        mk \in Market : Burns(y, w, n, st, mk)
<1>1. Inductive /\ [Next]_vars => Step
  <2> SUFFICES ASSUME Inductive, [Next]_vars, NEW v \in Wallet, tok'[v] > tok[v]
               PROVE  \E w \in Wallet, n \in Nft, st \in Stash,
                         mk \in Market : Burns(v, w, n, st, mk)
    OBVIOUS
  <2>0. tok[v] \in Nat
    BY DEF Inductive, TypeOK
  <2>1. ~ClientNext
    <3>1. ClientNext => tok'[v] <= tok[v]
      BY ClientPaysNobody
    <3>2. tok' \in [Wallet -> Nat]
      BY InductiveNext DEF Inductive, TypeOK
    <3> QED
      BY <2>0, <3>1, <3>2
  <2>2. ~EngineNext /\ ~UNCHANGED vars
    BY <2>0 DEF EngineNext, Accrue, Liquidation, Crank, EngineOnly, vars
  <2>3. PICK w \in Wallet, y \in Wallet, n \in Nft, pn \in Nft,
             mk \in Market, st \in Stash, a \in Asset,
             side \in Side, size \in Size, amount \in Amount :
               ClosePosition(w, y, n, mk, pn, st, a, side, size, amount)
    BY <2>0, <2>1, <2>2 DEF Next, ProgramNext, OpenPosition
  <2>4. size \in Nat /\ amount \in Nat
    BY InputAssumption
  <2>5. /\ HoldsNft(w, n)
        /\ nftAmt'[n][w] = 0 /\ <<n, w>> \notin nftAcct'
        /\ ~mint'[n].exists
    BY <2>3 DEF ClosePosition, CanClose, HoldsNft, RetireNft, NoMint,
                Inductive, TypeOK
  <2>6. <<n, st>> \in staging \ staging' /\ staged'[n][st] = 0
    BY <2>3 DEF ClosePosition, CanClose, AccountsCloseable, Drained,
                Inductive, TypeOK
  <2>7. PICK k \in Market : amount <= Equity(pf[n][k]) - Equity(pf'[n][k])
    BY <2>3, <2>4, PayoutCovered DEF Inductive
  <2>8. tok'[v] - tok[v] = amount + staged[n][st]
    <3>1. tok' = [tok EXCEPT ![y] = @ + amount + staged[n][st]]
      BY <2>3 DEF ClosePosition, Drained
    <3>2. v = y
      BY <2>0, <3>1 DEF Inductive, TypeOK
    <3>3. tok'[v] = tok[v] + amount + staged[n][st] /\ staged[n][st] \in Nat
      BY <3>1, <3>2 DEF Inductive, TypeOK
    <3> QED
      BY <2>0, <2>4, <3>3
  <2>9. Equity(pf[n][k]) \in Int /\ Equity(pf'[n][k]) \in Int
    <3>1. TypeOK /\ TypeOK'
      BY InductiveNext DEF Inductive
    <3> QED
      BY <3>1 DEF TypeOK, Portfolio, Equity
  <2>10. staged[n][st] \in Nat
    BY DEF Inductive, TypeOK
  <2>11. tok'[v] - tok[v] <=
           staged[n][st] + Equity(pf[n][k]) - Equity(pf'[n][k])
    BY <2>4, <2>7, <2>8, <2>9, <2>10
  <2> QED
    BY <2>5, <2>6, <2>11
<1> QED
  BY <1>1, InductiveInvariant, PTL DEF Spec, OnlyHolderPaid

(* Rent hygiene: a mint only goes with the accounts and lamports it had.   *)
THEOREM RentGoesHome == Spec => RentReturns
<1> DEFINE Returned(n) ==
             /\ \E st \in Stash :
                  /\ <<n, st>> \in staging \ staging' /\ staged'[n][st] = 0
                  /\ \A other \in Stash \ {st} :
                       /\ <<n, other>> \in staging => <<n, other>> \in staging'
                       /\ staged'[n][other] = staged[n][other]
             /\ pda'[n] = 0
             /\ \A w \in Wallet : nftAmt'[n][w] = 0
             /\ \E w \in Wallet :
                  /\ HoldsNft(w, n)
                  /\ sol'[w] = sol[w] + pda[n] + RentMint + 2 * RentToken
           Step == \A n \in Nft : mint[n].exists /\ ~mint'[n].exists => Returned(n)
<1>1. Inductive /\ [Next]_vars => Step
  <2> SUFFICES ASSUME Inductive, [Next]_vars, NEW m \in Nft,
                      mint[m].exists, ~mint'[m].exists
               PROVE  Returned(m)
    OBVIOUS
  <2>1. ~ClientNext
    BY ClientPaysNobody
  <2>2. ~EngineNext /\ ~UNCHANGED vars
    BY DEF EngineNext, Accrue, Liquidation, Crank, EngineOnly, vars
  <2>3. PICK w \in Wallet, y \in Wallet, n \in Nft, pn \in Nft,
             mk \in Market, st \in Stash, a \in Asset,
             side \in Side, size \in Size, amount \in Amount :
               \/ OpenPosition(w, n, mk, pn, st, a, side, size, amount)
               \/ ClosePosition(w, y, n, mk, pn, st, a, side, size, amount)
    BY <2>1, <2>2 DEF Next, ProgramNext
  <2>4. ~OpenPosition(w, n, mk, pn, st, a, side, size, amount)
    <3>1. mint[n] \in Mint /\ Minted(mint[n], side, mk).exists = mint[n].exists
      BY DEF Inductive, TypeOK, Minted, Mint
    <3> QED
      BY <3>1 DEF OpenPosition, Inductive, TypeOK
  <2>5. ClosePosition(w, y, n, mk, pn, st, a, side, size, amount)
    BY <2>3, <2>4
  <2>6. m = n
    BY <2>5 DEF ClosePosition, RetireNft, Inductive, TypeOK
  <2>7. /\ <<n, st>> \in staging \ staging' /\ staged'[n][st] = 0
        /\ pda'[n] = 0
    BY <2>5 DEF ClosePosition, CanClose, AccountsCloseable, Drained, Leftover,
                Inductive, TypeOK
  <2>10. \A other \in Stash \ {st} :
           /\ <<n, other>> \in staging => <<n, other>> \in staging'
           /\ staged'[n][other] = staged[n][other]
    BY <2>5 DEF ClosePosition, Inductive, TypeOK
  <2>8. \A x \in Wallet : nftAmt'[n][x] = 0
    BY <2>5, InputAssumption, CloseOneBearer DEF Inductive, Unissued
  <2>9. HoldsNft(w, n) /\ sol'[w] = sol[w] + pda[n] + RentMint + 2 * RentToken
    BY <2>5, RentAssumption
       DEF ClosePosition, CanClose, Leftover, Inductive, TypeOK
  <2> QED
    BY <2>6, <2>7, <2>8, <2>9, <2>10
<1> QED
  BY <1>1, InductiveInvariant, PTL DEF Spec, RentReturns

(* Positions share nothing but the house: opening, burning or redeeming    *)
(* one leaves the legs and the equity of every other one alone.            *)
THEOREM Isolation == Spec => PositionsIsolated
<1> DEFINE Same(n) == \A mk \in Market :
                        /\ pf'[n][mk].leg = pf[n][mk].leg
                        /\ Equity(pf'[n][mk]) = Equity(pf[n][mk])
           Step == \A n, m \in Nft :
                     n # m /\ mint'[m].supply # mint[m].supply => Same(n)
<1>1. Inductive /\ [Next]_vars => Step
  <2> SUFFICES ASSUME Inductive, [Next]_vars, NEW l \in Nft, NEW m \in Nft,
                      l # m, mint'[m].supply # mint[m].supply
               PROVE  Same(l)
    OBVIOUS
  <2>1. CASE ClientNext
    BY <2>1, ClientPaysNobody
  <2>2. ~EngineNext /\ ~UNCHANGED vars
    BY DEF EngineNext, Accrue, Liquidation, Crank, EngineOnly, vars
  <2>3. CASE ProgramNext
    <3> USE InputAssumption
    <3>1. PICK w \in Wallet, n \in Nft, pn \in Nft, mk \in Market,
               st \in Stash, a \in Asset, side \in Side, size \in Size, amount \in Amount :
                 \/ OpenPosition(w, n, mk, pn, st, a, side, size, amount)
                 \/ \E y \in Wallet :
                      ClosePosition(w, y, n, mk, pn, st, a, side, size, amount)
      BY <2>3 DEF ProgramNext
    <3>2. CASE OpenPosition(w, n, mk, pn, st, a, side, size, amount)
      <4>1. n = m /\ pn = n
        BY <3>2 DEF OpenPosition, CanOpen, CanonicalPortfolio, Inductive, TypeOK
      <4>2. pf'[l] = pf[l]
        BY <3>2, <4>1 DEF OpenPosition, Inductive, TypeOK
      <4> QED
        BY <4>2
    <3>3. ASSUME NEW y \in Wallet,
                 ClosePosition(w, y, n, mk, pn, st, a, side, size, amount)
          PROVE  Same(l)
      <4> DEFINE s == AfterSettle(mk, pn, a, side, size)
      <4>1. n = m
        BY <3>3 DEF ClosePosition, RetireNft, Inductive, TypeOK
      <4>2. CASE pn # l
        <5>1. pf'[l] = pf[l]
          BY <3>3, <4>2 DEF ClosePosition, Inductive, TypeOK
        <5> QED
          BY <5>1
      <4>3. CASE pn = l
        <5>1. size = 0 /\ amount = 0
          BY <3>3, <4>1, <4>3 DEF ClosePosition, CanClose, FlattenAccepted,
                                  PayoutAccepted
        <5>2. pf' = [pf EXCEPT ![l][mk] = s.q]
          BY <3>3, <4>3, <5>1 DEF ClosePosition
        <5>3. s.q.leg = pf[l][mk].leg /\ Equity(s.q) = Equity(pf[l][mk])
          BY <4>3, <5>1, SettleOnly DEF Inductive
        <5> HIDE DEF s
        <5> QED
          BY <5>2, <5>3 DEF Inductive, TypeOK
      <4> QED
        BY <4>2, <4>3
    <3> QED
      BY <3>1, <3>2, <3>3
  <2> QED
    BY <2>1, <2>2, <2>3 DEF Next
<1> QED
  BY <1>1, InductiveInvariant, PTL DEF Spec, PositionsIsolated

(* A position burned outside the program is buried: nothing of it is ever  *)
(* taken back, since the authority the open destroyed cannot return while  *)
(* the mint exists, and only a close, which needs the unit, closes a mint. *)
THEOREM Burial == Spec => BurnedForGood
<1> DEFINE Buried(n) ==
             /\ Burned(n)'
             /\ pda'[n] >= pda[n]
             /\ \A st \in Stash : staged'[n][st] >= staged[n][st]
             /\ \A mk \in Market : pf'[n][mk].exists = pf[n][mk].exists
           Step == \A n \in Nft : Burned(n) => Buried(n)
<1>1. Inductive /\ [Next]_vars => Step
  <2> SUFFICES ASSUME Inductive, [Next]_vars, NEW m \in Nft, Burned(m)
               PROVE  Buried(m)
    OBVIOUS
  <2> USE DEF Inductive, TypeOK
  <2>0. /\ Unissued(m) /\ mint[m] \in Mint /\ pda[m] \in Nat
        /\ \A st \in Stash : staged[m][st] \in Nat
    BY DEF OneBearer, BearerOf, Burned
  <2>a. ASSUME mint'[m] = mint[m], pda' = pda, staged' = staged, pf' = pf
        PROVE  Buried(m)
    BY <2>0, <2>a DEF Burned
  <2>1. CASE ClientNext
    <3> SUFFICES ASSUME NEW w \in Wallet, NEW n \in Nft,
                        \/ \E vetted \in BOOLEAN : CreateMint(w, n, vetted)
                        \/ \E x \in Wallet : CreateNftAccount(w, x, n)
                        \/ \E st \in Stash : CreateStaging(w, n, st)
                        \/ \E st \in Stash, amount \in Amount :
                             FundStaging(w, n, st, amount)
                        \/ FundPda(w, n)
                        \/ \E x \in Wallet : TransferNft(w, x, n)
                        \/ BurnOutside(w, n)
                 PROVE  Buried(m)
      BY <2>1 DEF ClientNext
    <3>1. ASSUME NEW vetted \in BOOLEAN, CreateMint(w, n, vetted)
          PROVE  Buried(m)
      BY <2>a, <3>1 DEF CreateMint, Burned
    <3>2. ASSUME NEW x \in Wallet, CreateNftAccount(w, x, n) \/ TransferNft(w, x, n)
          PROVE  Buried(m)
      BY <2>a, <3>2 DEF CreateNftAccount, TransferNft
    <3>3. ASSUME NEW st \in Stash, CreateStaging(w, n, st)
          PROVE  Buried(m)
      BY <2>a, <3>3 DEF CreateStaging
    <3>4. ASSUME NEW st \in Stash, NEW amount \in Amount,
                 FundStaging(w, n, st, amount)
          PROVE  Buried(m)
      <4>1. \A z \in Stash : staged'[m][z] >= staged[m][z]
        BY <2>0, <3>4, InputAssumption DEF FundStaging
      <4> QED
        BY <2>0, <3>4, <4>1 DEF FundStaging, Burned
    <3>5. CASE FundPda(w, n)
      <4>1. pda'[m] >= pda[m]
        BY <2>0, <3>5, RentAssumption DEF FundPda
      <4> QED
        BY <2>0, <3>5, <4>1 DEF FundPda, Burned
    <3>6. CASE BurnOutside(w, n)
      <4>1. n # m
        BY <2>0, <3>6 DEF BurnOutside, Unissued
      <4> QED
        BY <2>a, <3>6, <4>1 DEF BurnOutside
    <3> QED
      BY <3>1, <3>2, <3>3, <3>4, <3>5, <3>6
  <2>2. CASE ProgramNext
    <3>1. PICK w \in Wallet, n \in Nft, pn \in Nft, mk \in Market,
               st \in Stash, a \in Asset, side \in Side, size \in Size,
               amount \in Amount :
                 \/ OpenPosition(w, n, mk, pn, st, a, side, size, amount)
                 \/ \E y \in Wallet :
                      ClosePosition(w, y, n, mk, pn, st, a, side, size, amount)
      BY <2>2 DEF ProgramNext
    <3>2. CASE OpenPosition(w, n, mk, pn, st, a, side, size, amount)
      <4>1. n # m /\ pn # m
        BY <3>2 DEF OpenPosition, CanOpen, CanonicalPortfolio,
                    VerifyPositionMint, Burned
      <4>2. /\ mint'[m] = mint[m] /\ pda'[m] = pda[m]
            /\ staged'[m] = staged[m] /\ pf'[m] = pf[m]
        BY <3>2, <4>1 DEF OpenPosition
      <4> QED
        BY <2>0, <4>2 DEF Burned
    <3>3. ASSUME NEW y \in Wallet,
                 ClosePosition(w, y, n, mk, pn, st, a, side, size, amount)
          PROVE  Buried(m)
      <4> USE InputAssumption
      <4>1. n # m
        BY <2>0, <3>3 DEF ClosePosition, CanClose, HoldsNft, Unissued
      <4>2. /\ mint'[m] = mint[m] /\ pda'[m] = pda[m] /\ staged'[m] = staged[m]
        <5>1. mint'[m] = mint[m]
          BY <3>3, <4>1 DEF ClosePosition, RetireNft
        <5>2. pda'[m] = pda[m] /\ staged'[m] = staged[m]
          BY <3>3, <4>1 DEF ClosePosition
        <5> QED
          BY <5>1, <5>2
      <4> DEFINE s == AfterSettle(mk, pn, a, side, size)
                 q == IF amount > 0 THEN Withdraw(s.q, amount) ELSE s.q
      <4>3. s.q \in Portfolio /\ s.q.exists = pf[pn][mk].exists
        <5>1. TypeOK /\ size \in Nat
          BY InputAssumption DEF Inductive
        <5>2. s \in Accounts /\ s.q.exists = pf[pn][mk].exists
          BY <5>1, AfterSettleType
        <5> QED
          BY <5>2 DEF Accounts
      <4>4. q.exists = pf[pn][mk].exists
        BY <4>3 DEF Withdraw, Portfolio
      <4>5. pf' = [pf EXCEPT ![pn][mk] = q]
        BY <3>3 DEF ClosePosition
      <4> HIDE DEF q
      <4>6. \A k \in Market : pf'[m][k].exists = pf[m][k].exists
        BY <4>4, <4>5
      <4> QED
        BY <2>0, <4>2, <4>6 DEF Burned
    <3> QED
      BY <3>1, <3>2, <3>3
  <2>3. CASE EngineNext
    <3> SUFFICES ASSUME NEW n \in Nft, NEW mk \in Market,
                        \/ \E pnl \in -PnlBound .. PnlBound : Accrue(n, mk, pnl)
                        \/ Liquidation(n, mk)
                        \/ Crank(n, mk)
                 PROVE  Buried(m)
      BY <2>3 DEF EngineNext
    <3>0. ASSUME NEW s, EngineOnly(n, mk, s), s.q.exists = pf[n][mk].exists
          PROVE  Buried(m)
      BY <2>0, <3>0 DEF EngineOnly, Burned
    <3>1. ASSUME NEW pnl \in -PnlBound .. PnlBound, Accrue(n, mk, pnl)
          PROVE  Buried(m)
      <4> DEFINE s == [Before(mk, n) EXCEPT !.q.pnl = pnl]
      <4>1. s.q.exists = pf[n][mk].exists
        BY BeforeType DEF Accounts, Portfolio
      <4>2. EngineOnly(n, mk, s)
        BY <3>1 DEF Accrue
      <4> HIDE DEF s
      <4> QED
        BY <3>0, <4>1, <4>2
    <3>2. CASE Liquidation(n, mk)
      <4>1. PICK s \in Accounts :
              EngineOnly(n, mk, s) /\ s.q.exists = pf[n][mk].exists
        BY <3>2, LiquidationCuts
      <4> QED
        BY <3>0, <4>1
    <3>3. CASE Crank(n, mk)
      BY <3>0, <3>3, BeforeType, SettlePnlType DEF Crank
    <3> QED
      BY <3>1, <3>2, <3>3
  <2>4. CASE UNCHANGED vars
    BY <2>a, <2>4 DEF vars
  <2> QED
    BY <2>1, <2>2, <2>3, <2>4 DEF Next
<1> QED
  BY <1>1, InductiveInvariant, PTL DEF Spec, BurnedForGood
=============================================================================
