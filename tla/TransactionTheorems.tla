------------------------ MODULE TransactionTheorems ------------------------
(***************************************************************************)
(* What follows from TransactionProofs' account of the CPIs: no CPI        *)
(* refuses a possible request, the books balance between any two CPIs, and *)
(* the theorems about PositionProgram hold of the transactions.            *)
(***************************************************************************)
EXTENDS TransactionProofs, BearerProofs

(* An open that could have gone through as a whole is refused by none of   *)
(* its six CPIs.                                                           *)
LEMMA OpenAccepted ==
  ASSUME Running, tx.kind = "open", at \in OpenCalls, Possible(tx)
  PROVE  Accepts
<1>1. /\ work = OpenWork(tx, at) /\ OpenChecked(tx)
      /\ CanOpen(tx.w, tx.n, tx.mk, tx.pn, tx.st, tx.a, tx.side, tx.size,
                 tx.amount)
  BY DEF Running, OpenPassed, Possible
<1>2. SignedForFolio /\ tx.home /\ mint[tx.n].authority
  BY <1>1 DEF OpenChecked, CanonicalPortfolio, VerifyPositionMint,
              SignedForFolio
<1>3. CASE at = "metadata"
  BY <1>1, <1>2, <1>3 DEF Accepts, OpenWork
<1>4. CASE at = "mintTo"
  BY <1>1, <1>2, <1>4 DEF Accepts, OpenWork
<1>5. CASE at = "revoke"
  BY <1>1, <1>2, <1>5 DEF Accepts, OpenWork
<1>6. CASE at = "init"
  BY <1>1, <1>6 DEF Accepts, OpenWork, CanOpen
<1>7. CASE at = "deposit"
  <2>1. tx.amount <= staged[tx.n][tx.st]
    BY <1>1 DEF CanOpen, DepositFunded
  <2>2. work.staged = staged[tx.n][tx.st]
    BY <1>1, <1>7 DEF OpenWork
  <2> QED
    BY <1>2, <1>7, <2>1, <2>2 DEF Accepts
<1>8. CASE at = "order"
  <2>1. work.q = Opening(tx.mk, tx.amount).q
    BY <1>1, <1>8 DEF OpenWork
  <2> QED
    BY <1>1, <1>2, <1>8, <2>1 DEF Accepts, CanOpen
<1> QED
  BY <1>3, <1>4, <1>5, <1>6, <1>7, <1>8 DEF OpenCalls

(* The same of a close and its nine. *)
LEMMA CloseAccepted ==
  ASSUME TypeOK, OneBearer, Running, tx.kind = "close", at \in CloseCalls,
         Possible(tx)
  PROVE  Accepts
<1>1. /\ tx \in Request /\ work = CloseWork(tx, at) /\ ClosePassed(tx, at)
      /\ tx.home
      /\ tx.self => tx.amount = 0 /\ staged[tx.n][tx.st] = 0
      /\ CanClose(tx.w, tx.n, tx.mk, tx.pn, tx.st, tx.a, tx.side, tx.size,
                  tx.amount)
  BY DEF Running, Possible, Request
<1>2. /\ tx.n \in Nft /\ tx.w \in Wallet
      /\ tx.amount \in Nat /\ tx.size \in Nat
  BY <1>1, RequestTypes
<1>3. mint[tx.n].exists /\ mint[tx.n].supply = 1 /\ mint[tx.n].vetted
  BY <1>1, <1>2, UnitIsBearer DEF CanClose, HoldsNft, BearerOf
<1>4. CASE at = "order"
  <2>1. tx.size > 0
    BY <1>1, <1>4 DEF ClosePassed
  <2>2. work.q = pf[tx.pn][tx.mk]
    BY <1>1, <1>4 DEF CloseWork
  <2> QED
    BY <1>1, <1>4, <2>1, <2>2
       DEF Accepts, SignedForFolio, CanClose, FlattenAccepted
<1>5. CASE at = "settle"
  <2>1. work.q = Reduced(tx).q
    BY <1>1, <1>5 DEF CloseWork
  <2>2. work.q.exists
    BY <1>1, <2>1, ReducedType DEF CanClose
  <2> QED
    BY <1>5, <2>2 DEF Accepts
<1>6. CASE at = "withdraw"
  <2>1. tx.amount > 0
    BY <1>1, <1>6 DEF ClosePassed
  <2>2. work.q = Final(tx).q
    BY <1>1, <1>6 DEF CloseWork
  <2> QED
    BY <1>1, <1>6, <2>1, <2>2
       DEF Accepts, SignedForFolio, CanClose, PayoutAccepted, Final
<1>7. CASE at = "burn"
  <2>1. work.amt = 1
    BY <1>1, <1>7 DEF CloseWork, ToBurn
  <2> QED
    BY <1>7, <2>1 DEF Accepts
<1>8. CASE at \in {"drain", "sweep"}
  BY <1>8 DEF Accepts
<1>9. CASE at = "closeStaging"
  <2>1. Loaded(tx).staged = staged[tx.n][tx.st]
    BY <1>1 DEF Loaded
  <2>2. work.staging /\ work.staged = 0
    BY <1>1, <1>2, <1>9, <2>1
       DEF CloseWork, ToPay, ToBurn, ToDrain, ToCloseStaging
  <2> QED
    BY <1>9, <2>2 DEF Accepts
<1>10. CASE at = "closeNft"
  <2>1. work.acct /\ work.amt = 0
    BY <1>1, <1>10
       DEF CloseWork, ToPay, ToBurn, ToDrain, ToCloseStaging, ToCloseNft
  <2> QED
    BY <1>10, <2>1 DEF Accepts
<1>11. CASE at = "closeMint"
  <2>1. work.mint = CloseMintAt(tx, "closeMint")
    BY <1>1, <1>11 DEF CloseWork
  <2>2. work.mint.exists /\ work.mint.supply = 0 /\ work.mint.vetted
    BY <1>3, <2>1
       DEF CloseMintAt, ToPay, ToBurn, ToDrain, ToCloseStaging, ToCloseNft,
           ToCloseMint
  <2> QED
    BY <1>1, <1>11, <2>2 DEF Accepts
<1> QED
  BY <1>4, <1>5, <1>6, <1>7, <1>8, <1>9, <1>10, <1>11 DEF CloseCalls

(* A CPI is refused only if the request was impossible from the start      *)
(* (processor.rs:217-344, 380-517).                                        *)
THEOREM RefusalsHaveCauses == TxSpec => []RefusedForCause
<1>1. OnTrack => RefusedForCause
  <2> SUFFICES ASSUME OnTrack, at \in OpenCalls \cup CloseCalls, Possible(tx)
               PROVE  Accepts
    BY DEF RefusedForCause
  <2>1. Running /\ TypeOK /\ OneBearer
    BY DEF OnTrack, Inductive, OpenCalls, CloseCalls
  <2>2. CASE tx.kind = "open"
    <3>1. at \in OpenCalls
      BY <2>1, <2>2 DEF Running, OpenStages, OpenCalls, CloseCalls
    <3> QED
      BY <2>1, <2>2, <3>1, OpenAccepted
  <2>3. CASE tx.kind = "close"
    <3>1. at \in CloseCalls
      BY <2>1, <2>3 DEF Running, CloseStages, OpenCalls, CloseCalls
    <3> QED
      BY <2>1, <2>3, <3>1, CloseAccepted
  <2> QED
    BY <2>1, <2>2, <2>3 DEF Running, Request
<1> QED
  BY <1>1, StaysOnTrack, PTL

-----------------------------------------------------------------------------
(* The books. *)

(* A portfolio that was never opened holds no capital. *)
Untouched ==
  \A n \in Nft, mk \in Market : ~pf[n][mk].exists => pf[n][mk].cap = 0

(* Only an open makes a portfolio exist, and nothing but an open or a      *)
(* portfolio's own operations gives it capital.                            *)
LEMMA UntouchedNext ==
  ASSUME Inductive, Untouched, [Next]_vars
  PROVE  Untouched'
<1> TypeOK
  BY DEF Inductive
<1> SUFFICES ASSUME NEW m \in Nft, NEW k \in Market
             PROVE  ~pf'[m][k].exists => pf'[m][k].cap = 0
  BY DEF Untouched
<1>1. ASSUME NEW n \in Nft, NEW mk \in Market, NEW q,
             pf' = [pf EXCEPT ![n][mk] = q], q.exists
      PROVE  ~pf'[m][k].exists => pf'[m][k].cap = 0
  <2>1. /\ pf \in [Nft -> [Market -> Portfolio]]
        /\ ~pf[m][k].exists => pf[m][k].cap = 0
    BY DEF TypeOK, Untouched
  <2>2. pf'[m][k] = IF m = n /\ k = mk THEN q ELSE pf[m][k]
    BY <1>1, <2>1
  <2>3. CASE m = n /\ k = mk
    BY <1>1, <2>2, <2>3
  <2>4. CASE ~(m = n /\ k = mk)
    BY <2>1, <2>2, <2>4
  <2> QED
    BY <2>3, <2>4
<1>2. CASE UNCHANGED vars \/ ClientNext
  <2>1. pf' = pf
    BY <1>2, ClientPaysNobody DEF vars
  <2> QED
    BY <2>1 DEF Untouched
<1>3. ASSUME NEW w \in Wallet, NEW n \in Nft, NEW pn \in Nft,
             NEW mk \in Market, NEW st \in Stash, NEW a \in Asset,
             NEW side \in Side, NEW size \in Size, NEW amount \in Amount,
             OpenPosition(w, n, mk, pn, st, a, side, size, amount)
      PROVE  ~pf'[m][k].exists => pf'[m][k].cap = 0
  <2> DEFINE s == PlaceOrder(Opening(mk, amount), a, side, size)
  <2>1. s.q.exists
    <3>1. Opening(mk, amount) \in Accounts /\ Opening(mk, amount).q.exists
      BY OpeningType
    <3>2. size \in Nat
      BY InputAssumption
    <3> QED
      BY <3>1, <3>2, PlaceOrderType
  <2>2. pf' = [pf EXCEPT ![pn][mk] = s.q]
    BY <1>3 DEF OpenPosition
  <2> HIDE DEF s
  <2> QED
    BY <1>1, <2>1, <2>2
<1>4. ASSUME NEW w \in Wallet, NEW y \in Wallet, NEW n \in Nft,
             NEW pn \in Nft, NEW mk \in Market, NEW st \in Stash,
             NEW a \in Asset, NEW side \in Side, NEW size \in Size,
             NEW amount \in Amount,
             ClosePosition(w, y, n, mk, pn, st, a, side, size, amount)
      PROVE  ~pf'[m][k].exists => pf'[m][k].cap = 0
  <2> DEFINE s == AfterSettle(mk, pn, a, side, size)
             q == IF amount > 0 THEN Withdraw(s.q, amount) ELSE s.q
  <2>1. s \in Accounts /\ s.q.exists
    BY <1>4, AfterSettleType, InputAssumption DEF ClosePosition, CanClose
  <2>2. pf' = [pf EXCEPT ![pn][mk] = q]
    BY <1>4 DEF ClosePosition
  <2> HIDE DEF s
  <2>3. q.exists
    BY <2>1 DEF Withdraw, Accounts, Portfolio
  <2> HIDE DEF q
  <2> QED
    BY <1>1, <2>2, <2>3
<1>5. ASSUME NEW n \in Nft, NEW mk \in Market, NEW s \in Accounts, s.q.exists,
             EngineOnly(n, mk, s)
      PROVE  ~pf'[m][k].exists => pf'[m][k].cap = 0
  BY <1>1, <1>5 DEF EngineOnly
<1>6. CASE EngineNext
  <2>1. PICK n \in Nft, mk \in Market :
          \/ \E pnl \in -PnlBound .. PnlBound : Accrue(n, mk, pnl)
          \/ Liquidation(n, mk)
          \/ Crank(n, mk)
    BY <1>6 DEF EngineNext
  <2>2. CASE \E pnl \in -PnlBound .. PnlBound : Accrue(n, mk, pnl)
    <3>1. PICK pnl \in -PnlBound .. PnlBound : Accrue(n, mk, pnl)
      BY <2>2
    <3> DEFINE s == [Before(mk, n) EXCEPT !.q.pnl = pnl]
    <3>2. s \in Accounts /\ s.q.exists
      BY <3>1, BeforeType DEF Accrue, Accounts, Portfolio
    <3>3. EngineOnly(n, mk, s)
      BY <3>1 DEF Accrue
    <3> HIDE DEF s
    <3> QED
      BY <1>5, <3>2, <3>3
  <2>3. CASE Liquidation(n, mk)
    BY <1>5, <2>3, BeforeType, LiquidateType DEF Liquidation, Liquidatable
  <2>4. CASE Crank(n, mk)
    BY <1>5, <2>4, BeforeType, SettlePnlType DEF Crank
  <2> QED
    BY <2>1, <2>2, <2>3, <2>4
<1> QED
  BY <1>2, <1>3, <1>4, <1>6 DEF Next, ProgramNext

(* In every behaviour of the transactions. *)
LEMMA UntouchedAlways == TxSpec => []Untouched
<1>1. TxInit => Untouched
  BY DEF TxInit, Init, NoPortfolio, Untouched
<1>2. OnTrack /\ Untouched /\ [TxNext]_tvars => Untouched'
  BY OnTrackNext, UntouchedNext DEF OnTrack, Inductive
<1> QED
  BY <1>1, <1>2, StaysOnTrack, PTL DEF TxSpec

(* An order's fee goes to the counterparty. *)
LEMMA PlaceOrderBooks ==
  ASSUME NEW s \in Accounts, NEW a, NEW side, NEW size
  PROVE  /\ PlaceOrder(s, a, side, size).q.cap + PlaceOrder(s, a, side, size).h
              = s.q.cap + s.h
<1> DEFINE fee == Least(OrderFee, s.q.cap)
           t == PlaceOrder(s, a, side, size)
<1>1. s.q \in Portfolio /\ s.h \in Nat
  BY DEF Accounts
<1>2. fee \in Nat /\ s.q.cap \in Nat
  BY <1>1, OrderFeeAssumption DEF Least, Portfolio
<1>3. t.h = s.h + fee
  BY DEF PlaceOrder
<1> HIDE DEF fee
<1>4. t.q.cap = s.q.cap - fee
  BY <1>1 DEF PlaceOrder, Portfolio, fee
<1> HIDE DEF t
<1>5. t.q.cap + t.h = s.q.cap + s.h
  BY <1>1, <1>2, <1>3, <1>4
<1> QED
  BY <1>5 DEF t

(* A settle's profit comes from the counterparty and its loss goes there. *)
LEMMA SettlePnlBooks ==
  ASSUME NEW s \in Accounts
  PROVE  SettlePnl(s).q.cap + SettlePnl(s).h = s.q.cap + s.h
<1> DEFINE moved == Settled(s)
           t == SettlePnl(s)
<1>1. s.q \in Portfolio /\ s.h \in Nat /\ s.q.cap \in Nat
  BY DEF Accounts, Portfolio
<1>2. moved \in Int
  BY SettledRange
<1>3. t.h = s.h - moved /\ t.q.cap = s.q.cap + moved
  BY <1>1 DEF SettlePnl, Portfolio
<1> HIDE DEF moved, t
<1>4. t.q.cap + t.h = s.q.cap + s.h
  BY <1>1, <1>2, <1>3
<1> QED
  BY <1>4 DEF t

(* What InitPortfolio starts with. *)
LEMMA InitPortfolioFields ==
  InitPortfolio \in Portfolio /\ InitPortfolio.cap = 0 /\ InitPortfolio.exists
<1>1. NoPortfolio \in Portfolio /\ NoPortfolio.cap = 0
  BY DEF NoPortfolio, Portfolio
<1> QED
  BY <1>1 DEF InitPortfolio, Portfolio

(* A flatten only moves its fee. *)
LEMMA ReducedBooks ==
  ASSUME TypeOK, tx \in Request
  PROVE  /\ Reduced(tx) \in Accounts
         /\ Reduced(tx).q.cap + Reduced(tx).h =
              pf[tx.pn][tx.mk].cap + house[tx.mk]
<1>1. /\ tx.pn \in Nft /\ tx.mk \in Market /\ tx.a \in Asset
      /\ tx.side \in Side /\ tx.size \in Nat
  BY RequestTypes
<1>2. /\ Before(tx.mk, tx.pn) \in Accounts
      /\ Before(tx.mk, tx.pn).q = pf[tx.pn][tx.mk]
      /\ Before(tx.mk, tx.pn).h = house[tx.mk]
  BY <1>1, BeforeType
<1>3. CASE tx.size > 0
  <2>1. Reduced(tx) =
          PlaceOrder(Before(tx.mk, tx.pn), tx.a, tx.side, tx.size)
    BY <1>3 DEF Reduced, Flattened
  <2> QED
    BY <1>1, <1>2, <2>1, PlaceOrderType, PlaceOrderBooks
<1>4. CASE ~(tx.size > 0)
  BY <1>2, <1>4 DEF Reduced, Flattened
<1> QED
  BY <1>3, <1>4

(* The books of an open, CPI by CPI. *)
LEMMA OpenBalanced ==
  ASSUME TypeOK, Untouched, Running, tx.kind = "open"
  PROVE  /\ Collateral(work) = Collateral(Loaded(tx))
         /\ Lamports(work) = Lamports(Loaded(tx))
<1> DEFINE old == pf[tx.pn][tx.mk]
           L == staged[tx.n][tx.st]
           P == pda[tx.n]
           H == house[tx.mk]
           O == Opening(tx.mk, tx.amount)
           s == PlaceOrder(O, tx.a, tx.side, tx.size)
<1>1. /\ tx \in Request /\ at \in OpenStages
      /\ work = OpenWork(tx, at) /\ OpenPassed(tx, at)
      /\ tx.home /\ Loaded(tx).acct /\ Loaded(tx).staging
  BY DEF Running, OpenPassed, OpenChecked
<1>2. /\ tx.n \in Nft /\ tx.pn \in Nft /\ tx.mk \in Market /\ tx.a \in Asset
      /\ tx.side \in Side /\ tx.size \in Nat /\ tx.amount \in Nat
      /\ tx.amount \in Amount /\ tx.st \in Stash
  BY <1>1, RequestTypes
<1>3. L \in Nat /\ P \in Nat /\ H \in Nat /\ old \in Portfolio
  BY <1>2 DEF TypeOK
<1>4. ~old.exists => old.cap = 0
  BY <1>2 DEF Untouched
<1>5. /\ O.q.cap = tx.amount /\ O.h = H /\ O.q.exists /\ O \in Accounts
      /\ InitPortfolio.cap = 0 /\ InitPortfolio.exists
  <2>1. Deposit(InitPortfolio, tx.amount).cap = tx.amount
    BY <1>2, InitPortfolioFields DEF Deposit, Portfolio
  <2> QED
    BY <1>2, <2>1, OpeningType, InitPortfolioFields DEF Opening
<1>6. s \in Accounts /\ s.q.exists /\ s.q.cap + s.h = tx.amount + H
  BY <1>2, <1>5, PlaceOrderType, PlaceOrderBooks
<1>7. /\ Loaded(tx).staged = L /\ Loaded(tx).pda = P /\ Loaded(tx).q = old
      /\ Loaded(tx).h = H /\ Loaded(tx).paid = 0 /\ Loaded(tx).rent = 0
      /\ Loaded(tx).mint = mint[tx.n]
  BY <1>1 DEF Loaded
<1>8. work.mint.exists = mint[tx.n].exists /\ work.acct /\ work.staging
  BY <1>1 DEF OpenWork
<1>9. CASE at \in {"metadata", "mintTo", "revoke", "init"}
  <2>1. /\ work.staged = L /\ work.pda = P /\ work.q = old /\ work.h = H
        /\ work.paid = 0 /\ work.rent = 0
    BY <1>1, <1>9 DEF OpenWork
  <2> QED
    BY <1>1, <1>7, <1>8, <2>1 DEF Collateral, Lamports
<1>10. CASE at = "deposit"
  <2>1. /\ work.staged = L /\ work.pda = P - RentPortfolio
        /\ work.q = InitPortfolio /\ work.h = H
        /\ work.paid = 0 /\ work.rent = 0 /\ ~old.exists
    BY <1>1, <1>10 DEF OpenWork, OpenPassed
  <2> QED
    BY <1>1, <1>3, <1>4, <1>5, <1>7, <1>8, <2>1, RentAssumption
       DEF Collateral, Lamports, Bill
<1>11. CASE at = "order"
  <2>1. /\ work.staged = L - tx.amount /\ work.pda = P - RentPortfolio
        /\ work.q = O.q /\ work.h = H
        /\ work.paid = 0 /\ work.rent = 0 /\ ~old.exists
    BY <1>1, <1>11 DEF OpenWork, OpenPassed
  <2> HIDE DEF O
  <2> QED
    BY <1>1, <1>2, <1>3, <1>4, <1>5, <1>7, <1>8, <2>1, RentAssumption
       DEF Collateral, Lamports, Bill
<1>12. CASE at = "done"
  <2>1. /\ work.staged = L - tx.amount /\ work.pda = P - RentPortfolio
        /\ work.q = s.q /\ work.h = s.h
        /\ work.paid = 0 /\ work.rent = 0 /\ ~old.exists
    BY <1>1, <1>12 DEF OpenWork, OpenPassed
  <2>2. s.q.cap \in Nat /\ s.h \in Nat
    BY <1>6 DEF Accounts, Portfolio
  <2> HIDE DEF O, s
  <2> QED
    BY <1>1, <1>2, <1>3, <1>4, <1>6, <1>7, <1>8, <2>1, <2>2, RentAssumption
       DEF Collateral, Lamports, Bill
<1> QED
  BY <1>1, <1>9, <1>10, <1>11, <1>12 DEF OpenStages, OpenCalls

(* The books of a close, CPI by CPI. *)
LEMMA CloseBalanced ==
  ASSUME TypeOK, OneBearer, Running, tx.kind = "close"
  PROVE  /\ Collateral(work) = Collateral(Loaded(tx))
         /\ Lamports(work) = Lamports(Loaded(tx))
<1> DEFINE old == pf[tx.pn][tx.mk]
           L == Loaded(tx).staged
           P == Loaded(tx).pda
           H == house[tx.mk]
           r == Reduced(tx)
           s == Final(tx)
<1>1. /\ tx \in Request /\ at \in CloseStages
      /\ work = CloseWork(tx, at) /\ ClosePassed(tx, at)
      /\ HoldsNft(tx.w, tx.n) /\ Loaded(tx).staging
  BY DEF Running, ClosePassed, CloseChecked
<1>2. /\ tx.n \in Nft /\ tx.w \in Wallet
      /\ tx.pn \in Nft /\ tx.mk \in Market /\ tx.a \in Asset
      /\ tx.side \in Side /\ tx.size \in Nat /\ tx.amount \in Nat
      /\ L \in Nat /\ P \in Nat
  BY <1>1, RequestTypes
<1>3. mint[tx.n].exists
  BY <1>1, <1>2, UnitIsBearer DEF HoldsNft, BearerOf
<1>4. H \in Nat /\ old \in Portfolio /\ old.cap \in Nat
  BY <1>2 DEF TypeOK, Portfolio
<1>5. /\ r.q.exists = old.exists /\ r.q.cap + r.h = old.cap + H
      /\ r \in Accounts
  BY <1>1, ReducedType, ReducedBooks
<1>6. /\ s.q.exists = old.exists /\ s.q.cap + s.h = old.cap + H
      /\ s.q \in Portfolio /\ s.q.cap \in Nat /\ s.h \in Nat
  <2>1. s = SettlePnl(r)
    BY DEF Final, AfterSettle, Reduced
  <2> HIDE DEF r, s
  <2> QED
    BY <1>5, <2>1, SettlePnlType, SettlePnlBooks DEF Accounts, Portfolio
<1>7. /\ Loaded(tx).acct /\ Loaded(tx).staging /\ Loaded(tx).mint.exists
      /\ Loaded(tx).q = old /\ Loaded(tx).h = H
      /\ Loaded(tx).staged = L /\ Loaded(tx).pda = P
      /\ Loaded(tx).paid = 0 /\ Loaded(tx).rent = 0
  BY <1>1, <1>3 DEF Loaded, HoldsNft
<1> DEFINE final == IF tx.amount > 0 THEN Withdraw(s.q, tx.amount) ELSE s.q
<1>8. final.exists = old.exists /\ final.cap = s.q.cap - tx.amount
  <2>1. tx.amount > 0 \/ tx.amount = 0
    BY <1>2
  <2> HIDE DEF s, old
  <2> QED
    BY <1>2, <1>6, <2>1 DEF Withdraw, Portfolio
<1>9. CASE at = "order"
  <2>1. /\ work.mint.exists /\ work.acct /\ work.staging /\ work.pda = P
        /\ work.staged = L /\ work.q = old /\ work.h = H
        /\ work.paid = 0 /\ work.rent = 0
    BY <1>1, <1>3, <1>9
       DEF CloseWork, CloseMintAt, ToPay, ToBurn, ToDrain, ToCloseStaging,
           ToCloseNft, ToCloseMint, ToSweep
  <2> QED
    BY <1>7, <2>1 DEF Collateral, Lamports, Bill
<1>10. CASE at = "settle"
  <2>1. /\ work.mint.exists /\ work.acct /\ work.staging /\ work.pda = P
        /\ work.staged = L /\ work.q = r.q /\ work.h = r.h
        /\ work.paid = 0 /\ work.rent = 0
    BY <1>1, <1>3, <1>10
       DEF CloseWork, CloseMintAt, ToPay, ToBurn, ToDrain, ToCloseStaging,
           ToCloseNft, ToCloseMint, ToSweep
  <2>2. r.q.cap \in Nat /\ r.h \in Nat
    BY <1>5 DEF Accounts, Portfolio
  <2> HIDE DEF old, L, P, H, r
  <2> QED
    BY <1>2, <1>4, <1>5, <1>7, <2>1, <2>2 DEF Collateral, Lamports, Bill
<1>11. CASE at = "withdraw"
  <2>1. /\ work.mint.exists /\ work.acct /\ work.staging /\ work.pda = P
        /\ work.staged = L /\ work.q = s.q /\ work.h = s.h
        /\ work.paid = 0 /\ work.rent = 0
    BY <1>1, <1>3, <1>11
       DEF CloseWork, CloseMintAt, ToPay, ToBurn, ToDrain, ToCloseStaging,
           ToCloseNft, ToCloseMint, ToSweep
  <2> HIDE DEF old, L, P, H, s
  <2> QED
    BY <1>2, <1>4, <1>6, <1>7, <2>1 DEF Collateral, Lamports, Bill
<1>12. CASE at \notin ToPay
  <2> DEFINE R == RentToken + RentToken + RentMint
  <2>1. work.q = final /\ work.h = s.h
    BY <1>1, <1>12 DEF CloseWork, ToPay
  <2>2. work.staged + work.paid = L + tx.amount
    <3>1. /\ work.staged = IF tx.self THEN L + tx.amount
                           ELSE IF at \in ToDrain THEN L ELSE 0
          /\ work.paid = IF at \in ToDrain THEN Elsewhere(tx, tx.amount)
                         ELSE Elsewhere(tx, tx.amount + L)
      BY <1>1, <1>12 DEF CloseWork
    <3> HIDE DEF L
    <3> QED
      BY <1>2, <3>1 DEF Elsewhere
  <2>3. work.staged \in Nat /\ work.paid \in Nat
    <3>1. /\ work.staged = IF tx.self THEN L + tx.amount
                           ELSE IF at \in ToDrain THEN L ELSE 0
          /\ work.paid = IF at \in ToDrain THEN Elsewhere(tx, tx.amount)
                         ELSE Elsewhere(tx, tx.amount + L)
      BY <1>1, <1>12 DEF CloseWork
    <3> HIDE DEF L
    <3> QED
      BY <1>2, <3>1 DEF Elsewhere
  <2>4. Collateral(work) = Collateral(Loaded(tx))
    <3> HIDE DEF old, L, P, H, s, final
    <3> QED
      BY <1>2, <1>4, <1>6, <1>7, <1>8, <2>1, <2>2, <2>3 DEF Collateral
  <2>5. /\ at \in {"burn", "drain", "closeStaging"} =>
             /\ work.mint.exists /\ work.acct /\ work.staging
             /\ work.pda = P /\ work.rent = 0
        /\ at = "closeNft" =>
             /\ work.mint.exists /\ work.acct /\ ~work.staging
             /\ work.pda = P /\ work.rent = RentToken
        /\ at = "closeMint" =>
             /\ work.mint.exists /\ ~work.acct /\ ~work.staging
             /\ work.pda = P /\ work.rent = RentToken + RentToken
        /\ at = "sweep" =>
             /\ ~work.mint.exists /\ ~work.acct /\ ~work.staging
             /\ work.pda = P /\ work.rent = R
        /\ at = "done" =>
             /\ ~work.mint.exists /\ ~work.acct /\ ~work.staging
             /\ work.pda = 0 /\ work.rent = R + P
    BY <1>1, <1>3
       DEF CloseWork, CloseMintAt, NoMint, ToPay, ToBurn, ToDrain,
           ToCloseStaging, ToCloseNft, ToCloseMint, ToSweep
  <2>6. at \in {"burn", "drain", "closeStaging", "closeNft", "closeMint",
                "sweep", "done"}
    BY <1>1, <1>12 DEF CloseStages, CloseCalls, ToPay
  <2>7. Lamports(work) = Lamports(Loaded(tx))
    <3> HIDE DEF old, P, final
    <3> QED
      BY <1>2, <1>7, <1>8, <2>1, <2>5, <2>6, RentAssumption
         DEF Lamports, Bill
  <2> QED
    BY <2>4, <2>7
<1> QED
  BY <1>9, <1>10, <1>11, <1>12 DEF ToPay

(* What left one account is in another one or with the client, between any *)
(* two CPIs: no collateral and no lamport appears or is lost.              *)
THEOREM BooksBalance == TxSpec => []Balanced
<1>1. OnTrack /\ Untouched => Balanced
  <2> SUFFICES ASSUME OnTrack, Untouched, at # "idle"
               PROVE  /\ Collateral(work) = Collateral(Loaded(tx))
                      /\ Lamports(work) = Lamports(Loaded(tx))
    BY DEF Balanced
  <2>1. TypeOK /\ OneBearer /\ Running
    BY DEF OnTrack, Inductive
  <2>2. tx.kind = "open" \/ tx.kind = "close"
    BY <2>1 DEF Running, Request
  <2> QED
    BY <2>1, <2>2, OpenBalanced, CloseBalanced
<1> QED
  BY <1>1, StaysOnTrack, UntouchedAlways, PTL

-----------------------------------------------------------------------------
(* The types. *)

(* The loaded accounts stay accounts through an open: nothing is pulled    *)
(* out of them that is not there.                                          *)
LEMMA OpenWorkType ==
  ASSUME TypeOK, Running, tx.kind = "open"
  PROVE  work \in Work
<1> DEFINE O == Opening(tx.mk, tx.amount)
           s == PlaceOrder(O, tx.a, tx.side, tx.size)
<1>1. /\ tx \in Request /\ at \in OpenStages
      /\ work = OpenWork(tx, at) /\ OpenPassed(tx, at)
  BY DEF Running
<1>2. /\ tx.n \in Nft /\ tx.w \in Wallet /\ tx.pn \in Nft /\ tx.mk \in Market
      /\ tx.a \in Asset /\ tx.side \in Side /\ tx.size \in Nat
      /\ tx.amount \in Nat /\ tx.amount \in Amount /\ tx.st \in Stash
  BY <1>1, RequestTypes
<1>3. /\ staged[tx.n][tx.st] \in Nat /\ pda[tx.n] \in Nat
      /\ house[tx.mk] \in Nat /\ pf[tx.pn][tx.mk] \in Portfolio
      /\ mint[tx.n] \in Mint /\ nftAmt[tx.n][tx.w] \in Nat
  BY <1>2 DEF TypeOK
<1>4. O \in Accounts /\ s \in Accounts
  BY <1>2, OpeningType, PlaceOrderType
<1>5. work.mint \in Mint
  <2> DEFINE m == mint[tx.n]
             N == {"none", "long", "short"}
             K == Market \cup {"none"}
  <2>1. /\ m.exists \in BOOLEAN /\ m.vetted \in BOOLEAN
        /\ m.authority \in BOOLEAN /\ m.supply \in Nat
        /\ m.name \in N /\ m.market \in K
    BY <1>3 DEF Mint
  <2>2. /\ m.supply + MintUnit \in Nat
        /\ PositionName(tx.side) \in N /\ tx.mk \in K
    BY <1>2, <2>1 DEF MintUnit, PositionName
  <2>3. work.mint =
          [exists |-> m.exists, vetted |-> m.vetted,
           authority |-> work.mint.authority, supply |-> work.mint.supply,
           name |-> work.mint.name, market |-> work.mint.market]
    BY <1>1 DEF OpenWork
  <2>4. /\ work.mint.authority = m.authority \/ work.mint.authority = FALSE
        /\ work.mint.supply \in {m.supply, m.supply + MintUnit}
        /\ work.mint.name \in {m.name, PositionName(tx.side)}
        /\ work.mint.market \in {m.market, tx.mk}
    BY <1>1 DEF OpenWork
  <2> HIDE DEF m, N, K
  <2>5. /\ work.mint.authority \in BOOLEAN /\ work.mint.supply \in Nat
        /\ work.mint.name \in N /\ work.mint.market \in K
    BY <2>1, <2>2, <2>4
  <2> QED
    BY <2>1, <2>3, <2>5 DEF Mint, N, K
<1>6. /\ work.amt \in Nat /\ work.acct \in BOOLEAN /\ work.staging \in BOOLEAN
      /\ work.paid \in Nat /\ work.rent \in Nat
  BY <1>1, <1>3 DEF OpenWork, MintUnit
<1>7. work.staged \in Nat
  <2>1. work.staged = IF at \in {"order", "done"}
                      THEN staged[tx.n][tx.st] - tx.amount
                      ELSE staged[tx.n][tx.st]
    BY <1>1 DEF OpenWork
  <2>2. at \in {"order", "done"} => tx.amount <= staged[tx.n][tx.st]
    BY <1>1 DEF OpenPassed
  <2> QED
    BY <1>2, <1>3, <2>1, <2>2
<1>8. work.pda \in Nat
  <2>1. work.pda = IF at \in {"deposit", "order", "done"}
                   THEN pda[tx.n] - RentPortfolio ELSE pda[tx.n]
    BY <1>1 DEF OpenWork
  <2>2. at \in {"deposit", "order", "done"} => pda[tx.n] >= RentPortfolio
    BY <1>1 DEF OpenPassed
  <2> QED
    BY <1>3, <2>1, <2>2, RentAssumption
<1>9. work.q \in Portfolio /\ work.h \in Nat
  <2>1. work.q \in {InitPortfolio, O.q, s.q, pf[tx.pn][tx.mk]}
    BY <1>1 DEF OpenWork
  <2>2. work.h \in {s.h, house[tx.mk]}
    BY <1>1 DEF OpenWork
  <2> HIDE DEF O, s
  <2> QED
    BY <1>3, <1>4, <2>1, <2>2, InitPortfolioFields DEF Accounts
<1>10. Fields(work)
  BY <1>1, OpenFields
<1>11. work =
         [mint |-> work.mint, amt |-> work.amt, acct |-> work.acct,
          staged |-> work.staged, staging |-> work.staging,
          pda |-> work.pda, q |-> work.q, h |-> work.h,
          paid |-> work.paid, rent |-> work.rent]
  BY <1>10 DEF Fields
<1> QED
  BY <1>5, <1>6, <1>7, <1>8, <1>9, <1>11 DEF Work

(* And through a close: what is burned is there, and so is what is paid.   *)
LEMMA CloseWorkType ==
  ASSUME TypeOK, OneBearer, Running, tx.kind = "close"
  PROVE  work \in Work
<1> DEFINE r == Reduced(tx)
           s == Final(tx)
           L == Loaded(tx).staged
           P == Loaded(tx).pda
<1>1. /\ tx \in Request /\ work = CloseWork(tx, at) /\ ClosePassed(tx, at)
      /\ HoldsNft(tx.w, tx.n)
  BY DEF Running, ClosePassed, CloseChecked
<1>2. /\ tx.n \in Nft /\ tx.w \in Wallet /\ tx.pn \in Nft /\ tx.mk \in Market
      /\ tx.a \in Asset /\ tx.side \in Side /\ tx.size \in Nat
      /\ tx.amount \in Nat /\ L \in Nat /\ P \in Nat
  BY <1>1, RequestTypes
<1>3. /\ house[tx.mk] \in Nat /\ pf[tx.pn][tx.mk] \in Portfolio
      /\ mint[tx.n] \in Mint /\ mint[tx.n].supply = 1
  BY <1>1, <1>2, UnitIsBearer DEF TypeOK, HoldsNft, BearerOf
<1>4. r \in Accounts /\ s \in Accounts
  BY <1>1, <1>2, ReducedBooks, AfterSettleType DEF Final
<1>5. work.mint \in Mint
  <2>1. CloseMintAt(tx, at) \in Mint
    <3>1. NoMint \in Mint
      BY DEF NoMint, Mint
    <3>2. mint[tx.n].supply - 1 \in Nat
      BY <1>3
    <3> QED
      BY <1>3, <3>1, <3>2 DEF CloseMintAt, Mint
  <2> QED
    BY <1>1, <2>1 DEF CloseWork
<1>6. /\ work.amt \in Nat /\ work.acct \in BOOLEAN /\ work.staging \in BOOLEAN
      /\ work.staged \in Nat /\ work.paid \in Nat /\ work.pda \in Nat
  <2> HIDE DEF L, P
  <2>1. /\ work.amt = IF at \in ToBurn THEN 1 ELSE 0
        /\ work.acct = IF at \in ToCloseNft THEN TRUE ELSE FALSE
        /\ work.staging = IF at \in ToCloseStaging THEN TRUE ELSE FALSE
        /\ work.staged = IF at \in ToPay THEN L
                         ELSE IF tx.self THEN L + tx.amount
                         ELSE IF at \in ToDrain THEN L ELSE 0
        /\ work.paid = IF at \in ToPay THEN 0
                       ELSE IF at \in ToDrain THEN Elsewhere(tx, tx.amount)
                       ELSE Elsewhere(tx, tx.amount + L)
        /\ work.pda = IF at \in ToSweep THEN P ELSE 0
    BY <1>1 DEF CloseWork, L, P
  <2> QED
    BY <1>2, <2>1 DEF Elsewhere
<1>7. work.rent \in Nat
  <2> HIDE DEF P
  <2>1. work.rent \in {0, RentToken, RentToken + RentToken,
                       RentToken + RentToken + RentMint,
                       RentToken + RentToken + RentMint + P}
    BY <1>1 DEF CloseWork, P
  <2> QED
    BY <1>2, <2>1, RentAssumption
<1>8. work.h \in Nat
  <2>1. work.h \in {house[tx.mk], r.h, s.h}
    BY <1>1 DEF CloseWork
  <2> HIDE DEF r, s
  <2> QED
    BY <1>3, <1>4, <2>1 DEF Accounts
<1>9. work.q \in Portfolio
  <2>1. CASE at \in ToPay
    <3>1. work.q \in {pf[tx.pn][tx.mk], r.q, s.q}
      BY <1>1, <2>1 DEF CloseWork, ToPay
    <3> HIDE DEF r, s
    <3> QED
      BY <1>3, <1>4, <3>1 DEF Accounts
  <2>2. CASE at \notin ToPay
    <3>1. work.q = IF tx.amount > 0 THEN Withdraw(s.q, tx.amount) ELSE s.q
      BY <1>1, <2>2 DEF CloseWork, ToPay
    <3>2. tx.amount > 0 => tx.amount <= s.q.cap
      BY <1>1, <2>2 DEF ClosePassed, PayoutAccepted, WithdrawAccepted, Final
    <3> HIDE DEF s
    <3> QED
      BY <1>2, <1>4, <3>1, <3>2 DEF Withdraw, Accounts, Portfolio
  <2> QED
    BY <2>1, <2>2
<1>10. Fields(work)
  BY <1>1, CloseFields
<1>11. work =
         [mint |-> work.mint, amt |-> work.amt, acct |-> work.acct,
          staged |-> work.staged, staging |-> work.staging,
          pda |-> work.pda, q |-> work.q, h |-> work.h,
          paid |-> work.paid, rent |-> work.rent]
  BY <1>10 DEF Fields
<1> QED
  BY <1>5, <1>6, <1>7, <1>8, <1>9, <1>11 DEF Work

(* Between transactions and within them, every balance is a natural number *)
(* and every account what its type says.                                   *)
THEOREM TransactionTypes == TxSpec => []TxTypeOK
<1>1. OnTrack => TxTypeOK
  <2> SUFFICES ASSUME OnTrack
               PROVE  TxTypeOK
    OBVIOUS
  <2>1. TypeOK /\ OneBearer
    BY DEF OnTrack, Inductive
  <2>2. CASE at = "idle"
    BY <2>1, <2>2 DEF OnTrack, TxTypeOK
  <2>3. CASE at # "idle"
    <3>1. Running /\ (tx.kind = "open" \/ tx.kind = "close")
      BY <2>3 DEF OnTrack, Running, Request
    <3>2. work \in Work
      BY <2>1, <3>1, OpenWorkType, CloseWorkType
    <3>3. at \in {"idle", "done"} \cup OpenCalls \cup CloseCalls
      BY <3>1 DEF Running, OpenStages, CloseStages
    <3> QED
      BY <2>1, <2>3, <3>1, <3>2, <3>3 DEF TxTypeOK, Running
  <2> QED
    BY <2>2, <2>3
<1> QED
  BY <1>1, StaysOnTrack, PTL

-----------------------------------------------------------------------------
(* Whatever PositionProgram's theorems say of its steps they say of the    *)
(* transactions, rolled back or not.                                       *)

(* A position has one bearer, at every CPI of every other transaction      *)
(* (processor.rs:3-8).                                                     *)
THEOREM BearerOfTransactions == TxSpec => []OneOfOne
BY HandlersAreAtomic, BearerInstrument, PTL DEF AtomicHandlers

(* No run of CPIs, completed or refused half-way, leaves a live position   *)
(* without a close in full, on its own market, that would go through       *)
(* (processor.rs:461-464).                                                 *)
THEOREM TransactionsNeverWedge == TxSpec => []NeverWedged
BY HandlersAreAtomic, NeverUnredeemable, PTL DEF AtomicHandlers

(* The name on a live NFT is the side its portfolio is on, although the    *)
(* name is written five CPIs before the order (processor.rs:217-322).      *)
THEOREM TransactionsOpenAsNamed == TxSpec => []NamedExposure
BY HandlersAreAtomic, ExposureAsNamed, PTL DEF AtomicHandlers

(* Whatever the CPIs of a transaction pay out, its signer's unit is burned *)
(* in the same transaction (processor.rs:357-517).                         *)
THEOREM TransactionsPayBearers == TxSpec => OnlyHolderPaid
BY HandlersAreAtomic, PaidForAnNft, PTL DEF AtomicHandlers

(* A transaction with one position's NFT leaves the legs and the equity of *)
(* every other position alone, whichever portfolio it names.               *)
THEOREM TransactionsIsolate == TxSpec => PositionsIsolated
BY HandlersAreAtomic, Isolation, PTL DEF AtomicHandlers

(* The accounts a close closes go together, with their rent: a close       *)
(* refused at its last CPI keeps all of them (processor.rs:466-514).       *)
THEOREM TransactionsReturnRent == TxSpec => RentReturns
BY HandlersAreAtomic, RentGoesHome, PTL DEF AtomicHandlers

(* A unit burned outside the program stays buried (processor.rs:3-8).      *)
THEOREM TransactionsBury == TxSpec => BurnedForGood
BY HandlersAreAtomic, Burial, PTL DEF AtomicHandlers

(* Two refinements in a row: the CPIs implement the bearer instrument.     *)
THEOREM TransactionsAreBearer == TxSpec => ImplementsBearer
BY HandlersAreAtomic, BearerImplemented, PTL DEF AtomicHandlers
=============================================================================
