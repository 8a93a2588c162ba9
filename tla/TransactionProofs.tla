-------------------------- MODULE TransactionProofs --------------------------
(***************************************************************************)
(* The handlers as sequences of CPIs implement the single steps of         *)
(* PositionProgram, for every value of the constants.  The invariant says, *)
(* for every CPI about to be made, what the earlier ones have made of the  *)
(* loaded accounts and what they have found out about the request; the     *)
(* chain as a whole then is one step, and whatever is proved of            *)
(* PositionProgram holds between transactions too.                         *)
(***************************************************************************)
EXTENDS Transactions, PositionProofs

(* The accounts of an open when call is about to be made, or at its end. *)
OpenWork(t, call) ==
  [mint |->
     [exists    |-> mint[t.n].exists,
      vetted    |-> mint[t.n].vetted,
      authority |-> IF call \in {"metadata", "mintTo", "revoke"}
                    THEN mint[t.n].authority ELSE FALSE,
      supply    |-> IF call \in {"metadata", "mintTo"}
                    THEN mint[t.n].supply ELSE mint[t.n].supply + MintUnit,
      name      |-> IF call = "metadata"
                    THEN mint[t.n].name ELSE PositionName(t.side),
      market    |-> IF call = "metadata" THEN mint[t.n].market ELSE t.mk],
   amt     |-> IF call \in {"metadata", "mintTo"}
               THEN nftAmt[t.n][t.w] ELSE nftAmt[t.n][t.w] + MintUnit,
   acct    |-> TRUE,
   staged  |-> IF call \in {"order", "done"}
               THEN staged[t.n][t.st] - t.amount ELSE staged[t.n][t.st],
   staging |-> TRUE,
   pda     |-> IF call \in {"deposit", "order", "done"}
               THEN pda[t.n] - RentPortfolio ELSE pda[t.n],
   q       |-> CASE call = "deposit" -> InitPortfolio
                 [] call = "order"   -> Opening(t.mk, t.amount).q
                 [] call = "done"    ->
                      PlaceOrder(Opening(t.mk, t.amount), t.a, t.side, t.size).q
                 [] OTHER            -> pf[t.pn][t.mk],
   h       |-> IF call = "done"
               THEN PlaceOrder(Opening(t.mk, t.amount), t.a, t.side, t.size).h
               ELSE house[t.mk],
   paid    |-> 0,
   rent    |-> 0]

(* What an open has passed by then. *)
OpenPassed(t, call) ==
  /\ OpenChecked(t) /\ t.y = t.w /\ ~t.self
  /\ call \in {"deposit", "order", "done"} =>
       ~pf[t.pn][t.mk].exists /\ pda[t.n] >= RentPortfolio
  /\ call \in {"order", "done"} => t.amount <= staged[t.n][t.st]
  /\ call = "done" =>
       OrderAccepted(Opening(t.mk, t.amount).q, t.a, t.side, t.size)

(* The CPIs of a close up to each of its effects. *)
ToPay  == {"order", "settle", "withdraw"}
ToBurn == ToPay \cup {"burn"}
ToDrain == ToBurn \cup {"drain"}
ToCloseStaging == ToDrain \cup {"closeStaging"}
ToCloseNft == ToCloseStaging \cup {"closeNft"}
ToCloseMint == ToCloseNft \cup {"closeMint"}
ToSweep == ToCloseMint \cup {"sweep"}

(* The portfolio and its counterparty after the flatten, after the settle. *)
Reduced(t) == Flattened(t.mk, t.pn, t.a, t.side, t.size)
Final(t) == AfterSettle(t.mk, t.pn, t.a, t.side, t.size)

(* What leaves the loaded accounts: a payout to the staging account stays. *)
Elsewhere(t, amount) == IF t.self THEN 0 ELSE amount

(* The mint loses its unit to the burn, and is gone after CloseMint. *)
CloseMintAt(t, call) ==
  IF call \in ToCloseMint
  THEN [exists    |-> mint[t.n].exists,
        vetted    |-> mint[t.n].vetted,
        authority |-> mint[t.n].authority,
        supply    |-> IF call \in ToBurn THEN mint[t.n].supply
                                         ELSE mint[t.n].supply - 1,
        name      |-> mint[t.n].name,
        market    |-> mint[t.n].market]
  ELSE NoMint

(* The accounts of a close when call is about to be made, or at its end. *)
CloseWork(t, call) ==
  [mint    |-> CloseMintAt(t, call),
   amt     |-> IF call \in ToBurn THEN 1 ELSE 0,
   acct    |-> IF call \in ToCloseNft THEN TRUE ELSE FALSE,
   staged  |-> IF call \in ToPay THEN Loaded(t).staged
               ELSE IF t.self THEN Loaded(t).staged + t.amount
               ELSE IF call \in ToDrain THEN Loaded(t).staged ELSE 0,
   staging |-> IF call \in ToCloseStaging THEN TRUE ELSE FALSE,
   pda     |-> IF call \in ToSweep THEN Loaded(t).pda ELSE 0,
   q       |-> CASE call = "order"    -> pf[t.pn][t.mk]
                 [] call = "settle"   -> Reduced(t).q
                 [] call = "withdraw" -> Final(t).q
                 [] OTHER -> IF t.amount > 0
                             THEN Withdraw(Final(t).q, t.amount)
                             ELSE Final(t).q,
   h       |-> CASE call = "order"  -> house[t.mk]
                 [] call = "settle" -> Reduced(t).h
                 [] OTHER           -> Final(t).h,
   paid    |-> IF call \in ToPay THEN 0
               ELSE IF call \in ToDrain THEN Elsewhere(t, t.amount)
               ELSE Elsewhere(t, t.amount + Loaded(t).staged),
   rent    |-> IF call \in ToCloseStaging THEN 0
               ELSE IF call \in ToCloseNft THEN RentToken
               ELSE IF call \in ToCloseMint THEN RentToken + RentToken
               ELSE IF call \in ToSweep THEN RentToken + RentToken + RentMint
               ELSE RentToken + RentToken + RentMint + Loaded(t).pda]

(* What a close has passed by then. *)
ClosePassed(t, call) ==
  /\ CloseChecked(t)
  /\ call = "order" => t.size > 0
  /\ call # "order" =>
       FlattenAccepted(t.n, t.mk, t.pn, t.a, t.side, t.size)
  /\ call \notin {"order", "settle"} => pf[t.pn][t.mk].exists
  /\ call = "withdraw" => t.amount > 0
  /\ call \notin ToPay =>
       PayoutAccepted(t.n, t.mk, t.pn, t.a, t.side, t.size, t.amount)
  /\ call \notin ToCloseStaging /\ t.self =>
       t.amount = 0 /\ Loaded(t).staged = 0
  /\ call \notin ToCloseMint => mint[t.n].vetted /\ t.home

(* The CPIs of a handler and its end. *)
OpenStages == OpenCalls \cup {"done"}
CloseStages == CloseCalls \cup {"done"}

(* A transaction that runs is on track. *)
Running ==
  /\ tx \in Request
  /\ tx.kind = "open" =>
       at \in OpenStages /\ work = OpenWork(tx, at) /\ OpenPassed(tx, at)
  /\ tx.kind = "close" =>
       at \in CloseStages /\ work = CloseWork(tx, at) /\ ClosePassed(tx, at)

(* The invariant: of the accounts, and of the transaction that runs. *)
OnTrack ==
  /\ Inductive
  /\ at = "idle" => tx = None /\ work = None
  /\ at # "idle" => Running

-----------------------------------------------------------------------------
(* A CPI leaves the ledger alone: an open that has got to call is on track *)
(* if its accounts are those of call.                                      *)
LEMMA OpenOnTrack ==
  ASSUME NEW t \in Request, t.kind = "open", NEW c \in OpenStages,
         tx' = t, at' = c, UNCHANGED vars,
         work' = OpenWork(t, c), OpenPassed(t, c)
  PROVE  Running'
<1>1. OpenWork(tx, at)' = OpenWork(t, c)
  BY DEF OpenWork, Opening, vars
<1>2. OpenPassed(tx, at)' = OpenPassed(t, c)
  BY DEF OpenPassed, OpenChecked, Loaded, Opening, vars
<1> QED
  BY <1>1, <1>2 DEF Running

(* The same of a close, of one that begins too. *)
LEMMA CloseOnTrack ==
  ASSUME NEW t \in Request, t.kind = "close", NEW c \in CloseStages,
         tx' = t, at' = c, UNCHANGED vars,
         work' = CloseWork(t, c), ClosePassed(t, c)
  PROVE  Running'
<1>1. Loaded(tx)' = Loaded(t)
  BY DEF Loaded, vars
<1>2. /\ Reduced(tx)' = Reduced(t)
      /\ Final(tx)' = Final(t)
  BY DEF Reduced, Final, AfterSettle, Flattened, Before, vars
<1>3. CloseWork(tx, at)' = CloseWork(t, c)
  BY <1>1, <1>2 DEF CloseWork, CloseMintAt, Elsewhere, vars
<1>4. ClosePassed(tx, at)' = ClosePassed(t, c)
  BY <1>1 DEF ClosePassed, CloseChecked, HoldsNft, FlattenAccepted,
              PayoutAccepted, AfterSettle, Flattened, Before, vars
<1> QED
  BY <1>3, <1>4 DEF Running

(* The ten fields of a set of accounts, and the six of a mint: a record    *)
(* is known by its fields before one of them is updated.                   *)
Fields(v) ==
  v \in [mint : {v.mint}, amt : {v.amt}, acct : {v.acct},
         staged : {v.staged}, staging : {v.staging}, pda : {v.pda},
         q : {v.q}, h : {v.h}, paid : {v.paid}, rent : {v.rent}]

MintFields(m) ==
  m \in [exists : {m.exists}, vetted : {m.vetted},
         authority : {m.authority}, supply : {m.supply}, name : {m.name},
         market : {m.market}]

(* An open's accounts have these fields, and so has their mint. *)
LEMMA OpenFields ==
  ASSUME NEW t, NEW c
  PROVE  Fields(OpenWork(t, c)) /\ MintFields(OpenWork(t, c).mint)
BY DEF Fields, MintFields, OpenWork

(* A close's accounts too, also once the mint is closed. *)
LEMMA CloseFields ==
  ASSUME NEW t, NEW c
  PROVE  Fields(CloseWork(t, c)) /\ MintFields(CloseWork(t, c).mint)
BY DEF Fields, MintFields, CloseWork, CloseMintAt, NoMint

(* The open, CPI by CPI.  TokenMetadataInitialize writes the name. *)
LEMMA MetadataKeeps ==
  ASSUME Running, TokenMetadataInitialize
  PROVE  Running'
<1>1. /\ tx \in Request /\ tx.kind = "open" /\ at = "metadata"
      /\ work = OpenWork(tx, "metadata") /\ OpenPassed(tx, "metadata")
      /\ work' = [work EXCEPT !.mint = [@ EXCEPT !.name = PositionName(tx.side),
                                                 !.market = tx.mk]]
      /\ at' = "mintTo" /\ tx' = tx /\ UNCHANGED vars
  BY DEF Running, TokenMetadataInitialize, Invoke, Then, Follows, Request,
         CloseStages, CloseCalls
<1>2. Fields(work) /\ MintFields(work.mint)
  BY <1>1, OpenFields
<1>3. work' =
        [mint |-> [exists |-> work.mint.exists, vetted |-> work.mint.vetted,
                   authority |-> work.mint.authority,
                   supply |-> work.mint.supply,
                   name |-> PositionName(tx.side), market |-> tx.mk],
         amt |-> work.amt, acct |-> work.acct, staged |-> work.staged,
         staging |-> work.staging, pda |-> work.pda, q |-> work.q,
         h |-> work.h, paid |-> work.paid, rent |-> work.rent]
  BY <1>1, <1>2 DEF Fields, MintFields
<1>4. work' = OpenWork(tx, "mintTo")
  BY <1>1, <1>3 DEF OpenWork
<1>5. OpenPassed(tx, "mintTo")
  BY <1>1 DEF OpenPassed
<1> QED
  BY <1>1, <1>4, <1>5, OpenOnTrack DEF OpenStages, OpenCalls

(* TokenMintToOne mints the one unit. *)
LEMMA MintToKeeps ==
  ASSUME Running, TokenMintToOne
  PROVE  Running'
<1>1. /\ tx \in Request /\ tx.kind = "open" /\ at = "mintTo"
      /\ work = OpenWork(tx, "mintTo") /\ OpenPassed(tx, "mintTo")
      /\ work' = [work EXCEPT !.mint.supply = @ + MintUnit,
                              !.amt = @ + MintUnit]
      /\ at' = "revoke" /\ tx' = tx /\ UNCHANGED vars
  BY DEF Running, TokenMintToOne, Invoke, Then, Follows, Request,
         CloseStages, CloseCalls
<1>2. Fields(work) /\ MintFields(work.mint)
  BY <1>1, OpenFields
<1>3. work' =
        [mint |-> [work.mint EXCEPT !.supply = @ + MintUnit],
         amt |-> work.amt + MintUnit, acct |-> work.acct,
         staged |-> work.staged, staging |-> work.staging, pda |-> work.pda,
         q |-> work.q, h |-> work.h, paid |-> work.paid, rent |-> work.rent]
  BY <1>1, <1>2 DEF Fields
<1>4. [work.mint EXCEPT !.supply = @ + MintUnit] =
        [exists |-> work.mint.exists, vetted |-> work.mint.vetted,
         authority |-> work.mint.authority,
         supply |-> work.mint.supply + MintUnit, name |-> work.mint.name,
         market |-> work.mint.market]
  <2> DEFINE m == work.mint
  <2>1. MintFields(m)
    BY <1>2
  <2> HIDE DEF m
  <2>2. [m EXCEPT !.supply = @ + MintUnit] =
          [exists |-> m.exists, vetted |-> m.vetted,
           authority |-> m.authority, supply |-> m.supply + MintUnit,
           name |-> m.name, market |-> m.market]
    BY <2>1 DEF MintFields
  <2> QED
    BY <2>2 DEF m
<1>5. work' = OpenWork(tx, "revoke")
  <2> DEFINE v == OpenWork(tx, "revoke")
  <2>1. /\ v.mint = [work.mint EXCEPT !.supply = @ + MintUnit]
        /\ v.amt = work.amt + MintUnit
        /\ v.acct = work.acct /\ v.staged = work.staged
        /\ v.staging = work.staging /\ v.pda = work.pda
        /\ v.q = work.q /\ v.h = work.h
        /\ v.paid = work.paid /\ v.rent = work.rent
    BY <1>1, <1>4 DEF OpenWork
  <2>2. Fields(v)
    BY OpenFields
  <2> HIDE DEF v
  <2>3. work' = v
    BY <1>3, <2>1, <2>2 DEF Fields
  <2> QED
    BY <2>3 DEF v
<1>6. OpenPassed(tx, "revoke")
  BY <1>1 DEF OpenPassed
<1> QED
  BY <1>1, <1>5, <1>6, OpenOnTrack DEF OpenStages, OpenCalls

(* TokenRevokeMintAuthority takes the authority away. *)
LEMMA RevokeKeeps ==
  ASSUME Running, TokenRevokeMintAuthority
  PROVE  Running'
<1>1. /\ tx \in Request /\ tx.kind = "open" /\ at = "revoke"
      /\ work = OpenWork(tx, "revoke") /\ OpenPassed(tx, "revoke")
      /\ work' = [work EXCEPT !.mint.authority = FALSE]
      /\ at' = "init" /\ tx' = tx /\ UNCHANGED vars
  BY DEF Running, TokenRevokeMintAuthority, Invoke, Then, Follows, Request,
         CloseStages, CloseCalls
<1>2. Fields(work) /\ MintFields(work.mint)
  BY <1>1, OpenFields
<1>3. work' =
        [mint |-> [exists |-> work.mint.exists, vetted |-> work.mint.vetted,
                   authority |-> FALSE, supply |-> work.mint.supply,
                   name |-> work.mint.name, market |-> work.mint.market],
         amt |-> work.amt, acct |-> work.acct, staged |-> work.staged,
         staging |-> work.staging, pda |-> work.pda, q |-> work.q,
         h |-> work.h, paid |-> work.paid, rent |-> work.rent]
  BY <1>1, <1>2 DEF Fields, MintFields
<1>4. work' = OpenWork(tx, "init")
  BY <1>1, <1>3 DEF OpenWork
<1>5. OpenPassed(tx, "init")
  BY <1>1 DEF OpenPassed
<1> QED
  BY <1>1, <1>4, <1>5, OpenOnTrack DEF OpenStages, OpenCalls

(* InvokeInitPortfolio makes the portfolio, out of the PDA's lamports. *)
LEMMA InitKeeps ==
  ASSUME Running, InvokeInitPortfolio
  PROVE  Running'
<1>1. /\ tx \in Request /\ tx.kind = "open" /\ at = "init"
      /\ work = OpenWork(tx, "init") /\ OpenPassed(tx, "init")
      /\ work' = [work EXCEPT !.q = InitPortfolio, !.pda = @ - RentPortfolio]
      /\ at' = "deposit" /\ tx' = tx /\ UNCHANGED vars
  BY DEF Running, InvokeInitPortfolio, Invoke, Then, Follows, Request,
         CloseStages, CloseCalls
<1>2. ~work.q.exists /\ work.pda >= RentPortfolio
  BY <1>1 DEF InvokeInitPortfolio, Invoke, Accepts
<1>3. Fields(work)
  BY <1>1, OpenFields
<1>4. work' =
        [mint |-> work.mint, amt |-> work.amt, acct |-> work.acct,
         staged |-> work.staged, staging |-> work.staging,
         pda |-> work.pda - RentPortfolio, q |-> InitPortfolio,
         h |-> work.h, paid |-> work.paid, rent |-> work.rent]
  BY <1>1, <1>3 DEF Fields
<1>5. work' = OpenWork(tx, "deposit")
  <2> DEFINE v == OpenWork(tx, "deposit")
  <2>1. /\ v.mint = work.mint /\ v.amt = work.amt
        /\ v.acct = work.acct /\ v.staged = work.staged
        /\ v.staging = work.staging /\ v.pda = work.pda - RentPortfolio
        /\ v.q = InitPortfolio /\ v.h = work.h
        /\ v.paid = work.paid /\ v.rent = work.rent
    BY <1>1 DEF OpenWork
  <2>2. Fields(v)
    BY OpenFields
  <2> HIDE DEF v
  <2>3. work' = v
    BY <1>4, <2>1, <2>2 DEF Fields
  <2> QED
    BY <2>3 DEF v
<1>6. OpenPassed(tx, "deposit")
  BY <1>1, <1>2 DEF OpenPassed, OpenWork
<1> QED
  BY <1>1, <1>5, <1>6, OpenOnTrack DEF OpenStages, OpenCalls

(* InvokeDeposit pulls the amount out of the staging account. *)
LEMMA DepositKeeps ==
  ASSUME Running, InvokeDeposit
  PROVE  Running'
<1>1. /\ tx \in Request /\ tx.kind = "open" /\ at = "deposit"
      /\ work = OpenWork(tx, "deposit") /\ OpenPassed(tx, "deposit")
      /\ work' = [work EXCEPT !.q = Deposit(@, tx.amount),
                              !.staged = @ - tx.amount]
      /\ at' = "order" /\ tx' = tx /\ UNCHANGED vars
  BY DEF Running, InvokeDeposit, Invoke, Then, Follows, Request,
         CloseStages, CloseCalls
<1>2. tx.amount <= work.staged
  BY <1>1 DEF InvokeDeposit, Invoke, Accepts
<1>3. Fields(work)
  BY <1>1, OpenFields
<1>4. work' =
        [mint |-> work.mint, amt |-> work.amt, acct |-> work.acct,
         staged |-> work.staged - tx.amount, staging |-> work.staging,
         pda |-> work.pda, q |-> Deposit(work.q, tx.amount),
         h |-> work.h, paid |-> work.paid, rent |-> work.rent]
  BY <1>1, <1>3 DEF Fields
<1>5. work' = OpenWork(tx, "order")
  <2> DEFINE v == OpenWork(tx, "order")
  <2>1. /\ v.mint = work.mint /\ v.amt = work.amt
        /\ v.acct = work.acct /\ v.staged = work.staged - tx.amount
        /\ v.staging = work.staging /\ v.pda = work.pda
        /\ v.q = Deposit(work.q, tx.amount) /\ v.h = work.h
        /\ v.paid = work.paid /\ v.rent = work.rent
    BY <1>1 DEF OpenWork, Opening
  <2>2. Fields(v)
    BY OpenFields
  <2> HIDE DEF v
  <2>3. work' = v
    BY <1>4, <2>1, <2>2 DEF Fields
  <2> QED
    BY <2>3 DEF v
<1>6. OpenPassed(tx, "order")
  BY <1>1, <1>2 DEF OpenPassed, OpenWork
<1> QED
  BY <1>1, <1>5, <1>6, OpenOnTrack DEF OpenStages, OpenCalls

(* InvokePlaceOrder of an open leaves its last accounts. *)
LEMMA OrderOfOpenKeeps ==
  ASSUME Running, InvokePlaceOrder, tx.kind = "open"
  PROVE  Running'
<1> DEFINE s == PlaceOrder(Opening(tx.mk, tx.amount), tx.a, tx.side, tx.size)
<1>1. /\ tx \in Request /\ at = "order"
      /\ work = OpenWork(tx, "order") /\ OpenPassed(tx, "order")
      /\ at' = "done" /\ tx' = tx /\ UNCHANGED vars
  BY DEF Running, InvokePlaceOrder, Invoke, Then
<1>2. Engine = Opening(tx.mk, tx.amount)
  BY <1>1 DEF Engine, OpenWork, Opening
<1>3. work' = [work EXCEPT !.q = s.q, !.h = s.h]
  BY <1>2 DEF InvokePlaceOrder, Invoke, WithEngine
<1>4. OrderAccepted(Opening(tx.mk, tx.amount).q, tx.a, tx.side, tx.size)
  BY <1>1 DEF InvokePlaceOrder, Invoke, Accepts, OpenWork
<1>5. Fields(work)
  BY <1>1, OpenFields
<1> HIDE DEF s
<1>6. work' =
        [mint |-> work.mint, amt |-> work.amt, acct |-> work.acct,
         staged |-> work.staged, staging |-> work.staging,
         pda |-> work.pda, q |-> s.q, h |-> s.h,
         paid |-> work.paid, rent |-> work.rent]
  BY <1>3, <1>5 DEF Fields
<1>7. work' = OpenWork(tx, "done")
  BY <1>1, <1>6 DEF OpenWork, s
<1>8. OpenPassed(tx, "done")
  BY <1>1, <1>4 DEF OpenPassed
<1> QED
  BY <1>1, <1>7, <1>8, OpenOnTrack DEF OpenStages

(* The amounts a close works with. *)
LEMMA RequestTypes ==
  ASSUME TypeOK, tx \in Request
  PROVE  /\ tx.n \in Nft /\ tx.pn \in Nft /\ tx.mk \in Market
         /\ tx.st \in Stash /\ tx.w \in Wallet /\ tx.y \in Wallet
         /\ tx.a \in Asset /\ tx.side \in Side
         /\ tx.size \in Size /\ tx.size \in Nat
         /\ tx.amount \in Amount /\ tx.amount \in Nat
         /\ tx.home \in BOOLEAN /\ tx.self \in BOOLEAN
         /\ Loaded(tx).staged \in Nat /\ Loaded(tx).pda \in Nat
<1>1. /\ tx.n \in Nft /\ tx.pn \in Nft /\ tx.mk \in Market
      /\ tx.st \in Stash /\ tx.w \in Wallet /\ tx.y \in Wallet
      /\ tx.a \in Asset /\ tx.side \in Side
      /\ tx.size \in Size /\ tx.amount \in Amount
      /\ tx.home \in BOOLEAN /\ tx.self \in BOOLEAN
  BY DEF Request
<1>2. tx.size \in Nat /\ tx.amount \in Nat
  BY <1>1, InputAssumption
<1>3. staged[tx.n][tx.st] \in Nat /\ pda[tx.n] \in Nat
  BY <1>1 DEF TypeOK
<1>4. Loaded(tx).staged \in Nat /\ Loaded(tx).pda \in Nat
  BY <1>3 DEF Loaded
<1> QED
  BY <1>1, <1>2, <1>4

(* What a flatten leaves behind is a portfolio and its counterparty. *)
LEMMA ReducedType ==
  ASSUME TypeOK, tx \in Request
  PROVE  /\ Reduced(tx) = [q |-> Reduced(tx).q, h |-> Reduced(tx).h]
         /\ Reduced(tx).q.exists = pf[tx.pn][tx.mk].exists
<1>1. /\ tx.pn \in Nft /\ tx.mk \in Market /\ tx.a \in Asset
      /\ tx.side \in Side /\ tx.size \in Nat
  BY RequestTypes
<1>2. Reduced(tx) \in Accounts
  <2>1. CASE tx.size > 0
    BY <1>1, <2>1, BeforeType, PlaceOrderType DEF Reduced, Flattened
  <2>2. CASE ~(tx.size > 0)
    BY <1>1, <2>2, BeforeType DEF Reduced, Flattened
  <2> QED
    BY <2>1, <2>2
<1>3. Reduced(tx).q.exists = pf[tx.pn][tx.mk].exists
  <2>1. CASE tx.size > 0
    BY <1>1, <2>1, BeforeType, PlaceOrderType DEF Reduced, Flattened
  <2>2. CASE ~(tx.size > 0)
    BY <1>1, <2>2, BeforeType DEF Reduced, Flattened
  <2> QED
    BY <2>1, <2>2
<1> QED
  BY <1>2, <1>3 DEF Accounts

(* The close, CPI by CPI.  InvokePlaceOrder flattens. *)
LEMMA OrderOfCloseKeeps ==
  ASSUME Running, InvokePlaceOrder, tx.kind = "close"
  PROVE  Running'
<1> DEFINE s == PlaceOrder(Before(tx.mk, tx.pn), tx.a, tx.side, tx.size)
<1>1. /\ tx \in Request /\ at = "order"
      /\ work = CloseWork(tx, "order") /\ ClosePassed(tx, "order")
      /\ at' = "settle" /\ tx' = tx /\ UNCHANGED vars
  BY DEF Running, InvokePlaceOrder, Invoke, Then
<1>2. work.q = pf[tx.pn][tx.mk] /\ work.h = house[tx.mk]
  BY <1>1 DEF CloseWork
<1>3. Engine = Before(tx.mk, tx.pn)
  BY <1>2 DEF Engine, Before
<1>4. work' = [work EXCEPT !.q = s.q, !.h = s.h]
  BY <1>3 DEF InvokePlaceOrder, Invoke, WithEngine
<1>5. /\ tx.home /\ tx.pn = tx.n
      /\ OrderAccepted(pf[tx.pn][tx.mk], tx.a, tx.side, tx.size)
  BY <1>1, <1>2 DEF InvokePlaceOrder, Invoke, Accepts, SignedForFolio
<1>6. Reduced(tx) = s
  BY <1>1 DEF Reduced, Flattened, ClosePassed
<1>7. Fields(work)
  BY <1>1, CloseFields
<1> HIDE DEF s
<1>8. work' =
        [mint |-> work.mint, amt |-> work.amt, acct |-> work.acct,
         staged |-> work.staged, staging |-> work.staging,
         pda |-> work.pda, q |-> s.q, h |-> s.h,
         paid |-> work.paid, rent |-> work.rent]
  BY <1>4, <1>7 DEF Fields
<1>9. work' = CloseWork(tx, "settle")
  <2>1. CloseMintAt(tx, "settle") = CloseMintAt(tx, "order")
    BY DEF CloseMintAt, ToPay, ToBurn, ToDrain, ToCloseStaging, ToCloseNft,
           ToCloseMint
  <2> QED
    BY <1>1, <1>6, <1>8, <2>1
       DEF CloseWork, ToPay, ToBurn, ToDrain, ToCloseStaging, ToCloseNft,
           ToCloseMint, ToSweep
<1>10. ClosePassed(tx, "settle")
  BY <1>1, <1>5 DEF ClosePassed, FlattenAccepted, ToPay, ToBurn, ToDrain,
                    ToCloseStaging, ToCloseNft, ToCloseMint
<1> QED
  BY <1>1, <1>9, <1>10, CloseOnTrack DEF CloseStages, CloseCalls

(* InvokeSettlePnl; a zero payout skips the withdraw. *)
LEMMA SettleKeeps ==
  ASSUME TypeOK, Running, InvokeSettlePnl
  PROVE  Running'
<1> DEFINE s == Final(tx)
<1>1. /\ tx \in Request /\ tx.kind = "close" /\ at = "settle"
      /\ work = CloseWork(tx, "settle") /\ ClosePassed(tx, "settle")
      /\ at' = IF tx.amount > 0 THEN "withdraw" ELSE "burn"
      /\ tx' = tx /\ UNCHANGED vars
  BY DEF Running, InvokeSettlePnl, Invoke, Then, Request, OpenStages,
         OpenCalls
<1>2. work.q = Reduced(tx).q /\ work.h = Reduced(tx).h
  BY <1>1 DEF CloseWork
<1>3. Engine = Reduced(tx)
  BY <1>1, <1>2, ReducedType DEF Engine
<1>4. work' = [work EXCEPT !.q = s.q, !.h = s.h]
  BY <1>3 DEF InvokeSettlePnl, Invoke, WithEngine, Final, Reduced,
              AfterSettle
<1>5. pf[tx.pn][tx.mk].exists
  BY <1>1, <1>2, ReducedType DEF InvokeSettlePnl, Invoke, Accepts
<1>6. Fields(work)
  BY <1>1, CloseFields
<1> HIDE DEF s
<1>7. work' =
        [mint |-> work.mint, amt |-> work.amt, acct |-> work.acct,
         staged |-> work.staged, staging |-> work.staging,
         pda |-> work.pda, q |-> s.q, h |-> s.h,
         paid |-> work.paid, rent |-> work.rent]
  BY <1>4, <1>6 DEF Fields
<1>8. CASE tx.amount > 0
  <2>1. CloseMintAt(tx, "withdraw") = CloseMintAt(tx, "settle")
    BY DEF CloseMintAt, ToPay, ToBurn, ToDrain, ToCloseStaging, ToCloseNft,
           ToCloseMint
  <2>2. work' = CloseWork(tx, "withdraw")
    BY <1>1, <1>7, <2>1
       DEF CloseWork, ToPay, ToBurn, ToDrain, ToCloseStaging, ToCloseNft,
           ToCloseMint, ToSweep, s
  <2>3. ClosePassed(tx, "withdraw")
    BY <1>1, <1>5, <1>8 DEF ClosePassed, ToPay, ToBurn, ToDrain,
                            ToCloseStaging, ToCloseNft, ToCloseMint
  <2> QED
    BY <1>1, <1>8, <2>2, <2>3, CloseOnTrack DEF CloseStages, CloseCalls
<1>9. CASE ~(tx.amount > 0)
  <2>1. CloseMintAt(tx, "burn") = CloseMintAt(tx, "settle")
    BY DEF CloseMintAt, ToPay, ToBurn, ToDrain, ToCloseStaging, ToCloseNft,
           ToCloseMint
  <2>2. /\ tx.amount = 0
        /\ Loaded(tx).staged + tx.amount = Loaded(tx).staged
    BY <1>1, <1>9, RequestTypes
  <2>3. work' = CloseWork(tx, "burn")
    BY <1>1, <1>7, <1>9, <2>1, <2>2
       DEF CloseWork, Elsewhere, ToPay, ToBurn, ToDrain, ToCloseStaging,
           ToCloseNft, ToCloseMint, ToSweep, s
  <2>4. ClosePassed(tx, "burn")
    BY <1>1, <1>5, <1>9 DEF ClosePassed, PayoutAccepted, ToPay, ToBurn,
                            ToDrain, ToCloseStaging, ToCloseNft, ToCloseMint
  <2> QED
    BY <1>1, <1>9, <2>3, <2>4, CloseOnTrack DEF CloseStages, CloseCalls
<1> QED
  BY <1>8, <1>9

(* Collateral goes to the staging account or to the client's own. *)
LEMMA PaidOutFields ==
  ASSUME NEW v, Fields(v), NEW amount
  PROVE  PaidOut(v, amount) =
           [mint |-> v.mint, amt |-> v.amt, acct |-> v.acct,
            staged |-> IF tx.self THEN v.staged + amount ELSE v.staged,
            staging |-> v.staging, pda |-> v.pda, q |-> v.q, h |-> v.h,
            paid |-> IF tx.self THEN v.paid ELSE v.paid + amount,
            rent |-> v.rent]
<1>1. CASE tx.self
  <2>1. PaidOut(v, amount) = [v EXCEPT !.staged = @ + amount]
    BY <1>1 DEF PaidOut
  <2> QED
    BY <1>1, <2>1 DEF Fields
<1>2. CASE ~tx.self
  <2>1. PaidOut(v, amount) = [v EXCEPT !.paid = @ + amount]
    BY <1>2 DEF PaidOut
  <2> QED
    BY <1>2, <2>1 DEF Fields
<1> QED
  BY <1>1, <1>2

(* InvokeWithdraw pays the client's number. *)
LEMMA WithdrawKeeps ==
  ASSUME TypeOK, Running, InvokeWithdraw
  PROVE  Running'
<1> DEFINE v == [mint |-> work.mint, amt |-> work.amt, acct |-> work.acct,
                 staged |-> work.staged, staging |-> work.staging,
                 pda |-> work.pda, q |-> Withdraw(work.q, tx.amount),
                 h |-> work.h, paid |-> work.paid, rent |-> work.rent]
<1>1. /\ tx \in Request /\ tx.kind = "close" /\ at = "withdraw"
      /\ work = CloseWork(tx, "withdraw") /\ ClosePassed(tx, "withdraw")
      /\ at' = "burn" /\ tx' = tx /\ UNCHANGED vars
  BY DEF Running, InvokeWithdraw, Invoke, Then, Follows, Request, OpenStages,
         OpenCalls
<1>2. /\ work' = PaidOut([work EXCEPT !.q = Withdraw(@, tx.amount)], tx.amount)
      /\ tx.pn = tx.n /\ WithdrawAccepted(work.q, tx.amount)
  BY <1>1 DEF InvokeWithdraw, Invoke, Accepts, SignedForFolio
<1>3. Fields(work)
  BY <1>1, CloseFields
<1>4. [work EXCEPT !.q = Withdraw(@, tx.amount)] = v
  BY <1>3 DEF Fields
<1>5. Fields(v)
  BY DEF Fields
<1>6. /\ work.q = Final(tx).q /\ work.h = Final(tx).h /\ work.paid = 0
      /\ work.staged = Loaded(tx).staged
  BY <1>1 DEF CloseWork, ToPay, ToBurn, ToDrain
<1>7. tx.amount \in Nat /\ tx.amount > 0 /\ Loaded(tx).staged \in Nat
  BY <1>1, RequestTypes DEF ClosePassed
<1>8. CloseMintAt(tx, "burn") = CloseMintAt(tx, "withdraw")
  BY DEF CloseMintAt, ToPay, ToBurn, ToDrain, ToCloseStaging, ToCloseNft,
         ToCloseMint
<1>9. work' = CloseWork(tx, "burn")
  <2>1. /\ v.mint = work.mint /\ v.amt = work.amt /\ v.acct = work.acct
        /\ v.staged = work.staged /\ v.staging = work.staging
        /\ v.pda = work.pda /\ v.q = Withdraw(work.q, tx.amount)
        /\ v.h = work.h /\ v.paid = work.paid /\ v.rent = work.rent
    OBVIOUS
  <2> HIDE DEF v
  <2>2. work' =
          [mint |-> v.mint, amt |-> v.amt, acct |-> v.acct,
           staged |-> IF tx.self THEN v.staged + tx.amount ELSE v.staged,
           staging |-> v.staging, pda |-> v.pda, q |-> v.q, h |-> v.h,
           paid |-> IF tx.self THEN v.paid ELSE v.paid + tx.amount,
           rent |-> v.rent]
    BY <1>2, <1>4, <1>5, PaidOutFields
  <2>3. (IF tx.self THEN v.paid ELSE v.paid + tx.amount) =
          Elsewhere(tx, tx.amount)
    BY <1>6, <1>7, <2>1 DEF Elsewhere
  <2>4. work' =
          [mint |-> CloseMintAt(tx, "burn"), amt |-> 1, acct |-> TRUE,
           staged |-> IF tx.self THEN Loaded(tx).staged + tx.amount
                                 ELSE Loaded(tx).staged,
           staging |-> TRUE, pda |-> Loaded(tx).pda,
           q |-> Withdraw(Final(tx).q, tx.amount), h |-> Final(tx).h,
           paid |-> Elsewhere(tx, tx.amount), rent |-> 0]
    BY <1>1, <1>6, <1>8, <2>1, <2>2, <2>3
       DEF CloseWork, ToPay, ToBurn, ToDrain, ToCloseStaging, ToCloseNft,
           ToCloseMint, ToSweep
  <2> QED
    BY <1>7, <2>4
       DEF CloseWork, ToPay, ToBurn, ToDrain, ToCloseStaging, ToCloseNft,
           ToCloseMint, ToSweep
<1>10. ClosePassed(tx, "burn")
  <2>1. PayoutAccepted(tx.n, tx.mk, tx.pn, tx.a, tx.side, tx.size, tx.amount)
    BY <1>2, <1>6 DEF PayoutAccepted, Final
  <2> QED
    BY <1>1, <2>1 DEF ClosePassed, ToPay, ToBurn, ToDrain, ToCloseStaging,
                      ToCloseNft, ToCloseMint
<1> QED
  BY <1>1, <1>9, <1>10, CloseOnTrack DEF CloseStages, CloseCalls

(* TokenBurnOne burns the bearer's unit. *)
LEMMA BurnKeeps ==
  ASSUME TypeOK, Running, TokenBurnOne
  PROVE  Running'
<1>1. /\ tx \in Request /\ tx.kind = "close" /\ at = "burn"
      /\ work = CloseWork(tx, "burn") /\ ClosePassed(tx, "burn")
      /\ work' = [work EXCEPT !.amt = @ - 1, !.mint.supply = @ - 1]
      /\ at' = "drain" /\ tx' = tx /\ UNCHANGED vars
  BY DEF Running, TokenBurnOne, Invoke, Then, Follows, Request, OpenStages,
         OpenCalls
<1>2. Fields(work) /\ MintFields(work.mint)
  BY <1>1, CloseFields
<1>3. work' =
        [mint |-> [work.mint EXCEPT !.supply = @ - 1],
         amt |-> work.amt - 1, acct |-> work.acct,
         staged |-> work.staged, staging |-> work.staging, pda |-> work.pda,
         q |-> work.q, h |-> work.h, paid |-> work.paid, rent |-> work.rent]
  BY <1>1, <1>2 DEF Fields
<1>4. [work.mint EXCEPT !.supply = @ - 1] =
        [exists |-> work.mint.exists, vetted |-> work.mint.vetted,
         authority |-> work.mint.authority,
         supply |-> work.mint.supply - 1, name |-> work.mint.name,
         market |-> work.mint.market]
  BY <1>2 DEF MintFields
<1>5. /\ work.mint = CloseMintAt(tx, "burn")
      /\ work.amt = 1
  BY <1>1 DEF CloseWork, ToBurn
<1>6. [work.mint EXCEPT !.supply = @ - 1] = CloseMintAt(tx, "drain")
  BY <1>4, <1>5 DEF CloseMintAt, ToPay, ToBurn, ToDrain, ToCloseStaging,
                    ToCloseNft, ToCloseMint
<1>7. work.amt - 1 = 0
  BY <1>5
<1>8. work' = CloseWork(tx, "drain")
  BY <1>1, <1>3, <1>6, <1>7
     DEF CloseWork, ToPay, ToBurn, ToDrain, ToCloseStaging, ToCloseNft,
         ToCloseMint, ToSweep
<1>9. ClosePassed(tx, "drain")
  BY <1>1 DEF ClosePassed, ToPay, ToBurn, ToDrain, ToCloseStaging,
              ToCloseNft, ToCloseMint
<1> QED
  BY <1>1, <1>8, <1>9, CloseOnTrack DEF CloseStages, CloseCalls

(* TokenTransferSigned moves the dust out of the staging account. *)
LEMMA DrainKeeps ==
  ASSUME TypeOK, Running, TokenTransferSigned
  PROVE  Running'
<1> DEFINE v == [mint |-> work.mint, amt |-> work.amt, acct |-> work.acct,
                 staged |-> 0, staging |-> work.staging,
                 pda |-> work.pda, q |-> work.q,
                 h |-> work.h, paid |-> work.paid, rent |-> work.rent]
<1>1. /\ tx \in Request /\ tx.kind = "close" /\ at = "drain"
      /\ work = CloseWork(tx, "drain") /\ ClosePassed(tx, "drain")
      /\ work' = PaidOut([work EXCEPT !.staged = 0], work.staged)
      /\ at' = "closeStaging" /\ tx' = tx /\ UNCHANGED vars
  BY DEF Running, TokenTransferSigned, DrainDust, Invoke, Then, Follows,
         Request, OpenStages, OpenCalls
<1>2. Fields(work)
  BY <1>1, CloseFields
<1>3. [work EXCEPT !.staged = 0] = v
  BY <1>2 DEF Fields
<1>4. Fields(v)
  BY DEF Fields
<1>5. CloseMintAt(tx, "closeStaging") = CloseMintAt(tx, "drain")
  BY DEF CloseMintAt, ToPay, ToBurn, ToDrain, ToCloseStaging, ToCloseNft,
         ToCloseMint
<1>6. tx.amount \in Nat /\ Loaded(tx).staged \in Nat
  BY <1>1, RequestTypes
<1>7. /\ work.paid = Elsewhere(tx, tx.amount)
      /\ work.staged = IF tx.self THEN Loaded(tx).staged + tx.amount
                                  ELSE Loaded(tx).staged
  BY <1>1 DEF CloseWork, ToPay, ToBurn, ToDrain
<1>8. /\ work.mint = CloseMintAt(tx, "closeStaging")
      /\ work.amt = 0 /\ work.acct = TRUE /\ work.staging = TRUE
      /\ work.pda = Loaded(tx).pda /\ work.rent = 0 /\ work.h = Final(tx).h
      /\ work.q = IF tx.amount > 0 THEN Withdraw(Final(tx).q, tx.amount)
                                   ELSE Final(tx).q
  BY <1>1, <1>5 DEF CloseWork, ToPay, ToBurn, ToDrain, ToCloseStaging,
                    ToCloseNft, ToCloseMint, ToSweep
<1>9. work' = CloseWork(tx, "closeStaging")
  <2>1. /\ v.mint = work.mint /\ v.amt = work.amt /\ v.acct = work.acct
        /\ v.staged = 0 /\ v.staging = work.staging
        /\ v.pda = work.pda /\ v.q = work.q
        /\ v.h = work.h /\ v.paid = work.paid /\ v.rent = work.rent
    OBVIOUS
  <2> HIDE DEF v
  <2>2. work' =
          [mint |-> v.mint, amt |-> v.amt, acct |-> v.acct,
           staged |-> IF tx.self THEN v.staged + work.staged ELSE v.staged,
           staging |-> v.staging, pda |-> v.pda, q |-> v.q, h |-> v.h,
           paid |-> IF tx.self THEN v.paid ELSE v.paid + work.staged,
           rent |-> v.rent]
    BY <1>1, <1>3, <1>4, PaidOutFields
  <2>3. (IF tx.self THEN v.staged + work.staged ELSE v.staged) =
          IF tx.self THEN Loaded(tx).staged + tx.amount ELSE 0
    BY <1>6, <1>7, <2>1
  <2>4. (IF tx.self THEN v.paid ELSE v.paid + work.staged) =
          Elsewhere(tx, tx.amount + Loaded(tx).staged)
    BY <1>6, <1>7, <2>1 DEF Elsewhere
  <2>5. work' =
          [mint |-> CloseMintAt(tx, "closeStaging"), amt |-> 0, acct |-> TRUE,
           staged |-> IF tx.self THEN Loaded(tx).staged + tx.amount ELSE 0,
           staging |-> TRUE, pda |-> Loaded(tx).pda,
           q |-> IF tx.amount > 0 THEN Withdraw(Final(tx).q, tx.amount)
                                  ELSE Final(tx).q,
           h |-> Final(tx).h,
           paid |-> Elsewhere(tx, tx.amount + Loaded(tx).staged), rent |-> 0]
    BY <1>8, <2>1, <2>2, <2>3, <2>4
  <2>6. /\ "closeStaging" \notin ToPay /\ "closeStaging" \notin ToBurn
        /\ "closeStaging" \notin ToDrain /\ "closeStaging" \in ToCloseStaging
        /\ "closeStaging" \in ToCloseNft /\ "closeStaging" \in ToSweep
    BY DEF ToPay, ToBurn, ToDrain, ToCloseStaging, ToCloseNft, ToCloseMint,
           ToSweep
  <2> QED
    BY <2>5, <2>6 DEF CloseWork
<1>10. ClosePassed(tx, "closeStaging")
  BY <1>1 DEF ClosePassed, ToPay, ToBurn, ToDrain, ToCloseStaging,
              ToCloseNft, ToCloseMint
<1> QED
  BY <1>1, <1>9, <1>10, CloseOnTrack DEF CloseStages, CloseCalls

(* CloseStaging finds the staging account empty: had the client named it   *)
(* for the payout, there was nothing to pay.                               *)
LEMMA CloseStagingKeeps ==
  ASSUME TypeOK, Running, CloseStaging
  PROVE  Running'
<1>1. /\ tx \in Request /\ tx.kind = "close" /\ at = "closeStaging"
      /\ work = CloseWork(tx, "closeStaging")
      /\ ClosePassed(tx, "closeStaging")
      /\ work' = [work EXCEPT !.staging = FALSE, !.rent = @ + RentToken]
      /\ at' = "closeNft" /\ tx' = tx /\ UNCHANGED vars
  BY DEF Running, CloseStaging, Invoke, Then, Follows, Request, OpenStages,
         OpenCalls
<1>2. work.staged = 0
  BY <1>1 DEF CloseStaging, Invoke, Accepts
<1>3. Fields(work)
  BY <1>1, CloseFields
<1>4. work' =
        [mint |-> work.mint, amt |-> work.amt, acct |-> work.acct,
         staged |-> work.staged, staging |-> FALSE, pda |-> work.pda,
         q |-> work.q, h |-> work.h, paid |-> work.paid,
         rent |-> work.rent + RentToken]
  BY <1>1, <1>3 DEF Fields
<1>5. CloseMintAt(tx, "closeNft") = CloseMintAt(tx, "closeStaging")
  BY DEF CloseMintAt, ToPay, ToBurn, ToDrain, ToCloseStaging, ToCloseNft,
         ToCloseMint
<1>6. tx.amount \in Nat /\ Loaded(tx).staged \in Nat
  BY <1>1, RequestTypes
<1>7. tx.self => tx.amount = 0 /\ Loaded(tx).staged = 0
  BY <1>1, <1>2, <1>6 DEF CloseWork, ToPay, ToBurn, ToDrain, ToCloseStaging
<1>8. work' = CloseWork(tx, "closeNft")
  <2>1. 0 + RentToken = RentToken
    BY RentAssumption
  <2> QED
    BY <1>1, <1>4, <1>5, <2>1
       DEF CloseWork, ToPay, ToBurn, ToDrain, ToCloseStaging, ToCloseNft,
           ToCloseMint, ToSweep
<1>9. ClosePassed(tx, "closeNft")
  BY <1>1, <1>7 DEF ClosePassed, ToPay, ToBurn, ToDrain, ToCloseStaging,
                    ToCloseNft, ToCloseMint
<1> QED
  BY <1>1, <1>8, <1>9, CloseOnTrack DEF CloseStages, CloseCalls

(* CloseNftAccount returns the rent of the holder's account. *)
LEMMA CloseNftKeeps ==
  ASSUME TypeOK, Running, CloseNftAccount
  PROVE  Running'
<1>1. /\ tx \in Request /\ tx.kind = "close" /\ at = "closeNft"
      /\ work = CloseWork(tx, "closeNft")
      /\ ClosePassed(tx, "closeNft")
      /\ work' = [work EXCEPT !.acct = FALSE, !.rent = @ + RentToken]
      /\ at' = "closeMint" /\ tx' = tx /\ UNCHANGED vars
  BY DEF Running, CloseNftAccount, Invoke, Then, Follows, Request, OpenStages,
         OpenCalls
<1>2. Fields(work)
  BY <1>1, CloseFields
<1>3. work' =
        [mint |-> work.mint, amt |-> work.amt, acct |-> FALSE,
         staged |-> work.staged, staging |-> work.staging, pda |-> work.pda,
         q |-> work.q, h |-> work.h, paid |-> work.paid,
         rent |-> work.rent + RentToken]
  BY <1>1, <1>2 DEF Fields
<1>4. CloseMintAt(tx, "closeMint") = CloseMintAt(tx, "closeNft")
  BY DEF CloseMintAt, ToPay, ToBurn, ToDrain, ToCloseStaging, ToCloseNft,
         ToCloseMint
<1>5. work' = CloseWork(tx, "closeMint")
  BY <1>1, <1>3, <1>4
     DEF CloseWork, ToPay, ToBurn, ToDrain, ToCloseStaging, ToCloseNft,
         ToCloseMint, ToSweep
<1>6. ClosePassed(tx, "closeMint")
  BY <1>1 DEF ClosePassed, ToPay, ToBurn, ToDrain, ToCloseStaging,
              ToCloseNft, ToCloseMint
<1> QED
  BY <1>1, <1>5, <1>6, CloseOnTrack DEF CloseStages, CloseCalls

(* CloseMint: the mint was vetted, and the PDA is the one it names. *)
LEMMA CloseMintKeeps ==
  ASSUME TypeOK, Running, CloseMint
  PROVE  Running'
<1>1. /\ tx \in Request /\ tx.kind = "close" /\ at = "closeMint"
      /\ work = CloseWork(tx, "closeMint")
      /\ ClosePassed(tx, "closeMint")
      /\ work' = [work EXCEPT !.mint = NoMint, !.rent = @ + RentMint]
      /\ at' = "sweep" /\ tx' = tx /\ UNCHANGED vars
  BY DEF Running, CloseMint, Invoke, Then, Follows, Request, OpenStages,
         OpenCalls
<1>2. work.mint.vetted /\ tx.home
  BY <1>1 DEF CloseMint, Invoke, Accepts
<1>3. mint[tx.n].vetted
  BY <1>1, <1>2 DEF CloseWork, CloseMintAt, ToCloseMint
<1>4. Fields(work)
  BY <1>1, CloseFields
<1>5. work' =
        [mint |-> NoMint, amt |-> work.amt, acct |-> work.acct,
         staged |-> work.staged, staging |-> work.staging, pda |-> work.pda,
         q |-> work.q, h |-> work.h, paid |-> work.paid,
         rent |-> work.rent + RentMint]
  BY <1>1, <1>4 DEF Fields
<1>6. work' = CloseWork(tx, "sweep")
  <2>1. CloseMintAt(tx, "sweep") = NoMint
    BY DEF CloseMintAt, ToPay, ToBurn, ToDrain, ToCloseStaging, ToCloseNft,
           ToCloseMint
  <2> QED
    BY <1>1, <1>5, <2>1
       DEF CloseWork, ToPay, ToBurn, ToDrain, ToCloseStaging, ToCloseNft,
           ToCloseMint, ToSweep
<1>7. ClosePassed(tx, "sweep")
  BY <1>1, <1>2, <1>3 DEF ClosePassed, ToPay, ToBurn, ToDrain,
                          ToCloseStaging, ToCloseNft, ToCloseMint
<1> QED
  BY <1>1, <1>6, <1>7, CloseOnTrack DEF CloseStages, CloseCalls

(* SystemTransferSigned sweeps the PDA. *)
LEMMA SweepKeeps ==
  ASSUME TypeOK, Running, SystemTransferSigned
  PROVE  Running'
<1>1. /\ tx \in Request /\ tx.kind = "close" /\ at = "sweep"
      /\ work = CloseWork(tx, "sweep")
      /\ ClosePassed(tx, "sweep")
      /\ work' = [work EXCEPT !.pda = 0, !.rent = @ + work.pda]
      /\ at' = "done" /\ tx' = tx /\ UNCHANGED vars
  BY DEF Running, SystemTransferSigned, Invoke, Then, Follows, Request,
         OpenStages, OpenCalls
<1>2. Fields(work)
  BY <1>1, CloseFields
<1>3. work' =
        [mint |-> work.mint, amt |-> work.amt, acct |-> work.acct,
         staged |-> work.staged, staging |-> work.staging, pda |-> 0,
         q |-> work.q, h |-> work.h, paid |-> work.paid,
         rent |-> work.rent + work.pda]
  BY <1>1, <1>2 DEF Fields
<1>4. work' = CloseWork(tx, "done")
  <2>1. CloseMintAt(tx, "done") = CloseMintAt(tx, "sweep")
    BY DEF CloseMintAt, ToPay, ToBurn, ToDrain, ToCloseStaging, ToCloseNft,
           ToCloseMint
  <2>2. /\ work.amt = 0 /\ work.acct = FALSE /\ work.staging = FALSE
        /\ work.staged = IF tx.self THEN Loaded(tx).staged + tx.amount ELSE 0
        /\ work.h = Final(tx).h /\ work.pda = Loaded(tx).pda
        /\ work.q = IF tx.amount > 0 THEN Withdraw(Final(tx).q, tx.amount)
                                     ELSE Final(tx).q
        /\ work.paid = Elsewhere(tx, tx.amount + Loaded(tx).staged)
        /\ work.rent = RentToken + RentToken + RentMint
        /\ work.mint = CloseMintAt(tx, "sweep")
    BY <1>1 DEF CloseWork, ToPay, ToBurn, ToDrain, ToCloseStaging, ToCloseNft,
                ToCloseMint, ToSweep
  <2>3. /\ "done" \notin ToPay /\ "done" \notin ToBurn /\ "done" \notin ToDrain
        /\ "done" \notin ToCloseStaging /\ "done" \notin ToCloseNft
        /\ "done" \notin ToCloseMint /\ "done" \notin ToSweep
    BY DEF ToPay, ToBurn, ToDrain, ToCloseStaging, ToCloseNft, ToCloseMint,
           ToSweep
  <2> QED
    BY <1>3, <2>1, <2>2, <2>3 DEF CloseWork
<1>5. ClosePassed(tx, "done")
  BY <1>1 DEF ClosePassed, ToPay, ToBurn, ToDrain, ToCloseStaging,
              ToCloseNft, ToCloseMint
<1> QED
  BY <1>1, <1>4, <1>5, CloseOnTrack DEF CloseStages

-----------------------------------------------------------------------------
(* The beginning: the accounts loaded are those of the first CPI. *)
LEMMA BeginKeeps ==
  ASSUME TypeOK, NEW t \in Request, Begin(t)
  PROVE  Running'
<1>1. /\ tx' = t /\ work' = Loaded(t) /\ UNCHANGED vars
      /\ at' = IF t.kind = "open" THEN "metadata"
               ELSE IF t.size > 0 THEN "order" ELSE "settle"
      /\ t.kind = "open" => t.y = t.w /\ ~t.self /\ OpenChecked(t)
      /\ t.kind = "close" => CloseChecked(t)
      /\ t.kind \in {"open", "close"}
  BY DEF Begin, Request
<1>2. /\ t.n \in Nft /\ t.w \in Wallet /\ t.size \in Nat
      /\ mint[t.n] \in Mint
  BY InputAssumption DEF Request, TypeOK
<1>3. MintFields(mint[t.n])
  BY <1>2 DEF MintFields, Mint
<1>4. CASE t.kind = "open"
  <2>1. Loaded(t).acct /\ Loaded(t).staging /\ t.home
    BY <1>1, <1>4 DEF OpenChecked
  <2>2. Loaded(t).acct = TRUE /\ Loaded(t).staging = TRUE
    BY <2>1 DEF Loaded
  <2>3. Loaded(t) =
          [mint |-> mint[t.n], amt |-> nftAmt[t.n][t.w], acct |-> TRUE,
           staged |-> staged[t.n][t.st], staging |-> TRUE, pda |-> pda[t.n],
           q |-> pf[t.pn][t.mk], h |-> house[t.mk], paid |-> 0, rent |-> 0]
    BY <2>1, <2>2 DEF Loaded
  <2>4. mint[t.n] =
          [exists |-> mint[t.n].exists, vetted |-> mint[t.n].vetted,
           authority |-> mint[t.n].authority, supply |-> mint[t.n].supply,
           name |-> mint[t.n].name, market |-> mint[t.n].market]
    BY <1>3 DEF MintFields
  <2>5. work' = OpenWork(t, "metadata")
    BY <1>1, <2>3, <2>4 DEF OpenWork
  <2>6. OpenPassed(t, "metadata")
    BY <1>1, <1>4 DEF OpenPassed
  <2> QED
    BY <1>1, <1>4, <2>5, <2>6, OpenOnTrack DEF OpenStages, OpenCalls
<1>5. CASE t.kind = "close"
  <2> DEFINE c == IF t.size > 0 THEN "order" ELSE "settle"
  <2>1. at' = c /\ c \in {"order", "settle"}
    BY <1>1, <1>5
  <2>2. HoldsNft(t.w, t.n) /\ Loaded(t).staging
    BY <1>1, <1>5 DEF CloseChecked
  <2>3. /\ Loaded(t).acct = TRUE /\ Loaded(t).staging = TRUE
        /\ Loaded(t).amt = 1
    BY <2>2 DEF Loaded, HoldsNft
  <2>4. Loaded(t) =
          [mint |-> mint[t.n], amt |-> 1, acct |-> TRUE,
           staged |-> Loaded(t).staged, staging |-> TRUE,
           pda |-> Loaded(t).pda, q |-> pf[t.pn][t.mk], h |-> house[t.mk],
           paid |-> 0, rent |-> 0]
    BY <2>3 DEF Loaded
  <2>5. CloseMintAt(t, c) = mint[t.n]
    BY <1>3, <2>1 DEF CloseMintAt, MintFields, ToPay, ToBurn, ToDrain,
                      ToCloseStaging, ToCloseNft, ToCloseMint
  <2>6. t.size > 0 => work' = CloseWork(t, "order")
    BY <1>1, <2>1, <2>4, <2>5
       DEF CloseWork, ToPay, ToBurn, ToDrain, ToCloseStaging, ToCloseNft,
           ToCloseMint, ToSweep
  <2>7. ~(t.size > 0) => work' = CloseWork(t, "settle")
    <3> SUFFICES ASSUME ~(t.size > 0)
                 PROVE  work' = CloseWork(t, "settle")
      OBVIOUS
    <3>1. Reduced(t).q = pf[t.pn][t.mk] /\ Reduced(t).h = house[t.mk]
      BY DEF Reduced, Flattened, Before
    <3> QED
      BY <1>1, <2>1, <2>4, <2>5, <3>1
         DEF CloseWork, ToPay, ToBurn, ToDrain, ToCloseStaging, ToCloseNft,
             ToCloseMint, ToSweep
  <2>8. work' = CloseWork(t, c)
    BY <2>6, <2>7
  <2>9. ClosePassed(t, c)
    BY <1>1, <1>5, <2>1
       DEF ClosePassed, FlattenAccepted, ToPay, ToBurn, ToDrain,
           ToCloseStaging, ToCloseNft, ToCloseMint
  <2> HIDE DEF c
  <2> QED
    BY <1>1, <1>5, <2>1, <2>8, <2>9, CloseOnTrack DEF CloseStages, CloseCalls
<1> QED
  BY <1>1, <1>4, <1>5

(* A CPI keeps the transaction on track, whichever it is. *)
LEMMA CpiKeeps ==
  ASSUME TypeOK, Running, Cpi
  PROVE  Running'
<1>1. tx.kind \in {"open", "close"}
  BY DEF Running, Request
<1> QED
  BY <1>1, MetadataKeeps, MintToKeeps, RevokeKeeps, InitKeeps, DepositKeeps,
     OrderOfOpenKeeps, OrderOfCloseKeeps, SettleKeeps, WithdrawKeeps,
     BurnKeeps, DrainKeeps, CloseStagingKeeps, CloseNftKeeps, CloseMintKeeps,
     SweepKeeps
     DEF Cpi

(* The three changes an open makes to its mint. *)
LEMMA MintedFields ==
  ASSUME NEW m, MintFields(m), NEW side, NEW mk
  PROVE  Minted(m, side, mk) =
           [exists |-> m.exists, vetted |-> m.vetted, authority |-> FALSE,
            supply |-> m.supply + MintUnit, name |-> PositionName(side),
            market |-> mk]
<1> DEFINE r == Minted(m, side, mk)
<1>1. r \in [exists : {m.exists}, vetted : {m.vetted}, authority : {FALSE},
             supply : {m.supply + MintUnit}, name : {PositionName(side)},
             market : {mk}]
  BY DEF Minted, MintFields
<1> HIDE DEF r
<1>2. r = [exists |-> m.exists, vetted |-> m.vetted, authority |-> FALSE,
           supply |-> m.supply + MintUnit, name |-> PositionName(side),
           market |-> mk]
  BY <1>1
<1> QED
  BY <1>2 DEF r

(* What an open writes back is what OpenPosition does. *)
LEMMA CommitOpens ==
  ASSUME TypeOK, Running, Commit, tx.kind = "open"
  PROVE  OpenPosition(tx.w, tx.n, tx.mk, tx.pn, tx.st, tx.a, tx.side, tx.size,
                      tx.amount)
<1> DEFINE s == PlaceOrder(Opening(tx.mk, tx.amount), tx.a, tx.side, tx.size)
<1>1. /\ tx \in Request /\ work = OpenWork(tx, "done")
      /\ OpenPassed(tx, "done")
  BY DEF Running, Commit
<1>2. /\ tx.n \in Nft /\ tx.w \in Wallet /\ tx.y \in Wallet
      /\ mint[tx.n] \in Mint
  BY <1>1 DEF Request, TypeOK
<1>3. /\ tx.home /\ tx.pn = tx.n
      /\ <<tx.n, tx.w>> \in nftAcct /\ <<tx.n, tx.st>> \in staging
  BY <1>1 DEF OpenPassed, OpenChecked, CanonicalPortfolio, Loaded
<1>4. CanOpen(tx.w, tx.n, tx.mk, tx.pn, tx.st, tx.a, tx.side, tx.size,
              tx.amount)
  BY <1>1, <1>3 DEF CanOpen, OpenPassed, OpenChecked, DepositFunded
<1>5. work.mint = Minted(mint[tx.n], tx.side, tx.mk)
  <2>1. MintFields(mint[tx.n])
    BY <1>2 DEF MintFields, Mint
  <2>2. work.mint =
          [exists |-> mint[tx.n].exists, vetted |-> mint[tx.n].vetted,
           authority |-> FALSE, supply |-> mint[tx.n].supply + MintUnit,
           name |-> PositionName(tx.side), market |-> tx.mk]
    BY <1>1 DEF OpenWork
  <2> QED
    BY <2>1, <2>2, MintedFields
<1>6. /\ work.amt = nftAmt[tx.n][tx.w] + MintUnit
      /\ work.pda = pda[tx.n] - RentPortfolio
      /\ work.staged = staged[tx.n][tx.st] - tx.amount
      /\ work.acct = TRUE /\ work.staging = TRUE
      /\ work.paid = 0 /\ work.rent = 0
  BY <1>1 DEF OpenWork
<1>7. work.q = s.q /\ work.h = s.h
  BY <1>1 DEF OpenWork
<1>8. nftAcct' = nftAcct /\ staging' = staging
  BY <1>3, <1>6 DEF Commit, With
<1>9. tok' = tok /\ sol' = sol
  <2>1. tok[tx.y] \in Nat /\ sol[tx.w] \in Nat
    BY <1>2 DEF TypeOK
  <2>2. /\ tok[tx.y] + work.paid = tok[tx.y]
        /\ sol[tx.w] + work.rent = sol[tx.w]
    BY <1>6, <2>1
  <2>3. /\ tok' = [tok EXCEPT ![tx.y] = tok[tx.y]]
        /\ sol' = [sol EXCEPT ![tx.w] = sol[tx.w]]
    BY <2>2 DEF Commit
  <2> QED
    BY <1>2, <2>3 DEF TypeOK
<1>10. redeemed' = redeemed
  BY DEF Commit
<1>11. /\ mint' = [mint EXCEPT ![tx.n] = Minted(@, tx.side, tx.mk)]
       /\ nftAmt' = [nftAmt EXCEPT ![tx.n][tx.w] = @ + MintUnit]
       /\ pda' = [pda EXCEPT ![tx.n] = @ - RentPortfolio]
       /\ staged' = [staged EXCEPT ![tx.n][tx.st] = @ - tx.amount]
  BY <1>5, <1>6 DEF Commit
<1>12. /\ pf' = [pf EXCEPT ![tx.pn][tx.mk] = s.q]
       /\ house' = [house EXCEPT ![tx.mk] = s.h]
  BY <1>7 DEF Commit
<1> QED
  BY <1>4, <1>8, <1>9, <1>10, <1>11, <1>12 DEF OpenPosition

(* What a close writes back is what ClosePosition does. *)
LEMMA CommitCloses ==
  ASSUME Inductive, Running, Commit, tx.kind = "close"
  PROVE  ClosePosition(tx.w, tx.y, tx.n, tx.mk, tx.pn, tx.st, tx.a, tx.side,
                       tx.size, tx.amount)
<1>1. /\ TypeOK /\ OneBearer
      /\ tx \in Request /\ work = CloseWork(tx, "done")
      /\ ClosePassed(tx, "done")
  BY DEF Running, Commit, Inductive
<1>2. /\ "done" \notin ToPay /\ "done" \notin ToBurn /\ "done" \notin ToDrain
      /\ "done" \notin ToCloseStaging /\ "done" \notin ToCloseNft
      /\ "done" \notin ToCloseMint /\ "done" \notin ToSweep
  BY DEF ToPay, ToBurn, ToDrain, ToCloseStaging, ToCloseNft, ToCloseMint,
         ToSweep
<1>3. /\ HoldsNft(tx.w, tx.n) /\ Loaded(tx).staging
      /\ FlattenAccepted(tx.n, tx.mk, tx.pn, tx.a, tx.side, tx.size)
      /\ PayoutAccepted(tx.n, tx.mk, tx.pn, tx.a, tx.side, tx.size, tx.amount)
      /\ pf[tx.pn][tx.mk].exists /\ mint[tx.n].vetted /\ tx.home
      /\ tx.self => tx.amount = 0 /\ Loaded(tx).staged = 0
  BY <1>1, <1>2 DEF ClosePassed, CloseChecked
<1>4. /\ tx.n \in Nft /\ tx.w \in Wallet /\ tx.y \in Wallet
      /\ tx.amount \in Nat /\ Loaded(tx).staged \in Nat
      /\ Loaded(tx).pda \in Nat
  BY <1>1, RequestTypes
<1>5. /\ Loaded(tx).staged = staged[tx.n][tx.st]
      /\ Loaded(tx).pda = pda[tx.n]
      /\ <<tx.n, tx.st>> \in staging
  BY <1>3 DEF Loaded
<1>6. nftAmt[tx.n][tx.w] = 1 /\ mint[tx.n].supply = 1
  BY <1>1, <1>3, <1>4, UnitIsBearer DEF HoldsNft, BearerOf
<1>7. CanClose(tx.w, tx.n, tx.mk, tx.pn, tx.st, tx.a, tx.side, tx.size,
               tx.amount)
  BY <1>3, <1>4, <1>5, <1>6 DEF CanClose, AccountsCloseable, Drained
<1>8. /\ work.mint = NoMint /\ work.amt = 0
      /\ work.acct = FALSE /\ work.staging = FALSE
      /\ work.pda = 0 /\ work.h = Final(tx).h
      /\ work.q = IF tx.amount > 0 THEN Withdraw(Final(tx).q, tx.amount)
                                   ELSE Final(tx).q
      /\ work.rent = RentToken + RentToken + RentMint + Loaded(tx).pda
  BY <1>1, <1>2 DEF CloseWork, CloseMintAt
<1>9. /\ work.staged = IF tx.self THEN Loaded(tx).staged + tx.amount ELSE 0
      /\ work.paid = Elsewhere(tx, tx.amount + Loaded(tx).staged)
  BY <1>1, <1>2 DEF CloseWork
<1>10. work.staged = 0 /\ work.paid = tx.amount + staged[tx.n][tx.st]
  BY <1>3, <1>4, <1>5, <1>9 DEF Elsewhere
<1>11. /\ pf' = [pf EXCEPT ![tx.pn][tx.mk] =
                   IF tx.amount > 0 THEN Withdraw(Final(tx).q, tx.amount)
                                    ELSE Final(tx).q]
       /\ house' = [house EXCEPT ![tx.mk] = Final(tx).h]
  BY <1>8 DEF Commit
<1>12. RetireNft(tx.w, tx.n)
  BY <1>6, <1>8 DEF Commit, RetireNft, With
<1>13. tok' = [tok EXCEPT ![tx.y] = @ + tx.amount + Drained(tx.n, tx.st)]
  <2>1. /\ tok[tx.y] \in Nat /\ staged[tx.n][tx.st] \in Nat
    BY <1>1, <1>4, <1>5 DEF TypeOK
  <2>2. tok[tx.y] + work.paid = tok[tx.y] + tx.amount + staged[tx.n][tx.st]
    BY <1>4, <1>10, <2>1
  <2> QED
    BY <2>2 DEF Commit, Drained
<1>14. /\ staged' = [staged EXCEPT ![tx.n][tx.st] = @ - Drained(tx.n, tx.st)]
       /\ pda' = [pda EXCEPT ![tx.n] = @ - Leftover(tx.n)]
  <2>1. /\ staged[tx.n][tx.st] - Drained(tx.n, tx.st) = 0
        /\ pda[tx.n] - Leftover(tx.n) = 0
    BY <1>4, <1>5 DEF Drained, Leftover
  <2> QED
    BY <1>8, <1>10, <2>1 DEF Commit
<1>15. staging' = staging \ {<<tx.n, tx.st>>}
  BY <1>8 DEF Commit, With
<1>16. sol' = [sol EXCEPT ![tx.w] =
                @ + RentToken + RentToken + RentMint + Leftover(tx.n)]
  <2>1. /\ sol[tx.w] \in Nat /\ pda[tx.n] \in Nat
        /\ work.rent = RentToken + RentToken + RentMint + pda[tx.n]
    BY <1>1, <1>4, <1>5, <1>8 DEF TypeOK
  <2>2. sol[tx.w] + work.rent =
          sol[tx.w] + RentToken + RentToken + RentMint + pda[tx.n]
    BY <2>1, RentAssumption
  <2> QED
    BY <2>2 DEF Commit, Leftover
<1>17. redeemed' = redeemed \cup {tx.n}
  BY DEF Commit
<1> QED
  BY <1>7, <1>11, <1>12, <1>13, <1>14, <1>15, <1>16, <1>17
     DEF ClosePosition, Final

-----------------------------------------------------------------------------
(* The transaction as a whole. *)

(* No transaction runs at the start. *)
LEMMA OnTrackInit == TxInit => Init /\ OnTrack
BY InductiveInit DEF TxInit, OnTrack

(* Every step is a step of PositionProgram or leaves its state alone, and  *)
(* keeps the transaction on track.                                         *)
LEMMA OnTrackNext == OnTrack /\ [TxNext]_tvars => [Next]_vars /\ OnTrack'
<1> SUFFICES ASSUME OnTrack, [TxNext]_tvars
             PROVE  [Next]_vars /\ OnTrack'
  OBVIOUS
<1>1. Inductive /\ TypeOK
  BY DEF OnTrack, Inductive
<1>2. CASE UNCHANGED tvars
  <2>1. UNCHANGED vars /\ at' = at /\ tx' = tx /\ work' = work
    BY <1>2 DEF tvars
  <2>2. Inductive'
    BY <1>1, <2>1, InductiveNext
  <2>3. at # "idle" => Running'
    <3> SUFFICES ASSUME Running PROVE Running'
      BY DEF OnTrack
    <3>1. CASE tx.kind = "open"
      BY <2>1, <3>1, OpenOnTrack DEF Running
    <3>2. CASE tx.kind = "close"
      BY <2>1, <3>2, CloseOnTrack DEF Running
    <3> QED
      BY <3>1, <3>2 DEF Running, Request
  <2> QED
    BY <2>1, <2>2, <2>3 DEF OnTrack
<1>3. CASE Between
  <2>1. Next
    BY <1>3 DEF Between, Next
  <2>2. Inductive'
    BY <1>1, <2>1, InductiveNext
  <2> QED
    BY <1>3, <2>1, <2>2 DEF Between, OnTrack
<1>4. ASSUME NEW t \in Request, Begin(t)
      PROVE  [Next]_vars /\ OnTrack'
  <2>1. UNCHANGED vars /\ at' # "idle"
    BY <1>4 DEF Begin
  <2>2. Inductive'
    BY <1>1, <2>1, InductiveNext
  <2>3. Running'
    BY <1>1, <1>4, BeginKeeps
  <2> QED
    BY <2>1, <2>2, <2>3 DEF OnTrack
<1>5. CASE Cpi
  <2>1. UNCHANGED vars /\ at # "idle" /\ at' # "idle"
    BY <1>5 DEF Cpi, TokenMetadataInitialize, TokenMintToOne,
       TokenRevokeMintAuthority, InvokeInitPortfolio, InvokeDeposit,
       InvokePlaceOrder, InvokeSettlePnl, InvokeWithdraw, TokenBurnOne,
       TokenTransferSigned, CloseStaging, CloseNftAccount, CloseMint,
       SystemTransferSigned, Invoke, Then, Follows
  <2>2. Inductive'
    BY <1>1, <2>1, InductiveNext
  <2>3. Running'
    BY <1>1, <1>5, <2>1, CpiKeeps DEF OnTrack
  <2> QED
    BY <2>1, <2>2, <2>3 DEF OnTrack
<1>6. CASE Revert
  <2>1. UNCHANGED vars /\ at' = "idle" /\ tx' = None /\ work' = None
    BY <1>6 DEF Revert, Idle
  <2>2. Inductive'
    BY <1>1, <2>1, InductiveNext
  <2> QED
    BY <2>1, <2>2 DEF OnTrack
<1>7. CASE Commit
  <2>1. Running
    BY <1>7 DEF Commit, OnTrack
  <2>2. Next
    <3>1. /\ tx.w \in Wallet /\ tx.y \in Wallet /\ tx.n \in Nft
          /\ tx.pn \in Nft /\ tx.mk \in Market /\ tx.st \in Stash
          /\ tx.a \in Asset /\ tx.side \in Side /\ tx.size \in Size
          /\ tx.amount \in Amount
      BY <1>1, <2>1, RequestTypes DEF Running
    <3>2. CASE tx.kind = "open"
      BY <1>1, <1>7, <2>1, <3>1, <3>2, CommitOpens DEF Next, ProgramNext
    <3>3. CASE tx.kind = "close"
      BY <1>1, <1>7, <2>1, <3>1, <3>3, CommitCloses DEF Next, ProgramNext
    <3> QED
      BY <2>1, <3>2, <3>3 DEF Running, Request
  <2>3. Inductive'
    BY <1>1, <2>2, InductiveNext
  <2> QED
    BY <1>7, <2>2, <2>3 DEF Commit, Idle, OnTrack
<1> QED
  BY <1>2, <1>3, <1>4, <1>5, <1>6, <1>7 DEF TxNext

(* What the accounts are at every CPI, in every behaviour. *)
THEOREM StaysOnTrack == TxSpec => []OnTrack
<1>1. TxInit => OnTrack
  BY OnTrackInit
<1>2. OnTrack /\ [TxNext]_tvars => OnTrack'
  BY OnTrackNext
<1> QED
  BY <1>1, <1>2, PTL DEF TxSpec

(* The CPIs of a handler, run one after the other on the loaded accounts   *)
(* and dropped at the first refusal, amount to its single step or to none  *)
(* (processor.rs:217-344, 380-517).                                        *)
THEOREM HandlersAreAtomic == TxSpec => AtomicHandlers
<1>1. TxInit => Init
  BY OnTrackInit
<1>2. OnTrack /\ [TxNext]_tvars => [Next]_vars
  BY OnTrackNext
<1> QED
  BY <1>1, <1>2, StaysOnTrack, PTL DEF TxSpec, AtomicHandlers, Spec
=============================================================================
