----------------------------- MODULE Transactions -----------------------------
(***************************************************************************)
(* The two handlers as the runtime executes them: the accounts are loaded, *)
(* the checks made, then one CPI after another works on the loaded copies. *)
(* A CPI that is refused drops the copies; only a handler that gets to its *)
(* end writes them back.  PositionProgram takes each handler as one step:  *)
(* this module is what that step stands for.                               *)
(*                                                                         *)
(* The runtime locks the accounts of a transaction, so no other            *)
(* transaction touches them before it ends; clients and engine move only   *)
(* between transactions.                                                   *)
(***************************************************************************)
EXTENDS PositionProgram

VARIABLES
  tx,     \* what the running transaction asks for
  at,     \* the CPI it is about to make: "idle" when none runs
  work    \* its accounts, as its CPIs have left them so far

tvars == <<vars, tx, at, work>>

(* What a client asks for.  w signs a close and owns the NFT account, y is *)
(* to be paid.  home: the position account is the PDA the mint was         *)
(* surrendered to, and not the PDA of the same mint under another bump     *)
(* (the bump is the client's, processor.rs:346).  self: the account named  *)
(* for the payout is the staging account itself.                           *)
Request ==
  [kind : {"open", "close"}, w : Wallet, y : Wallet, n : Nft, mk : Market,
   pn : Nft, st : Stash, a : Asset, side : Side, size : Size,
   amount : Amount, home : BOOLEAN, self : BOOLEAN]

None == [kind |-> "none"]

Work ==
  [mint : Mint, amt : Nat, acct : BOOLEAN, staged : Nat, staging : BOOLEAN,
   pda : Nat, q : Portfolio, h : Nat, paid : Nat, rent : Nat]

OpenCalls ==
  {"metadata", "mintTo", "revoke", "init", "deposit", "order"}

CloseCalls ==
  {"order", "settle", "withdraw", "burn", "drain", "closeStaging", "closeNft",
   "closeMint", "sweep"}

(* The accounts of a request as the runtime loads them; those of a PDA     *)
(* under another bump are somebody's empty staging account.                *)
Loaded(t) ==
  [mint    |-> mint[t.n],
   amt     |-> nftAmt[t.n][t.w],
   acct    |-> <<t.n, t.w>> \in nftAcct,
   staged  |-> IF t.home THEN staged[t.n][t.st] ELSE 0,
   staging |-> ~t.home \/ <<t.n, t.st>> \in staging,
   pda     |-> IF t.home THEN pda[t.n] ELSE 0,
   q       |-> pf[t.pn][t.mk],
   h       |-> house[t.mk],
   paid    |-> 0,
   rent    |-> 0]

-----------------------------------------------------------------------------
(* The checks before the first CPI. *)

OpenChecked(t) ==
  /\ t.amount # 0 /\ t.size # 0
  /\ CanonicalPortfolio(t.n, t.pn)
  /\ VerifyPositionMint(mint[t.n]) /\ t.home
  /\ Loaded(t).acct
  /\ Loaded(t).staging

CloseChecked(t) == HoldsNft(t.w, t.n) /\ Loaded(t).staging

Begin(t) ==
  /\ at = "idle"
  /\ t.kind = "open" => t.y = t.w /\ ~t.self
  /\ IF t.kind = "open" THEN OpenChecked(t) ELSE CloseChecked(t)
  /\ tx' = t
  /\ work' = Loaded(t)
  /\ at' = IF t.kind = "open" THEN "metadata"
           ELSE IF t.size > 0 THEN "order" ELSE "settle"
  /\ UNCHANGED vars

-----------------------------------------------------------------------------
(* The CPIs. *)

(* The order of the CPIs: metadata before the unit, the unit before the    *)
(* authority goes; pay out, burn, then close and sweep.                    *)
Follows ==
  [metadata |-> "mintTo", mintTo |-> "revoke", revoke |-> "init",
   init |-> "deposit", deposit |-> "order", withdraw |-> "burn",
   burn |-> "drain", drain |-> "closeStaging", closeStaging |-> "closeNft",
   closeNft |-> "closeMint", closeMint |-> "sweep", sweep |-> "done"]

(* Mutants: the unit is burned after its account is closed; the handler    *)
(* returns before the sweep.                                               *)
BurnLast(t, call) ==
  CASE call \in {"settle", "withdraw"} -> "drain"
    [] call = "order"    -> "settle"
    [] call = "closeNft" -> "burn"
    [] call = "burn"     -> "closeMint"
    [] OTHER             -> Follows[call]
ForgetSweep(t, call) ==
  CASE call = "order"     -> IF t.kind = "open" THEN "done" ELSE "settle"
    [] call = "settle"    -> IF t.amount > 0 THEN "withdraw" ELSE "burn"
    [] call = "closeMint" -> "done"
    [] OTHER              -> Follows[call]

(* An open ends with its order; a close settles after it, and skips the    *)
(* withdraw of a zero payout.                                              *)
Then(t, call) ==
  CASE call = "order"  -> IF t.kind = "open" THEN "done" ELSE "settle"
    [] call = "settle" -> IF t.amount > 0 THEN "withdraw" ELSE "burn"
    [] OTHER           -> Follows[call]

(* The PDA that signs is the portfolio's owner. *)
SignedForFolio == tx.home /\ tx.pn = tx.n

(* What the called program asks before it acts. *)
Accepts ==
  CASE at = "metadata"     -> work.mint.authority /\ tx.home
    [] at = "mintTo"       -> work.mint.authority /\ tx.home /\ work.acct
    [] at = "revoke"       -> work.mint.authority /\ tx.home
    [] at = "init"         -> ~work.q.exists /\ work.pda >= RentPortfolio
    [] at = "deposit"      -> SignedForFolio /\ tx.amount <= work.staged
    [] at = "order"        ->
         SignedForFolio /\ OrderAccepted(work.q, tx.a, tx.side, tx.size)
    [] at = "settle"       -> work.q.exists
    [] at = "withdraw"     ->
         SignedForFolio /\ WithdrawAccepted(work.q, tx.amount)
    [] at = "burn"         -> work.amt > 0
    [] at = "drain"        -> TRUE
    [] at = "closeStaging" -> work.staging /\ work.staged = 0
    [] at = "closeNft"     -> work.acct /\ work.amt = 0
    [] at = "closeMint"    ->
         /\ work.mint.exists /\ work.mint.supply = 0
         /\ work.mint.vetted /\ tx.home
    [] at = "sweep"        -> TRUE
    [] OTHER               -> FALSE

Invoke(call, left) ==
  /\ at = call /\ Accepts
  /\ work' = left
  /\ at' = Then(tx, call)
  /\ UNCHANGED <<vars, tx>>

TokenMetadataInitialize ==
  Invoke("metadata",
    [work EXCEPT !.mint = [@ EXCEPT !.name = PositionName(tx.side),
                                    !.market = tx.mk]])

TokenMintToOne ==
  Invoke("mintTo", [work EXCEPT !.mint.supply = @ + MintUnit,
                                !.amt = @ + MintUnit])

TokenRevokeMintAuthority ==
  Invoke("revoke", [work EXCEPT !.mint.authority = FALSE])

InvokeInitPortfolio ==
  Invoke("init", [work EXCEPT !.q = InitPortfolio,
                              !.pda = @ - RentPortfolio])

InvokeDeposit ==
  Invoke("deposit", [work EXCEPT !.q = Deposit(@, tx.amount),
                                 !.staged = @ - tx.amount])

(* The portfolio and the house after an engine operation on both. *)
WithEngine(s) == [work EXCEPT !.q = s.q, !.h = s.h]

Engine == [q |-> work.q, h |-> work.h]

InvokePlaceOrder ==
  Invoke("order", WithEngine(PlaceOrder(Engine, tx.a, tx.side, tx.size)))

InvokeSettlePnl == Invoke("settle", WithEngine(SettlePnl(Engine)))

(* Collateral moved to the account the client named for the payout. *)
PaidOut(v, amount) ==
  IF tx.self THEN [v EXCEPT !.staged = @ + amount]
             ELSE [v EXCEPT !.paid = @ + amount]

InvokeWithdraw ==
  Invoke("withdraw",
         PaidOut([work EXCEPT !.q = Withdraw(@, tx.amount)], tx.amount))

TokenBurnOne ==
  Invoke("burn", [work EXCEPT !.amt = @ - 1, !.mint.supply = @ - 1])

(* Mutants: the dust is taken to be one unit; it is written off. *)
DrainOne(v) == PaidOut([v EXCEPT !.staged = @ - 1], 1)
WriteOffDust(v) == [v EXCEPT !.staged = 0]

(* Whatever the staging account holds when the handler gets there. *)
DrainDust(v) == PaidOut([v EXCEPT !.staged = 0], v.staged)

TokenTransferSigned == Invoke("drain", DrainDust(work))

CloseStaging ==
  Invoke("closeStaging", [work EXCEPT !.staging = FALSE, !.rent = @ + RentToken])

CloseNftAccount ==
  Invoke("closeNft", [work EXCEPT !.acct = FALSE, !.rent = @ + RentToken])

CloseMint ==
  Invoke("closeMint", [work EXCEPT !.mint = NoMint, !.rent = @ + RentMint])

SystemTransferSigned ==
  Invoke("sweep", [work EXCEPT !.pda = 0, !.rent = @ + work.pda])

-----------------------------------------------------------------------------
(* The end of a transaction. *)

Idle ==
  /\ at' = "idle" /\ tx' = None /\ work' = None

(* A refused CPI: the copies are dropped. *)
Revert ==
  /\ at \in OpenCalls \cup CloseCalls
  /\ ~Accepts
  /\ Idle
  /\ UNCHANGED vars

With(set, e, in) == IF in THEN set \cup {e} ELSE set \ {e}

(* The handler returned Ok: the accounts are written back. *)
Commit ==
  /\ at = "done"
  /\ mint' = [mint EXCEPT ![tx.n] = work.mint]
  /\ nftAmt' = [nftAmt EXCEPT ![tx.n][tx.w] = work.amt]
  /\ nftAcct' = With(nftAcct, <<tx.n, tx.w>>, work.acct)
  /\ staged' = [staged EXCEPT ![tx.n][tx.st] = work.staged]
  /\ staging' = With(staging, <<tx.n, tx.st>>, work.staging)
  /\ pda' = [pda EXCEPT ![tx.n] = work.pda]
  /\ pf' = [pf EXCEPT ![tx.pn][tx.mk] = work.q]
  /\ house' = [house EXCEPT ![tx.mk] = work.h]
  /\ tok' = [tok EXCEPT ![tx.y] = @ + work.paid]
  /\ sol' = [sol EXCEPT ![tx.w] = @ + work.rent]
  /\ redeemed' = IF tx.kind = "close" THEN redeemed \cup {tx.n} ELSE redeemed
  /\ Idle

-----------------------------------------------------------------------------
Cpi ==
  \/ TokenMetadataInitialize \/ TokenMintToOne \/ TokenRevokeMintAuthority
  \/ InvokeInitPortfolio \/ InvokeDeposit \/ InvokePlaceOrder
  \/ InvokeSettlePnl \/ InvokeWithdraw \/ TokenBurnOne \/ TokenTransferSigned
  \/ CloseStaging \/ CloseNftAccount \/ CloseMint \/ SystemTransferSigned

Between ==
  /\ at = "idle"
  /\ ClientNext \/ EngineNext
  /\ UNCHANGED <<tx, at, work>>

TxInit ==
  /\ Init
  /\ at = "idle" /\ tx = None /\ work = None

TxNext == Between \/ (\E t \in Request : Begin(t)) \/ Cpi \/ Revert \/ Commit

TxSpec == TxInit /\ [][TxNext]_tvars

-----------------------------------------------------------------------------
(* What the handlers promise as transactions. *)

TxTypeOK ==
  /\ TypeOK
  /\ at \in {"idle", "done"} \cup OpenCalls \cup CloseCalls
  /\ IF at = "idle" THEN tx = None /\ work = None
                    ELSE tx \in Request /\ work \in Work

(* The CPIs, run in the order of the code with a roll-back at the first    *)
(* refusal, amount to the single steps of PositionProgram and to nothing   *)
(* else: what each CPI finds is what the ones before it left, and what is  *)
(* written back is the whole handler or nothing (processor.rs:217-517).    *)
AtomicHandlers == Spec

(* No CPI refuses what the handler as a whole could have done: if one does *)
(* (an account not yet empty, a payout not yet settled, a unit not yet     *)
(* burned), the request was impossible from the start.                     *)
Possible(t) ==
  IF t.kind = "open"
  THEN CanOpen(t.w, t.n, t.mk, t.pn, t.st, t.a, t.side, t.size, t.amount)
  ELSE /\ CanClose(t.w, t.n, t.mk, t.pn, t.st, t.a, t.side, t.size, t.amount)
       /\ t.home
       /\ t.self => t.amount = 0 /\ staged[t.n][t.st] = 0

RefusedForCause ==
  at \in OpenCalls \cup CloseCalls /\ ~Accepts => ~Possible(tx)

(* The books balance between any two CPIs, in collateral and in lamports:  *)
(* what left one account is in another one or with the client.             *)
Collateral(v) == v.staged + v.q.cap + v.h + v.paid

Bill(exists, rent) == IF exists THEN rent ELSE 0

Lamports(v) ==
  v.pda + v.rent + Bill(v.mint.exists, RentMint) + Bill(v.acct, RentToken)
    + Bill(v.staging, RentToken) + Bill(v.q.exists, RentPortfolio)

Balanced ==
  at # "idle" =>
    /\ Collateral(work) = Collateral(Loaded(tx))
    /\ Lamports(work) = Lamports(Loaded(tx))
=============================================================================
