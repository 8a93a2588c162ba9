--------------------------- MODULE PositionProgram ---------------------------
(***************************************************************************)
(* The on-chain program: OpenPosition and ClosePosition                    *)
(* (program/src/processor.rs) over the accounts they read and write.  The  *)
(* program has no state of its own ("No state accounts", state.rs:1-4): a  *)
(* position is its NFT mint, and everything else is keyed by it.  So n in  *)
(* Nft stands for the mint, for the position PDA derived from it, and for  *)
(* that PDA's accounts.                                                    *)
(*                                                                         *)
(* One Solana transaction is atomic: a check or a CPI that fails reverts   *)
(* every write.  A handler is therefore one action, guarded by everything  *)
(* that may refuse, and a refused transaction is a stuttering step.        *)
(***************************************************************************)
EXTENDS OpenPerps, FiniteSets

CONSTANTS
  Nft,            \* position NFT mints
  Wallet,         \* wallets: they sign, hold NFTs, collateral and lamports
  Stash,          \* token accounts of one PDA that hold the collateral mint
  Market,         \* initialized OpenPerps markets with one collateral mint
  Size,           \* order sizes a client may ask for (zero included)
  Amount,         \* collateral amounts a client may ask for
  PnlBound,       \* bound on the profit or loss the model lets a leg accrue
  InitialTokens,  \* collateral every wallet starts with
  InitialHouse,   \* counterparty liquidity every market starts with
  InitialSol,     \* lamports every wallet starts with
  RentMint, RentToken, RentPortfolio   \* rent-exempt balances, in lamports

ASSUME AssetAssumption == Asset # {}

ASSUME InputAssumption == Size \subseteq Nat /\ Amount \subseteq Nat
ASSUME EndowmentAssumption ==
  InitialTokens \in Nat /\ InitialHouse \in Nat /\ InitialSol \in Nat
ASSUME RentAssumption ==
  RentMint \in Nat /\ RentToken \in Nat /\ RentPortfolio \in Nat

VARIABLES
  mint,      \* Token-2022 mint account of each NFT
  nftAcct,   \* Token-2022 token accounts that exist: pairs <<n, w>>
  nftAmt,    \* units of NFT n in wallet w's account
  staging,   \* collateral staging accounts that exist: pairs <<n, st>>
  staged,    \* collateral in staging account st of position n
  pda,       \* lamports on the position PDA
  pf,        \* OpenPerps portfolio of position n in market mk
  house,     \* counterparty liquidity of a market
  tok,       \* collateral in each wallet's own token account
  sol,       \* lamports of each wallet
  redeemed   \* history: the NFTs ClosePosition has burned so far

vars == <<mint, nftAcct, nftAmt, staging, staged, pda, pf, house, tok, sol,
          redeemed>>

(* authority: the position PDA still is the mint authority.  vetted: the   *)
(* fields no instruction changes later are what verify_position_mint asks  *)
(* for (decimals, no freeze authority, exactly the two extensions).        *)
(* market: history, the market its unit was issued on; nothing in the      *)
(* account says it, and no action reads it.                                *)
Mint == [exists : BOOLEAN, vetted : BOOLEAN, authority : BOOLEAN,
         supply : Nat, name : {"none", "long", "short"},
         market : Market \cup {"none"}]

NoMint == [exists |-> FALSE, vetted |-> FALSE, authority |-> FALSE,
           supply |-> 0, name |-> "none", market |-> "none"]

TypeOK ==
  /\ mint \in [Nft -> Mint]
  /\ nftAcct \subseteq Nft \X Wallet
  /\ nftAmt \in [Nft -> [Wallet -> Nat]]
  /\ staging \subseteq Nft \X Stash
  /\ staged \in [Nft -> [Stash -> Nat]]
  /\ pda \in [Nft -> Nat]
  /\ pf \in [Nft -> [Market -> Portfolio]]
  /\ house \in [Market -> Nat]
  /\ tok \in [Wallet -> Nat]
  /\ sol \in [Wallet -> Nat]
  /\ redeemed \subseteq Nft

Init ==
  /\ mint = [n \in Nft |-> NoMint]
  /\ nftAcct = {}
  /\ nftAmt = [n \in Nft |-> [w \in Wallet |-> 0]]
  /\ staging = {}
  /\ staged = [n \in Nft |-> [st \in Stash |-> 0]]
  /\ pda = [n \in Nft |-> 0]
  /\ pf = [n \in Nft |-> [mk \in Market |-> NoPortfolio]]
  /\ house = [mk \in Market |-> InitialHouse]
  /\ tok = [w \in Wallet |-> InitialTokens]
  /\ sol = [w \in Wallet |-> InitialSol]
  /\ redeemed = {}

-----------------------------------------------------------------------------
(* What clients do before an open (the instructions buildOpenPosition puts *)
(* in front of OpenPosition; any client may also send them on their own),  *)
(* and what anyone may do to a position's accounts at any time.            *)

(* A fresh Token-2022 mint whose authority is the position PDA; vetted or  *)
(* not, as its creator chose the extensions.  An address whose mint was    *)
(* closed can be created again by whoever holds its keypair.               *)
CreateMint(w, n, vetted) ==
  /\ ~mint[n].exists
  /\ sol[w] >= RentMint
  /\ mint' = [mint EXCEPT ![n] =
                [NoMint EXCEPT !.exists = TRUE, !.vetted = vetted,
                               !.authority = TRUE]]
  /\ sol' = [sol EXCEPT ![w] = @ - RentMint]
  /\ UNCHANGED <<nftAcct, nftAmt, staging, staged, pda, pf, house, tok,
                 redeemed>>

(* The associated NFT account of wallet x, paid for by w. *)
CreateNftAccount(w, x, n) ==
  /\ mint[n].exists
  /\ <<n, x>> \notin nftAcct
  /\ sol[w] >= RentToken
  /\ nftAcct' = nftAcct \cup {<<n, x>>}
  /\ sol' = [sol EXCEPT ![w] = @ - RentToken]
  /\ UNCHANGED <<mint, nftAmt, staging, staged, pda, pf, house, tok, redeemed>>

(* A staging account of the position PDA: its associated token account, or *)
(* any other token account somebody gave to the PDA.                       *)
CreateStaging(w, n, st) ==
  /\ <<n, st>> \notin staging
  /\ sol[w] >= RentToken
  /\ staging' = staging \cup {<<n, st>>}
  /\ sol' = [sol EXCEPT ![w] = @ - RentToken]
  /\ UNCHANGED <<mint, nftAcct, nftAmt, staged, pda, pf, house, tok, redeemed>>

(* Collateral moved into a staging account: the holder funding an open, or *)
(* a stranger's donation to any position at any time.                      *)
FundStaging(w, n, st, amount) ==
  /\ <<n, st>> \in staging
  /\ amount \in 1 .. tok[w]
  /\ staged' = [staged EXCEPT ![n][st] = @ + amount]
  /\ tok' = [tok EXCEPT ![w] = @ - amount]
  /\ UNCHANGED <<mint, nftAcct, nftAmt, staging, pda, pf, house, sol, redeemed>>

(* Lamports moved to the position PDA: the portfolio's rent, or a gift. *)
FundPda(w, n) ==
  /\ sol[w] >= RentPortfolio
  /\ RentPortfolio > 0
  /\ pda' = [pda EXCEPT ![n] = @ + RentPortfolio]
  /\ sol' = [sol EXCEPT ![w] = @ - RentPortfolio]
  /\ UNCHANGED <<mint, nftAcct, nftAmt, staging, staged, pf, house, tok,
                 redeemed>>

(* The NFT changes hands with an ordinary Token-2022 transfer. *)
TransferNft(w, x, n) ==
  /\ w # x
  /\ nftAmt[n][w] = 1
  /\ <<n, x>> \in nftAcct
  /\ nftAmt' = [nftAmt EXCEPT ![n][w] = 0, ![n][x] = @ + 1]
  /\ UNCHANGED <<mint, nftAcct, staging, staged, pda, pf, house, tok, sol,
                 redeemed>>

(* The holder burns the unit with Token-2022 itself, outside this program. *)
BurnOutside(w, n) ==
  /\ nftAmt[n][w] = 1
  /\ nftAmt' = [nftAmt EXCEPT ![n][w] = 0]
  /\ mint' = [mint EXCEPT ![n].supply = @ - 1]
  /\ UNCHANGED <<nftAcct, staging, staged, pda, pf, house, tok, sol, redeemed>>

-----------------------------------------------------------------------------
(* OpenPosition *)

(* Mutant: the base fields are read, the extensions are not walked. *)
VerifyBaseFieldsOnly(m) == m.exists /\ m.supply = 0 /\ m.authority

(* Mutant: the mint authority is not compared. *)
VerifyAnyAuthority(m) == m.exists /\ m.vetted /\ m.supply = 0

(* verify_position_mint: un-minted, surrendered to the PDA, whitelisted. *)
VerifyPositionMint(m) == m.exists /\ m.vetted /\ m.supply = 0 /\ m.authority

(* Mutant: the derivation check is missing. *)
AnyPortfolio(n, pn) == TRUE

(* The portfolio account must be the one derived from (position, market).  *)
CanonicalPortfolio(n, pn) == pn = n

(* Mutant: the name is chosen by comparing the side byte with 0. *)
NameBySideZero(side) == IF side = 0 THEN "long" ELSE "short"

(* The name is chosen by comparing the side byte with 1. *)
PositionName(side) == IF side = 1 THEN "short" ELSE "long"

(* Mutant: MintTo is sent with two units. *)
TwoUnits == 2

(* The amount MintTo is sent with. *)
MintUnit == 1

(* Metadata written, the unit minted, the mint authority destroyed. *)
Minted(m, side, mk) ==
  [m EXCEPT !.name = PositionName(side), !.market = mk,
            !.supply = @ + MintUnit, !.authority = FALSE]

(* The upstream deposit pulls the amount out of the staging account.  The  *)
(* handlers ask of it only its owner and its mint: any st will do.         *)
DepositFunded(n, st, amount) ==
  <<n, st>> \in staging /\ amount <= staged[n][st]

(* What the new portfolio holds when the order is placed. *)
Opening(mk, amount) == [q |-> Deposit(InitPortfolio, amount), h |-> house[mk]]

CanOpen(x, n, mk, pn, st, a, side, size, amount) ==
  /\ amount # 0 /\ size # 0
  /\ CanonicalPortfolio(n, pn)
  /\ VerifyPositionMint(mint[n])
  /\ <<n, x>> \in nftAcct
  /\ DepositFunded(n, st, amount)
  /\ ~pf[pn][mk].exists
  /\ pda[n] >= RentPortfolio
  /\ OrderAccepted(Opening(mk, amount).q, a, side, size)

(* x is the owner of the NFT account the unit lands in, "usually the       *)
(* holder's" (processor.rs:186); no check ties it to the signer.           *)
OpenPosition(x, n, mk, pn, st, a, side, size, amount) ==
  /\ CanOpen(x, n, mk, pn, st, a, side, size, amount)
  /\ mint' = [mint EXCEPT ![n] = Minted(@, side, mk)]
  /\ nftAmt' = [nftAmt EXCEPT ![n][x] = @ + MintUnit]
  /\ pda' = [pda EXCEPT ![n] = @ - RentPortfolio]
  /\ staged' = [staged EXCEPT ![n][st] = @ - amount]
  /\ LET s == PlaceOrder(Opening(mk, amount), a, side, size) IN
     /\ pf' = [pf EXCEPT ![pn][mk] = s.q]
     /\ house' = [house EXCEPT ![mk] = s.h]
  /\ UNCHANGED <<nftAcct, staging, tok, sol, redeemed>>

-----------------------------------------------------------------------------
(* ClosePosition *)

(* Bearer check: the signer's own account holds exactly one unit. *)
HoldsNft(w, n) == <<n, w>> \in nftAcct /\ nftAmt[n][w] = 1

(* The portfolio and the house as the close's CPIs see them one after the  *)
(* other.  Nothing ties the portfolio account pn to the position here: the *)
(* upstream order and withdraw ask for its owner's signature, the          *)
(* permissionless settle does not.                                         *)
Before(mk, pn) == [q |-> pf[pn][mk], h |-> house[mk]]

Flattened(mk, pn, a, side, size) ==
  IF size > 0 THEN PlaceOrder(Before(mk, pn), a, side, size)
              ELSE Before(mk, pn)

AfterSettle(mk, pn, a, side, size) ==
  SettlePnl(Flattened(mk, pn, a, side, size))

FlattenAccepted(n, mk, pn, a, side, size) ==
  size > 0 => pn = n /\ OrderAccepted(pf[pn][mk], a, side, size)

(* Mutant: the withdraw pays out of whatever portfolio is named. *)
PayoutOfAny(n, mk, pn, a, side, size, amount) ==
  amount > 0 => WithdrawAccepted(AfterSettle(mk, pn, a, side, size).q, amount)

PayoutAccepted(n, mk, pn, a, side, size, amount) ==
  amount > 0 =>
    /\ pn = n
    /\ WithdrawAccepted(AfterSettle(mk, pn, a, side, size).q, amount)

(* Mutant: the staging account is closed without draining it. *)
DrainNothing(n, st) == 0

(* 5a) what is moved out of the staging account before it is closed. *)
Drained(n, st) == staged[n][st]

(* CloseAccount refuses an account that still holds units.  A mint can be  *)
(* closed at supply zero by its close authority, which only a vetted mint  *)
(* has given to the position PDA.                                          *)
AccountsCloseable(w, n, st) ==
  /\ <<n, st>> \in staging
  /\ staged[n][st] - Drained(n, st) = 0
  /\ nftAmt[n][w] - 1 = 0
  /\ mint[n].supply - 1 = 0
  /\ mint[n].vetted

CanClose(w, n, mk, pn, st, a, side, size, amount) ==
  /\ HoldsNft(w, n)
  /\ pf[pn][mk].exists
  /\ FlattenAccepted(n, mk, pn, a, side, size)
  /\ PayoutAccepted(n, mk, pn, a, side, size, amount)
  /\ AccountsCloseable(w, n, st)

(* Mutant: the handler pays out and forgets the NFT. *)
KeepNft(w, n) == UNCHANGED <<nftAmt, nftAcct, mint>>

(* 4), 5b), 5c): burn the unit, close the NFT account, close the mint. *)
RetireNft(w, n) ==
  /\ nftAmt' = [nftAmt EXCEPT ![n][w] = @ - 1]
  /\ nftAcct' = nftAcct \ {<<n, w>>}
  /\ mint' = [mint EXCEPT ![n] = NoMint]

(* Mutants: no sweep at all, and a sweep of the portfolio's rent instead   *)
(* of the balance.                                                         *)
SweepNothing(n) == 0
SweepRent(n) == RentPortfolio

(* 5d) the lamports swept off the position PDA. *)
Leftover(n) == pda[n]

(* w signs and collects the rent; the collateral goes to the token account *)
(* w names as its destination, which no check ties to w: y is its owner.   *)
ClosePosition(w, y, n, mk, pn, st, a, side, size, amount) ==
  /\ CanClose(w, n, mk, pn, st, a, side, size, amount)
  /\ LET s == AfterSettle(mk, pn, a, side, size) IN
     /\ pf' = [pf EXCEPT ![pn][mk] =
                 IF amount > 0 THEN Withdraw(s.q, amount) ELSE s.q]
     /\ house' = [house EXCEPT ![mk] = s.h]
  /\ RetireNft(w, n)
  /\ tok' = [tok EXCEPT ![y] = @ + amount + Drained(n, st)]
  /\ staged' = [staged EXCEPT ![n][st] = @ - Drained(n, st)]
  /\ staging' = staging \ {<<n, st>>}
  /\ sol' = [sol EXCEPT ![w] =
               @ + RentToken + RentToken + RentMint + Leftover(n)]
  /\ pda' = [pda EXCEPT ![n] = @ - Leftover(n)]
  /\ redeemed' = redeemed \cup {n}

-----------------------------------------------------------------------------
(* What the engine does on its own. *)

EngineOnly(n, mk, s) ==
  /\ pf' = [pf EXCEPT ![n][mk] = s.q]
  /\ house' = [house EXCEPT ![mk] = s.h]
  /\ UNCHANGED <<mint, nftAcct, nftAmt, staging, staged, pda, tok, sol,
                 redeemed>>

(* The mark moves: an open leg gains or loses, within PnlBound. *)
Accrue(n, mk, pnl) ==
  /\ pf[n][mk].exists /\ ~Flat(pf[n][mk])
  /\ pnl # pf[n][mk].pnl
  /\ EngineOnly(n, mk, [Before(mk, n) EXCEPT !.q.pnl = pnl])

(* Anyone may liquidate a portfolio whose equity is gone, leg by leg and   *)
(* in parts.                                                               *)
Liquidation(n, mk) ==
  /\ Liquidatable(pf[n][mk])
  /\ \E a \in Asset : \E cut \in 1 .. Magnitude(pf[n][mk].leg[a]) :
       EngineOnly(n, mk, Liquidate(Before(mk, n), a, cut))

(* Anyone may settle any portfolio. *)
Crank(n, mk) ==
  /\ pf[n][mk].exists
  /\ Settled(Before(mk, n)) # 0
  /\ EngineOnly(n, mk, SettlePnl(Before(mk, n)))

-----------------------------------------------------------------------------
ClientNext ==
  \E w \in Wallet, n \in Nft :
    \/ \E vetted \in BOOLEAN : CreateMint(w, n, vetted)
    \/ \E x \in Wallet : CreateNftAccount(w, x, n)
    \/ \E st \in Stash : CreateStaging(w, n, st)
    \/ \E st \in Stash, amount \in Amount : FundStaging(w, n, st, amount)
    \/ FundPda(w, n)
    \/ \E x \in Wallet : TransferNft(w, x, n)
    \/ BurnOutside(w, n)

ProgramNext ==
  \E w \in Wallet, n, pn \in Nft, mk \in Market, st \in Stash, a \in Asset,
     side \in Side, size \in Size, amount \in Amount :
    \/ OpenPosition(w, n, mk, pn, st, a, side, size, amount)
    \/ \E y \in Wallet :
         ClosePosition(w, y, n, mk, pn, st, a, side, size, amount)

EngineNext ==
  \E n \in Nft, mk \in Market :
    \/ \E pnl \in -PnlBound .. PnlBound : Accrue(n, mk, pnl)
    \/ Liquidation(n, mk)
    \/ Crank(n, mk)

Next == ClientNext \/ ProgramNext \/ EngineNext

Spec == Init /\ [][Next]_vars
=============================================================================
