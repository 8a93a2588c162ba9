-------------------------- MODULE PositionProperties --------------------------
(***************************************************************************)
(* What the position program promises, stated over PositionProgram.        *)
(***************************************************************************)
EXTENDS PositionProgram

(* A unit of the NFT is in circulation. *)
Live(n) == mint[n].supply > 0

(* The bearer instrument (state.rs:94-105, processor.rs:217-219, 358-373): *)
(* a position mint never has more than one unit, nobody can mint another,  *)
(* and a live position has exactly one wallet that passes the bearer check.*)
OneOfOne ==
  \A n \in Nft :
    /\ mint[n].supply \in {0, 1}
    /\ Live(n) => mint[n].exists /\ mint[n].vetted /\ ~mint[n].authority
    /\ Live(n) <=> \E w \in Wallet : HoldsNft(w, n)
    /\ \A w, x \in Wallet : nftAmt[n][w] > 0 /\ nftAmt[n][x] > 0 => w = x

(* The close a well-informed holder w would send for position n: flatten   *)
(* the leg in asset a, then take everything the settle leaves behind.      *)
RedeemsInFull(w, n, mk, st, a, side) ==
  LET size  == Magnitude(pf[n][mk].leg[a])
      final == AfterSettle(mk, n, a, side, size).q
  IN  CanClose(w, n, mk, n, st, a, side, size, final.cap) /\ Flat(final)

(* Redemption cannot be wedged (README.md:38-43, processor.rs:461-464):    *)
(* whatever donations, transfers, market moves and liquidations happened,  *)
(* and even after the market swallowed the collateral, every live position *)
(* has a close on the market it was opened on that passes each check and   *)
(* leaves no leg and no capital there.                                     *)
NeverWedged ==
  \A n \in Nft : Live(n) =>
    /\ mint[n].market \in Market
    /\ \E w \in Wallet, st \in Stash, a \in Asset, side \in Side :
         RedeemsInFull(w, n, mint[n].market, st, a, side)

(* The leg q holds in asset a is on the side that name announces. *)
OnSide(q, a, name) ==
  IF name = "short" THEN q.leg[a] < 0 ELSE q.leg[a] > 0

(* A portfolio that is flat (liquidated) or has a single leg on that side. *)
Exposed(q, name) ==
  /\ q.exists
  /\ \/ Flat(q)
     \/ \E a \in Asset :
          OnSide(q, a, name) /\ \A b \in Asset \ {a} : q.leg[b] = 0

(* What the NFT says is what it is (processor.rs:217-232): the portfolio   *)
(* of a live position on the market it was opened on is flat or holds a    *)
(* single leg, on the side written into the mint at open, whatever byte    *)
(* the opener sent for the side.  The command-line client relies on it     *)
(* when it flattens positions[0] only (cli.ts:70).                         *)
NamedExposure ==
  \A n \in Nft : Live(n) =>
    /\ mint[n].market \in Market
    /\ Exposed(pf[n][mint[n].market], mint[n].name)

(* Possession is the only credential (processor.rs:3-8): no step raises a  *)
(* wallet's collateral unless somebody held an NFT which the same step     *)
(* burns, together with its account, its mint and a staging account; and   *)
(* it is paid no more than what that account held and what a portfolio of  *)
(* that very position gives up.                                            *)
OnlyHolderPaid ==
  [][\A y \in Wallet : tok'[y] > tok[y] =>
       \E w \in Wallet, n \in Nft, st \in Stash, mk \in Market :
         /\ HoldsNft(w, n)
         /\ nftAmt'[n][w] = 0 /\ <<n, w>> \notin nftAcct'
         /\ <<n, st>> \in staging \ staging' /\ staged'[n][st] = 0
         /\ ~mint'[n].exists
         /\ tok'[y] - tok[y] <=
              staged[n][st] + Equity(pf[n][mk]) - Equity(pf'[n][mk])]_vars

(* Isolated by construction (README.md:49-51): opening or redeeming one    *)
(* position leaves the legs and the equity of every other one alone.       *)
PositionsIsolated ==
  [][\A n, m \in Nft :
       n # m /\ mint'[m].supply # mint[m].supply =>
         \A mk \in Market :
           /\ pf'[n][mk].leg = pf[n][mk].leg
           /\ Equity(pf'[n][mk]) = Equity(pf[n][mk])]_vars

(* Rent hygiene, the part the program does (processor.rs:461-514): the     *)
(* step that closes a mint closes one staging account, emptied, and leaves *)
(* every other one of the position as it is, filled or not; it leaves no   *)
(* unit in any wallet and no lamport on the PDA, and the wallet that held  *)
(* the NFT collects.                                                       *)
RentReturns ==
  [][\A n \in Nft : mint[n].exists /\ ~mint'[n].exists =>
       /\ \E st \in Stash :
            /\ <<n, st>> \in staging \ staging' /\ staged'[n][st] = 0
            /\ \A other \in Stash \ {st} :
                 /\ <<n, other>> \in staging => <<n, other>> \in staging'
                 /\ staged'[n][other] = staged[n][other]
       /\ pda'[n] = 0
       /\ \A w \in Wallet : nftAmt'[n][w] = 0
       /\ \E w \in Wallet :
            /\ HoldsNft(w, n)
            /\ sol'[w] = sol[w] + pda[n] + RentMint + 2 * RentToken]_vars

(* A mint that went through an open and whose unit was burned outside.     *)
Burned(n) ==
  mint[n].exists /\ ~mint[n].authority /\ mint[n].supply = 0

(* The unit burned with Token-2022 itself (processor.rs:457-459 knows only *)
(* the burn of a close) buries the position: nobody, not even the one who  *)
(* has the mint's key, takes back its collateral and lamports or opens     *)
(* another portfolio for it.                                               *)
BurnedForGood ==
  [][\A n \in Nft : Burned(n) =>
       /\ Burned(n)'
       /\ pda'[n] >= pda[n]
       /\ \A st \in Stash : staged'[n][st] >= staged[n][st]
       /\ \A mk \in Market : pf'[n][mk].exists = pf[n][mk].exists]_vars

(* The abstract instrument, seen in the accounts of the program. *)
Holders == [n \in Nft |-> {w \in Wallet : HoldsNft(w, n)}]
Announced == [n \in Nft |-> IF Live(n) THEN mint[n].name ELSE "none"]

Bearer == INSTANCE BearerNft WITH bearer <- Holders, side <- Announced,
                                  purse <- tok

(* The program implements the bearer instrument: an open is an Issue, an   *)
(* NFT transfer a Pass, a close (or a burn outside) a Retire, and all the  *)
(* rest, the engine's moves included, neither moves a unit nor pays.       *)
ImplementsBearer == Bearer!Spec

-----------------------------------------------------------------------------
(* The inductive invariant behind OneOfOne, NamedExposure and NeverWedged. *)

(* No unit of position n is in circulation, nor in any account. *)
Unissued(n) ==
  mint[n].supply = 0 /\ \A w \in Wallet : nftAmt[n][w] = 0

(* The only unit of position n sits in w's account; its mint went through  *)
(* verify_position_mint, got its name, and lost its authority; and a       *)
(* staging account of its PDA is still there.                              *)
BearerOf(n, w) ==
  /\ mint[n].supply = 1
  /\ mint[n].exists /\ mint[n].vetted /\ ~mint[n].authority
  /\ mint[n].name \in {"long", "short"}
  /\ \E st \in Stash : <<n, st>> \in staging
  /\ HoldsNft(w, n)
  /\ \A x \in Wallet \ {w} : nftAmt[n][x] = 0

(* Every position mint is in one of the two states. *)
OneBearer ==
  \A n \in Nft : Unissued(n) \/ \E w \in Wallet : BearerOf(n, w)

(* All of it together: preserved by every step (PositionProofs), and with  *)
(* the engine's rule that a reducing order always passes it gives every    *)
(* live position a close that succeeds (processor.rs:322-517).             *)
Inductive == TypeOK /\ OneBearer /\ NamedExposure

-----------------------------------------------------------------------------
(* Sentences of the documentation that the code does not keep.  Each one   *)
(* is the property of a run that exhibits a counterexample.                *)

(* "a wrong client can never lose the position, only fail to close it"     *)
(* (position.ts:13-17): a redeemed position would have no leg left open.   *)
RedeemedIsFlat ==
  \A n \in redeemed, mk \in Market : Flat(pf[n][mk])

(* "The position PDA can never sign again because no one can ever hold the *)
(* NFT again" (processor.rs:457-458).                                      *)
NeverHeldAgain ==
  \A n \in redeemed, w \in Wallet : ~HoldsNft(w, n)
=============================================================================
