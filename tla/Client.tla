-------------------------------- MODULE Client --------------------------------
(***************************************************************************)
(* The command-line client's close (sdk/src/cli.ts): read the portfolio,   *)
(* compute flatten and payout from what was read, send.  Between the read  *)
(* and the send the market moves, anyone settles or liquidates, strangers  *)
(* donate, the NFT is sold to somebody who runs the command too; a refused *)
(* transaction changes nothing, and the holder runs the command again.     *)
(***************************************************************************)
EXTENDS PositionProperties

CONSTANTS
  FeeEstimate,  \* the close fee as the client computes it
  MaxMoves      \* bound: how often the mark moves or the NFT is sold

ASSUME ClientAssumption == FeeEstimate \in Nat /\ MaxMoves \in Nat

VARIABLES
  asked,   \* the close each wallet's client computed and has not sent yet
  moves    \* how often the mark has moved and the NFT was sold

cvars == <<vars, asked, moves>>

Nothing == [waiting |-> FALSE]

(* What the client has in hand between its read and its send.  owed is a   *)
(* history, printed (cli.ts:74) and not used: what the engine still owed a *)
(* portfolio that had lost its leg.                                        *)
Request ==
  [waiting : {TRUE}, n : Nft, mk : Market, a : Asset, side : Side,
   size : Nat, amount : Nat, owed : Int]

(* positions[0] of the decoded portfolio. *)
FirstLeg(q) == CHOOSE a \in Asset : q.leg[a] # 0 \/ Flat(q)

(* Mutant: the side is not flipped. *)
SameSide(leg) == IF leg < 0 THEN Short ELSE Long

(* A long is flattened by a short, and nothing at all by a long of none.   *)
FlipSide(leg) == IF leg > 0 THEN Short ELSE Long

(* Mutants: the close fee is not kept back; it is kept back even when      *)
(* there is nothing to close.                                              *)
PayoutInFull(q) == q.cap
PayoutLessFee(q) == IF q.cap > FeeEstimate THEN q.cap - FeeEstimate ELSE 0

(* Capital, as it was read, less the close fee if there is a leg. *)
Payout(q) ==
  IF Flat(q) THEN q.cap
  ELSE IF q.cap > FeeEstimate THEN q.cap - FeeEstimate ELSE 0

ClientInit == Init /\ asked = [w \in Wallet |-> Nothing] /\ moves = 0

(* The close of n, computed from one look at its portfolio. *)
Computed(n, mk) ==
  LET q == pf[n][mk]
      a == FirstLeg(q)
  IN  [waiting |-> TRUE, n |-> n, mk |-> mk, a |-> a,
       side |-> FlipSide(q.leg[a]), size |-> Magnitude(q.leg[a]),
       amount |-> Payout(q), owed |-> IF Flat(q) THEN q.pnl ELSE 0]

(* The read.  Who bears the NFT is not looked at; the program will. *)
Read(w, n, mk) ==
  /\ ~asked[w].waiting
  /\ pf[n][mk].exists
  /\ asked' = [asked EXCEPT ![w] = Computed(n, mk)]
  /\ UNCHANGED <<vars, moves>>

Accepted(w, r, st) ==
  CanClose(w, r.n, r.mk, r.n, st, r.a, r.side, r.size, r.amount)

(* The send: the program closes the position or refuses. *)
Send(w, st) ==
  /\ asked[w].waiting
  /\ LET r == asked[w] IN
     IF Accepted(w, r, st)
     THEN ClosePosition(w, w, r.n, r.mk, r.n, st, r.a, r.side, r.size, r.amount)
     ELSE UNCHANGED vars
  /\ asked' = [asked EXCEPT ![w] = Nothing]
  /\ UNCHANGED moves

(* Opens as in PositionProgram, and everybody else's doings. *)
Open ==
  /\ \E w \in Wallet, n \in Nft, mk \in Market, st \in Stash, a \in Asset,
        side \in Side, size \in Size, amount \in Amount :
       OpenPosition(w, n, mk, n, st, a, side, size, amount)
  /\ UNCHANGED <<asked, moves>>

Others ==
  /\ \E w \in Wallet, n \in Nft :
       \/ \E vetted \in BOOLEAN : CreateMint(w, n, vetted)
       \/ \E x \in Wallet : CreateNftAccount(w, x, n)
       \/ \E st \in Stash : CreateStaging(w, n, st)
       \/ \E st \in Stash, amount \in Amount : FundStaging(w, n, st, amount)
       \/ FundPda(w, n)
       \/ BurnOutside(w, n)
  /\ UNCHANGED <<asked, moves>>

Moved ==
  moves < MaxMoves /\ moves' = moves + 1 /\ UNCHANGED asked

MarkMoves ==
  \E n \in Nft, mk \in Market, pnl \in -PnlBound .. PnlBound :
    Accrue(n, mk, pnl) /\ Moved

Sold == \E w, x \in Wallet, n \in Nft : TransferNft(w, x, n) /\ Moved

Liquidated ==
  /\ \E n \in Nft, mk \in Market : Liquidation(n, mk)
  /\ UNCHANGED <<asked, moves>>

Keeper ==
  /\ \E n \in Nft, mk \in Market : Crank(n, mk)
  /\ UNCHANGED <<asked, moves>>

Command(w) ==
  \/ \E n \in Nft, mk \in Market : Read(w, n, mk)
  \/ \E st \in Stash : Send(w, st)

CliNext ==
  \/ Others \/ Open \/ MarkMoves \/ Sold \/ Liquidated \/ Keeper
  \/ \E w \in Wallet : Command(w)

(* Holders who keep running the command, and nobody who has to help them.  *)
AloneSpec ==
  /\ ClientInit /\ [][CliNext]_cvars
  /\ \A w \in Wallet : WF_cvars(Command(w))

-----------------------------------------------------------------------------
(* What the command-line client promises. *)

(* n has a portfolio in mk and none in another market. *)
OnlyMarket(n, mk) ==
  pf[n][mk].exists /\ \A k \in Market \ {mk} : ~pf[n][k].exists

(* A close computed from a stale read, whose flatten and payout no longer  *)
(* are what is there (processor.rs:388-436), burns the NFT of a position   *)
(* that keeps a leg only if it asked for no payout and a liquidation had   *)
(* cut, between the read and the send, the very leg it meant to flatten.   *)
OnlyCutLegsStay ==
  [][\A n \in redeemed' \ redeemed, mk \in Market : ~Flat(pf'[n][mk]) =>
       \E w \in Wallet :
         LET r == asked[w] IN
           /\ r.waiting /\ r.n = n /\ r.mk = mk /\ ~asked'[w].waiting
           /\ r.amount = 0
           /\ Magnitude(pf[n][mk].leg[r.a]) < r.size]_cvars

(* The part of the estimated fee that no order will ever cost. *)
Overestimate == IF FeeEstimate > OrderFee THEN FeeEstimate - OrderFee ELSE 0

(* Nor does it leave principal behind: what stays in a portfolio it has    *)
(* redeemed is, but for a fee estimated too high, at most the profit that  *)
(* was not released yet when it looked, or when its close ran              *)
(* (cli.ts:84-88).                                                         *)
PrincipalPaid ==
  [][\A n \in redeemed' \ redeemed :
       \E w \in Wallet :
         /\ asked[w].waiting /\ asked[w].n = n /\ ~asked'[w].waiting
         /\ \A mk \in Market :
              LET left == pf'[n][mk].cap - Overestimate
              IN  left <= 0 \/ left <= pf[n][mk].pnl \/ left <= asked[w].owed
    ]_cvars

(* A lifeboat that waits for nothing but a settled loss (cli.ts:2-3,       *)
(* 58-108): a request of the holder that is still what the command would   *)
(* compute now is accepted, whatever happened in between.  So positions[0] *)
(* is the only leg, the flipped side flattens it, the payout is there, and *)
(* some staging account can be closed.                                     *)
AccurateIsAccepted ==
  \A w \in Wallet :
    LET r == asked[w] IN
      /\ r.waiting /\ r.n \notin redeemed /\ HoldsNft(w, r.n)
      /\ r = Computed(r.n, r.mk)
      /\ pf[r.n][r.mk].pnl >= 0 \/ r.amount = 0
      => \E st \in Stash : Accepted(w, r, st)

(* A loss that nobody has settled stands between n and what the command    *)
(* would ask for (cli.ts:87).                                              *)
Owing(n) ==
  \E mk \in Market :
    pf[n][mk].exists /\ pf[n][mk].pnl < 0 /\ Payout(pf[n][mk]) > 0

(* Once the mark rests, a holder who keeps running the command redeems the *)
(* position with nobody's help, whatever is donated, sold or liquidated,   *)
(* unless such a loss stays (cli.ts:2-3, 58-108).                          *)
RedeemedUnlessOwing == \A n \in Nft : <>[]Live(n) => <>[]Owing(n)

-----------------------------------------------------------------------------
(* Sentences of the documentation that the command does not keep; each is  *)
(* the property of a run that exhibits a counterexample, and so is         *)
(* RedeemedIsFlat (position.ts:13-17), which its own close breaks.  *)

(* A position can be inspected and redeemed "with no frontend, no keeper,  *)
(* and no cooperation from anyone" (cli.ts:2-3): once the mark rests, a    *)
(* holder who keeps running the command redeems it.                        *)
EventuallyRedeemed == \A n \in Nft : Live(n) ~> ~Live(n)

(* "Withdraw everything the flatten leaves behind" (cli.ts:84-85): no      *)
(* capital stays in a redeemed position.                                   *)
NothingLeftBehind ==
  \A n \in redeemed, mk \in Market : pf[n][mk].cap = 0

-----------------------------------------------------------------------------
(* The inductive invariant behind OnlyCutLegsStay and PrincipalPaid. *)

AskedTypeOK == asked \in [Wallet -> {Nothing} \cup Request]

(* The leg positions[0] shows is the only one. *)
AtMostOneLeg(q) ==
  \A a, b \in Asset : q.leg[a] # 0 /\ q.leg[b] # 0 => a = b

(* Until it is redeemed a position has one portfolio, made by its open,    *)
(* with one leg at most, even if its unit was burned outside.              *)
OnePortfolio ==
  \A n \in Nft :
    /\ \A mk \in Market : ~pf[n][mk].exists => pf[n][mk] = NoPortfolio
    /\ n \in redeemed => \E mk \in Market : pf[n][mk].exists
    /\ n \notin redeemed =>
         \A mk \in Market : pf[n][mk].exists =>
           /\ OnlyMarket(n, mk) /\ mint[n].exists /\ ~mint[n].authority
           /\ AtMostOneLeg(pf[n][mk])

(* A portfolio that lost its leg before it was redeemed was liquidated. *)
LiquidatedIsPoor ==
  \A n \in Nft \ redeemed, mk \in Market :
    pf[n][mk].exists /\ Flat(pf[n][mk]) => Equity(pf[n][mk]) <= Maintenance

(* r against the portfolio q as it is now.  A leg that is still there is   *)
(* the leg that was read or what a liquidation left of it, and the capital *)
(* has not grown; without one, the client saw none either, and what it saw *)
(* is still all there, or it asks for an order.                            *)
StillFits(r, q) ==
  /\ q.exists
  /\ ~Flat(q) =>
       /\ q.leg[r.a] # 0
       /\ Magnitude(q.leg[r.a]) <= r.size /\ r.side = FlipSide(q.leg[r.a])
       /\ q.cap <= r.amount + FeeEstimate
  /\ Flat(q) /\ r.size = 0 => Equity(q) = r.amount + r.owed

RequestsFit ==
  \A w \in Wallet :
    asked[w].waiting /\ asked[w].n \notin redeemed =>
      StillFits(asked[w], pf[asked[w].n][asked[w].mk])

(* Preserved by every step, however many moves, and however wrong the      *)
(* client's estimate of the fee (cli.ts:58-108).                           *)
ClientInductive ==
  /\ Inductive /\ AskedTypeOK /\ OnePortfolio /\ LiquidatedIsPoor
  /\ RequestsFit

(* What a liquidated portfolio has left does not pay for an order. *)
LiquidatedCannotOrder == Maintenance <= OrderFee
=============================================================================
