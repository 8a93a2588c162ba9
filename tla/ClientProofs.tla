---------------------------- MODULE ClientProofs ----------------------------
(***************************************************************************)
(* Proofs about the command-line client, for every number of positions,    *)
(* wallets, markets and assets, every fee and estimate, and any number of  *)
(* market moves: stale as its read may be, its close leaves no leg behind  *)
(* but one that a liquidation cut meanwhile, and no principal.             *)
(***************************************************************************)
EXTENDS Client, PositionProofs

-----------------------------------------------------------------------------
(* What a step does to one position. *)

(* The mint went through an open and was not closed since. *)
Opened(n) == mint[n].exists /\ ~mint[n].authority

(* Its portfolios are left alone, and nothing is minted. *)
Kept(n) ==
  /\ pf'[n] = pf[n]
  /\ n \in redeemed' <=> n \in redeemed
  /\ Opened(n) => Opened(n)'
  /\ mint[n].supply = 0 => mint'[n].supply = 0

OpenedAt(n, mk) ==
  \E w \in Wallet, st \in Stash, a \in Asset, side \in Side, size \in Size,
     amount \in Amount : OpenPosition(w, n, mk, n, st, a, side, size, amount)

(* w's client closes it. *)
ClosedBy(w, n) ==
  /\ asked[w].waiting /\ asked[w].n = n /\ asked'[w] = Nothing
  /\ \E st \in Stash :
       ClosePosition(w, w, n, asked[w].mk, n, st, asked[w].a, asked[w].side,
                     asked[w].size, asked[w].amount)

EngineAt(n, mk) ==
  \/ \E pnl \in -PnlBound .. PnlBound : Accrue(n, mk, pnl)
  \/ Liquidation(n, mk)
  \/ Crank(n, mk)

(* A waiting wallet has a request in hand. *)
LEMMA RequestType ==
  ASSUME AskedTypeOK, NEW w \in Wallet, asked[w].waiting
  PROVE  asked[w] \in Request
BY DEF AskedTypeOK, Nothing

(* The clients' own steps, sales included, mint nothing and move no        *)
(* portfolio.                                                              *)
LEMMA ClientKeeps ==
  ASSUME Inductive, ClientNext, NEW m \in Nft
  PROVE  Kept(m) /\ redeemed' = redeemed
<1> SUFFICES ASSUME NEW w \in Wallet, NEW n \in Nft,
                    \/ \E vetted \in BOOLEAN : CreateMint(w, n, vetted)
                    \/ \E x \in Wallet : CreateNftAccount(w, x, n)
                    \/ \E st \in Stash : CreateStaging(w, n, st)
                    \/ \E st \in Stash, amount \in Amount :
                         FundStaging(w, n, st, amount)
                    \/ FundPda(w, n)
                    \/ \E x \in Wallet : TransferNft(w, x, n)
                    \/ BurnOutside(w, n)
             PROVE  /\ redeemed' = redeemed
                    /\ Opened(m) => Opened(m)'
                    /\ mint[m].supply = 0 => mint'[m].supply = 0
  BY ClientPaysNobody DEF ClientNext, Kept
<1>1. ASSUME NEW vetted \in BOOLEAN, CreateMint(w, n, vetted)
      PROVE  /\ redeemed' = redeemed
             /\ Opened(m) => Opened(m)'
             /\ mint[m].supply = 0 => mint'[m].supply = 0
  <2> DEFINE new == [NoMint EXCEPT !.exists = TRUE, !.vetted = vetted,
                                   !.authority = TRUE]
  <2>1. /\ ~mint[n].exists /\ redeemed' = redeemed
        /\ mint' = [mint EXCEPT ![n] = new]
    BY <1>1 DEF CreateMint
  <2>2. new.supply = 0
    BY DEF NoMint
  <2> HIDE DEF new
  <2>3. mint'[n].supply = 0 /\ (m # n => mint'[m] = mint[m])
    BY <2>1, <2>2 DEF Inductive, TypeOK
  <2> QED
    BY <2>1, <2>3 DEF Opened
<1>2. ASSUME NEW x \in Wallet, CreateNftAccount(w, x, n) \/ TransferNft(w, x, n)
      PROVE  redeemed' = redeemed /\ mint' = mint
  BY <1>2 DEF CreateNftAccount, TransferNft
<1>3. ASSUME FundPda(w, n) \/ \E st \in Stash : CreateStaging(w, n, st)
      PROVE  redeemed' = redeemed /\ mint' = mint
  BY <1>3 DEF CreateStaging, FundPda
<1>4. ASSUME NEW st \in Stash, NEW amount \in Amount,
             FundStaging(w, n, st, amount)
      PROVE  redeemed' = redeemed /\ mint' = mint
  BY <1>4 DEF FundStaging
<1>5. CASE BurnOutside(w, n)
  <2>1. mint[n].supply = 1
    BY <1>5, UnitIsBearer DEF BurnOutside, BearerOf, Inductive
  <2>2. \A k \in Nft : /\ mint'[k].exists = mint[k].exists
                       /\ mint'[k].authority = mint[k].authority
                       /\ k # n => mint'[k] = mint[k]
    BY <1>5 DEF BurnOutside, Mint, Inductive, TypeOK
  <2>3. redeemed' = redeemed
    BY <1>5 DEF BurnOutside
  <2>4. Opened(m) => Opened(m)'
    BY <2>2 DEF Opened
  <2>5. mint[m].supply = 0 => mint'[m].supply = 0
    <3>1. CASE m = n
      BY <2>1, <3>1
    <3>2. CASE m # n
      BY <2>2, <3>2
    <3> QED
      BY <3>1, <3>2
  <2> QED
    BY <2>3, <2>4, <2>5
<1>6. mint' = mint => /\ Opened(m) => Opened(m)'
                      /\ mint[m].supply = 0 => mint'[m].supply = 0
  BY DEF Opened
<1> QED
  BY <1>1, <1>2, <1>3, <1>4, <1>5, <1>6

(* One client step, seen by the position program: it is one of the         *)
(* program's own steps, or the close a waiting client computed.            *)
LEMMA StepKinds ==
  ASSUME AskedTypeOK, CliNext
  PROVE  \/ ClientNext
         \/ \E n \in Nft, mk \in Market : OpenedAt(n, mk)
         \/ \E w \in Wallet : ClosedBy(w, asked[w].n)
         \/ \E n \in Nft, mk \in Market : EngineAt(n, mk)
         \/ UNCHANGED vars
<1>1. CASE Others
  BY <1>1 DEF Others, ClientNext
<1>2. CASE Open
  BY <1>2 DEF Open, OpenedAt
<1>3. CASE MarkMoves
  BY <1>3 DEF MarkMoves, EngineAt
<1>4. CASE Sold
  BY <1>4 DEF Sold, ClientNext
<1>5. CASE Liquidated
  BY <1>5 DEF Liquidated, EngineAt
<1>6. CASE Keeper
  BY <1>6 DEF Keeper, EngineAt
<1>7. ASSUME NEW w \in Wallet, NEW n \in Nft, NEW mk \in Market,
             Read(w, n, mk)
      PROVE  UNCHANGED vars
  BY <1>7 DEF Read
<1>8. ASSUME NEW w \in Wallet, NEW st \in Stash, Send(w, st)
      PROVE  ClosedBy(w, asked[w].n) \/ UNCHANGED vars
  <2>1. asked'[w] = Nothing
    BY <1>8 DEF Send, AskedTypeOK
  <2> QED
    BY <1>8, <2>1 DEF Send, ClosedBy
<1> QED
  BY <1>1, <1>2, <1>3, <1>4, <1>5, <1>6, <1>7, <1>8 DEF CliNext, Command

(* The same, seen by one position. *)
LEMMA StepOfOne ==
  ASSUME Inductive, AskedTypeOK, CliNext, NEW m \in Nft
  PROVE  \/ Kept(m)
         \/ \E mk \in Market : OpenedAt(m, mk)
         \/ \E w \in Wallet : ClosedBy(w, m)
         \/ \E mk \in Market : EngineAt(m, mk)
<1>1. CASE ClientNext
  BY <1>1, ClientKeeps
<1>2. ASSUME NEW n \in Nft, NEW mk \in Market, OpenedAt(n, mk), m # n
      PROVE  Kept(m)
  <2>1. PICK w \in Wallet, st \in Stash, a \in Asset, side \in Side,
             size \in Size, amount \in Amount :
               OpenPosition(w, n, mk, n, st, a, side, size, amount)
    BY <1>2 DEF OpenedAt
  <2>2. /\ mint'[m] = mint[m] /\ pf'[m] = pf[m]
        /\ redeemed' = redeemed
    BY <1>2, <2>1 DEF OpenPosition, Inductive, TypeOK
  <2> QED
    BY <2>2 DEF Kept, Opened
<1>3. ASSUME NEW w \in Wallet, ClosedBy(w, asked[w].n), m # asked[w].n
      PROVE  Kept(m)
  <2> DEFINE r == asked[w]
  <2>1. PICK st \in Stash : ClosePosition(w, w, r.n, r.mk, r.n, st, r.a,
                                          r.side, r.size, r.amount)
    BY <1>3 DEF ClosedBy
  <2>2. r \in Request
    BY <1>3, RequestType DEF ClosedBy
  <2>3. r.n \in Nft
    BY <2>2 DEF Request
  <2> HIDE DEF r
  <2>4. /\ mint'[m] = mint[m] /\ pf'[m] = pf[m]
        /\ redeemed' = redeemed \cup {r.n}
    BY <1>3, <2>1, <2>3 DEF ClosePosition, RetireNft, Inductive, TypeOK, r
  <2> QED
    BY <1>3, <2>4 DEF Kept, Opened, r
<1>4. ASSUME NEW n \in Nft, NEW mk \in Market, EngineAt(n, mk), m # n
      PROVE  Kept(m)
  <2>1. PICK s : EngineOnly(n, mk, s)
    BY <1>4 DEF EngineAt, Accrue, Liquidation, Crank
  <2>2. mint' = mint /\ pf'[m] = pf[m] /\ redeemed' = redeemed
    BY <1>4, <2>1 DEF EngineOnly, Inductive, TypeOK
  <2> QED
    BY <2>2 DEF Kept, Opened
<1>5. CASE UNCHANGED vars
  BY <1>5 DEF vars, Kept, Opened
<1>6. ASSUME NEW w \in Wallet, ClosedBy(w, asked[w].n), m = asked[w].n
      PROVE  ClosedBy(w, m)
  BY <1>6
<1> QED
  BY <1>1, <1>2, <1>3, <1>4, <1>5, <1>6, StepKinds

(* Seen by one wallet's client. *)
LEMMA StepOfClient ==
  ASSUME AskedTypeOK, CliNext, NEW v \in Wallet
  PROVE  \/ asked'[v] = asked[v]
         \/ asked'[v] = Nothing
         \/ \E n \in Nft, mk \in Market : Read(v, n, mk)
<1>1. ASSUME NEW w \in Wallet, NEW st \in Stash, Send(w, st)
      PROVE  asked'[v] = asked[v] \/ asked'[v] = Nothing
  BY <1>1 DEF Send, AskedTypeOK
<1>2. ASSUME NEW w \in Wallet, NEW n \in Nft, NEW mk \in Market,
             Read(w, n, mk), w # v
      PROVE  asked'[v] = asked[v]
  BY <1>2 DEF Read, AskedTypeOK
<1>3. ASSUME Others \/ Open \/ Liquidated \/ Keeper
      PROVE  asked' = asked
  BY <1>3 DEF Others, Open, Liquidated, Keeper
<1>4. ASSUME MarkMoves \/ Sold
      PROVE  asked' = asked
  BY <1>4 DEF MarkMoves, Sold, Moved
<1> QED
  BY <1>1, <1>2, <1>3, <1>4 DEF CliNext, Command

(* The bearer invariants hold of the client's world too: its closes are    *)
(* closes like any other, whatever size and amount they carry.             *)
LEMMA ProgramInductive ==
  ASSUME Inductive, AskedTypeOK, CliNext
  PROVE  Inductive'
<1>1. CASE ClientNext
  BY <1>1, InductiveNext DEF Next
<1>2. CASE \E n \in Nft, mk \in Market : OpenedAt(n, mk)
  BY <1>2, InductiveNext DEF OpenedAt, Next, ProgramNext
<1>3. ASSUME NEW w \in Wallet, ClosedBy(w, asked[w].n)
      PROVE  Inductive'
  <2> DEFINE r == asked[w]
  <2>1. PICK st \in Stash : ClosePosition(w, w, r.n, r.mk, r.n, st, r.a,
                                          r.side, r.size, r.amount)
    BY <1>3 DEF ClosedBy
  <2>2. r \in Request
    BY <1>3, RequestType DEF ClosedBy
  <2>3. /\ r.n \in Nft /\ r.mk \in Market /\ r.a \in Asset
        /\ r.side \in Side /\ r.size \in Nat /\ r.amount \in Nat
    BY <2>2 DEF Request
  <2> HIDE DEF r
  <2> QED
    BY <2>1, <2>3, CloseTypeOK, CloseOneBearer, CloseExposure DEF Inductive
<1>4. CASE \E n \in Nft, mk \in Market : EngineAt(n, mk)
  BY <1>4, InductiveNext DEF EngineAt, Next, EngineNext
<1>5. CASE UNCHANGED vars
  BY <1>5, InductiveNext
<1> QED
  BY <1>1, <1>2, <1>3, <1>4, <1>5, StepKinds

-----------------------------------------------------------------------------
(* What the steps that do touch a position leave of it. *)

(* An open needs the mint authority and leaves one leg, a new portfolio    *)
(* and no authority.                                                       *)
LEMMA OpenResult ==
  ASSUME Inductive, NEW n \in Nft, NEW mk \in Market, OpenedAt(n, mk)
  PROVE  /\ ~Opened(n) /\ Opened(n)' /\ redeemed' = redeemed
         /\ ~pf[n][mk].exists
         /\ pf'[n][mk].exists /\ ~Flat(pf'[n][mk])
         /\ AtMostOneLeg(pf'[n][mk])
         /\ \A k \in Market \ {mk} : pf'[n][k] = pf[n][k]
<1> USE DEF Inductive
<1>1. PICK w \in Wallet, st \in Stash, a \in Asset, side \in Side,
           size \in Size, amount \in Amount :
             OpenPosition(w, n, mk, n, st, a, side, size, amount)
  BY DEF OpenedAt
<1> DEFINE t == PlaceOrder(Opening(mk, amount), a, side, size)
<1>2. size \in Nat /\ size # 0 /\ ~pf[n][mk].exists
  BY <1>1, InputAssumption DEF OpenPosition, CanOpen
<1>3. Opening(mk, amount) \in Accounts
  BY OpeningType
<1>4. /\ t.q.exists /\ t.q.leg[a] = Signed(side, size)
      /\ \A b \in Asset \ {a} : t.q.leg[b] = 0
  <2>1. /\ Opening(mk, amount).q.exists
        /\ \A b \in Asset : Opening(mk, amount).q.leg[b] = 0
    BY OpeningType
  <2>2. /\ t.q.exists
        /\ t.q.leg[a] = 0 + Signed(side, size)
        /\ \A b \in Asset \ {a} : t.q.leg[b] = 0
    BY <1>2, <1>3, <2>1, PlaceOrderType, PlaceOrderLegs
  <2>3. Signed(side, size) \in Int
    BY <1>2 DEF Signed
  <2> QED
    BY <2>2, <2>3
<1>5. ~Flat(t.q) /\ AtMostOneLeg(t.q)
  <2>1. ~Flat(t.q)
    BY <1>2, <1>4 DEF Flat, Signed
  <2> HIDE DEF t
  <2>2. AtMostOneLeg(t.q)
    BY <1>4 DEF AtMostOneLeg
  <2> QED
    BY <2>1, <2>2
<1>6. pf' = [pf EXCEPT ![n][mk] = t.q] /\ redeemed' = redeemed
  BY <1>1 DEF OpenPosition
<1>7. /\ mint[n].authority /\ mint[n].exists
      /\ mint' = [mint EXCEPT ![n] = Minted(@, side, mk)]
  BY <1>1 DEF OpenPosition, CanOpen, VerifyPositionMint
<1>8. mint'[n].exists /\ ~mint'[n].authority
  <2>1. mint[n] \in Mint /\ mint'[n] = Minted(mint[n], side, mk)
    BY <1>7 DEF TypeOK
  <2>2. \A m \in Mint : /\ Minted(m, side, mk).exists = m.exists
                        /\ Minted(m, side, mk).authority = FALSE
    BY DEF Minted, Mint
  <2> QED
    BY <1>7, <2>1, <2>2
<1> HIDE DEF t
<1>9. /\ pf'[n][mk] = t.q
      /\ \A k \in Market \ {mk} : pf'[n][k] = pf[n][k]
  BY <1>6 DEF TypeOK
<1> QED
  BY <1>2, <1>4, <1>5, <1>6, <1>7, <1>8, <1>9 DEF Opened

(* The engine only cuts legs, and lets no capital grow under one; a        *)
(* portfolio it takes the leg of has next to nothing left.                 *)
LEMMA EngineResult ==
  ASSUME Inductive, NEW n \in Nft, NEW mk \in Market, EngineAt(n, mk)
  PROVE  /\ mint' = mint /\ redeemed' = redeemed
         /\ \A k \in Market \ {mk} : pf'[n][k] = pf[n][k]
         /\ pf[n][mk].exists /\ pf'[n][mk].exists
         /\ \A a \in Asset : CutFrom(pf'[n][mk].leg[a], pf[n][mk].leg[a])
         /\ Flat(pf[n][mk]) => Equity(pf'[n][mk]) = Equity(pf[n][mk])
         /\ ~Flat(pf'[n][mk]) => pf'[n][mk].cap <= pf[n][mk].cap
         /\ ~Flat(pf[n][mk]) /\ Flat(pf'[n][mk]) =>
              Equity(pf'[n][mk]) <= Maintenance
<1> USE DEF Inductive
<1> DEFINE b == Before(mk, n)
           q == pf[n][mk]
           Result(s) ==
             /\ q.exists /\ s.q.exists
             /\ \A a \in Asset : CutFrom(s.q.leg[a], q.leg[a])
             /\ Flat(q) => Equity(s.q) = Equity(q)
             /\ ~Flat(s.q) => s.q.cap <= q.cap
             /\ ~Flat(q) /\ Flat(s.q) => Equity(s.q) <= Maintenance
<1>0. /\ b \in Accounts /\ b.q = q
      /\ q.cap \in Nat /\ \A a \in Asset : q.leg[a] \in Int
  BY BeforeType DEF TypeOK, Portfolio
<1>1. ASSUME NEW s, EngineOnly(n, mk, s)
      PROVE  /\ mint' = mint /\ redeemed' = redeemed /\ pf'[n][mk] = s.q
             /\ \A k \in Market \ {mk} : pf'[n][k] = pf[n][k]
  BY <1>1 DEF EngineOnly, TypeOK
<1>2. ASSUME NEW pnl \in -PnlBound .. PnlBound, Accrue(n, mk, pnl)
      PROVE  \E s : EngineOnly(n, mk, s) /\ Result(s)
  <2> DEFINE s == [b EXCEPT !.q.pnl = pnl]
  <2>1. EngineOnly(n, mk, s) /\ q.exists /\ ~Flat(q)
    BY <1>2 DEF Accrue
  <2> HIDE DEF b, q
  <2>2. s.q.exists = b.q.exists /\ s.q.leg = b.q.leg /\ s.q.cap = b.q.cap
    BY <1>0 DEF Accounts, Portfolio
  <2> HIDE DEF s
  <2>3. Flat(s.q) <=> Flat(q)
    BY <1>0, <2>2 DEF Flat
  <2>4. \A a \in Asset : CutFrom(s.q.leg[a], q.leg[a])
    BY <1>0, <2>2, Uncut
  <2>5. s.q.cap <= q.cap
    BY <1>0, <2>2
  <2>6. Result(s)
    BY <1>0, <2>1, <2>2, <2>3, <2>4, <2>5
  <2> HIDE DEF Result
  <2> QED
    BY <2>1, <2>6
<1>3. ASSUME Liquidation(n, mk)
      PROVE  \E s : EngineOnly(n, mk, s) /\ Result(s)
  <2>1. q.exists /\ ~Flat(q) /\ Equity(q) <= Maintenance
    BY <1>3 DEF Liquidation, Liquidatable
  <2>2. PICK s \in Accounts :
          /\ EngineOnly(n, mk, s)
          /\ s.q.exists = q.exists
          /\ \A a \in Asset : CutFrom(s.q.leg[a], q.leg[a])
          /\ Equity(s.q) = Equity(q)
          /\ ~Flat(s.q) => s.q.cap <= q.cap
    BY <1>3, LiquidationCuts
  <2> HIDE DEF q
  <2>3. Result(s)
    BY <2>1, <2>2
  <2> HIDE DEF Result
  <2> QED
    BY <2>2, <2>3
<1>4. ASSUME Crank(n, mk)
      PROVE  \E s : EngineOnly(n, mk, s) /\ Result(s)
  <2> DEFINE s == SettlePnl(b)
  <2>1. EngineOnly(n, mk, s) /\ q.exists
    BY <1>4 DEF Crank
  <2> HIDE DEF b, q
  <2>2. /\ s.q.exists = b.q.exists /\ s.q.leg = b.q.leg
        /\ Equity(s.q) = Equity(b.q)
    BY <1>0, SettlePnlType
  <2>3. ~Flat(b.q) => s.q.cap <= b.q.cap
    BY <1>0, SettleMoney, SettledBound, SettledRange
  <2> HIDE DEF s
  <2>4. Flat(s.q) <=> Flat(q)
    BY <1>0, <2>2 DEF Flat
  <2>5. \A a \in Asset : CutFrom(s.q.leg[a], q.leg[a])
    BY <1>0, <2>2, Uncut
  <2>6. Result(s)
    BY <1>0, <2>1, <2>2, <2>3, <2>4, <2>5
  <2> HIDE DEF Result
  <2> QED
    BY <2>1, <2>6
<1> HIDE DEF Result
<1>5. PICK s : EngineOnly(n, mk, s) /\ Result(s)
  BY <1>2, <1>3, <1>4 DEF EngineAt
<1> QED
  BY <1>1, <1>5 DEF Result

(* A close ends the unit; the portfolio keeps what its CPIs leave less the *)
(* payout.                                                                 *)
LEMMA CloseResult ==
  ASSUME Inductive, AskedTypeOK, NEW w \in Wallet, NEW n \in Nft,
         ClosedBy(w, n)
  PROVE  LET r == asked[w]
             s == AfterSettle(r.mk, n, r.a, r.side, r.size)
         IN  /\ r \in Request /\ s \in Accounts
             /\ HoldsNft(w, n) /\ pf[n][r.mk].exists
             /\ r.size > 0 => OrderAccepted(pf[n][r.mk], r.a, r.side, r.size)
             /\ redeemed' = redeemed \cup {n} /\ mint'[n].supply = 0
             /\ pf'[n][r.mk].exists /\ pf'[n][r.mk].leg = s.q.leg
             /\ pf'[n][r.mk].cap = s.q.cap - r.amount
             /\ ~Flat(s.q) => r.amount = 0
             /\ \A k \in Market \ {r.mk} : pf'[n][k] = pf[n][k]
<1> USE DEF Inductive
<1> DEFINE r == asked[w]
           s == AfterSettle(r.mk, n, r.a, r.side, r.size)
           q == IF r.amount > 0 THEN Withdraw(s.q, r.amount) ELSE s.q
<1>1. r \in Request
  BY RequestType DEF ClosedBy
<1>2. /\ r.mk \in Market /\ r.a \in Asset /\ r.side \in Side
      /\ r.size \in Nat /\ r.amount \in Nat
  BY <1>1 DEF Request
<1>3. PICK st \in Stash : ClosePosition(w, w, n, r.mk, n, st, r.a, r.side,
                                        r.size, r.amount)
  BY DEF ClosedBy
<1> HIDE DEF r
<1>4. s \in Accounts /\ s.q.exists = pf[n][r.mk].exists
  BY <1>2, AfterSettleType
<1>5. /\ HoldsNft(w, n) /\ pf[n][r.mk].exists
      /\ r.size > 0 => OrderAccepted(pf[n][r.mk], r.a, r.side, r.size)
      /\ r.amount > 0 => Flat(s.q)
  BY <1>3 DEF ClosePosition, CanClose, FlattenAccepted, PayoutAccepted,
              WithdrawAccepted
<1>6. Unissued(n)'
  BY <1>2, <1>3, CloseOneBearer
<1>7. redeemed' = redeemed \cup {n} /\ pf' = [pf EXCEPT ![n][r.mk] = q]
  BY <1>3 DEF ClosePosition
<1>8. q.exists = s.q.exists /\ q.leg = s.q.leg /\ q.cap = s.q.cap - r.amount
  BY <1>2, <1>4 DEF Withdraw, Accounts, Portfolio
<1> HIDE DEF q, s
<1>9. pf'[n][r.mk] = q /\ \A k \in Market \ {r.mk} : pf'[n][k] = pf[n][k]
  BY <1>2, <1>7 DEF TypeOK
<1>10. ~Flat(s.q) => r.amount = 0
  BY <1>2, <1>5
<1>11. mint'[n].supply = 0
  BY <1>6 DEF Unissued
<1>12. pf'[n][r.mk].exists /\ pf'[n][r.mk].leg = s.q.leg
       /\ pf'[n][r.mk].cap = s.q.cap - r.amount
  BY <1>4, <1>5, <1>8, <1>9
<1>13. /\ r \in Request /\ s \in Accounts
       /\ HoldsNft(w, n) /\ pf[n][r.mk].exists
       /\ r.size > 0 => OrderAccepted(pf[n][r.mk], r.a, r.side, r.size)
       /\ redeemed' = redeemed \cup {n} /\ mint'[n].supply = 0
       /\ pf'[n][r.mk].exists /\ pf'[n][r.mk].leg = s.q.leg
       /\ pf'[n][r.mk].cap = s.q.cap - r.amount
       /\ ~Flat(s.q) => r.amount = 0
       /\ \A k \in Market \ {r.mk} : pf'[n][k] = pf[n][k]
  BY <1>1, <1>4, <1>5, <1>7, <1>9, <1>10, <1>11, <1>12
<1> QED
  BY <1>13 DEF r, s

-----------------------------------------------------------------------------
(* A request that still fits closes the position for good. *)

(* What the legs of a leg may become by an order is arithmetic. *)
LEMMA FlattensOrCrosses ==
  \A i \in Int \ {0} : \A size \in Nat :
    Magnitude(i) <= size =>
      /\ size > 0
      /\ \/ i + Signed(FlipSide(i), size) = 0
         \/ Magnitude(i) < size
BY DEF Magnitude, FlipSide, Signed, Short, Long

(* A close leaves a leg only if it asks for no payout and for more than    *)
(* the leg that is there.                                                  *)
LEMMA CloseLeavesCutLegs ==
  ASSUME Inductive, AskedTypeOK, NEW w \in Wallet, NEW n \in Nft,
         ClosedBy(w, n),
         AtMostOneLeg(pf[n][asked[w].mk]),
         StillFits(asked[w], pf[n][asked[w].mk])
  PROVE  LET r == asked[w]
         IN  ~Flat(pf'[n][r.mk]) =>
               r.amount = 0 /\ Magnitude(pf[n][r.mk].leg[r.a]) < r.size
<1> USE DEF Inductive
<1> DEFINE r == asked[w]
           q == pf[n][r.mk]
           s == AfterSettle(r.mk, n, r.a, r.side, r.size)
<1>1. /\ r \in Request /\ pf'[n][r.mk].leg = s.q.leg
      /\ ~Flat(s.q) => r.amount = 0
  BY CloseResult
<1>2. /\ r.mk \in Market /\ r.a \in Asset /\ r.side \in Side /\ r.size \in Nat
  BY <1>1 DEF Request
<1>3. q \in Portfolio /\ q.leg[r.a] \in Int
  BY <1>2 DEF TypeOK, Portfolio
<1>4. StillFits(r, q) /\ AtMostOneLeg(q)
  OBVIOUS
<1>5. r.size = 0 => s.q.leg = q.leg
  BY <1>2, SettleOnly
<1>6. r.size > 0 =>
        /\ s.q.leg[r.a] = q.leg[r.a] + Signed(r.side, r.size)
        /\ \A b \in Asset \ {r.a} : s.q.leg[b] = q.leg[b]
  BY <1>2, AfterOrderLegs
<1> SUFFICES ASSUME ~Flat(pf'[n][r.mk])
             PROVE  Magnitude(q.leg[r.a]) < r.size
  BY <1>1 DEF Flat
<1>7. ~Flat(s.q)
  BY <1>1 DEF Flat
<1> HIDE DEF r, q, s
<1>8. CASE Flat(q)
  <2>1. Magnitude(q.leg[r.a]) = 0
    BY <1>2, <1>8 DEF Flat, Magnitude
  <2>2. r.size # 0
    BY <1>5, <1>7, <1>8 DEF Flat
  <2> QED
    BY <1>2, <2>1, <2>2
<1>9. CASE ~Flat(q)
  <2>1. /\ q.leg[r.a] # 0 /\ Magnitude(q.leg[r.a]) <= r.size
        /\ r.side = FlipSide(q.leg[r.a])
    BY <1>4, <1>9 DEF StillFits
  <2>2. /\ r.size > 0
        /\ \/ q.leg[r.a] + Signed(r.side, r.size) = 0
           \/ Magnitude(q.leg[r.a]) < r.size
    BY <1>2, <1>3, <2>1, FlattensOrCrosses
  <2>3. \A b \in Asset \ {r.a} : q.leg[b] = 0
    BY <1>2, <1>4, <2>1 DEF AtMostOneLeg
  <2>4. q.leg[r.a] + Signed(r.side, r.size) = 0 => Flat(s.q)
    BY <1>6, <2>2, <2>3 DEF Flat
  <2> QED
    BY <1>7, <2>2, <2>4
<1> QED
  BY <1>8, <1>9

(* The close of a portfolio without a leg carries no order, or the engine  *)
(* refuses it.                                                             *)
LEMMA NoOrderWithoutLeg ==
  ASSUME Inductive, AskedTypeOK, LiquidatedCannotOrder, NEW w \in Wallet,
         NEW n \in Nft, ClosedBy(w, n),
         Flat(pf[n][asked[w].mk]) =>
           Equity(pf[n][asked[w].mk]) <= Maintenance,
         StillFits(asked[w], pf[n][asked[w].mk])
  PROVE  Flat(pf[n][asked[w].mk]) <=> asked[w].size = 0
<1> USE DEF Inductive
<1> DEFINE r == asked[w]
           q == pf[n][r.mk]
<1>1. /\ r \in Request
      /\ r.size > 0 => OrderAccepted(q, r.a, r.side, r.size)
  BY CloseResult
<1>2. /\ r.mk \in Market /\ r.a \in Asset /\ r.side \in Side /\ r.size \in Nat
  BY <1>1 DEF Request
<1>3. q.leg[r.a] \in Int /\ Equity(q) \in Int
  BY <1>2 DEF TypeOK, Portfolio, Equity
<1>4. /\ StillFits(r, q)
      /\ Flat(q) => Equity(q) <= Maintenance
  OBVIOUS
<1> HIDE DEF r, q
<1>5. ASSUME Flat(q) PROVE r.size = 0
  <2> SUFFICES ASSUME r.size > 0 PROVE FALSE
    BY <1>2
  <2>1. q.leg[r.a] = 0
    BY <1>2, <1>5 DEF Flat
  <2>2. ~(Magnitude(0 + Signed(r.side, r.size)) < Magnitude(0))
    BY <1>2 DEF Magnitude, Signed
  <2>3. Equity(q) > OrderFee
    BY <1>1, <2>1, <2>2 DEF OrderAccepted
  <2> QED
    BY <1>3, <1>4, <1>5, <2>3, OrderFeeAssumption, MaintenanceAssumption
       DEF LiquidatedCannotOrder
<1>6. ASSUME ~Flat(q) PROVE r.size # 0
  <2>1. q.leg[r.a] # 0 /\ Magnitude(q.leg[r.a]) <= r.size
    BY <1>4, <1>6 DEF StillFits
  <2>2. r.size > 0
    BY <1>2, <1>3, <2>1, FlattensOrCrosses
  <2> QED
    BY <2>2
<1> QED
  BY <1>5, <1>6 DEF r, q

(* What is left of the capital is profit. *)
LEMMA CloseLeavesProfit ==
  ASSUME Inductive, AskedTypeOK, LiquidatedCannotOrder, NEW w \in Wallet,
         NEW n \in Nft, ClosedBy(w, n),
         Flat(pf[n][asked[w].mk]) =>
           Equity(pf[n][asked[w].mk]) <= Maintenance,
         StillFits(asked[w], pf[n][asked[w].mk])
  PROVE  LET r == asked[w]
             left == pf'[n][r.mk].cap - Overestimate
         IN  left <= 0 \/ left <= pf[n][r.mk].pnl \/ left <= r.owed
<1> USE DEF Inductive
<1> DEFINE r == asked[w]
           q == pf[n][r.mk]
           b == Before(r.mk, n)
           t == Flattened(r.mk, n, r.a, r.side, r.size)
           cap == pf'[n][r.mk].cap
<1>1. /\ r \in Request
      /\ cap = AfterSettle(r.mk, n, r.a, r.side, r.size).q.cap - r.amount
  BY CloseResult
<1>2. /\ r.mk \in Market /\ r.a \in Asset /\ r.side \in Side /\ r.size \in Nat
      /\ r.amount \in Nat /\ r.owed \in Int
  BY <1>1 DEF Request
<1>3. StillFits(r, q)
  OBVIOUS
<1>4. Flat(q) <=> r.size = 0
  BY NoOrderWithoutLeg
<1> HIDE DEF r
<1>5. /\ b \in Accounts /\ b.q = q /\ q.cap \in Nat /\ q.pnl \in Int
  BY <1>2, BeforeType DEF Accounts, Portfolio
<1>6. /\ OrderFee \in Nat /\ FeeEstimate \in Nat /\ Overestimate \in Nat
      /\ FeeEstimate - OrderFee <= Overestimate
  BY OrderFeeAssumption, ClientAssumption DEF Overestimate
<1>7. ASSUME t \in Accounts
      PROVE  /\ cap = (t.q.cap + Settled(t)) - r.amount
             /\ t.q.pnl >= 0 => Settled(t) <= t.q.pnl
             /\ t.q.pnl < 0 => Settled(t) = t.q.pnl \/ Settled(t) = -t.q.cap
             /\ Settled(t) \in Int /\ t.q.cap \in Nat
  <2>1. cap = SettlePnl(t).q.cap - r.amount
    BY <1>1 DEF AfterSettle
  <2>2. t.q.cap \in Nat
    BY <1>7 DEF Accounts, Portfolio
  <2> HIDE DEF t, cap
  <2>3. SettlePnl(t).q.cap = t.q.cap + Settled(t)
    BY <1>7, SettleMoney
  <2>4. Settled(t) \in Int
    BY <1>7, SettledRange
  <2>5. /\ t.q.pnl >= 0 => Settled(t) <= t.q.pnl
        /\ t.q.pnl < 0 => Settled(t) = t.q.pnl \/ Settled(t) = -t.q.cap
    BY <1>7, SettledBound
  <2>6. cap = (t.q.cap + Settled(t)) - r.amount
    BY <2>1, <2>3
  <2> QED
    BY <2>2, <2>4, <2>5, <2>6
<1>8. CASE r.size = 0
  <2>1. t = b
    BY <1>8 DEF Flattened
  <2>2. q.cap + q.pnl = r.amount + r.owed
    BY <1>3, <1>4, <1>8 DEF StillFits, Equity
  <2> HIDE DEF t, cap, b
  <2>3. /\ cap = (q.cap + Settled(b)) - r.amount /\ Settled(b) \in Int
        /\ q.pnl >= 0 => Settled(b) <= q.pnl
        /\ q.pnl < 0 => Settled(b) = q.pnl \/ Settled(b) = -q.cap
    BY <1>5, <1>7, <2>1
  <2> HIDE DEF q
  <2>4. cap - Overestimate <= 0 \/ cap - Overestimate <= r.owed
    BY <1>2, <1>5, <1>6, <2>2, <2>3
  <2> QED
    BY <2>4 DEF cap, r
<1>9. CASE r.size # 0
  <2> DEFINE fee == Least(OrderFee, q.cap)
  <2>1. t = PlaceOrder(b, r.a, r.side, r.size)
    BY <1>2, <1>9 DEF Flattened
  <2>2. t \in Accounts /\ t.q.cap = q.cap - fee /\ t.q.pnl = q.pnl
    BY <1>2, <1>5, <2>1, PlaceOrderType, OrderMoney
  <2>3. q.cap <= r.amount + FeeEstimate
    BY <1>3, <1>4, <1>9 DEF StillFits
  <2>4. fee = OrderFee \/ fee = q.cap
    BY DEF Least
  <2> HIDE DEF t, cap, fee
  <2>5. /\ cap = ((q.cap - fee) + Settled(t)) - r.amount /\ Settled(t) \in Int
        /\ q.pnl >= 0 => Settled(t) <= q.pnl
        /\ q.pnl < 0 => Settled(t) = q.pnl \/ Settled(t) = -(q.cap - fee)
    BY <1>7, <2>2
  <2> HIDE DEF q
  <2>6. q.cap - fee - r.amount <= Overestimate
    BY <1>2, <1>5, <1>6, <2>3, <2>4
  <2>7. fee \in Int
    BY <1>5, <1>6, <2>4
  <2>8. cap - Overestimate <= 0 \/ cap - Overestimate <= q.pnl
    BY <1>2, <1>5, <1>6, <2>5, <2>6, <2>7
  <2> QED
    BY <2>8 DEF cap, q, r
<1> QED
  BY <1>8, <1>9

-----------------------------------------------------------------------------
(* The inductive invariant, one position and one wallet at a time. *)

(* What OnePortfolio and LiquidatedIsPoor say of n. *)
SoundPosition(n) ==
  /\ \A mk \in Market : ~pf[n][mk].exists => pf[n][mk] = NoPortfolio
  /\ n \in redeemed => \E mk \in Market : pf[n][mk].exists
  /\ n \notin redeemed =>
       \A mk \in Market : pf[n][mk].exists =>
         /\ OnlyMarket(n, mk) /\ Opened(n)
         /\ AtMostOneLeg(pf[n][mk])
         /\ Flat(pf[n][mk]) => Equity(pf[n][mk]) <= Maintenance

(* The two parts, position by position. *)
LEMMA SoundIsAll ==
  ASSUME ClientInductive, NEW n \in Nft
  PROVE  SoundPosition(n)
<1> USE DEF ClientInductive
<1>1. /\ \A mk \in Market : ~pf[n][mk].exists => pf[n][mk] = NoPortfolio
      /\ n \in redeemed => \E mk \in Market : pf[n][mk].exists
  BY DEF OnePortfolio
<1>2. ASSUME n \notin redeemed, NEW mk \in Market, pf[n][mk].exists
      PROVE  /\ OnlyMarket(n, mk) /\ Opened(n)
             /\ AtMostOneLeg(pf[n][mk])
             /\ Flat(pf[n][mk]) => Equity(pf[n][mk]) <= Maintenance
  BY <1>2 DEF OnePortfolio, LiquidatedIsPoor, Opened
<1> QED
  BY <1>1, <1>2 DEF SoundPosition

(* Legs that are only cut stay flat, and stay at most one. *)
LEMMA CutLegs ==
  ASSUME NEW p, NEW q, \A a \in Asset : q.leg[a] \in Int,
         \A a \in Asset : CutFrom(p.leg[a], q.leg[a])
  PROVE  /\ \A a \in Asset : q.leg[a] = 0 => p.leg[a] = 0
         /\ Flat(q) => Flat(p)
         /\ AtMostOneLeg(q) => AtMostOneLeg(p)
<1>1. ASSUME NEW a \in Asset
      PROVE  q.leg[a] = 0 => p.leg[a] = 0
  <2> DEFINE i == p.leg[a]
             j == q.leg[a]
  <2>1. j \in Int /\ CutFrom(i, j)
    BY Zenon
  <2> HIDE DEF i, j
  <2>2. j = 0 => i = 0
    BY <2>1, CutSide
  <2> QED
    BY <2>2 DEF i, j
<1>2. Flat(q) => Flat(p)
  BY <1>1, Zenon DEF Flat
<1>3. AtMostOneLeg(q) => AtMostOneLeg(p)
  BY <1>1, Zenon DEF AtMostOneLeg
<1> QED
  BY <1>1, <1>2, <1>3, Zenon

(* A request for a position not yet redeemed fits the one portfolio there  *)
(* is.                                                                     *)
LEMMA FirstCloseFits ==
  ASSUME ClientInductive, NEW w \in Wallet,
         NEW n \in Nft \ redeemed, ClosedBy(w, n)
  PROVE  /\ asked[w].mk \in Market /\ OnlyMarket(n, asked[w].mk)
         /\ AtMostOneLeg(pf[n][asked[w].mk])
         /\ Flat(pf[n][asked[w].mk]) =>
              Equity(pf[n][asked[w].mk]) <= Maintenance
         /\ StillFits(asked[w], pf[n][asked[w].mk])
<1> USE DEF ClientInductive
<1>1. asked[w] \in Request /\ pf[n][asked[w].mk].exists
  BY CloseResult
<1>2. asked[w].mk \in Market
  BY <1>1 DEF Request
<1>3. SoundPosition(n)
  BY SoundIsAll
<1>4. StillFits(asked[w], pf[n][asked[w].mk])
  BY DEF RequestsFit, ClosedBy
<1> QED
  BY <1>1, <1>2, <1>3, <1>4 DEF SoundPosition

(* Every step keeps a position sound. *)
LEMMA SoundNext ==
  ASSUME ClientInductive, CliNext, NEW n \in Nft
  PROVE  SoundPosition(n)'
<1>0. SoundPosition(n) /\ Inductive /\ AskedTypeOK
  BY SoundIsAll DEF ClientInductive
<1>1. CASE Kept(n)
  BY <1>0, <1>1 DEF Kept, SoundPosition, OnlyMarket
<1>2. ASSUME NEW mk \in Market, OpenedAt(n, mk)
      PROVE  SoundPosition(n)'
  <2>1. /\ ~Opened(n) /\ Opened(n)' /\ redeemed' = redeemed
        /\ ~pf[n][mk].exists
        /\ pf'[n][mk].exists /\ ~Flat(pf'[n][mk])
        /\ AtMostOneLeg(pf'[n][mk])
        /\ \A k \in Market \ {mk} : pf'[n][k] = pf[n][k]
    BY <1>0, <1>2, OpenResult
  <2>2. \A k \in Market : ~pf'[n][k].exists => pf'[n][k] = NoPortfolio
    BY <1>0, <2>1 DEF SoundPosition
  <2>3. CASE n \in redeemed
    BY <2>1, <2>2, <2>3 DEF SoundPosition
  <2>4. CASE n \notin redeemed
    <3>1. \A k \in Market : ~pf[n][k].exists
      BY <1>0, <2>1, <2>4 DEF SoundPosition
    <3>2. \A k \in Market \ {mk} : ~pf'[n][k].exists
      BY <2>1, <3>1
    <3>3. OnlyMarket(n, mk)'
      BY <2>1, <3>2 DEF OnlyMarket
    <3> QED
      BY <2>1, <2>2, <2>4, <3>2, <3>3 DEF SoundPosition
  <2> QED
    BY <2>3, <2>4
<1>3. ASSUME NEW w \in Wallet, ClosedBy(w, n)
      PROVE  SoundPosition(n)'
  <2> DEFINE k == asked[w].mk
  <2>1. /\ asked[w] \in Request
        /\ redeemed' = redeemed \cup {n}
        /\ pf'[n][k].exists
        /\ \A j \in Market \ {k} : pf'[n][j] = pf[n][j]
    BY <1>0, <1>3, CloseResult
  <2>2. k \in Market
    BY <2>1 DEF Request
  <2> HIDE DEF k
  <2>3. \A j \in Market : ~pf'[n][j].exists => pf'[n][j] = NoPortfolio
    BY <1>0, <2>1, <2>2 DEF SoundPosition
  <2> QED
    BY <2>1, <2>2, <2>3 DEF SoundPosition
<1>4. ASSUME NEW mk \in Market, EngineAt(n, mk)
      PROVE  SoundPosition(n)'
  <2> DEFINE p == pf'[n][mk]
             q == pf[n][mk]
  <2>1. /\ mint' = mint /\ redeemed' = redeemed
        /\ \A k \in Market \ {mk} : pf'[n][k] = pf[n][k]
        /\ q.exists /\ p.exists
        /\ \A a \in Asset : CutFrom(p.leg[a], q.leg[a])
        /\ Flat(q) => Equity(p) = Equity(q)
        /\ ~Flat(q) /\ Flat(p) => Equity(p) <= Maintenance
    BY <1>0, <1>4, EngineResult
  <2>2. \A a \in Asset : q.leg[a] \in Int
    BY <1>0 DEF Inductive, TypeOK, Portfolio
  <2>3. AtMostOneLeg(q) => AtMostOneLeg(p)
    <3> HIDE DEF p, q
    <3> QED
      BY <2>1, <2>2, CutLegs
  <2>4. \A j \in Market : ~pf'[n][j].exists => pf'[n][j] = NoPortfolio
    BY <1>0, <2>1 DEF SoundPosition
  <2>5. CASE n \in redeemed
    BY <2>1, <2>4, <2>5 DEF SoundPosition
  <2>6. CASE n \notin redeemed
    <3>1. /\ OnlyMarket(n, mk) /\ Opened(n) /\ AtMostOneLeg(q)
          /\ Flat(q) => Equity(q) <= Maintenance
      BY <1>0, <2>1, <2>6 DEF SoundPosition
    <3>2. \A j \in Market : pf'[n][j].exists => j = mk
      BY <2>1, <3>1 DEF OnlyMarket
    <3>3. OnlyMarket(n, mk)' /\ Opened(n)'
      BY <2>1, <3>1 DEF Opened, OnlyMarket
    <3>4. Flat(p) => Equity(p) <= Maintenance
      <4> HIDE DEF p, q
      <4> QED
        BY <2>1, <3>1
    <3> QED
      BY <2>1, <2>3, <2>4, <2>6, <3>1, <3>2, <3>3, <3>4 DEF SoundPosition
  <2> QED
    BY <2>5, <2>6
<1> QED
  BY <1>0, <1>1, <1>2, <1>3, <1>4, StepOfOne

(* What the client computes from a portfolio is a request, and it fits.    *)
LEMMA ReadResult ==
  ASSUME Inductive, AskedTypeOK, NEW w \in Wallet, NEW n \in Nft,
         NEW mk \in Market, Read(w, n, mk)
  PROVE  /\ asked' = [asked EXCEPT ![w] = asked'[w]]
         /\ asked'[w] \in Request
         /\ asked'[w].n = n /\ asked'[w].mk = mk
         /\ StillFits(asked'[w], pf[n][mk])
<1> DEFINE q == pf[n][mk]
           a == FirstLeg(q)
           owed == IF Flat(q) THEN q.pnl ELSE 0
           r == [waiting |-> TRUE, n |-> n, mk |-> mk, a |-> a,
                 side |-> FlipSide(q.leg[a]), size |-> Magnitude(q.leg[a]),
                 amount |-> Payout(q), owed |-> owed]
<1>1. /\ q \in Portfolio /\ q.exists /\ q.cap \in Nat /\ q.pnl \in Int
      /\ \A b \in Asset : q.leg[b] \in Int
  BY DEF Read, Inductive, TypeOK, Portfolio
<1>2. asked' = [asked EXCEPT ![w] = r]
  BY DEF Read, Computed
<1>3. asked'[w] = r
  BY <1>2 DEF AskedTypeOK
<1> HIDE DEF q
<1>4. \E b \in Asset : q.leg[b] # 0 \/ Flat(q)
  BY AssetAssumption DEF Flat
<1>5. a \in Asset /\ (q.leg[a] # 0 \/ Flat(q))
  BY <1>4 DEF FirstLeg
<1>6. ASSUME NEW i \in Int
      PROVE  /\ Magnitude(i) \in Nat /\ FlipSide(i) \in Side
             /\ i # 0 <=> Magnitude(i) # 0
             /\ Magnitude(i) <= Magnitude(i)
  BY DEF Magnitude, FlipSide, Side, Short, Long
<1>7. /\ Payout(q) \in Nat /\ q.cap <= Payout(q) + FeeEstimate
      /\ Flat(q) => Payout(q) = q.cap
      /\ FeeEstimate \in Nat
  BY <1>1, ClientAssumption DEF Payout
<1>8. owed \in Int /\ (Flat(q) => owed = q.pnl)
  BY <1>1
<1> HIDE DEF a, owed
<1>9. r \in Request
  BY <1>1, <1>5, <1>6, <1>7, <1>8 DEF Request
<1>10. StillFits(r, q)
  BY <1>1, <1>5, <1>6, <1>7, <1>8 DEF StillFits, Equity
<1>11. r.n = n /\ r.mk = mk
  OBVIOUS
<1> HIDE DEF r
<1> QED
  BY <1>2, <1>3, <1>9, <1>10, <1>11 DEF q

(* Every step leaves each wallet a request, or nothing, in hand.           *)
LEMMA AskedNext ==
  ASSUME Inductive, AskedTypeOK, CliNext
  PROVE  AskedTypeOK'
<1>1. ASSUME NEW w \in Wallet, NEW n \in Nft, NEW mk \in Market,
             Read(w, n, mk)
      PROVE  AskedTypeOK'
  BY <1>1, ReadResult DEF AskedTypeOK
<1>2. ASSUME NEW w \in Wallet, NEW st \in Stash, Send(w, st)
      PROVE  AskedTypeOK'
  BY <1>2 DEF Send, AskedTypeOK
<1>3. ASSUME Others \/ Open \/ Liquidated \/ Keeper
      PROVE  asked' = asked
  BY <1>3 DEF Others, Open, Liquidated, Keeper
<1>4. ASSUME MarkMoves \/ Sold
      PROVE  asked' = asked
  BY <1>4 DEF MarkMoves, Sold, Moved
<1> QED
  BY <1>1, <1>2, <1>3, <1>4 DEF CliNext, Command, AskedTypeOK

(* What a leg may be cut to fits the order that was computed from it. *)
LEMMA CutFitsOrder ==
  \A i, j \in Int : CutFrom(i, j) /\ i # 0 =>
    /\ FlipSide(i) = FlipSide(j) /\ Magnitude(i) <= Magnitude(j)
    /\ Magnitude(i) \in Nat /\ Magnitude(j) \in Nat
    /\ j # 0
BY DEF CutFrom, FlipSide, Magnitude

(* A request that fits q fits what the engine makes of q. *)
LEMMA FitsCut ==
  ASSUME NEW r \in Request, NEW q \in Portfolio, NEW p \in Portfolio,
         StillFits(r, q), AtMostOneLeg(q), p.exists,
         \A a \in Asset : CutFrom(p.leg[a], q.leg[a]),
         Flat(q) => Equity(p) = Equity(q),
         ~Flat(p) => p.cap <= q.cap
  PROVE  StillFits(r, p)
<1>1. /\ r.a \in Asset /\ r.size \in Nat /\ r.amount \in Nat
      /\ q.cap \in Nat /\ p.cap \in Nat /\ FeeEstimate \in Nat
      /\ \A a \in Asset : p.leg[a] \in Int /\ q.leg[a] \in Int
  BY ClientAssumption DEF Request, Portfolio
<1>2. /\ \A a \in Asset : q.leg[a] = 0 => p.leg[a] = 0
      /\ Flat(q) => Flat(p)
  BY <1>1, CutLegs
<1>3. CASE ~Flat(p)
  <2>1. PICK a \in Asset : p.leg[a] # 0
    BY <1>3 DEF Flat
  <2>2. /\ ~Flat(q) /\ q.leg[a] # 0
    BY <1>2, <1>3, <2>1
  <2>3. /\ q.leg[r.a] # 0 /\ Magnitude(q.leg[r.a]) <= r.size
        /\ r.side = FlipSide(q.leg[r.a])
        /\ q.cap <= r.amount + FeeEstimate
    BY <2>2 DEF StillFits
  <2>4. a = r.a
    BY <1>1, <2>2, <2>3 DEF AtMostOneLeg
  <2> DEFINE i == p.leg[a]
             j == q.leg[a]
  <2>5. CutFrom(i, j) /\ i \in Int /\ j \in Int /\ i # 0
    BY <1>1, <2>1, Zenon
  <2> HIDE DEF i, j
  <2>6. /\ FlipSide(i) = FlipSide(j) /\ Magnitude(i) <= Magnitude(j)
        /\ Magnitude(i) \in Nat /\ Magnitude(j) \in Nat
    BY <2>5, CutFitsOrder
  <2>7. /\ Magnitude(p.leg[r.a]) <= r.size
        /\ r.side = FlipSide(p.leg[r.a]) /\ p.leg[r.a] # 0
    BY <1>1, <2>1, <2>3, <2>4, <2>6 DEF i, j
  <2>8. p.cap <= r.amount + FeeEstimate
    BY <1>1, <1>3, <2>3
  <2> QED
    BY <1>3, <2>7, <2>8 DEF StillFits
<1>4. CASE Flat(p) /\ ~Flat(q)
  <2>1. q.leg[r.a] # 0 /\ Magnitude(q.leg[r.a]) <= r.size
    BY <1>4 DEF StillFits
  <2>2. r.size > 0
    BY <1>1, <2>1, FlattensOrCrosses
  <2> QED
    BY <1>4, <2>2 DEF StillFits
<1>5. CASE Flat(q)
  BY <1>2, <1>5 DEF StillFits
<1> QED
  BY <1>3, <1>4, <1>5

(* A request that fits goes on fitting, whoever moves, until the position  *)
(* is redeemed: no leg changes but to be cut, no capital grows under one,  *)
(* and what is left without one stays together.                            *)
LEMMA FitsNext ==
  ASSUME ClientInductive, CliNext
  PROVE  RequestsFit'
<1> USE DEF ClientInductive
<1> SUFFICES ASSUME NEW v \in Wallet, asked'[v].waiting,
                    asked'[v].n \notin redeemed'
             PROVE  StillFits(asked'[v], pf'[asked'[v].n][asked'[v].mk])
  BY DEF RequestsFit
<1>1. ASSUME NEW n \in Nft, NEW mk \in Market, Read(v, n, mk)
      PROVE  StillFits(asked'[v], pf'[asked'[v].n][asked'[v].mk])
  <2>1. pf' = pf
    BY <1>1 DEF Read, vars
  <2> QED
    BY <1>1, <2>1, ReadResult
<1>2. ASSUME asked'[v] = asked[v]
      PROVE  StillFits(asked'[v], pf'[asked'[v].n][asked'[v].mk])
  <2> DEFINE r == asked[v]
             n == r.n
             q == pf[n][r.mk]
  <2>1. r \in Request
    BY <1>2, RequestType
  <2>2. n \in Nft /\ r.mk \in Market /\ r.a \in Asset /\ n \notin redeemed'
    BY <1>2, <2>1 DEF Request
  <2>3. n \notin redeemed => StillFits(r, q)
    BY <1>2 DEF RequestsFit
  <2>4. q \in Portfolio
    BY <2>2 DEF Inductive, TypeOK
  <2> SUFFICES StillFits(r, pf'[n][r.mk])
    BY <1>2
  <2> HIDE DEF r, n, q
  <2>5. CASE Kept(n)
    BY <2>2, <2>3, <2>5 DEF Kept, q
  <2>6. ASSUME NEW mk \in Market, OpenedAt(n, mk)
        PROVE  FALSE
    <3>1. ~Opened(n) /\ redeemed' = redeemed
      BY <2>2, <2>6, OpenResult
    <3>2. q.exists
      BY <2>2, <2>3, <3>1 DEF StillFits
    <3> QED
      BY <2>2, <3>1, <3>2, SoundIsAll DEF SoundPosition, q
  <2>7. ASSUME NEW w \in Wallet, ClosedBy(w, n)
        PROVE  FALSE
    BY <2>2, <2>7, CloseResult
  <2>8. ASSUME NEW mk \in Market, EngineAt(n, mk)
        PROVE  StillFits(r, pf'[n][r.mk])
    <3> DEFINE p == pf'[n][mk]
               o == pf[n][mk]
    <3>1. /\ redeemed' = redeemed
          /\ o.exists /\ p.exists
          /\ \A a \in Asset : CutFrom(p.leg[a], o.leg[a])
          /\ Flat(o) => Equity(p) = Equity(o)
          /\ ~Flat(p) => p.cap <= o.cap
      BY <2>2, <2>8, EngineResult
    <3>2. StillFits(r, q)
      BY <2>2, <2>3, <3>1
    <3>3. mk = r.mk /\ AtMostOneLeg(q)
      BY <2>2, <3>1, <3>2, SoundIsAll
         DEF SoundPosition, OnlyMarket, StillFits, q
    <3>4. p \in Portfolio
      <4>1. TypeOK'
        BY ProgramInductive DEF Inductive
      <4> QED
        BY <2>2, <4>1 DEF TypeOK
    <3>5. o = q
      BY <3>3 DEF q
    <3> SUFFICES StillFits(r, p)
      BY <3>3
    <3> HIDE DEF p, o
    <3> QED
      BY <2>1, <2>2, <2>4, <3>1, <3>2, <3>3, <3>4, <3>5, FitsCut
  <2> QED
    BY <2>2, <2>5, <2>6, <2>7, <2>8, StepOfOne
<1>3. asked'[v] # Nothing
  BY DEF Nothing
<1> QED
  BY <1>1, <1>2, <1>3, StepOfClient

(* Before anything happened it holds. *)
LEMMA ClientInductiveInit ==
  ASSUME ClientInit
  PROVE  ClientInductive
<1>1. Inductive
  BY InductiveInit DEF ClientInit
<1>2. redeemed = {} /\ \A n \in Nft, mk \in Market : pf[n][mk] = NoPortfolio
  BY DEF ClientInit, Init
<1>3. ~NoPortfolio.exists
  BY DEF NoPortfolio
<1>4. AskedTypeOK /\ \A w \in Wallet : ~asked[w].waiting
  BY DEF ClientInit, AskedTypeOK, Nothing
<1>5. OnePortfolio /\ LiquidatedIsPoor
  BY <1>2, <1>3 DEF OnePortfolio, LiquidatedIsPoor
<1>6. RequestsFit
  BY <1>4 DEF RequestsFit
<1> QED
  BY <1>1, <1>4, <1>5, <1>6 DEF ClientInductive

(* And every step keeps it. *)
LEMMA ClientInductiveNext ==
  ASSUME ClientInductive, [CliNext]_cvars
  PROVE  ClientInductive'
<1>1. CASE UNCHANGED cvars
  <2>1. UNCHANGED vars /\ UNCHANGED asked
    BY <1>1 DEF cvars
  <2>2. Inductive'
    BY <2>1, InductiveNext DEF ClientInductive
  <2>3. AskedTypeOK'
    BY <2>1 DEF ClientInductive, AskedTypeOK
  <2>4. OnePortfolio'
    BY <2>1 DEF ClientInductive, OnePortfolio, OnlyMarket, vars
  <2>5. LiquidatedIsPoor'
    BY <2>1 DEF ClientInductive, LiquidatedIsPoor, vars
  <2>6. RequestsFit'
    BY <2>1 DEF ClientInductive, RequestsFit, vars
  <2> QED
    BY <2>2, <2>3, <2>4, <2>5, <2>6 DEF ClientInductive
<1>2. CASE CliNext
  <2>1. Inductive' /\ AskedTypeOK'
    BY <1>2, ProgramInductive, AskedNext DEF ClientInductive
  <2>2. RequestsFit'
    BY <1>2, FitsNext
  <2>3. \A n \in Nft : SoundPosition(n)'
    BY <1>2, SoundNext
  <2>4. OnePortfolio'
    BY <2>3 DEF OnePortfolio, SoundPosition, Opened
  <2>5. LiquidatedIsPoor'
    BY <2>3 DEF LiquidatedIsPoor, SoundPosition
  <2> QED
    BY <2>1, <2>2, <2>4, <2>5 DEF ClientInductive
<1> QED
  BY <1>1, <1>2

-----------------------------------------------------------------------------
(* What the client promises. *)

(* However many wallets run the command, sell their NFTs and are           *)
(* liquidated, in whole or in part, meanwhile: a request in hand stays     *)
(* true to its portfolio, up to a leg that was cut (cli.ts:58-108).        *)
THEOREM ClientStaysSound ==
  ClientInit /\ [][CliNext]_cvars => []ClientInductive
<1>1. ClientInit => ClientInductive
  BY ClientInductiveInit
<1>2. ClientInductive /\ [CliNext]_cvars => ClientInductive'
  BY ClientInductiveNext
<1> QED
  BY <1>1, <1>2, PTL

(* The same of the specification with fairness, which the runs check.      *)
THEOREM ClientInvariant == AloneSpec => []ClientInductive
BY ClientStaysSound, PTL DEF AloneSpec

(* The step that redeems a position is the close of one wallet's client,   *)
(* and no other portfolio of that position holds anything.                 *)
LEMMA Redemption ==
  ASSUME ClientInductive, CliNext, NEW n \in redeemed' \ redeemed
  PROVE  /\ n \in Nft
         /\ \E w \in Wallet :
              /\ ClosedBy(w, n)
              /\ asked[w].waiting /\ asked[w].n = n /\ ~asked'[w].waiting
              /\ \A mk \in Market \ {asked[w].mk} :
                   pf'[n][mk] = NoPortfolio
<1>1. Inductive /\ AskedTypeOK
  BY DEF ClientInductive
<1>2. n \in Nft
  BY <1>1, ProgramInductive DEF Inductive, TypeOK
<1>3. PICK w \in Wallet : ClosedBy(w, n)
  BY <1>1, <1>2, StepOfOne, OpenResult, EngineResult DEF Kept
<1>4. asked[w].waiting /\ asked[w].n = n /\ ~asked'[w].waiting
  BY <1>3 DEF ClosedBy, Nothing
<1>5. ASSUME NEW mk \in Market, mk # asked[w].mk
      PROVE  pf'[n][mk] = NoPortfolio
  <2>1. pf'[n][mk] = pf[n][mk]
    BY <1>1, <1>2, <1>3, <1>5, CloseResult
  <2>2. SoundPosition(n) /\ OnlyMarket(n, asked[w].mk)
    BY <1>2, <1>3, SoundIsAll, FirstCloseFits
  <2>3. pf[n][mk] = NoPortfolio
    BY <1>5, <2>2 DEF SoundPosition, OnlyMarket
  <2> QED
    BY <2>1, <2>3
<1> QED
  BY <1>2, <1>3, <1>4, <1>5

(* One step that redeems a position leaves a leg only if it was cut. *)
LEMMA CutStep ==
  ASSUME ClientInductive, CliNext, NEW n \in redeemed' \ redeemed,
         NEW mk \in Market, ~Flat(pf'[n][mk])
  PROVE  \E w \in Wallet :
           LET r == asked[w] IN
             /\ r.waiting /\ r.n = n /\ r.mk = mk /\ ~asked'[w].waiting
             /\ r.amount = 0
             /\ Magnitude(pf[n][mk].leg[r.a]) < r.size
<1>1. n \in Nft
  BY Redemption
<1>2. PICK w \in Wallet :
        /\ ClosedBy(w, n)
        /\ asked[w].waiting /\ asked[w].n = n /\ ~asked'[w].waiting
        /\ \A k \in Market \ {asked[w].mk} : pf'[n][k] = NoPortfolio
  BY Redemption
<1>3. Flat(NoPortfolio)
  BY DEF Flat, NoPortfolio
<1>4. mk = asked[w].mk
  BY <1>2, <1>3
<1>5. /\ AtMostOneLeg(pf[n][asked[w].mk])
      /\ StillFits(asked[w], pf[n][asked[w].mk])
  BY <1>1, <1>2, FirstCloseFits
<1>6. /\ asked[w].amount = 0
      /\ Magnitude(pf[n][mk].leg[asked[w].a]) < asked[w].size
  BY <1>1, <1>2, <1>4, <1>5, CloseLeavesCutLegs DEF ClientInductive
<1> QED
  BY <1>2, <1>4, <1>6

(* However stale its read, the client's close burns the NFT of a position  *)
(* that keeps a leg only if it asked for no payout and a liquidation had   *)
(* cut the leg it meant to flatten (processor.rs:388-436).                 *)
THEOREM ClientLeavesOnlyCutLegs == AloneSpec => OnlyCutLegsStay
<1>1. ClientInductive /\ [CliNext]_cvars =>
        [\A n \in redeemed' \ redeemed, mk \in Market : ~Flat(pf'[n][mk]) =>
           \E w \in Wallet :
             LET r == asked[w] IN
               /\ r.waiting /\ r.n = n /\ r.mk = mk /\ ~asked'[w].waiting
               /\ r.amount = 0
               /\ Magnitude(pf[n][mk].leg[r.a]) < r.size]_cvars
  BY CutStep
<1> QED
  BY <1>1, ClientInvariant, PTL DEF AloneSpec, OnlyCutLegsStay

(* One step that redeems a position pays out all its principal. *)
LEMMA PrincipalStep ==
  ASSUME ClientInductive, LiquidatedCannotOrder, CliNext,
         NEW n \in redeemed' \ redeemed
  PROVE  \E w \in Wallet :
           /\ asked[w].waiting /\ asked[w].n = n /\ ~asked'[w].waiting
           /\ \A mk \in Market :
                LET left == pf'[n][mk].cap - Overestimate
                IN  left <= 0 \/ left <= pf[n][mk].pnl \/ left <= asked[w].owed
<1>1. n \in Nft
  BY Redemption
<1>2. PICK w \in Wallet :
        /\ ClosedBy(w, n)
        /\ asked[w].waiting /\ asked[w].n = n /\ ~asked'[w].waiting
        /\ \A k \in Market \ {asked[w].mk} : pf'[n][k] = NoPortfolio
  BY Redemption
<1>3. LET left == pf'[n][asked[w].mk].cap - Overestimate
      IN  \/ left <= 0
          \/ left <= pf[n][asked[w].mk].pnl
          \/ left <= asked[w].owed
  BY <1>1, <1>2, FirstCloseFits, CloseLeavesProfit DEF ClientInductive
<1>4. ASSUME NEW mk \in Market, mk # asked[w].mk
      PROVE  pf'[n][mk].cap - Overestimate <= 0
  <2>1. pf'[n][mk].cap = 0
    BY <1>2, <1>4 DEF NoPortfolio
  <2> QED
    BY <2>1, ClientAssumption, OrderFeeAssumption DEF Overestimate
<1> QED
  BY <1>2, <1>3, <1>4

(* The close that redeems a position leaves no more in it than the profit  *)
(* the engine had not released, and an overestimated fee (cli.ts:84-88).   *)
THEOREM ClientPaysPrincipal ==
  ASSUME LiquidatedCannotOrder
  PROVE  AloneSpec => PrincipalPaid
<1>1. ClientInductive /\ [CliNext]_cvars =>
        [\A n \in redeemed' \ redeemed :
           \E w \in Wallet :
             /\ asked[w].waiting /\ asked[w].n = n /\ ~asked'[w].waiting
             /\ \A mk \in Market :
                  LET left == pf'[n][mk].cap - Overestimate
                  IN  left <= 0 \/ left <= pf[n][mk].pnl
                        \/ left <= asked[w].owed
        ]_cvars
  BY PrincipalStep
<1> QED
  BY <1>1, ClientInvariant, PTL DEF AloneSpec, PrincipalPaid

-----------------------------------------------------------------------------
(* A request that is up to date. *)

(* The client's fee estimate covers the engine's fee. *)
FeeCovered == OrderFee <= FeeEstimate

(* Without a loss to settle, the close of a portfolio leaves at least what *)
(* the client computes from it: settling only adds to the capital.         *)
LEMMA PayoutIsThere ==
  ASSUME TypeOK, FeeCovered, NEW n \in Nft, NEW mk \in Market,
         NEW a \in Asset, NEW side \in Side, NEW size \in Nat,
         pf[n][mk].pnl >= 0, ~Flat(pf[n][mk]) \/ size = 0
  PROVE  /\ Payout(pf[n][mk]) \in Nat
         /\ Payout(pf[n][mk]) <= AfterSettle(mk, n, a, side, size).q.cap
<1> DEFINE q == pf[n][mk]
           h == house[mk]
           s == Flattened(mk, n, a, side, size)
<1>1. /\ q \in Portfolio /\ q.cap \in Nat /\ q.pnl \in Int /\ q.pnl >= 0
      /\ h \in Nat
  BY DEF TypeOK, Portfolio
<1>2. OrderFee \in Nat /\ FeeEstimate \in Nat /\ OrderFee <= FeeEstimate
  BY OrderFeeAssumption, ClientAssumption DEF FeeCovered
<1>3. /\ s.q.cap \in Nat /\ s.h \in Nat /\ s.q.pnl = q.pnl
      /\ Payout(q) \in Nat /\ Payout(q) <= s.q.cap
  <2>1. CASE size = 0
    <3>1. s.q = q /\ s.h = h
      BY <2>1 DEF Flattened, Before
    <3> QED
      BY <1>1, <1>2, <3>1 DEF Payout
  <2>2. CASE size > 0 /\ ~Flat(q)
    <3>1. /\ s.q.cap = q.cap - Least(OrderFee, q.cap) /\ s.q.pnl = q.pnl
          /\ s.h = h + Least(OrderFee, q.cap)
      BY <1>1, <2>2 DEF Flattened, Before, PlaceOrder, Portfolio
    <3>2. Payout(q) = IF q.cap > FeeEstimate THEN q.cap - FeeEstimate ELSE 0
      BY <2>2 DEF Payout
    <3> HIDE DEF q, s, h
    <3>3. Least(OrderFee, q.cap) \in Nat
          /\ Least(OrderFee, q.cap) <= OrderFee
          /\ Least(OrderFee, q.cap) <= q.cap
      BY <1>1, <1>2 DEF Least
    <3> QED
      BY <1>1, <1>2, <3>1, <3>2, <3>3
  <2> QED
    BY <2>1, <2>2
<1>4. s \in Accounts
  BY BeforeType, PlaceOrderType DEF Flattened
<1> HIDE DEF q, h, s
<1>5. Settled(s) \in Int /\ Settled(s) >= 0
  BY <1>1, <1>3 DEF Settled, Least
<1>6. SettlePnl(s).q.cap = s.q.cap + Settled(s)
  BY <1>4 DEF SettlePnl, Accounts, Portfolio
<1>7. AfterSettle(mk, n, a, side, size) = SettlePnl(s)
  BY DEF AfterSettle, s
<1> QED
  BY <1>3, <1>5, <1>6, <1>7 DEF q

(* A close that leaves a flat portfolio may ask for less than all. *)
LEMMA AnyPayout ==
  ASSUME TypeOK, NEW n \in Nft, NEW w \in Wallet, BearerOf(n, w),
         NEW mk \in Market, NEW a \in Asset, NEW side \in Side,
         NEW size \in Nat, NEW amount \in Nat, pf[n][mk].exists,
         size > 0 => OrderAccepted(pf[n][mk], a, side, size),
         Flat(AfterSettle(mk, n, a, side, size).q),
         amount <= AfterSettle(mk, n, a, side, size).q.cap
  PROVE  \E st \in Stash :
           CanClose(w, n, mk, n, st, a, side, size, amount)
<1>1. PICK st \in Stash :
        CanClose(w, n, mk, n, st, a, side, size,
                 AfterSettle(mk, n, a, side, size).q.cap)
  BY FlatCloses
<1>2. AfterSettle(mk, n, a, side, size).q.exists
  BY AfterSettleType
<1>3. PayoutAccepted(n, mk, n, a, side, size, amount)
  BY <1>2 DEF PayoutAccepted, WithdrawAccepted
<1>4. CanClose(w, n, mk, n, st, a, side, size, amount)
  BY <1>1, <1>3 DEF CanClose
<1> QED
  BY <1>4

(* What a holder's client computes from a portfolio as it is now is        *)
(* accepted.                                                               *)
LEMMA ComputedIsAccepted ==
  ASSUME ClientInductive, FeeCovered, NEW w \in Wallet, NEW n \in Nft,
         NEW mk \in Market, n \notin redeemed, HoldsNft(w, n),
         pf[n][mk].exists, pf[n][mk].pnl >= 0 \/ Payout(pf[n][mk]) = 0
  PROVE  \E st \in Stash : Accepted(w, Computed(n, mk), st)
<1> DEFINE q == pf[n][mk]
           a == FirstLeg(q)
           side == FlipSide(q.leg[a])
           size == Magnitude(q.leg[a])
<1>1. TypeOK /\ OneBearer /\ NamedExposure /\ OnePortfolio
  BY DEF ClientInductive, Inductive
<1>2. BearerOf(n, w)
  BY <1>1, UnitIsBearer DEF HoldsNft
<1>3. Exposed(q, mint[n].name)
  <2>1. Live(n)
    BY <1>2 DEF BearerOf, Live
  <2> DEFINE k == mint[n].market
  <2>2. k \in Market /\ Exposed(pf[n][k], mint[n].name)
    BY <1>1, <2>1 DEF NamedExposure
  <2> HIDE DEF k
  <2>3. k = mk
    BY <1>1, <2>2 DEF Exposed, OnePortfolio, OnlyMarket
  <2> QED
    BY <2>2, <2>3
<1>4. \E b \in Asset : q.leg[b] # 0 \/ Flat(q)
  BY AssetAssumption DEF Flat
<1>5. a \in Asset /\ (q.leg[a] # 0 \/ Flat(q))
  BY <1>4 DEF FirstLeg
<1>6. q.leg[a] \in Int
  BY <1>1, <1>5 DEF TypeOK, Portfolio
<1>7. side \in Side /\ size \in Nat
  BY <1>6 DEF FlipSide, Magnitude, Side, Short, Long
<1>8. /\ Computed(n, mk).n = n /\ Computed(n, mk).mk = mk
      /\ Computed(n, mk).a = a /\ Computed(n, mk).side = side
      /\ Computed(n, mk).size = size /\ Computed(n, mk).amount = Payout(q)
  BY DEF Computed
<1>9. \/ Flat(q) /\ size = 0
      \/ ~Flat(q) /\ size > 0
  BY <1>5, <1>6 DEF Magnitude, Flat
<1>10. /\ size > 0 => OrderAccepted(q, a, side, size)
       /\ Flat(AfterSettle(mk, n, a, side, size).q)
  <2>1. CASE Flat(q) /\ size = 0
    BY <1>1, <2>1, SettleOnly DEF Flat
  <2>2. CASE ~Flat(q) /\ size > 0
    <3>1. q.leg[a] # 0
      BY <1>5, <2>2
    <3>2. PICK b \in Asset : \A c \in Asset \ {b} : q.leg[c] = 0
      BY <1>3, <2>2 DEF Exposed
    <3>3. \A c \in Asset \ {a} : q.leg[c] = 0
      BY <1>5, <3>1, <3>2
    <3>4. side = IF q.leg[a] < 0 THEN Long ELSE Short
      BY <1>6, <3>1 DEF FlipSide
    <3> QED
      BY <1>1, <1>5, <3>1, <3>3, <3>4, FlattenWorks
  <2> QED
    BY <1>9, <2>1, <2>2
<1> HIDE DEF a, side, size
<1>11. /\ Payout(q) \in Nat
       /\ Payout(q) <= AfterSettle(mk, n, a, side, size).q.cap
  <2>1. CASE q.pnl >= 0
    BY <1>1, <1>5, <1>7, <1>9, <2>1, PayoutIsThere
  <2>2. CASE Payout(q) = 0
    <3>1. AfterSettle(mk, n, a, side, size).q.cap \in Nat
      BY <1>1, <1>5, <1>7, AfterSettleType DEF Accounts, Portfolio
    <3> QED
      BY <2>2, <3>1
  <2> QED
    BY <2>1, <2>2
<1>12. \E st \in Stash : CanClose(w, n, mk, n, st, a, side, size, Payout(q))
  BY <1>1, <1>2, <1>5, <1>7, <1>10, <1>11, AnyPayout
<1> QED
  BY <1>8, <1>12 DEF Accepted

(* However long ago it was computed, a holder's request that is still what *)
(* the command would compute now is refused only for a loss that nobody    *)
(* has settled (cli.ts:58-108), if the fee estimate covers the fee.        *)
THEOREM UpToDateIsAccepted ==
  ASSUME FeeCovered
  PROVE  AloneSpec => []AccurateIsAccepted
<1>1. ClientInductive => AccurateIsAccepted
  <2> SUFFICES ASSUME ClientInductive, NEW w \in Wallet, asked[w].waiting,
                      asked[w].n \notin redeemed, HoldsNft(w, asked[w].n),
                      asked[w] = Computed(asked[w].n, asked[w].mk),
                      \/ pf[asked[w].n][asked[w].mk].pnl >= 0
                      \/ asked[w].amount = 0
               PROVE  \E st \in Stash : Accepted(w, asked[w], st)
    BY DEF AccurateIsAccepted
  <2>1. asked[w].n \in Nft /\ asked[w].mk \in Market
    BY RequestType DEF ClientInductive, Request
  <2>2. pf[asked[w].n][asked[w].mk].exists
    BY DEF ClientInductive, RequestsFit, StillFits
  <2>3. asked[w].amount = Payout(pf[asked[w].n][asked[w].mk])
    BY DEF Computed
  <2>4. \E st \in Stash :
          Accepted(w, Computed(asked[w].n, asked[w].mk), st)
    BY <2>1, <2>2, <2>3, ComputedIsAccepted
  <2> QED
    BY <2>4
<1> QED
  BY <1>1, ClientInvariant, PTL

(* Nor can what the clients do wedge a position (cli.ts:2-3).              *)
THEOREM ClientNeverWedges == AloneSpec => []NeverWedged
<1>1. ClientInductive => NeverWedged
  BY AlwaysRedeemable DEF ClientInductive
<1> QED
  BY <1>1, ClientInvariant, PTL
=============================================================================
