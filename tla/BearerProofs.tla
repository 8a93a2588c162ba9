----------------------------- MODULE BearerProofs -----------------------------
(***************************************************************************)
(* The position program implements the bearer instrument of BearerNft, for *)
(* every value of the constants.  The refinement mapping reads bearer and  *)
(* side off the NFT accounts and the mints; Inductive is what makes it a   *)
(* function of one unit per position.                                      *)
(***************************************************************************)
EXTENDS PositionProofs

(* What position n shows: its bearer and its side. *)
Shows(n) == <<Holders[n], Announced[n]>>

(* A position without a unit shows nothing. *)
LEMMA UnissuedShows ==
  ASSUME NEW n \in Nft, Unissued(n)
  PROVE  Holders[n] = {} /\ Announced[n] = "none"
<1>1. \A w \in Wallet : ~HoldsNft(w, n)
  BY DEF Unissued, HoldsNft
<1>2. ~Live(n)
  BY DEF Unissued, Live
<1> QED
  BY <1>1, <1>2 DEF Holders, Announced

(* A position with a bearer shows the bearer and the name of its mint. *)
LEMMA BearerShows ==
  ASSUME NEW n \in Nft, NEW w \in Wallet, BearerOf(n, w)
  PROVE  Holders[n] = {w} /\ Announced[n] = mint[n].name
<1>1. \A x \in Wallet : HoldsNft(x, n) <=> x = w
  BY DEF BearerOf, HoldsNft
<1>2. Live(n)
  BY DEF BearerOf, Live
<1> QED
  BY <1>1, <1>2 DEF Holders, Announced

(* The same two facts of the next state. *)
LEMMA ShowsNext ==
  ASSUME NEW n \in Nft
  PROVE  /\ Unissued(n)' => Holders'[n] = {} /\ Announced'[n] = "none"
         /\ \A w \in Wallet : BearerOf(n, w)' =>
              Holders'[n] = {w} /\ Announced'[n] = mint'[n].name
<1>1. ASSUME Unissued(n)' PROVE Holders'[n] = {} /\ Announced'[n] = "none"
  <2>1. \A w \in Wallet : ~HoldsNft(w, n)'
    BY <1>1 DEF Unissued, HoldsNft
  <2>2. ~Live(n)'
    BY <1>1 DEF Unissued, Live
  <2> QED
    BY <2>1, <2>2 DEF Holders, Announced
<1>2. ASSUME NEW w \in Wallet, BearerOf(n, w)'
      PROVE  Holders'[n] = {w} /\ Announced'[n] = mint'[n].name
  <2>1. \A x \in Wallet : HoldsNft(x, n)' <=> x = w
    BY <1>2 DEF BearerOf, HoldsNft
  <2>2. Live(n)'
    BY <1>2 DEF BearerOf, Live
  <2> QED
    BY <2>1, <2>2 DEF Holders, Announced
<1> QED
  BY <1>1, <1>2

(* A position whose mint and units are left alone shows what it showed. *)
LEMMA ShowsKept ==
  ASSUME OneBearer, NEW n \in Nft, TokenKept(n)
  PROVE  Holders'[n] = Holders[n] /\ Announced'[n] = Announced[n]
<1>1. CASE Unissued(n)
  <2>1. Unissued(n)'
    BY <1>1 DEF Unissued, TokenKept
  <2> QED
    BY <1>1, <2>1, UnissuedShows, ShowsNext
<1>2. ASSUME NEW w \in Wallet, BearerOf(n, w)
      PROVE  Holders'[n] = Holders[n] /\ Announced'[n] = Announced[n]
  <2>1. BearerOf(n, w)' /\ mint'[n].name = mint[n].name
    BY <1>2 DEF BearerOf, TokenKept, HoldsNft
  <2> QED
    BY <1>2, <2>1, BearerShows, ShowsNext
<1> QED
  BY <1>1, <1>2 DEF OneBearer

(* When one position changes what it shows, the mapping changes there.     *)
LEMMA ShowsAt ==
  ASSUME NEW n \in Nft, NEW h, NEW s,
         \A m \in Nft \ {n} :
           Holders'[m] = Holders[m] /\ Announced'[m] = Announced[m],
         Holders'[n] = h, Announced'[n] = s
  PROVE  /\ Holders' = [Holders EXCEPT ![n] = h]
         /\ Announced' = [Announced EXCEPT ![n] = s]
<1>1. /\ Holders' = [m \in Nft |-> Holders'[m]]
      /\ Announced' = [m \in Nft |-> Announced'[m]]
      /\ Holders = [m \in Nft |-> Holders[m]]
      /\ Announced = [m \in Nft |-> Announced[m]]
  BY DEF Holders, Announced
<1> QED
  BY <1>1

(* When no position does, the mapping stays.                               *)
LEMMA ShowsSame ==
  ASSUME \A m \in Nft :
           Holders'[m] = Holders[m] /\ Announced'[m] = Announced[m]
  PROVE  Holders' = Holders /\ Announced' = Announced
<1>1. /\ Holders' = [m \in Nft |-> Holders'[m]]
      /\ Announced' = [m \in Nft |-> Announced'[m]]
      /\ Holders = [m \in Nft |-> Holders[m]]
      /\ Announced = [m \in Nft |-> Announced[m]]
  BY DEF Holders, Announced
<1> QED
  BY <1>1

-----------------------------------------------------------------------------
(* The initial states. *)
LEMMA BearerInit == Init => Bearer!Init
<1> SUFFICES ASSUME Init PROVE Bearer!Init
  OBVIOUS
<1>1. OneBearer /\ \A n \in Nft : Unissued(n)
  <2>1. \A n \in Nft : mint[n].supply = 0 /\ \A w \in Wallet : nftAmt[n][w] = 0
    BY DEF Init, NoMint
  <2> QED
    BY <2>1 DEF OneBearer, Unissued
<1>2. \A n \in Nft : Holders[n] = {} /\ Announced[n] = "none"
  BY <1>1, UnissuedShows
<1>3. /\ Holders = [n \in Nft |-> {}]
      /\ Announced = [n \in Nft |-> "none"]
  BY <1>2 DEF Holders, Announced
<1>4. tok \in [Wallet -> Nat]
  BY EndowmentAssumption DEF Init
<1> QED
  BY <1>3, <1>4 DEF Bearer!Init

(* A transfer is a Pass, a burn outside a Retire that pays nobody, funding *)
(* a Spend; creating accounts moves no unit.                               *)
LEMMA ClientRefines ==
  Inductive /\ Inductive' /\ ClientNext => [Bearer!Next]_(Bearer!bvars)
<1> SUFFICES ASSUME Inductive, Inductive', NEW w \in Wallet, NEW n \in Nft,
                    \/ \E vetted \in BOOLEAN : CreateMint(w, n, vetted)
                    \/ \E x \in Wallet : CreateNftAccount(w, x, n)
                    \/ \E st \in Stash : CreateStaging(w, n, st)
                    \/ \E st \in Stash, amount \in Amount :
                         FundStaging(w, n, st, amount)
                    \/ FundPda(w, n)
                    \/ \E x \in Wallet : TransferNft(w, x, n)
                    \/ BurnOutside(w, n)
             PROVE  [Bearer!Next]_(Bearer!bvars)
  BY DEF ClientNext
<1> USE DEF Inductive
<1>0. ASSUME \A m \in Nft : TokenKept(m), tok' = tok
      PROVE  [Bearer!Next]_(Bearer!bvars)
  BY <1>0, ShowsKept, ShowsSame DEF Bearer!bvars
<1>1. ASSUME NEW vetted \in BOOLEAN, CreateMint(w, n, vetted)
      PROVE  [Bearer!Next]_(Bearer!bvars)
  <2>1. Unissued(n) /\ Unissued(n)'
    <3>1. Unissued(n)
      BY <1>1 DEF CreateMint, OneBearer, BearerOf
    <3> DEFINE new == [NoMint EXCEPT !.exists = TRUE, !.vetted = vetted,
                                     !.authority = TRUE]
    <3>2. new.supply = 0
      BY DEF NoMint
    <3>3. mint' = [mint EXCEPT ![n] = new] /\ nftAmt' = nftAmt
      BY <1>1 DEF CreateMint
    <3> HIDE DEF new
    <3>4. mint'[n].supply = 0
      BY <3>2, <3>3 DEF TypeOK
    <3> QED
      BY <3>1, <3>3, <3>4 DEF Unissued
  <2>2. \A m \in Nft \ {n} : TokenKept(m)
    BY <1>1 DEF CreateMint, TokenKept, TypeOK
  <2>3. \A m \in Nft : Holders'[m] = Holders[m] /\ Announced'[m] = Announced[m]
    BY <2>1, <2>2, UnissuedShows, ShowsNext, ShowsKept
  <2> QED
    BY <1>1, <2>3, ShowsSame DEF CreateMint, Bearer!bvars
<1>2. ASSUME NEW x \in Wallet, CreateNftAccount(w, x, n)
      PROVE  [Bearer!Next]_(Bearer!bvars)
  BY <1>0, <1>2 DEF CreateNftAccount, TokenKept
<1>3. ASSUME NEW st \in Stash, CreateStaging(w, n, st)
      PROVE  [Bearer!Next]_(Bearer!bvars)
  BY <1>0, <1>3 DEF CreateStaging, TokenKept
<1>4. ASSUME NEW st \in Stash, NEW amount \in Amount,
             FundStaging(w, n, st, amount)
      PROVE  [Bearer!Next]_(Bearer!bvars)
  <2>1. \A m \in Nft : TokenKept(m)
    BY <1>4 DEF FundStaging, TokenKept
  <2>2. tok'[w] \in 0 .. tok[w] /\ tok' = [tok EXCEPT ![w] = tok'[w]]
    BY <1>4 DEF FundStaging, TypeOK
  <2>3. Bearer!Spend(w)
    BY <2>1, <2>2, ShowsKept, ShowsSame DEF Bearer!Spend
  <2> QED
    BY <2>3 DEF Bearer!Next
<1>5. CASE FundPda(w, n)
  BY <1>0, <1>5 DEF FundPda, TokenKept
<1>6. ASSUME NEW x \in Wallet, TransferNft(w, x, n)
      PROVE  [Bearer!Next]_(Bearer!bvars)
  <2>1. BearerOf(n, w)
    BY <1>6, UnitIsBearer DEF TransferNft
  <2>2. BearerOf(n, x)' /\ mint'[n].name = mint[n].name
    BY <1>6, <2>1 DEF TransferNft, BearerOf, HoldsNft, TypeOK
  <2>3. \A m \in Nft \ {n} : TokenKept(m)
    BY <1>6 DEF TransferNft, TokenKept, TypeOK
  <2>4. /\ Holders[n] = {w}
        /\ Holders' = [Holders EXCEPT ![n] = {x}]
        /\ Announced' = [Announced EXCEPT ![n] = Announced[n]]
    BY <2>1, <2>2, <2>3, BearerShows, ShowsNext, ShowsKept, ShowsAt
  <2>5. Announced' = Announced
    BY <2>4 DEF Announced
  <2>6. Bearer!Pass(n, w, x)
    BY <1>6, <2>4, <2>5 DEF Bearer!Pass, TransferNft
  <2> QED
    BY <2>6 DEF Bearer!Next
<1>7. CASE BurnOutside(w, n)
  <2>1. BearerOf(n, w)
    BY <1>7, UnitIsBearer DEF BurnOutside
  <2>2. Unissued(n)'
    BY <1>7, <2>1 DEF BurnOutside, BearerOf, Unissued, TypeOK, Mint
  <2>3. \A m \in Nft \ {n} : TokenKept(m)
    BY <1>7 DEF BurnOutside, TokenKept, TypeOK
  <2>4. /\ Holders[n] = {w}
        /\ Holders' = [Holders EXCEPT ![n] = {}]
        /\ Announced' = [Announced EXCEPT ![n] = "none"]
    BY <2>1, <2>2, <2>3, BearerShows, ShowsNext, ShowsKept, ShowsAt
  <2>5. tok'[w] >= tok[w] /\ tok' = [tok EXCEPT ![w] = tok'[w]]
    BY <1>7 DEF BurnOutside, TypeOK
  <2>6. Bearer!Retire(n, w, w)
    BY <2>4, <2>5 DEF Bearer!Retire
  <2> QED
    BY <2>6 DEF Bearer!Next
<1> QED
  BY <1>1, <1>2, <1>3, <1>4, <1>5, <1>6, <1>7

(* An open is an Issue on the side the order takes. *)
LEMMA OpenRefines ==
  ASSUME Inductive, NEW x \in Wallet, NEW n \in Nft, NEW pn \in Nft,
         NEW mk \in Market, NEW st \in Stash, NEW a \in Asset,
         NEW side \in Side, NEW size \in Size, NEW amount \in Amount,
         OpenPosition(x, n, mk, pn, st, a, side, size, amount)
  PROVE  Bearer!Next
<1> USE DEF Inductive
<1>1. Unissued(n)
  BY DEF OpenPosition, CanOpen, VerifyPositionMint, OneBearer, BearerOf
<1>2. BearerOf(n, x)' /\ mint'[n].name = PositionName(side)
  <2>1. /\ mint[n] \in Mint /\ mint'[n] = Minted(mint[n], side, mk)
        /\ nftAmt'[n][x] = 1 /\ HoldsNft(x, n)'
    BY <1>1 DEF OpenPosition, CanOpen, HoldsNft, MintUnit, Unissued, TypeOK
  <2>2. Minted(mint[n], side, mk).name = PositionName(side)
    BY <2>1 DEF Minted, Mint
  <2>3. OneBearer'
    BY OpenOneBearer
  <2>4. PICK y \in Wallet : BearerOf(n, y)'
    BY <2>1, <2>3 DEF OneBearer, Unissued
  <2>5. y = x
    BY <2>1, <2>4 DEF BearerOf
  <2> QED
    BY <2>1, <2>2, <2>4, <2>5
<1>3. \A m \in Nft \ {n} : TokenKept(m)
  BY DEF OpenPosition, TokenKept, TypeOK
<1>4. /\ Holders[n] = {}
      /\ Holders' = [Holders EXCEPT ![n] = {x}]
      /\ Announced' = [Announced EXCEPT ![n] = PositionName(side)]
  BY <1>1, <1>2, <1>3, UnissuedShows, ShowsNext, ShowsKept, ShowsAt
<1>5. PositionName(side) \in {"long", "short"} /\ tok' = tok
  BY DEF PositionName, OpenPosition
<1>6. Bearer!Issue(n, x, PositionName(side))
  BY <1>4, <1>5 DEF Bearer!Issue
<1> QED
  BY <1>5, <1>6 DEF Bearer!Next

(* A close is a Retire that pays the wallet the signer named. *)
LEMMA CloseRefines ==
  ASSUME Inductive, NEW w \in Wallet, NEW y \in Wallet, NEW n \in Nft,
         NEW pn \in Nft, NEW mk \in Market, NEW st \in Stash,
         NEW a \in Asset, NEW side \in Side, NEW size \in Size,
         NEW amount \in Amount,
         ClosePosition(w, y, n, mk, pn, st, a, side, size, amount)
  PROVE  Bearer!Next
<1> USE DEF Inductive
<1>1. BearerOf(n, w)
  BY UnitIsBearer DEF ClosePosition, CanClose, HoldsNft
<1>2. Unissued(n)'
  BY InputAssumption, CloseOneBearer
<1>3. \A m \in Nft \ {n} : TokenKept(m)
  BY DEF ClosePosition, RetireNft, TokenKept, TypeOK
<1>4. /\ Holders[n] = {w}
      /\ Holders' = [Holders EXCEPT ![n] = {}]
      /\ Announced' = [Announced EXCEPT ![n] = "none"]
  BY <1>1, <1>2, <1>3, BearerShows, ShowsNext, ShowsKept, ShowsAt
<1>5. tok'[y] >= tok[y] /\ tok' = [tok EXCEPT ![y] = tok'[y]]
  <2>1. amount \in Nat /\ Drained(n, st) \in Nat /\ tok[y] \in Nat
    BY InputAssumption DEF Drained, TypeOK
  <2>2. tok' = [tok EXCEPT ![y] = tok[y] + amount + Drained(n, st)]
    BY DEF ClosePosition
  <2> QED
    BY <2>1, <2>2 DEF TypeOK
<1>6. Bearer!Retire(n, w, y)
  BY <1>4, <1>5 DEF Bearer!Retire
<1> QED
  BY <1>6 DEF Bearer!Next

(* The program implements the bearer instrument: whatever holds of every   *)
(* BearerNft behaviour holds of the accounts, for every number of          *)
(* positions, wallets, markets and assets.                                 *)
THEOREM BearerImplemented == Spec => ImplementsBearer
<1>1. Inductive /\ Inductive' /\ [Next]_vars => [Bearer!Next]_(Bearer!bvars)
  <2> SUFFICES ASSUME Inductive, Inductive', [Next]_vars
               PROVE  [Bearer!Next]_(Bearer!bvars)
    OBVIOUS
  <2>1. CASE ClientNext
    BY <2>1, ClientRefines
  <2>2. CASE ProgramNext
    BY <2>2, OpenRefines, CloseRefines DEF ProgramNext
  <2>3. ASSUME EngineNext \/ UNCHANGED vars
        PROVE  [Bearer!Next]_(Bearer!bvars)
    <3>1. mint' = mint /\ nftAcct' = nftAcct /\ nftAmt' = nftAmt /\ tok' = tok
      BY <2>3 DEF EngineNext, Accrue, Liquidation, Crank, EngineOnly, vars
    <3> QED
      BY <3>1 DEF Bearer!bvars, Holders, Announced, HoldsNft, Live
  <2> QED
    BY <2>1, <2>2, <2>3 DEF Next
<1> QED
  BY <1>1, BearerInit, InductiveInvariant, PTL
     DEF Spec, ImplementsBearer, Bearer!Spec
=============================================================================
