------------------------- MODULE MintWhitelistProofs -------------------------
(***************************************************************************)
(* The verdict of verify_position_mint is right for every mint account,    *)
(* not only for the short lists of extensions TLC walks: the walk reads    *)
(* nothing outside the account and accepts exactly the position mints.     *)
(***************************************************************************)
EXTENDS MintWhitelist, TLAPS

(* What the two tests of an entry say about its four fields. *)
LEMMA WhitelistedEntry ==
  ASSUME NEW e \in Entry
  PROVE  /\ Whitelisted(e) <=> e \in CloseEntry \cup PointerEntry
         /\ Whitelisted(e) => e.type # 0
         /\ Whitelisted(e) /\ e.type = CloseAuthority => e \in CloseEntry
         /\ Whitelisted(e) /\ e.type = MetadataPointer => e \in PointerEntry
BY DEF Whitelisted, CloseAuthority, MetadataPointer, CloseEntry, PointerEntry

(* The fields of an entry. *)
LEMMA EntryLength ==
  ASSUME NEW e \in Entry
  PROVE  e.len \in Nat /\ e.type \in Nat
<1>1. \A i \in U16 : i \in Nat
  BY DEF U16
<1> QED
  BY <1>1 DEF Entry

(* The base fields are compared one by one. *)
LEMMA BaseFields ==
  ASSUME NEW b \in Base
  PROVE  BaseOk(b) <=>
           b = [initialized |-> TRUE, decimals |-> 0, supply |-> 0,
                authority |-> "pda", freezable |-> FALSE, isMint |-> TRUE]
<1>1. b = [initialized |-> b.initialized, decimals |-> b.decimals,
           supply |-> b.supply, authority |-> b.authority,
           freezable |-> b.freezable, isMint |-> b.isMint]
  BY DEF Base
<1>2. b.initialized \in BOOLEAN /\ b.freezable \in BOOLEAN /\ b.isMint \in BOOLEAN
  BY DEF Base
<1>3. BaseOk(b) <=>
        /\ b.initialized = TRUE /\ b.decimals = 0 /\ b.supply = 0
        /\ b.authority = "pda" /\ b.freezable = FALSE /\ b.isMint = TRUE
  BY <1>2, Zenon DEF BaseOk
<1> DEFINE good == [initialized |-> TRUE, decimals |-> 0, supply |-> 0,
                    authority |-> "pda", freezable |-> FALSE, isMint |-> TRUE]
<1>4. BaseOk(b) => b = good
  BY <1>1, <1>3, Zenon
<1>5. b = good => BaseOk(b)
  <2>1. /\ good.initialized = TRUE /\ good.decimals = 0 /\ good.supply = 0
        /\ good.authority = "pda" /\ good.freezable = FALSE
        /\ good.isMint = TRUE
    OBVIOUS
  <2> QED
    BY <1>3, <2>1, Zenon
<1> QED
  BY <1>4, <1>5

(* While the loop goes on, a real entry starts at the offset. *)
LEMMA HeaderIsEntry ==
  ASSUME TypeOK, ~Exhausted
  PROVE  /\ off \in DOMAIN mint.tlv
         /\ Header = mint.tlv[off]
         /\ Header \in Entry
         /\ Header.type # 0
         /\ Header.len \in Nat
         /\ Body + Header.len = End(mint, off)
<1>1. off \in DOMAIN mint.tlv
  BY DEF Exhausted, Header, Padding
<1>2. Header = mint.tlv[off] /\ Header.type # 0
  BY <1>1 DEF Exhausted, Header
<1>3. Header \in Entry
  BY <1>1, <1>2 DEF TypeOK, IsMintAccount
<1>4. Header.len \in Nat
  BY <1>3, EntryLength
<1>5. Body + Header.len = End(mint, off)
  BY <1>2 DEF End, Body
<1> QED
  BY <1>1, <1>2, <1>3, <1>4, <1>5

(* When the loop stops, the entries it admitted are those that are seen.   *)
LEMMA SeenIsWalked ==
  ASSUME TypeOK, Walked, Exhausted
  PROVE  Seen(mint) = {o \in DOMAIN mint.tlv : o < off}
<1>1. ASSUME NEW o \in DOMAIN mint.tlv, o < off
      PROVE  o \in Seen(mint)
  <2>1. o + HeaderSize <= mint.size
    <3>1. o \in Nat /\ mint.size \in Nat /\ mint.tlv[o].len \in Nat
      BY EntryLength DEF TypeOK, IsMintAccount
    <3>2. End(mint, o) <= mint.size
      BY <1>1 DEF Walked
    <3> QED
      BY <3>1, <3>2 DEF End, HeaderSize
  <2>2. ASSUME NEW p \in DOMAIN mint.tlv, p <= o
        PROVE  mint.tlv[p].type # 0
    <3>1. p < off /\ mint.tlv[p] \in Entry
      BY <1>1, <2>2 DEF TypeOK, IsMintAccount
    <3> QED
      BY <3>1, WhitelistedEntry DEF Walked
  <2> QED
    BY <2>1, <2>2 DEF Seen
<1>2. ASSUME NEW o \in Seen(mint), ~(o < off)
      PROVE  FALSE
  <2>1. o \in DOMAIN mint.tlv /\ o \in Nat /\ off \in Nat /\ off <= o
    BY <1>2 DEF TypeOK, IsMintAccount, Seen
  <2>2. off \in DOMAIN mint.tlv
    BY <2>1 DEF TypeOK
  <2>3. mint.tlv[off].type # 0
    BY <2>1, <2>2 DEF Seen
  <2>4. off + HeaderSize <= mint.size
    BY <2>1 DEF Seen, TypeOK, IsMintAccount, HeaderSize
  <2> QED
    BY <2>2, <2>3, <2>4 DEF Exhausted, Header, RoomForHeader
<1> QED
  BY <1>1, <1>2 DEF Seen

-----------------------------------------------------------------------------
(* One lemma per turn of the loop. *)

(* An admitted entry moves the offset to the next one, and nothing else    *)
(* starts in between. *)
LEMMA AcceptKeeps ==
  ASSUME Inductive, Accept
  PROVE  Inductive'
<1> USE DEF Inductive
<1>1. /\ off \in DOMAIN mint.tlv
      /\ Header = mint.tlv[off] /\ Header \in Entry /\ Header.len \in Nat
      /\ Body + Header.len = End(mint, off)
  BY HeaderIsEntry DEF Accept
<1>2. off' = End(mint, off) /\ mint' = mint /\ pc' = pc /\ pc = "walk"
  BY <1>1 DEF Accept, AfterEntry
<1>3. off \in Nat /\ off' \in Nat /\ off < off'
  BY <1>1, <1>2 DEF TypeOK, End, HeaderSize
<1>4. Whitelisted(mint.tlv[off]) /\ End(mint, off) <= mint.size
  BY <1>1 DEF Accept, Fits
<1>5. \A o \in DOMAIN mint.tlv : o < off' <=> o < off \/ o = off
  BY <1>1, <1>2, <1>3 DEF TypeOK, IsMintAccount, Contiguous
<1>6. TypeOK'
  <2>1. IsMintAccount(mint')
    BY <1>2 DEF TypeOK
  <2>2. off' \in DOMAIN mint.tlv \/ \A p \in DOMAIN mint.tlv : p < off'
    BY <1>1, <1>2 DEF TypeOK, IsMintAccount, Contiguous
  <2>3. close' \in BOOLEAN /\ pointer' \in BOOLEAN
    BY DEF Accept, TypeOK
  <2>4. reach' \in Nat
    BY <1>1, <1>2, <1>3 DEF Accept, TypeOK, Highest
  <2> QED
    BY <1>2, <1>3, <2>1, <2>2, <2>3, <2>4 DEF TypeOK
<1>7. InBounds'
  BY <1>1, <1>2, <1>4 DEF Accept, InBounds, Highest
<1>8. Walked'
  <2>1. \A o \in DOMAIN mint.tlv :
          o < off' => Whitelisted(mint.tlv[o]) /\ End(mint, o) <= mint.size
    BY <1>4, <1>5 DEF Walked
  <2>2. close' <=> \E o \in DOMAIN mint.tlv :
                     o < off' /\ mint.tlv[o].type = CloseAuthority
    BY <1>1, <1>5 DEF Walked, Accept
  <2>3. pointer' <=> \E o \in DOMAIN mint.tlv :
                       o < off' /\ mint.tlv[o].type = MetadataPointer
    BY <1>1, <1>5 DEF Walked, Accept
  <2> QED
    BY <1>2, <2>1, <2>2, <2>3 DEF Walked, End
<1>9. Exact'
  BY <1>2 DEF Exact
<1> QED
  BY <1>6, <1>7, <1>8, <1>9

(* The base fields are those of a position mint, or the mint is refused.   *)
LEMMA CheckBaseKeeps ==
  ASSUME Inductive, CheckBase
  PROVE  Inductive'
<1> USE DEF Inductive
<1>1. /\ mint' = mint /\ off' = off /\ close' = close /\ pointer' = pointer
      /\ mint.size \in Nat /\ mint.base \in Base
      /\ pc' \in {"walk", "refused"}
  BY DEF CheckBase, TypeOK, IsMintAccount
<1>2. pc' = "walk" => mint.size >= TlvOffset /\ BaseOk(mint.base)
  BY <1>1 DEF CheckBase, ShortestMint, TlvOffset
<1>3. pc' = "refused" => ~(mint.size >= TlvOffset /\ BaseOk(mint.base))
  BY <1>1 DEF CheckBase, ShortestMint, TlvOffset
<1>4. reach' \in Nat /\ reach' <= mint.size
  BY <1>1 DEF CheckBase, ShortestMint, TlvOffset, TypeOK, InBounds
<1>5. TypeOK'
  BY <1>1, <1>4 DEF TypeOK
<1>6. InBounds'
  BY <1>1, <1>4 DEF InBounds
<1>7. Walked'
  BY <1>1, <1>2 DEF Walked, End
<1>8. pc' = "refused" => ~PositionMint(mint)
  BY <1>1, <1>3, BaseFields DEF PositionMint
<1>9. Exact'
  BY <1>1, <1>8 DEF Exact
<1> QED
  BY <1>5, <1>6, <1>7, <1>9

(* The entry that is refused is one that is seen and that no position mint *)
(* may have.                                                               *)
LEMMA RefuseKeeps ==
  ASSUME Inductive, Refuse
  PROVE  Inductive'
<1> USE DEF Inductive
<1>1. /\ off \in DOMAIN mint.tlv
      /\ Header = mint.tlv[off] /\ Header \in Entry /\ Header.len \in Nat
      /\ Header.type # 0
      /\ Body + Header.len = End(mint, off)
  BY HeaderIsEntry DEF Refuse
<1>2. /\ mint' = mint /\ off' = off /\ close' = close /\ pointer' = pointer
      /\ pc' = "refused"
  BY DEF Refuse
<1>3. off \in Nat /\ mint.size \in Nat /\ Body \in Nat /\ Body <= mint.size
  BY DEF TypeOK, IsMintAccount, Body, HeaderSize, Refuse, Exhausted,
         RoomForHeader
<1>4. reach' \in Nat /\ reach' <= mint.size
  <2>1. CASE /\ Fits(Header)
             /\ <<Header.type, Header.len>> \in
                  {<<CloseAuthority, 32>>, <<MetadataPointer, 64>>}
    <3>1. reach' = Highest(reach, Body + Header.len)
      BY <2>1 DEF Refuse
    <3>2. Body + Header.len <= mint.size
      BY <2>1 DEF Fits
    <3> QED
      BY <1>1, <1>3, <3>1, <3>2 DEF Highest, TypeOK, InBounds
  <2>2. CASE ~(/\ Fits(Header)
               /\ <<Header.type, Header.len>> \in
                    {<<CloseAuthority, 32>>, <<MetadataPointer, 64>>})
    <3>1. reach' = Highest(reach, Body)
      BY <2>2 DEF Refuse
    <3> QED
      BY <1>3, <3>1 DEF Highest, TypeOK, InBounds
  <2> QED
    BY <2>1, <2>2
<1>5. TypeOK'
  BY <1>2, <1>4 DEF TypeOK
<1>6. InBounds'
  BY <1>2, <1>4 DEF InBounds
<1>7. Walked'
  BY <1>2 DEF Walked, End
<1>8. off \in Seen(mint)
  <2>1. ASSUME NEW p \in DOMAIN mint.tlv, p <= off
        PROVE  mint.tlv[p].type # 0
    <3>1. CASE p = off
      BY <1>1, <3>1
    <3>2. CASE p < off
      BY <3>2, WhitelistedEntry DEF TypeOK, IsMintAccount, Walked
    <3> QED
      BY <2>1, <3>1, <3>2, <1>3 DEF TypeOK, IsMintAccount
  <2>2. off + HeaderSize <= mint.size
    BY <1>3 DEF Body
  <2> QED
    BY <1>1, <2>1, <2>2 DEF Seen
<1>9. ~(mint.tlv[off] \in CloseEntry \cup PointerEntry
        /\ End(mint, off) <= mint.size)
  BY <1>1, WhitelistedEntry DEF Refuse, Fits
<1>10. ~PositionMint(mint)
  BY <1>8, <1>9 DEF PositionMint
<1>11. Exact'
  BY <1>2, <1>10 DEF Exact
<1> QED
  BY <1>5, <1>6, <1>7, <1>11

(* At the end of the walk the two flags decide, and they decide rightly.   *)
LEMMA FinishKeeps ==
  ASSUME Inductive, Finish
  PROVE  Inductive'
<1> USE DEF Inductive
<1>1. /\ mint' = mint /\ off' = off /\ close' = close /\ pointer' = pointer
      /\ pc = "walk" /\ pc' \in {"ok", "refused"} /\ Exhausted
      /\ pc' = "ok" <=> close /\ pointer
  BY DEF Finish, BothPresent
<1>2. off \in Nat /\ mint.size \in Nat /\ Body \in Nat
  BY DEF TypeOK, IsMintAccount, Body, HeaderSize
<1>3. reach' \in Nat /\ reach' <= mint.size
  <2>1. CASE RoomForHeader
    BY <1>2, <2>1 DEF Finish, RoomForHeader, Body, Highest, TypeOK, InBounds
  <2>2. CASE ~RoomForHeader
    BY <1>2, <2>2 DEF Finish, Highest, TypeOK, InBounds
  <2> QED
    BY <2>1, <2>2
<1>4. TypeOK'
  BY <1>1, <1>3 DEF TypeOK
<1>5. InBounds'
  BY <1>1, <1>3 DEF InBounds
<1>6. Walked'
  BY <1>1 DEF Walked, End, Exhausted, RoomForHeader, Header
<1>7. Seen(mint) = {o \in DOMAIN mint.tlv : o < off}
  BY <1>1, SeenIsWalked
<1>8. \A o \in DOMAIN mint.tlv : mint.tlv[o] \in Entry
  BY DEF TypeOK, IsMintAccount
<1>9. ASSUME close, pointer
      PROVE  PositionMint(mint)
  <2>1. \A o \in Seen(mint) :
          /\ Whitelisted(mint.tlv[o])
          /\ mint.tlv[o] \in CloseEntry \cup PointerEntry
          /\ End(mint, o) <= mint.size
    BY <1>7, <1>8, WhitelistedEntry DEF Walked
  <2>2. \E o \in Seen(mint) : mint.tlv[o].type = CloseAuthority
    BY <1>7, <1>9 DEF Walked
  <2>3. \E o \in Seen(mint) : mint.tlv[o] \in CloseEntry
    BY <1>7, <1>8, <2>1, <2>2, WhitelistedEntry
  <2>4. \E o \in Seen(mint) : mint.tlv[o].type = MetadataPointer
    BY <1>7, <1>9 DEF Walked
  <2>5. \E o \in Seen(mint) : mint.tlv[o] \in PointerEntry
    BY <1>7, <1>8, <2>1, <2>4, WhitelistedEntry
  <2>6. mint.size >= TlvOffset /\ BaseOk(mint.base) /\ mint.base \in Base
    BY <1>1 DEF Walked, TypeOK, IsMintAccount
  <2> QED
    BY <2>1, <2>3, <2>5, <2>6, BaseFields DEF PositionMint
<1>10. ASSUME ~close
       PROVE  ~PositionMint(mint)
  BY <1>7, <1>10 DEF Walked, PositionMint, CloseEntry, CloseAuthority
<1>11. ASSUME ~pointer
       PROVE  ~PositionMint(mint)
  BY <1>7, <1>11 DEF Walked, PositionMint, PointerEntry, MetadataPointer
<1>12. Exact'
  BY <1>1, <1>9, <1>10, <1>11 DEF Exact
<1> QED
  BY <1>4, <1>5, <1>6, <1>12

-----------------------------------------------------------------------------
(* Nothing is walked before the first entry. *)
LEMMA InductiveInit == Init => Inductive
<1> SUFFICES ASSUME Init PROVE Inductive
  OBVIOUS
<1>1. IsMintAccount(mint)
  BY MintsAssumption DEF Init
<1>2. \A o \in DOMAIN mint.tlv : ~(o < off)
  BY <1>1 DEF Init, IsMintAccount, Contiguous, TlvOffset
<1>3. TypeOK
  <2>1. \A p \in DOMAIN mint.tlv : TlvOffset \in DOMAIN mint.tlv
    BY <1>1 DEF IsMintAccount, Contiguous
  <2> QED
    BY <1>1, <2>1 DEF Init, TypeOK, TlvOffset
<1>4. Walked
  BY <1>2 DEF Init, Walked
<1>5. InBounds
  BY <1>1 DEF Init, InBounds, IsMintAccount
<1> QED
  BY <1>3, <1>4, <1>5 DEF Inductive, Init, Exact

(* Every turn of the verification preserves it. *)
LEMMA InductiveNext == Inductive /\ [Next]_vars => Inductive'
<1> SUFFICES ASSUME Inductive, [Next]_vars PROVE Inductive'
  OBVIOUS
<1>1. CASE UNCHANGED vars
  BY <1>1 DEF vars, Inductive, TypeOK, InBounds, Walked, Exact, End,
              Exhausted, RoomForHeader, Header
<1> QED
  BY <1>1, CheckBaseKeeps, AcceptKeeps, RefuseKeeps, FinishKeeps DEF Next

(* The state of the walk always describes the entries before the offset.   *)
THEOREM WalkInvariant == Spec => []Inductive
BY InductiveInit, InductiveNext, PTL DEF Spec

(* verify_position_mint cannot be made to panic: no account, however its   *)
(* lengths lie, takes a read past its end (state.rs:114-161).              *)
THEOREM NeverOutOfBounds == Spec => []InBounds
<1>1. Inductive => InBounds
  BY DEF Inductive
<1> QED
  BY <1>1, WalkInvariant, PTL

(* The flags and the offset stay what the code takes them for: an entry or *)
(* the end of the region, and lengths that fit (state.rs:130-163).         *)
THEOREM TypeCorrect == Spec => []TypeOK
<1>1. Inductive => TypeOK
  BY DEF Inductive
<1> QED
  BY <1>1, WalkInvariant, PTL

(* What lies before the offset has been admitted: the two flags say which  *)
(* of the two extensions were met, and no other one was passed over        *)
(* (state.rs:144-163), however many entries the account has.               *)
THEOREM WalkedCorrect == Spec => []Walked
<1>1. Inductive => Walked
  BY DEF Inductive
<1> QED
  BY <1>1, WalkInvariant, PTL

(* The verdict is exact (state.rs:94-106): a mint is accepted if and only  *)
(* if it is indivisible, un-minted, never freezable, surrendered to the    *)
(* position PDA and carries the two whitelisted extensions and no other.   *)
THEOREM VerdictExact == Spec => []Exact
<1>1. Inductive => Exact
  BY DEF Inductive
<1> QED
  BY <1>1, WalkInvariant, PTL

-----------------------------------------------------------------------------
(* Why the loop ends. *)

(* The bytes the walk has still to pass, and two steps for its two ends. *)
Remaining ==
  IF pc = "base" THEN mint.size + 2
  ELSE IF pc = "walk" THEN (mint.size - off) + 1
  ELSE 0

(* The walk starts behind the base fields and stays within the account.    *)
Within ==
  /\ pc = "base" => off = TlvOffset
  /\ pc = "walk" => off <= mint.size

(* A step passes an entry, which is never empty, or is the last. *)
LEMMA StepsForward ==
  ASSUME Inductive, Within, Next
  PROVE  Within' /\ Remaining' < Remaining
<1> USE DEF Inductive, TlvOffset
<1>1. mint.size \in Nat /\ off \in Nat
  BY DEF TypeOK, IsMintAccount
<1>2. CASE CheckBase
  <2>1. /\ pc = "base" /\ mint' = mint /\ off' = off /\ off = 166
        /\ \/ pc' = "refused"
           \/ pc' = "walk" /\ mint.size >= 166
    BY <1>1, <1>2 DEF CheckBase, ShortestMint, Within
  <2> QED
    BY <1>1, <2>1 DEF Within, Remaining
<1>3. CASE Accept
  <2>1. /\ pc = "walk" /\ pc' = "walk" /\ mint' = mint
        /\ Header.len \in Nat /\ off' = off + 4 + Header.len
        /\ off + 4 + Header.len <= mint.size
    BY <1>3, HeaderIsEntry DEF Accept, AfterEntry, Body, Fits, HeaderSize
  <2> QED
    BY <1>1, <2>1 DEF Within, Remaining
<1>4. CASE Refuse \/ Finish
  <2>1. pc = "walk" /\ pc' \in {"ok", "refused"}
    BY <1>4 DEF Refuse, Finish
  <2>2. off <= mint.size
    BY <2>1 DEF Within
  <2> QED
    BY <1>1, <2>1, <2>2 DEF Within, Remaining
<1> QED
  BY <1>2, <1>3, <1>4 DEF Next

(* The half of Terminates that needs no fairness: a natural number gets    *)
(* smaller with every step and stays one, so on no account does the walk   *)
(* take more steps than the account has bytes, and two: the header alone   *)
(* moves the offset on (state.rs:131-163).                                 *)
THEOREM EveryTurnCounts ==
  Spec => [](Remaining \in Nat) /\ [][Remaining' < Remaining]_vars
<1>1. Init => Within
  BY DEF Init, Within
<1>2. Inductive /\ Within /\ [Next]_vars => Within'
  <2>1. UNCHANGED vars /\ Within => Within'
    BY DEF Within, vars
  <2> QED
    BY <2>1, StepsForward
<1>3. Inductive /\ Within => Remaining \in Nat
  BY DEF Inductive, TypeOK, IsMintAccount, Within, Remaining
<1>4. Inductive /\ Within /\ [Next]_vars => [Remaining' < Remaining]_vars
  BY StepsForward
<1> QED
  BY <1>1, <1>2, <1>3, <1>4, WalkInvariant, PTL DEF Spec
=============================================================================
