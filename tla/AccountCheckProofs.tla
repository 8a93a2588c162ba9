------------------------- MODULE AccountCheckProofs -------------------------
(***************************************************************************)
(* Proofs about the account checks, for every chain and every transaction: *)
(* whom the PDA signs for, what a market header is worth, and that the     *)
(* SDK's lists are the handlers'.                                          *)
(***************************************************************************)
EXTENDS AccountChecks, SequenceTheorems, TLAPS

-----------------------------------------------------------------------------
(* The SDK's lists and the handlers' order. *)

(* j is s and then t. *)
IsJoin(j, s, t) ==
  /\ Len(j) = Len(s) + Len(t)
  /\ \A i \in 1 .. Len(s) : j[i] = s[i]
  /\ \A i \in 1 .. Len(t) : j[Len(s) + i] = t[i]

(* Nine places, three and four. *)
IsThree(j, s, t, u) ==
  /\ Len(j) = 16
  /\ \A i \in 1 .. 9 : j[i] = s[i]
  /\ \A i \in 1 .. 3 : j[9 + i] = t[i]
  /\ \A i \in 1 .. 4 : j[12 + i] = u[i]

(* Where the elements of two lists are in the one after the other. *)
LEMMA Joined ==
  ASSUME NEW S, NEW s \in Seq(S), NEW t \in Seq(S)
  PROVE  s \o t \in Seq(S) /\ IsJoin(s \o t, s, t)
<1> DEFINE m == Len(s)
           n == Len(t)
<1>1. s \o t \in Seq(S) /\ Len(s \o t) = m + n
  BY ConcatProperties
<1>2. \A i \in 1 .. m + n : (s \o t)[i] = IF i <= m THEN s[i] ELSE t[i - m]
  BY ConcatProperties
<1>3. m \in Nat /\ n \in Nat
  OBVIOUS
<1> HIDE DEF m, n
<1>4. ASSUME NEW i \in 1 .. m PROVE (s \o t)[i] = s[i]
  <2>1. i \in 1 .. m + n /\ i <= m
    BY <1>3
  <2> QED
    BY <1>2, <2>1
<1>5. ASSUME NEW j \in 1 .. n PROVE (s \o t)[m + j] = t[j]
  <2>1. m + j \in 1 .. m + n /\ ~(m + j <= m) /\ (m + j) - m = j
    BY <1>3
  <2>2. (s \o t)[m + j] = t[(m + j) - m]
    BY <1>2, <2>1
  <2> QED
    BY <2>1, <2>2
<1> QED
  BY <1>1, <1>4, <1>5 DEF m, n, IsJoin

(* And of three. *)
LEMMA ThreeParts ==
  ASSUME NEW S, NEW s \in Seq(S), Len(s) = 9, NEW t \in Seq(S), Len(t) = 3,
         NEW u \in Seq(S), Len(u) = 4
  PROVE  IsThree((s \o t) \o u, s, t, u)
<1> DEFINE st == s \o t
           stu == st \o u
<1>1. st \in Seq(S) /\ IsJoin(st, s, t)
  BY Joined
<1> HIDE DEF st
<1>2. IsJoin(stu, st, u)
  BY <1>1, Joined
<1> HIDE DEF stu
<1>3. Len(st) = 12 /\ Len(stu) = 16
  BY <1>1, <1>2 DEF IsJoin
<1>4. \A i \in 1 .. 9 : stu[i] = s[i]
  <2> SUFFICES ASSUME NEW i \in 1 .. 9 PROVE stu[i] = s[i]
    OBVIOUS
  <2>1. i \in 1 .. Len(s) /\ i \in 1 .. Len(st)
    BY <1>3
  <2> QED
    BY <1>1, <1>2, <2>1, Zenon DEF IsJoin
<1>5. \A j \in 1 .. 3 : stu[9 + j] = t[j]
  <2> SUFFICES ASSUME NEW j \in 1 .. 3 PROVE stu[9 + j] = t[j]
    OBVIOUS
  <2>1. j \in 1 .. Len(t) /\ 9 + j \in 1 .. Len(st) /\ Len(s) + j = 9 + j
    BY <1>3
  <2>2. stu[9 + j] = st[9 + j]
    BY <1>2, <2>1, Zenon DEF IsJoin
  <2>3. st[Len(s) + j] = t[j]
    BY <1>1, <2>1, Zenon DEF IsJoin
  <2> QED
    BY <2>1, <2>2, <2>3, Zenon
<1>6. \A j \in 1 .. 4 : stu[12 + j] = u[j]
  <2> SUFFICES ASSUME NEW j \in 1 .. 4 PROVE stu[12 + j] = u[j]
    OBVIOUS
  <2>1. j \in 1 .. Len(u) /\ Len(st) + j = 12 + j
    BY <1>3
  <2>2. stu[Len(st) + j] = u[j]
    BY <1>2, <2>1, Zenon DEF IsJoin
  <2> QED
    BY <2>1, <2>2, Zenon
<1> QED
  BY <1>3, <1>4, <1>5, <1>6 DEF st, stu, IsThree

(* The SDK writes every role in the place where the handler reads it       *)
(* (instructions.ts:1-3).                                                  *)
LEMMA SameOrder ==
  ASSUME NEW kind \in Kind
  PROVE  /\ Len(SdkKeys(kind)) = 16
         /\ \A i \in 1 .. 16 : SdkKeys(kind)[i] = HandlerOrder(kind)[i]
<1> DEFINE mid == IF kind = "open" THEN <<"token", "token22", "system">>
                  ELSE <<"holderToken", "token", "token22">>
           end == <<"openperps", "houseCap", "feeConfig", "riskConfig">>
           S == {"market", "portfolio", "house", "position", "mint", "holder",
                 "holderNft", "staging", "vault", "token", "token22",
                 "system", "holderToken", "openperps", "houseCap",
                 "feeConfig", "riskConfig"}
<1>1. SdkKeys(kind) = (SharedKeys \o mid) \o end
  BY DEF SdkKeys
<1>2. SharedKeys \in Seq(S) /\ Len(SharedKeys) = 9
  BY DEF SharedKeys
<1>3. mid \in Seq(S) /\ Len(mid) = 3
  <2>1. CASE kind = "open"
    <3>1. mid = <<"token", "token22", "system">>
      BY <2>1
    <3> HIDE DEF mid
    <3> QED
      BY <3>1
  <2>2. CASE kind # "open"
    <3>1. mid = <<"holderToken", "token", "token22">>
      BY <2>2
    <3> HIDE DEF mid
    <3> QED
      BY <3>1
  <2> QED
    BY <2>1, <2>2
<1>4. end \in Seq(S) /\ Len(end) = 4
  OBVIOUS
<1> HIDE DEF mid, end, S
<1>5. IsThree(SdkKeys(kind), SharedKeys, mid, end)
  BY <1>1, <1>2, <1>3, <1>4, ThreeParts
<1>6. \A i \in 1 .. 9 : SharedKeys[i] = HandlerOrder(kind)[i]
  BY DEF SharedKeys, HandlerOrder
<1>7. \A j \in 1 .. 3 : mid[j] = HandlerOrder(kind)[9 + j]
  <2>1. CASE kind = "open"
    BY <2>1 DEF mid, HandlerOrder
  <2>2. CASE kind # "open"
    BY <2>2 DEF mid, HandlerOrder
  <2> QED
    BY <2>1, <2>2
<1>8. \A j \in 1 .. 4 : end[j] = HandlerOrder(kind)[12 + j]
  BY DEF end, HandlerOrder
<1>9. \A i \in 1 .. 16 : \/ i \in 1 .. 9
                         \/ \E j \in 1 .. 3 : i = 9 + j
                         \/ \E j \in 1 .. 4 : i = 12 + j
  <2>1. \A i \in 10 .. 12 : i - 9 \in 1 .. 3 /\ i = 9 + (i - 9)
    OBVIOUS
  <2>2. \A i \in 13 .. 16 : i - 12 \in 1 .. 4 /\ i = 12 + (i - 12)
    OBVIOUS
  <2> QED
    BY <2>1, <2>2
<1>10. ASSUME NEW i \in 1 .. 16
       PROVE  SdkKeys(kind)[i] = HandlerOrder(kind)[i]
  <2> HIDE DEF mid
  <2>1. CASE i \in 1 .. 9
    BY <1>5, <1>6, <2>1, Zenon DEF IsThree
  <2>2. ASSUME NEW j \in 1 .. 3, i = 9 + j
        PROVE  SdkKeys(kind)[i] = HandlerOrder(kind)[i]
    BY <1>5, <1>7, <2>2, Zenon DEF IsThree
  <2>3. ASSUME NEW j \in 1 .. 4, i = 12 + j
        PROVE  SdkKeys(kind)[i] = HandlerOrder(kind)[i]
    BY <1>5, <1>8, <2>3, Zenon DEF IsThree
  <2> QED
    BY <1>9, <2>1, <2>2, <2>3
<1> QED
  BY <1>5, <1>10 DEF IsThree

-----------------------------------------------------------------------------
(* What the checks behind the handler have shown. *)

Behind(step) == \E i \in 1 .. done : Steps(tx.kind)[i] = step

(* done is a place in the list; every check that was passed still holds,   *)
(* for nothing it looked at changes before the CPIs.                       *)
Vetted ==
  /\ tx \in Transaction /\ done \in 0 .. 20
  /\ Behind("length") => Len(tx.keys) >= 16
  /\ Behind("signature") => At("holder") \in tx.signs
  /\ Behind("programs") => At("token") = "token" /\ At("token22") = "token22"
  /\ Behind("deployment") => At("openperps") = Read("market").owner
  /\ Behind("header") => MarketHeader(Read("market"))
  /\ Behind("position") => At("position") = PositionOf[At("mint")]
  /\ Behind("portfolio") =>
       Derived(At("portfolio"), At("position"), At("market"))
  /\ Behind("mint") => Read("mint").surrendered = At("position")
  /\ Behind("nftOwner") => Read("holderNft").owner = "token22"
  /\ Behind("bearer") => Bears(Read("holderNft"), At("mint"), At("holder"))
  /\ Behind("stagingOwner") => Read("staging").owner = "token"
  /\ Behind("staging") =>
       Collateral(Read("staging"), Read("market"), At("position"))

(* Both handlers have twenty checks and CPIs. *)
LEMMA TwentySteps ==
  ASSUME NEW kind
  PROVE  Len(Steps(kind)) = 20
BY DEF Steps, OpenSteps, CloseSteps

(* A step stays, or gets past a check that holds, or past something else.  *)
LEMMA Advances ==
  ASSUME Next
  PROVE  /\ tx' = tx
         /\ \/ done' = done
            \/ /\ done' = done + 1 /\ ~Over
               /\ Current = "length" => Len(tx.keys) >= 16
               /\ Current = "signature" => At("holder") \in tx.signs
               /\ Current = "programs" =>
                    At("token") = "token" /\ At("token22") = "token22"
               /\ Current = "deployment" =>
                    At("openperps") = Read("market").owner
               /\ Current = "header" => MarketHeader(Read("market"))
               /\ Current = "position" =>
                    At("position") = PositionOf[At("mint")]
               /\ Current = "portfolio" =>
                    Derived(At("portfolio"), At("position"), At("market"))
               /\ Current = "mint" =>
                    Read("mint").surrendered = At("position")
               /\ Current = "nftOwner" => Read("holderNft").owner = "token22"
               /\ Current = "bearer" =>
                    Bears(Read("holderNft"), At("mint"), At("holder"))
               /\ Current = "stagingOwner" =>
                    Read("staging").owner = "token"
               /\ Current = "staging" =>
                    Collateral(Read("staging"), Read("market"),
                               At("position"))
<1>1. CASE Cpi
  BY <1>1 DEF Cpi, Call, Step, TokenMetadataInitialize, TokenMintToOne,
              TokenRevokeMintAuthority, InitPortfolio, Deposit, PlaceOrder,
              SettlePnl, Withdraw, TokenBurnOne, TokenTransferSigned,
              CloseStaging, CloseNft, CloseMint, SystemTransferSigned
<1>2. CASE Length \/ Signature \/ Header \/ Position
  BY <1>2 DEF Step, Taken, Length, Signature, Header, Position
<1>3. CASE PositionMint \/ NftOwner \/ Bearer \/ Staging
  BY <1>3 DEF Step, Taken, PositionMint, NftOwner, Bearer, Staging
<1>4. CASE Amounts \/ MintOwner \/ Nft \/ NftData
  BY <1>4 DEF Step, Amounts, MintOwner, Nft, NftData
<1>5. CASE Programs \/ Deployment
  BY <1>5 DEF Step, Taken, Programs, Deployment
<1>6. CASE PortfolioAddress \/ StagingOwner
  BY <1>6 DEF Step, Taken, PortfolioAddress, StagingOwner
<1>7. CASE Return
  BY <1>7 DEF Return
<1> QED
  BY <1>1, <1>2, <1>3, <1>4, <1>5, <1>6, <1>7 DEF Next, Check

(* The checks behind stay true, whatever comes next. *)
LEMMA VettedNext ==
  ASSUME Vetted, [Next]_cvars
  PROVE  Vetted'
<1>1. tx' = tx /\ (done' = done \/ Next)
  BY Advances DEF cvars
<1>2. CASE done' = done
  <2>1. \A step : Behind(step)' <=> Behind(step)
    BY <1>1, <1>2 DEF Behind
  <2>2. /\ \A role : At(role)' = At(role)
        /\ \A role : Read(role)' = Read(role)
    BY <1>1 DEF At, Read
  <2> QED
    BY <1>1, <1>2, <2>1, <2>2 DEF Vetted
<1>3. CASE done' # done
  <2>1. Next
    BY <1>1, <1>3
  <2>2. done' = done + 1 /\ done' \in 0 .. 20
    <3>1. done \in 0 .. 20
      BY DEF Vetted
    <3>2. done' = done + 1 /\ ~Over
      BY <1>3, <2>1, Advances
    <3>3. done # 20
      BY <3>2, TwentySteps DEF Over
    <3> QED
      BY <3>1, <3>2, <3>3
  <2>3. ASSUME NEW step, Behind(step)'
        PROVE  Behind(step) \/ Current = step
    <3>1. PICK i \in 1 .. done + 1 : Steps(tx.kind)[i] = step
      BY <1>1, <2>2, <2>3 DEF Behind
    <3>2. done \in 0 .. 20
      BY DEF Vetted
    <3>3. i \in 1 .. done \/ i = done + 1
      BY <3>2
    <3> QED
      BY <3>1, <3>3 DEF Behind, Current
  <2>4. /\ \A role : At(role)' = At(role)
        /\ \A role : Read(role)' = Read(role)
    BY <1>1 DEF At, Read
  <2>5. tx' \in Transaction
    BY <1>1 DEF Vetted
  <2>6. Behind("length")' => Len(tx'.keys) >= 16
    BY <1>1, <1>3, <2>1, <2>3, Advances DEF Vetted
  <2>7. Behind("signature")' => At("holder") \in tx.signs
    BY <1>3, <2>1, <2>3, Advances DEF Vetted
  <2>8. Behind("header")' => MarketHeader(Read("market"))
    BY <1>3, <2>1, <2>3, Advances DEF Vetted
  <2>9. Behind("position")' => At("position") = PositionOf[At("mint")]
    BY <1>3, <2>1, <2>3, Advances DEF Vetted
  <2>10. Behind("mint")' => Read("mint").surrendered = At("position")
    BY <1>3, <2>1, <2>3, Advances DEF Vetted
  <2>11. Behind("nftOwner")' => Read("holderNft").owner = "token22"
    BY <1>3, <2>1, <2>3, Advances DEF Vetted
  <2>12. Behind("bearer")' =>
           Bears(Read("holderNft"), At("mint"), At("holder"))
    BY <1>3, <2>1, <2>3, Advances DEF Vetted
  <2>13. Behind("staging")' =>
           Collateral(Read("staging"), Read("market"), At("position"))
    BY <1>3, <2>1, <2>3, Advances DEF Vetted
  <2>14. /\ Behind("programs")' =>
              At("token") = "token" /\ At("token22") = "token22"
         /\ Behind("deployment")' => At("openperps") = Read("market").owner
    BY <1>3, <2>1, <2>3, Advances DEF Vetted
  <2>15. Behind("portfolio")' =>
           Derived(At("portfolio"), At("position"), At("market"))
    BY <1>3, <2>1, <2>3, Advances DEF Vetted
  <2>16. Behind("stagingOwner")' => Read("staging").owner = "token"
    BY <1>3, <2>1, <2>3, Advances DEF Vetted
  <2> QED
    BY <1>1, <2>2, <2>4, <2>5, <2>6, <2>7, <2>8, <2>9, <2>10, <2>11, <2>12,
       <2>13, <2>14, <2>15, <2>16 DEF Vetted
<1> QED
  BY <1>2, <1>3

(* Once the CPIs begin, these checks are behind. *)
LEMMA ScreenedPast ==
  ASSUME Vetted, Screened
  PROVE  /\ Behind("length") /\ Behind("signature") /\ Behind("header")
         /\ Behind("position") /\ Behind("nftOwner") /\ Behind("staging")
         /\ Behind("programs") /\ Behind("deployment")
         /\ Behind("stagingOwner")
         /\ IF tx.kind = "open" THEN Behind("mint") /\ Behind("portfolio")
            ELSE Behind("bearer")
<1>1. CASE tx.kind = "open"
  <2>1. Steps(tx.kind) = OpenSteps
    BY <1>1 DEF Steps
  <2>2. \A i \in 1 .. 14 : OpenSteps[i] \in Checks
    BY DEF OpenSteps, Checks
  <2>3. ASSUME ~(done >= 14) PROVE FALSE
    <3>1. done + 1 \in 1 .. 14 /\ done # 20
      BY <2>3 DEF Vetted
    <3>2. ~Over
      BY <3>1, TwentySteps DEF Over
    <3>3. Current \in Checks
      BY <2>1, <2>2, <3>1 DEF Current
    <3> QED
      BY <3>2, <3>3 DEF Screened
  <2>4. \A i \in 1 .. 14 : i \in 1 .. done
    BY <2>3 DEF Vetted
  <2>5. \A i \in 1 .. 14 : Behind(OpenSteps[i])
    BY <2>1, <2>4 DEF Behind
  <2> QED
    BY <1>1, <2>5 DEF OpenSteps
<1>2. CASE tx.kind # "open"
  <2>1. Steps(tx.kind) = CloseSteps
    BY <1>2 DEF Steps
  <2>2. \A i \in 1 .. 11 : CloseSteps[i] \in Checks
    BY DEF CloseSteps, Checks
  <2>3. ASSUME ~(done >= 11) PROVE FALSE
    <3>1. done + 1 \in 1 .. 11 /\ done # 20
      BY <2>3 DEF Vetted
    <3>2. ~Over
      BY <3>1, TwentySteps DEF Over
    <3>3. Current \in Checks
      BY <2>1, <2>2, <3>1 DEF Current
    <3> QED
      BY <3>2, <3>3 DEF Screened
  <2>4. \A i \in 1 .. 11 : i \in 1 .. done
    BY <2>3 DEF Vetted
  <2>5. \A i \in 1 .. 11 : Behind(CloseSteps[i])
    BY <2>1, <2>4 DEF Behind
  <2> QED
    BY <1>2, <2>5 DEF CloseSteps
<1> QED
  BY <1>1, <1>2

-----------------------------------------------------------------------------
(* What the checks are worth. *)

(* From the first step to the last. *)
THEOREM ChecksHold == Spec => []Vetted
<1>1. Init => Vetted
  BY DEF Init, Vetted, Behind
<1>2. Vetted /\ [Next]_cvars => Vetted'
  BY VettedNext
<1> QED
  BY <1>1, <1>2, PTL DEF Spec

(* Whatever the transaction and whatever the chain holds, the PDA signs    *)
(* only for a signer who bears the unit, or at open for a mint surrendered *)
(* to it (processor.rs:3-8).                                               *)
THEOREM SignsOnlyForTheBearer == Spec => []SignsForTheBearer
<1>1. Vetted => SignsForTheBearer
  <2> SUFFICES ASSUME Vetted, Screened
               PROVE  \E mint \in Address :
                        /\ At("position") = PositionOf[mint]
                        /\ IF tx.kind = "open"
                           THEN Account[mint].surrendered = At("position")
                           ELSE \E w \in tx.signs, k \in Address :
                                  /\ Account[k].owner = "token22"
                                  /\ Account[k].holder = w
                                  /\ Account[k].mint = mint
                                  /\ Account[k].amount = 1
    BY DEF SignsForTheBearer
  <2>1. /\ Len(tx.keys) >= 16 /\ At("holder") \in tx.signs
        /\ At("position") = PositionOf[At("mint")]
        /\ Read("holderNft").owner = "token22"
        /\ tx.kind = "open" => Read("mint").surrendered = At("position")
        /\ tx.kind # "open" =>
             Bears(Read("holderNft"), At("mint"), At("holder"))
    BY ScreenedPast DEF Vetted
  <2>2. tx.keys \in Seq(Address) /\ tx.kind \in Kind
    BY AddressAssumption DEF Vetted, TransactionType
  <2>3. \A i \in 1 .. 16 : tx.keys[i] \in Address
    BY <2>1, <2>2
  <2>4. /\ \E i \in 1 .. 16 : HandlerOrder(tx.kind)[i] = "mint"
        /\ \E i \in 1 .. 16 : HandlerOrder(tx.kind)[i] = "holderNft"
    BY DEF HandlerOrder
  <2>5. At("mint") \in Address /\ At("holderNft") \in Address
    BY <2>3, <2>4 DEF At
  <2> QED
    BY <2>1, <2>5 DEF Read, Bears
<1> QED
  BY <1>1, ChecksHold, PTL

(* What the engine's fourth layout is: 32 bytes at offset 48 of a marked   *)
(* market account are the mint it settles in (state.rs:37-48).             *)
LayoutFour ==
  \A k \in Address :
    MarketHeader(Account[k]) => Account[k].at48 = Account[k].collateral

(* On every chain with that layout, the collateral staged and drained is   *)
(* the market's (state.rs:46-48).                                          *)
THEOREM NeverDecodesAnotherLayout ==
  ASSUME LayoutFour
  PROVE  Spec => []NeverMisdecoded
<1>1. Vetted => NeverMisdecoded
  <2> SUFFICES ASSUME Vetted, Screened
               PROVE  Read("staging").mint = Read("market").collateral
    BY DEF NeverMisdecoded
  <2>1. /\ Len(tx.keys) >= 16 /\ MarketHeader(Read("market"))
        /\ Collateral(Read("staging"), Read("market"), At("position"))
    BY ScreenedPast DEF Vetted
  <2>2. tx.keys \in Seq(Address)
    BY AddressAssumption DEF Vetted, TransactionType
  <2>3. \A i \in 1 .. 16 : tx.keys[i] \in Address
    BY <2>1, <2>2
  <2>4. \E i \in 1 .. 16 : HandlerOrder(tx.kind)[i] = "market"
    BY DEF HandlerOrder
  <2>5. At("market") \in Address
    BY <2>3, <2>4 DEF At
  <2> QED
    BY <2>1, <2>5 DEF Read, Collateral, LayoutFour
<1> QED
  BY <1>1, ChecksHold, PTL

-----------------------------------------------------------------------------
(* The SDK's own lists. *)

(* What a caller of the SDK has made ready: a market of the deployment it  *)
(* names, the derived addresses, a token account for the NFT, a staging    *)
(* account, and a surrendered mint to open with or its unit to close with. *)
Ready(kind) ==
  /\ Account["market"].owner = "openperps" /\ Account["openperps"].executable
  /\ MarketHeader(Account["market"]) /\ PositionOf["mint"] = "position"
  /\ Account["holderNft"].owner = "token22"
  /\ TokenAccount(Account["holderNft"]) /\ Account["holderNft"].mint = "mint"
  /\ Account["staging"].owner = "token"
  /\ Collateral(Account["staging"], Account["market"], "position")
  /\ kind = "open" =>
       /\ Derived("portfolio", "position", "market")
       /\ Account["mint"].owner = "token22"
       /\ Account["mint"].surrendered = "position"
  /\ kind = "close" => Bears(Account["holderNft"], "mint", "holder")

(* In a transaction of the SDK every account is in its role's place. *)
LEMMA InPlace ==
  ASSUME tx \in Transaction, FromSdk, NEW i \in 1 .. 16
  PROVE  /\ At(HandlerOrder(tx.kind)[i]) = HandlerOrder(tx.kind)[i]
         /\ tx.keys[i] = HandlerOrder(tx.kind)[i] /\ Len(tx.keys) = 16
<1> DEFINE role == HandlerOrder(tx.kind)[i]
           j == CHOOSE k \in 1 .. 16 : HandlerOrder(tx.kind)[k] = role
<1>1. tx.kind \in Kind
  BY AddressAssumption DEF TransactionType
<1>2. tx.keys = SdkKeys(tx.kind)
  BY DEF FromSdk, Built
<1>3. j \in 1 .. 16 /\ HandlerOrder(tx.kind)[j] = role
  OBVIOUS
<1>4. At(role) = tx.keys[j]
  BY DEF At
<1> HIDE DEF role, j
<1>5. At(role) = role
  BY <1>1, <1>2, <1>3, <1>4, SameOrder
<1>6. tx.keys[i] = role /\ Len(tx.keys) = 16
  BY <1>1, <1>2, SameOrder DEF role
<1> QED
  BY <1>5, <1>6 DEF role

(* Who is who, whatever the kind, and at close.                            *)
LEMMA WhoIsWho ==
  ASSUME tx \in Transaction, FromSdk
  PROVE  /\ At("market") = "market" /\ At("house") = "house"
         /\ At("portfolio") = "portfolio" /\ At("position") = "position"
         /\ At("mint") = "mint" /\ At("holder") = "holder"
         /\ At("holderNft") = "holderNft" /\ At("staging") = "staging"
         /\ At("vault") = "vault" /\ At("token") = "token"
         /\ At("token22") = "token22" /\ At("openperps") = "openperps"
         /\ tx.kind = "close" => At("holderToken") = "holderToken"
<1> DEFINE order == HandlerOrder(tx.kind)
<1>1. \A i \in 1 .. 16 : At(order[i]) = order[i]
  BY InPlace
<1>2. /\ order[1] = "market" /\ order[2] = "house" /\ order[3] = "portfolio"
      /\ order[4] = "position" /\ order[5] = "mint" /\ order[6] = "holder"
      /\ order[7] = "holderNft" /\ order[8] = "staging"
      /\ order[9] = "vault" /\ order[13] = "openperps"
  BY DEF HandlerOrder
<1>3. /\ order[10] = "token" \/ order[11] = "token"
      /\ order[11] = "token22" \/ order[12] = "token22"
      /\ tx.kind = "close" => order[10] = "holderToken"
  BY DEF HandlerOrder
<1> HIDE DEF order
<1> QED
  BY <1>1, <1>2, <1>3

(* What the transaction may do: the flags of the SDK and its programs.     *)
LEMMA SdkPrivileges ==
  ASSUME tx \in Transaction, FromSdk
  PROVE  /\ {"market", "house", "portfolio", "position", "mint", "holder",
             "holderNft", "staging", "vault"} \subseteq tx.writes
         /\ tx.kind = "close" => "holderToken" \in tx.writes
         /\ "holder" \in tx.signs
         /\ {"token", "token22", "openperps"} \subseteq Loaded
         /\ tx.create => "system" \in Loaded
<1> DEFINE order == HandlerOrder(tx.kind)
<1>1. /\ \A i \in 1 .. 16 : tx.keys[i] = order[i]
      /\ Len(tx.keys) = 16
  BY InPlace
<1>2. /\ tx.signs = {SdkKeys(tx.kind)[SdkSigner]}
      /\ tx.writes = {SdkKeys(tx.kind)[i] : i \in SdkWritable(tx.kind)}
      /\ tx.keys = SdkKeys(tx.kind)
  BY DEF FromSdk, Built
<1>3. /\ order[1] = "market" /\ order[2] = "house" /\ order[3] = "portfolio"
      /\ order[4] = "position" /\ order[5] = "mint" /\ order[6] = "holder"
      /\ order[7] = "holderNft" /\ order[8] = "staging"
      /\ order[9] = "vault" /\ order[13] = "openperps"
  BY DEF HandlerOrder
<1>4. /\ order[10] = "token" \/ order[11] = "token"
      /\ order[11] = "token22" \/ order[12] = "token22"
      /\ tx.kind = "close" => order[10] = "holderToken"
  BY DEF HandlerOrder
<1>5. DOMAIN tx.keys = 1 .. 16
  <2>1. tx.keys \in Seq(Address)
    BY AddressAssumption DEF TransactionType
  <2>2. Len(tx.keys) = 16
    BY <1>1
  <2> QED
    BY <2>1, <2>2
<1> HIDE DEF order
<1>6. \A i \in 1 .. 9 : order[i] \in tx.writes
  BY <1>1, <1>2 DEF SdkWritable
<1>7. tx.kind = "close" => order[10] \in tx.writes
  BY <1>1, <1>2 DEF SdkWritable
<1>8. order[6] \in tx.signs
  BY <1>1, <1>2 DEF SdkSigner
<1>9. \A i \in 1 .. 16 : order[i] \in Loaded
  BY <1>1, <1>5 DEF Loaded
<1>10. tx.create => "system" \in Loaded
  BY DEF Loaded
<1> QED
  BY <1>3, <1>4, <1>6, <1>7, <1>8, <1>9, <1>10

(* Which steps only one of the handlers has. *)
LEMMA StepsOfKind ==
  ASSUME Vetted, ~Over
  PROVE  /\ Current \in {"amounts", "portfolio", "mintOwner", "mint"} =>
              tx.kind = "open"
         /\ Current \in {"bearer", "withdraw", "drain"} => tx.kind = "close"
<1>1. done + 1 \in 1 .. 20
  <2>1. done \in 0 .. 20
    BY DEF Vetted
  <2>2. done # 20
    BY TwentySteps DEF Over
  <2> QED
    BY <2>1, <2>2
<1>2. tx.kind \in Kind
  BY AddressAssumption DEF Vetted, TransactionType
<1>3. \A i \in 1 .. 20 :
        CloseSteps[i] \notin {"amounts", "portfolio", "mintOwner", "mint"}
  BY DEF CloseSteps
<1>4. \A i \in 1 .. 20 :
        OpenSteps[i] \notin {"bearer", "withdraw", "drain"}
  BY DEF OpenSteps
<1> QED
  BY <1>1, <1>2, <1>3, <1>4 DEF Current, Steps, Kind

(* Every call of the program in the SDK's transaction is one it may make.  *)
LEMMA SdkCallsAllowed ==
  ASSUME tx \in Transaction, FromSdk, Ready(tx.kind)
  PROVE  /\ OpenPerps = "openperps" /\ PositionOf[At("mint")] = "position"
         /\ \A writes \in
              SUBSET {"market", "house", "portfolio", "position", "mint",
                      "holder", "holderNft", "staging", "vault"},
              signs \in SUBSET {"position", "holder"},
              program \in Loaded : Privileged(program, writes, signs)
         /\ tx.kind = "close" =>
              /\ Privileged("openperps", {"market", "portfolio", "vault",
                                          "holderToken"}, {"position"})
              /\ Privileged("token", {"staging", "holderToken"}, {"position"})
<1> DEFINE nine == {"market", "house", "portfolio", "position", "mint",
                    "holder", "holderNft", "staging", "vault"}
<1>1. /\ \A role \in nine : At(role) = role
      /\ tx.kind = "close" => At("holderToken") = "holderToken"
  BY WhoIsWho
<1>2. OpenPerps = "openperps" /\ PositionOf[At("mint")] = "position"
  BY <1>1 DEF OpenPerps, Read, Ready
<1>3. /\ nine \subseteq tx.writes /\ "holder" \in tx.signs
      /\ tx.kind = "close" => "holderToken" \in tx.writes
      /\ {"token", "token22", "openperps"} \subseteq Loaded
  BY SdkPrivileges
<1>4. ASSUME NEW writes \in SUBSET nine,
             NEW signs \in SUBSET {"position", "holder"},
             NEW program \in Loaded
      PROVE  Privileged(program, writes, signs)
  <2> HIDE DEF nine
  <2>1. Addresses(writes) \subseteq tx.writes
    BY <1>1, <1>3 DEF Addresses
  <2>2. Addresses(signs) \subseteq tx.signs \cup {PositionOf[At("mint")]}
    BY <1>1, <1>2, <1>3 DEF Addresses, nine
  <2> QED
    BY <2>1, <2>2 DEF Privileged
<1>5. ASSUME tx.kind = "close"
      PROVE  /\ Privileged("openperps", {"market", "portfolio", "vault",
                                         "holderToken"}, {"position"})
             /\ Privileged("token", {"staging", "holderToken"}, {"position"})
  BY <1>1, <1>2, <1>3, <1>5 DEF Privileged, Addresses
<1> QED
  BY <1>2, <1>4, <1>5

(* Every check of the handlers passes. *)
LEMMA OwnCheck ==
  ASSUME Vetted, FromSdk, Ready(tx.kind), verdict = "pending", Check
  PROVE  verdict' = "pending"
<1> USE DEF Step
<1>1. /\ At("market") = "market" /\ At("portfolio") = "portfolio"
      /\ At("position") = "position" /\ At("mint") = "mint"
      /\ At("holder") = "holder" /\ At("holderNft") = "holderNft"
      /\ At("staging") = "staging" /\ At("token") = "token"
      /\ At("token22") = "token22" /\ At("openperps") = "openperps"
  BY WhoIsWho DEF Vetted
<1>2. Len(tx.keys) = 16 /\ "holder" \in tx.signs
  BY InPlace, SdkPrivileges DEF Vetted
<1>3. CASE Length \/ Signature \/ Programs
  BY <1>1, <1>2, <1>3 DEF Length, Signature, Programs
<1>4. CASE Amounts
  <2>1. tx.kind = "open"
    BY <1>4, StepsOfKind DEF Amounts
  <2> QED
    BY <1>4, <2>1 DEF Amounts, FromSdk
<1>5. CASE Deployment \/ Header
  BY <1>1, <1>5 DEF Deployment, Header, Read, Ready
<1>6. CASE Position
  BY <1>1, <1>6 DEF Position, Ready
<1>7. CASE PortfolioAddress \/ MintOwner \/ PositionMint
  <2>1. tx.kind = "open"
    BY <1>7, StepsOfKind DEF PortfolioAddress, MintOwner, PositionMint
  <2> QED
    BY <1>1, <1>7, <2>1
       DEF PortfolioAddress, MintOwner, PositionMint, Read, Ready
<1>8. CASE NftOwner \/ Nft \/ NftData
  BY <1>1, <1>8 DEF NftOwner, Nft, NftData, Read, Ready
<1>9. CASE Bearer
  <2>1. tx.kind = "close"
    BY <1>9, StepsOfKind DEF Bearer
  <2> QED
    BY <1>1, <1>9, <2>1 DEF Bearer, Read, Ready
<1>10. CASE StagingOwner \/ Staging
  BY <1>1, <1>10 DEF StagingOwner, Staging, Read, Ready
<1> QED
  BY <1>3, <1>4, <1>5, <1>6, <1>7, <1>8, <1>9, <1>10 DEF Check

(* Every CPI of the handlers has its privileges, but for one sweep. *)
LEMMA OwnCpi ==
  ASSUME Vetted, FromSdk, Ready(tx.kind), verdict = "pending", Cpi
  PROVE  \/ verdict' = "pending"
         \/ /\ verdict' = "runtime" /\ Current = "sweep" /\ ~tx.create
            /\ done' = done
<1> USE DEF Step, Call
<1>1. /\ OpenPerps = "openperps"
      /\ \A writes \in
           SUBSET {"market", "house", "portfolio", "position", "mint",
                   "holder", "holderNft", "staging", "vault"},
           signs \in SUBSET {"position", "holder"},
           program \in Loaded : Privileged(program, writes, signs)
      /\ tx.kind = "close" =>
           /\ Privileged("openperps", {"market", "portfolio", "vault",
                                       "holderToken"}, {"position"})
           /\ Privileged("token", {"staging", "holderToken"}, {"position"})
  BY SdkCallsAllowed DEF Vetted
<1>2. /\ "token" \in Loaded /\ "token22" \in Loaded /\ "openperps" \in Loaded
      /\ tx.create => "system" \in Loaded
  BY SdkPrivileges DEF Vetted
<1>3. CASE \/ TokenMetadataInitialize \/ TokenMintToOne
           \/ TokenRevokeMintAuthority
  BY <1>1, <1>2, <1>3 DEF TokenMetadataInitialize, TokenMintToOne,
                          TokenRevokeMintAuthority
<1>4. CASE InitPortfolio \/ Deposit \/ PlaceOrder \/ SettlePnl
  BY <1>1, <1>2, <1>4 DEF InitPortfolio, Deposit, PlaceOrder, SettlePnl
<1>5. CASE Withdraw \/ TokenTransferSigned
  <2>1. tx.kind = "close"
    BY <1>5, StepsOfKind DEF Withdraw, TokenTransferSigned
  <2> QED
    BY <1>1, <1>5, <2>1 DEF Withdraw, TokenTransferSigned
<1>6. CASE TokenBurnOne \/ CloseStaging \/ CloseNft \/ CloseMint
  BY <1>1, <1>2, <1>6 DEF TokenBurnOne, CloseStaging, CloseNft, CloseMint
<1>7. CASE SystemTransferSigned
  BY <1>1, <1>2, <1>7 DEF SystemTransferSigned
<1> QED
  BY <1>3, <1>4, <1>5, <1>6, <1>7 DEF Cpi

(* One step. *)
LEMMA OwnNext ==
  ASSUME Vetted, OwnListPasses, \A t \in Transaction : Ready(t.kind),
         [Next]_cvars
  PROVE  OwnListPasses'
<1>1. tx' = tx /\ (FromSdk' <=> FromSdk) /\ Ready(tx.kind)
  <2>1. tx' = tx
    BY Advances DEF cvars
  <2> QED
    BY <2>1 DEF FromSdk, Vetted
<1> SUFFICES ASSUME FromSdk
             PROVE  \/ verdict' \in {"pending", "ok"}
                    \/ /\ verdict' = "runtime" /\ Current' = "sweep"
                       /\ ~tx.create
  BY <1>1 DEF OwnListPasses
<1>2. CASE UNCHANGED cvars
  BY <1>1, <1>2 DEF OwnListPasses, cvars, Current
<1>3. CASE Check
  <2>1. verdict = "pending"
    BY <1>3 DEF Check, Step, Length, Signature, Amounts, Programs, Deployment,
                Header, Position, PortfolioAddress, MintOwner, PositionMint,
                NftOwner, Nft, NftData, Bearer, StagingOwner, Staging
  <2> QED
    BY <1>1, <1>3, <2>1, OwnCheck
<1>4. CASE Cpi
  <2>1. verdict = "pending"
    BY <1>4 DEF Cpi, Call, Step, TokenMetadataInitialize, TokenMintToOne,
                TokenRevokeMintAuthority, InitPortfolio, Deposit, PlaceOrder,
                SettlePnl, Withdraw, TokenBurnOne, TokenTransferSigned,
                CloseStaging, CloseNft, CloseMint, SystemTransferSigned
  <2>2. \/ verdict' = "pending"
        \/ /\ verdict' = "runtime" /\ Current = "sweep" /\ ~tx.create
           /\ done' = done
    BY <1>1, <1>4, <2>1, OwnCpi
  <2> QED
    BY <1>1, <2>2 DEF Current
<1>5. CASE Return
  BY <1>5 DEF Return
<1> QED
  BY <1>2, <1>3, <1>4, <1>5 DEF Next

(* What the SDK writes for an open or a close the handlers accept, check   *)
(* by check and CPI by CPI, on any chain on which its caller is ready      *)
(* (instructions.ts:1-3).                                                  *)
THEOREM OwnListsAlwaysPass ==
  ASSUME \A t \in Transaction : Ready(t.kind)
  PROVE  Spec => []OwnListPasses
<1>1. Init => OwnListPasses
  BY DEF Init, OwnListPasses
<1>2. Vetted /\ OwnListPasses /\ [Next]_cvars => OwnListPasses'
  BY OwnNext
<1> QED
  BY <1>1, <1>2, ChecksHold, PTL DEF Spec
-----------------------------------------------------------------------------
(* What may stand in another account's place. *)

Places(kind) == {HandlerOrder(kind)[i] : i \in 1 .. 16}

(* A list of the SDK, but for one account or for two exchanged: if two are *)
(* wrong, each is in the other's place.                                    *)
OneThingWrong(t) ==
  Len(t.keys) >= 16 =>
    \A i, j \in 1 .. 16 :
      /\ i # j
      /\ t.keys[i] # SdkKeys(t.kind)[i]
      /\ t.keys[j] # SdkKeys(t.kind)[j]
      => t.keys[i] = SdkKeys(t.kind)[j]

(* The accounts of one transaction are no others' of them: no other mint   *)
(* or market derives an address among them, and only one of them is a      *)
(* market, one the PDA's collateral account, one an account for the NFT.   *)
PlacesApart(kind) ==
  /\ \A k \in Address : PositionOf[k] \in Places(kind) => k = "mint"
  /\ \A k, p \in Address :
       PortfolioOf[<<p, k>>] \in Places(kind) => k = "market"
  /\ \A k \in Places(kind) \ {"market"} : ~MarketHeader(Account[k])
  /\ \A k \in Places(kind) \ {"staging"} :
       ~(Account[k].owner = "token" /\ Account[k].holder = "position")
  /\ \A k \in Places(kind) \ {"holderNft"} :
       ~(Account[k].owner = "token22" /\ Account[k].mint = "mint")

(* No role has two places. *)
LEMMA OnePlaceEach ==
  ASSUME NEW kind \in Kind, NEW i \in 1 .. 16, NEW j \in 1 .. 16,
         HandlerOrder(kind)[i] = HandlerOrder(kind)[j]
  PROVE  i = j
<1>1. CASE kind = "open"
  BY <1>1 DEF HandlerOrder
<1>2. CASE kind = "close"
  BY <1>2 DEF HandlerOrder
<1> QED
  BY <1>1, <1>2 DEF Kind

(* At is the inverse of the order. *)
LEMMA AtPlace ==
  ASSUME tx.kind \in Kind, NEW i \in 1 .. 16
  PROVE  At(HandlerOrder(tx.kind)[i]) = tx.keys[i]
<1> DEFINE role == HandlerOrder(tx.kind)[i]
           j == CHOOSE k \in 1 .. 16 : HandlerOrder(tx.kind)[k] = role
<1>1. j \in 1 .. 16 /\ HandlerOrder(tx.kind)[j] = role
  OBVIOUS
<1>2. At(role) = tx.keys[j]
  BY DEF At
<1> HIDE DEF j
<1>3. j = i
  BY <1>1, OnePlaceEach
<1> QED
  BY <1>2, <1>3

(* Of two wrong accounts, each is in the other's place. *)
LEMMA TwoWrong ==
  ASSUME tx.kind \in Kind, OneThingWrong(tx), Len(tx.keys) >= 16,
         NEW r \in Places(tx.kind), NEW s \in Places(tx.kind),
         r # s, At(r) # r, At(s) # s
  PROVE  At(r) = s
<1>1. PICK i \in 1 .. 16 : HandlerOrder(tx.kind)[i] = r
  BY DEF Places
<1>2. PICK j \in 1 .. 16 : HandlerOrder(tx.kind)[j] = s
  BY DEF Places
<1>3. tx.keys[i] = At(r) /\ tx.keys[j] = At(s)
  BY <1>1, <1>2, AtPlace
<1>4. SdkKeys(tx.kind)[i] = r /\ SdkKeys(tx.kind)[j] = s
  BY <1>1, <1>2, SameOrder
<1> QED
  BY <1>1, <1>2, <1>3, <1>4 DEF OneThingWrong

(* The roles both handlers name, and those of one of them. *)
LEMMA NamedPlaces ==
  ASSUME NEW kind \in Kind
  PROVE  /\ {"market", "portfolio", "position", "mint", "holder",
             "holderNft", "staging", "openperps"} \subseteq Places(kind)
         /\ Places(kind) \subseteq
              {"market", "position", "mint", "staging", "token", "token22",
               "openperps"}
                \cup LeftToOthers(kind)
                \cup (IF kind = "open" THEN {"portfolio"}
                                       ELSE {"holder", "holderNft"})
<1> DEFINE order == HandlerOrder(kind)
<1>1. /\ order[1] = "market" /\ order[2] = "house" /\ order[3] = "portfolio"
      /\ order[4] = "position" /\ order[5] = "mint" /\ order[6] = "holder"
      /\ order[7] = "holderNft" /\ order[8] = "staging"
      /\ order[9] = "vault" /\ order[13] = "openperps"
      /\ order[14] = "houseCap" /\ order[15] = "feeConfig"
      /\ order[16] = "riskConfig"
  BY DEF HandlerOrder
<1>2. kind = "open" =>
        order[10] = "token" /\ order[11] = "token22" /\ order[12] = "system"
  BY DEF HandlerOrder
<1>3. kind = "close" =>
        /\ order[10] = "holderToken" /\ order[11] = "token"
        /\ order[12] = "token22"
  BY DEF HandlerOrder, Kind
<1> HIDE DEF order
<1>4. {"market", "portfolio", "position", "mint", "holder", "holderNft",
       "staging", "openperps"} \subseteq {order[i] : i \in 1 .. 16}
  BY <1>1
<1>5. ASSUME NEW i \in 1 .. 16
      PROVE  order[i] \in
               {"market", "position", "mint", "staging", "token", "token22",
                "openperps"}
                 \cup LeftToOthers(kind)
                 \cup (IF kind = "open" THEN {"portfolio"}
                                        ELSE {"holder", "holderNft"})
  <2>1. CASE kind = "open"
    BY <1>1, <1>2, <2>1 DEF LeftToOthers
  <2>2. CASE kind = "close"
    BY <1>1, <1>3, <2>2 DEF LeftToOthers
  <2> QED
    BY <2>1, <2>2 DEF Kind
<1> QED
  BY <1>4, <1>5 DEF order, Places

(* A mint can only go with its PDA: both are in their places. *)
LEMMA MintInPlace ==
  ASSUME tx.kind \in Kind, OneThingWrong(tx), Len(tx.keys) >= 16,
         Ready(tx.kind), PlacesApart(tx.kind), At("mint") \in Address,
         At("position") = PositionOf[At("mint")]
  PROVE  At("mint") = "mint" /\ At("position") = "position"
<1>1. At("mint") = "mint"
  <2> SUFFICES ASSUME At("mint") # "mint" PROVE FALSE
    OBVIOUS
  <2>1. At("position") \notin Places(tx.kind)
    BY DEF PlacesApart
  <2>2. "mint" \in Places(tx.kind) /\ "position" \in Places(tx.kind)
    BY NamedPlaces
  <2>3. At("position") # "position"
    BY <2>1, <2>2
  <2>4. At("position") = "mint"
    BY <2>2, <2>3, TwoWrong
  <2> QED
    BY <2>1, <2>2, <2>4
<1> QED
  BY <1>1 DEF Ready

(* If one account is not of the list at all, the others are in place. *)
LEMMA OthersInPlace ==
  ASSUME tx.kind \in Kind, OneThingWrong(tx), Len(tx.keys) >= 16,
         NEW r \in Places(tx.kind), At(r) \notin Places(tx.kind),
         NEW s \in Places(tx.kind), s # r
  PROVE  At(s) = s
BY TwoWrong

(* At open the portfolio holds the market in its place, and with it the    *)
(* program.                                                                *)
LEMMA OpenInPlace ==
  ASSUME tx.kind = "open", OneThingWrong(tx), Len(tx.keys) >= 16,
         Ready("open"), PlacesApart("open"), At("market") \in Address,
         At("position") \in Address, At("position") = "position",
         At("openperps") = Read("market").owner,
         Derived(At("portfolio"), At("position"), At("market"))
  PROVE  /\ At("market") = "market" /\ At("portfolio") = "portfolio"
         /\ At("openperps") = "openperps"
<1>1. /\ tx.kind \in Kind /\ "market" \in Places("open")
      /\ "portfolio" \in Places("open")
  BY NamedPlaces DEF Kind
<1>2. At("portfolio") = PortfolioOf[<<"position", At("market")>>]
  BY DEF Derived
<1>3. PositionOf["mint"] = "position"
      /\ "portfolio" = PortfolioOf[<<"position", "market">>]
      /\ Account["market"].owner = "openperps"
  BY DEF Ready, Derived
<1>4. At("market") = "market"
  <2>1. CASE At("portfolio") \in Places("open")
    BY <1>2, <2>1 DEF PlacesApart
  <2>2. CASE At("portfolio") \notin Places("open")
    BY <1>1, <2>2, OthersInPlace
  <2> QED
    BY <2>1, <2>2
<1> QED
  BY <1>2, <1>3, <1>4 DEF Read

(* The account in the place of a role is the SDK's, or as good. *)
Fits(role) ==
  \/ At(role) = role
  \/ /\ role \in Replaceable(tx.kind)
     /\ AsGood(role, Read(role), Account[role])

(* The staging account is one of the PDA's, for the market's collateral. *)
LEMMA StagingFits ==
  ASSUME tx.kind \in Kind, OneThingWrong(tx), Len(tx.keys) >= 16,
         Ready(tx.kind), PlacesApart(tx.kind), At("position") = "position",
         Read("staging").owner = "token",
         Collateral(Read("staging"), Read("market"), At("position"))
  PROVE  Fits("staging")
<1>1. "market" \in Places(tx.kind) /\ "staging" \in Places(tx.kind)
  BY NamedPlaces
<1>2. CASE At("staging") \in Places(tx.kind)
  BY <1>2 DEF PlacesApart, Collateral, Read, Fits
<1>3. CASE At("staging") \notin Places(tx.kind)
  <2>1. At("market") = "market"
    BY <1>1, <1>3, OthersInPlace
  <2>2. AsGood("staging", Read("staging"), Account["staging"])
    BY <2>1 DEF Ready, Collateral, Read, AsGood
  <2> QED
    BY <2>2 DEF Fits, Replaceable
<1> QED
  BY <1>2, <1>3

(* At close the market is one of the program, with the same collateral. *)
LEMMA MarketFits ==
  ASSUME tx.kind = "close", OneThingWrong(tx), Len(tx.keys) >= 16,
         Ready("close"), PlacesApart("close"), At("position") = "position",
         MarketHeader(Read("market")),
         At("openperps") = Read("market").owner,
         Collateral(Read("staging"), Read("market"), At("position"))
  PROVE  Fits("market") /\ At("openperps") = "openperps"
<1>1. /\ tx.kind \in Kind /\ "market" \in Places("close")
      /\ "staging" \in Places("close") /\ "openperps" \in Places("close")
  BY NamedPlaces DEF Kind
<1>2. CASE At("market") \in Places("close")
  <2>1. At("market") = "market"
    BY <1>2 DEF PlacesApart, Read
  <2> QED
    BY <2>1 DEF Fits, Ready, Read
<1>3. CASE At("market") \notin Places("close")
  <2>1. At("staging") = "staging" /\ At("openperps") = "openperps"
    BY <1>1, <1>3, OthersInPlace
  <2>2. AsGood("market", Read("market"), Account["market"])
    BY <2>1 DEF Ready, Collateral, Read, AsGood
  <2> QED
    BY <2>1, <2>2 DEF Fits, Replaceable
<1> QED
  BY <1>2, <1>3

(* At close the holder is the wallet that bears the unit. *)
LEMMA BearerFits ==
  ASSUME tx.kind = "close", OneThingWrong(tx), Len(tx.keys) >= 16,
         Ready("close"), PlacesApart("close"), At("mint") = "mint",
         Read("holderNft").owner = "token22",
         Bears(Read("holderNft"), At("mint"), At("holder"))
  PROVE  Fits("holderNft") /\ At("holder") = "holder"
<1>1. /\ tx.kind \in Kind /\ "holderNft" \in Places("close")
      /\ "holder" \in Places("close")
  BY NamedPlaces DEF Kind
<1>2. CASE At("holderNft") \in Places("close")
  <2>1. At("holderNft") = "holderNft"
    BY <1>2 DEF PlacesApart, Bears, Read
  <2> QED
    BY <2>1 DEF Fits, Ready, Bears, Read
<1>3. CASE At("holderNft") \notin Places("close")
  <2>1. At("holder") = "holder"
    BY <1>1, <1>3, OthersInPlace
  <2>2. AsGood("holderNft", Read("holderNft"), Account["holderNft"])
    BY <2>1 DEF Ready, Bears, Read, AsGood
  <2> QED
    BY <2>1, <2>2 DEF Fits, Replaceable
<1> QED
  BY <1>2, <1>3

(* What the passed checks leave of a list with one thing wrong. *)
LEMMA ScreenedFits ==
  ASSUME Vetted, Screened, OneThingWrong(tx), Ready(tx.kind),
         PlacesApart(tx.kind), NEW role \in Places(tx.kind),
         role \notin LeftToOthers(tx.kind)
  PROVE  Fits(role)
<1>1. tx.keys \in Seq(Address) /\ tx.kind \in Kind
  BY AddressAssumption DEF Vetted, TransactionType
<1>2. /\ Len(tx.keys) >= 16
      /\ At("token") = "token" /\ At("token22") = "token22"
      /\ At("openperps") = Read("market").owner
      /\ MarketHeader(Read("market"))
      /\ At("position") = PositionOf[At("mint")]
      /\ Read("staging").owner = "token"
      /\ Collateral(Read("staging"), Read("market"), At("position"))
  BY ScreenedPast DEF Vetted
<1>3. ASSUME NEW r \in Places(tx.kind) PROVE At(r) \in Address
  <2>1. PICK i \in 1 .. 16 : HandlerOrder(tx.kind)[i] = r
    BY DEF Places
  <2>2. At(r) = tx.keys[i]
    BY <1>1, <2>1, AtPlace
  <2> QED
    BY <1>1, <1>2, <2>2
<1>4. /\ At("mint") \in Address /\ At("market") \in Address
      /\ At("position") \in Address
  BY <1>1, <1>3, NamedPlaces
<1>5. At("mint") = "mint" /\ At("position") = "position"
  BY <1>1, <1>2, <1>4, MintInPlace
<1>6. Fits("staging")
  BY <1>1, <1>2, <1>5, StagingFits
<1>7. Fits("market") /\ At("openperps") = "openperps"
  <2>1. CASE tx.kind = "open"
    <3>1. Derived(At("portfolio"), At("position"), At("market"))
      BY <2>1, ScreenedPast DEF Vetted
    <3> QED
      BY <1>2, <1>4, <1>5, <2>1, <3>1, OpenInPlace DEF Fits
  <2>2. CASE tx.kind = "close"
    BY <1>2, <1>5, <2>2, MarketFits
  <2> QED
    BY <1>1, <2>1, <2>2 DEF Kind
<1>8. tx.kind = "open" => At("portfolio") = "portfolio"
  <2> SUFFICES ASSUME tx.kind = "open" PROVE At("portfolio") = "portfolio"
    OBVIOUS
  <2>1. Derived(At("portfolio"), At("position"), At("market"))
    BY ScreenedPast DEF Vetted
  <2> QED
    BY <1>2, <1>4, <1>5, <2>1, OpenInPlace
<1>9. tx.kind = "close" => Fits("holderNft") /\ At("holder") = "holder"
  <2> SUFFICES ASSUME tx.kind = "close"
               PROVE  Fits("holderNft") /\ At("holder") = "holder"
    OBVIOUS
  <2>1. Behind("nftOwner") /\ Behind("bearer")
    BY ScreenedPast
  <2>2. /\ Read("holderNft").owner = "token22"
        /\ Bears(Read("holderNft"), At("mint"), At("holder"))
    BY <2>1 DEF Vetted
  <2> QED
    BY <1>2, <1>5, <2>2, BearerFits
<1>10. \/ role \in {"market", "position", "mint", "staging", "token",
                    "token22", "openperps"}
       \/ tx.kind = "open" /\ role = "portfolio"
       \/ tx.kind = "close" /\ role \in {"holder", "holderNft"}
  BY <1>1, NamedPlaces DEF Kind
<1> QED
  BY <1>2, <1>5, <1>6, <1>7, <1>8, <1>9, <1>10 DEF Fits

(* Whatever the rest of the chain holds: in a list of the SDK with one     *)
(* account replaced, by any account, or with two exchanged, the checks let *)
(* pass only what the called programs have to refuse or what is as good    *)
(* (state.rs:1-4).                                                         *)
THEOREM OneThingWrongIsFound ==
  ASSUME \A t \in Transaction :
           OneThingWrong(t) /\ Ready(t.kind) /\ PlacesApart(t.kind)
  PROVE  Spec => []OnlyThoseOpen
<1>1. Vetted => OnlyThoseOpen
  <2> SUFFICES ASSUME Vetted, Screened, NEW i \in 1 .. 16,
                      NEW role, role = HandlerOrder(tx.kind)[i],
                      tx.keys[i] # role, role \notin LeftToOthers(tx.kind)
               PROVE  /\ role \in Replaceable(tx.kind)
                      /\ AsGood(role, Account[tx.keys[i]], Account[role])
    BY DEF OnlyThoseOpen
  <2>1. tx.kind \in Kind /\ tx \in Transaction
    BY AddressAssumption DEF Vetted, TransactionType
  <2>2. role \in Places(tx.kind) /\ At(role) = tx.keys[i]
    BY <2>1, AtPlace DEF Places
  <2>3. OneThingWrong(tx) /\ Ready(tx.kind) /\ PlacesApart(tx.kind)
    BY <2>1
  <2>4. Fits(role)
    BY <2>2, <2>3, ScreenedFits
  <2> QED
    BY <2>2, <2>4 DEF Fits, Read
<1> QED
  BY <1>1, ChecksHold, PTL

=============================================================================
