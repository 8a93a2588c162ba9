--------------------------- MODULE MCAccountChecks ---------------------------
(* The chain around one position, and the lists a client may send: the     *)
(* SDK's, and the SDK's with one thing wrong.                              *)
EXTENDS AccountChecks

Roles == {SdkKeys("open")[i] : i \in 1 .. 16} \cup {"holderToken"}

(* Other markets, another position, other token accounts, accounts too     *)
(* short to hold what they are passed for.                                 *)
MCAddress ==
  Roles \cup
  {"ata", "usd", "eur", "none", "stranger", "migratedMarket", "shortMarket",
   "otherMarket", "twinMarket", "otherperps", "mint2", "position2", "nft2",
   "spareNft", "emptyNft", "shortNft", "staging2", "spareStaging", "eurStaging",
   "shortStaging"}

Plain(owner) ==
  [owner |-> owner, executable |-> FALSE, size |-> 400, marked |-> FALSE,
   version |-> 0, at48 |-> "none", collateral |-> "none", mint |-> "none",
   holder |-> "none", amount |-> 0, surrendered |-> "none"]

MarketAccount(owner, version, at48, collateral) ==
  [Plain(owner) EXCEPT !.marked = TRUE, !.version = version, !.at48 = at48,
                       !.collateral = collateral]

TokenAcct(program, mint, holder, amount) ==
  [Plain(program) EXCEPT !.size = 165, !.mint = mint, !.holder = holder,
                         !.amount = amount]

MCAccount ==
  [k \in MCAddress |->
    CASE k \in {"market", "twinMarket"} ->
           MarketAccount("openperps", 4, "usd", "usd")
      [] k = "migratedMarket" -> MarketAccount("openperps", 5, "usd", "eur")
      [] k = "shortMarket" -> [Plain("openperps") EXCEPT !.size = 40]
      [] k = "otherMarket" -> MarketAccount("otherperps", 4, "usd", "usd")
      [] k \in {"openperps", "otherperps", "token", "token22", "system", "ata"}
           -> [Plain("none") EXCEPT !.executable = TRUE]
      [] k = "mint" -> [Plain("token22") EXCEPT !.surrendered = "position"]
      [] k = "mint2" -> [Plain("token22") EXCEPT !.surrendered = "position2"]
      [] k \in {"holderNft", "spareNft"} ->
           TokenAcct("token22", "mint", "holder", 1)
      [] k = "emptyNft" -> TokenAcct("token22", "mint", "stranger", 0)
      [] k = "nft2" -> TokenAcct("token22", "mint2", "stranger", 1)
      [] k = "shortNft" -> [Plain("token22") EXCEPT !.size = 10]
      [] k \in {"staging", "spareStaging"} ->
           TokenAcct("token", "usd", "position", 0)
      [] k = "staging2" -> TokenAcct("token", "usd", "position2", 0)
      [] k = "eurStaging" -> TokenAcct("token", "eur", "position", 0)
      [] k = "shortStaging" -> [Plain("token") EXCEPT !.size = 10]
      [] k = "vault" -> TokenAcct("token", "usd", "market", 0)
      [] k = "holderToken" -> TokenAcct("token", "usd", "holder", 0)
      [] k \in {"usd", "eur"} -> [Plain("token") EXCEPT !.size = 82]
      [] k \in {"house", "portfolio", "houseCap", "feeConfig", "riskConfig"}
           -> Plain("openperps")
      [] OTHER -> [Plain("system") EXCEPT !.size = 0]]

MCPositionOf ==
  [k \in MCAddress |-> CASE k = "mint" -> "position"
                         [] k = "mint2" -> "position2"
                         [] OTHER -> "none"]

MCPortfolioOf ==
  [p \in MCAddress \X MCAddress |->
     IF p = <<"position", "market">> THEN "portfolio" ELSE "none"]

(* What the SDK sends. *)
Own(create) ==
  {Built(kind, SdkKeys(kind), create, size, amount, dust, gift) :
     kind \in Kind, size, amount, dust, gift \in BOOLEAN}

Full(keys, kind, on) == Built(kind, keys, TRUE, on, on, on, on)

(* One account exchanged for another, two places exchanged. *)
Put ==
  {Full([SdkKeys(kind) EXCEPT ![i] = k], kind, on) :
     kind \in Kind, i \in 1 .. 16, k \in MCAddress, on \in BOOLEAN}
Exchanged ==
  {Full([SdkKeys(kind) EXCEPT ![i] = SdkKeys(kind)[j],
                              ![j] = SdkKeys(kind)[i]], kind, on) :
     kind \in Kind, i, j \in 1 .. 16, on \in BOOLEAN}

(* One privilege not given, the last account left out, one too many. *)
ReadOnly ==
  {[t EXCEPT !.writes = @ \ {k}] : t \in Own(TRUE), k \in Roles}
Unsigned == {[t EXCEPT !.signs = {}] : t \in Own(TRUE)}
Shorter == {[t EXCEPT !.keys = SubSeq(@, 1, 15)] : t \in Own(TRUE)}
Longer == {[t EXCEPT !.keys = Append(@, "stranger")] : t \in Own(TRUE)}

AllTransactions ==
  UNION {Own(TRUE), Own(FALSE), Put, Exchanged, ReadOnly, Unsigned, Shorter, Longer}
=============================================================================
