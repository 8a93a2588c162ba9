---------------------------- MODULE AccountChecks ----------------------------
(***************************************************************************)
(* Which accounts a transaction may carry: the lists the SDK writes        *)
(* (instructions.ts), the order in which the handlers take them apart      *)
(* (processor.rs:124, 333), the checks that follow, one action each, and   *)
(* the privileges every CPI asks of the runtime (the account metas of      *)
(* processor.rs and opcpi.rs).  Balances are the business of               *)
(* PositionProgram; here an account is an address and what can be read     *)
(* from it.                                                                *)
(***************************************************************************)
EXTENDS Naturals, Sequences

CONSTANTS
  Address,      \* account addresses; the names of the roles are among them
  Account,      \* what the chain holds at each address
  PositionOf,   \* the position PDA of a mint
  PortfolioOf,  \* the portfolio of a position in a market
  Transaction   \* what clients send

Kind == {"open", "close"}

(* marked, version, at48: discriminator, layout version and the 32 bytes   *)
(* at offset 48, as market_quote_mint reads them.  collateral: what the    *)
(* market really settles in.  mint, holder, amount: the three token        *)
(* account fields.  surrendered: the PDA a fresh, whitelisted position     *)
(* mint was surrendered to (MintWhitelist).                                *)
AccountType ==
  [owner : Address, executable : BOOLEAN, size : Nat,
   marked : BOOLEAN, version : Nat, at48 : Address, collateral : Address,
   mint : Address, holder : Address, amount : Nat, surrendered : Address]

(* create: the SDK's close also creates the payout account (createAta...). *)
(* size, amount: they are not zero.  dust, gift: somebody put collateral   *)
(* into the staging account, lamports on the PDA.                          *)
TransactionType ==
  [kind : Kind, keys : Seq(Address), signs : SUBSET Address,
   writes : SUBSET Address, create : BOOLEAN, size : BOOLEAN,
   amount : BOOLEAN, dust : BOOLEAN, gift : BOOLEAN]

ASSUME AddressAssumption ==
  /\ Account \in [Address -> AccountType]
  /\ PositionOf \in [Address -> Address]
  /\ PortfolioOf \in [Address \X Address -> Address]
  /\ Transaction \subseteq TransactionType

VARIABLES
  tx,       \* the transaction
  done,     \* how many of the handler's checks and CPIs are behind it
  verdict   \* "pending", "ok", a PositionError, or "runtime"

cvars == <<tx, done, verdict>>

-----------------------------------------------------------------------------
(* The SDK's lists. *)

(* Mutant: the two portfolios change places. *)
SharedSwapped ==
  <<"market", "portfolio", "house", "position", "mint", "holder",
    "holderNft", "staging", "vault">>

SharedKeys ==
  <<"market", "house", "portfolio", "position", "mint", "holder",
    "holderNft", "staging", "vault">>

SdkKeys(kind) ==
  SharedKeys
    \o (IF kind = "open" THEN <<"token", "token22", "system">>
                         ELSE <<"holderToken", "token", "token22">>)
    \o <<"openperps", "houseCap", "feeConfig", "riskConfig">>

SdkWritable(kind) == IF kind = "open" THEN 1 .. 9 ELSE 1 .. 10

SdkSigner == 6

(* A transaction with the SDK's flags on the given keys. *)
Built(kind, keys, create, size, amount, dust, gift) ==
  [kind |-> kind, keys |-> keys, signs |-> {keys[SdkSigner]},
   writes |-> {keys[i] : i \in SdkWritable(kind)}, create |-> create,
   size |-> size, amount |-> amount, dust |-> dust, gift |-> gift]

(* createAtaIdempotentIx brings two more programs into the transaction. *)
Loaded == {tx.keys[i] : i \in DOMAIN tx.keys}
            \cup (IF tx.create THEN {"ata", "system"} ELSE {})

-----------------------------------------------------------------------------
(* The handlers' view of a list. *)

HandlerOrder(kind) ==
  IF kind = "open"
  THEN <<"market", "house", "portfolio", "position", "mint", "holder",
         "holderNft", "staging", "vault", "token", "token22", "system",
         "openperps", "houseCap", "feeConfig", "riskConfig">>
  ELSE <<"market", "house", "portfolio", "position", "mint", "holder",
         "holderNft", "staging", "vault", "holderToken", "token", "token22",
         "openperps", "houseCap", "feeConfig", "riskConfig">>

(* The address, and the account, in the place of a role. *)
At(role) ==
  tx.keys[CHOOSE i \in 1 .. 16 : HandlerOrder(tx.kind)[i] = role]

Read(role) == Account[At(role)]

(* Mutant: the layout version is not looked at. *)
AnyMarketHeader(a) == a.size >= 80 /\ a.marked

(* market_quote_mint: long enough, marked, and of the layout this build    *)
(* understands.                                                            *)
MarketHeader(a) == a.size >= 80 /\ a.marked /\ a.version = 4

(* token_account_mint, token_account_owner and token_account_amount. *)
TokenAccount(a) == a.size >= 72

(* Mutant: whose account it is does not matter. *)
HoldsSome(a, mint, wallet) == a.mint = mint /\ a.amount = 1

(* The bearer check. *)
Bears(a, mint, wallet) ==
  a.mint = mint /\ a.holder = wallet /\ a.amount = 1

(* Mutant: any portfolio will do. *)
AnyDerivation(portfolio, position, market) == TRUE

Derived(portfolio, position, market) ==
  portfolio = PortfolioOf[<<position, market>>]

Collateral(a, market, position) ==
  TokenAccount(a) /\ a.mint = market.at48 /\ a.holder = position

OpenSteps ==
  <<"length", "signature", "amounts", "programs", "deployment", "header",
    "position", "portfolio", "mintOwner", "mint", "nftOwner", "nft",
    "stagingOwner", "staging", "metadata", "mintTo", "revoke", "init",
    "deposit", "order">>

CloseSteps ==
  <<"length", "signature", "programs", "deployment", "header", "position",
    "nftOwner", "nftData", "bearer", "stagingOwner", "staging", "order",
    "settle", "withdraw", "burn", "drain", "closeStaging", "closeNft",
    "closeMint", "sweep">>

(* A close leaves out what there is nothing to do for. *)
Taken(t, step) ==
  t.kind = "close" =>
    /\ step = "order" => t.size
    /\ step = "withdraw" => t.amount
    /\ step = "drain" => t.dust
    /\ step = "sweep" => t.gift

Steps(kind) == IF kind = "open" THEN OpenSteps ELSE CloseSteps

Init ==
  /\ tx \in Transaction
  /\ done = 0
  /\ verdict = "pending"

Over == done = Len(Steps(tx.kind))

Current == Steps(tx.kind)[done + 1]

Step(step, passes, error) ==
  /\ verdict = "pending" /\ ~Over /\ Current = step
  /\ \/ /\ Taken(tx, step) => passes
        /\ done' = done + 1 /\ UNCHANGED verdict
     \/ /\ Taken(tx, step) /\ ~passes
        /\ verdict' = error /\ UNCHANGED done
  /\ UNCHANGED tx

-----------------------------------------------------------------------------
(* The checks, in the order of the code. *)

Length ==
  Step("length", Len(tx.keys) >= 16, "InvalidInstruction")

Signature ==
  Step("signature", At("holder") \in tx.signs, "MissingRequiredSignature")

Amounts ==
  Step("amounts", tx.size /\ tx.amount, "InvalidInstructionData")

Programs ==
  Step("programs", At("token") = "token" /\ At("token22") = "token22",
       "InvalidAccountData")

Deployment ==
  Step("deployment",
       At("openperps") = Read("market").owner /\ Read("openperps").executable,
       "InvalidAccountData")

Header ==
  Step("header", MarketHeader(Read("market")), "UninitializedMarket")

Position ==
  Step("position", At("position") = PositionOf[At("mint")],
       "InvalidAccountData")

PortfolioAddress ==
  Step("portfolio", Derived(At("portfolio"), At("position"), At("market")),
       "InvalidAccountData")

MintOwner ==
  Step("mintOwner", Read("mint").owner = "token22", "InvalidAccountOwner")

PositionMint ==
  Step("mint", Read("mint").surrendered = At("position"),
       "InvalidPositionMint")

NftOwner ==
  Step("nftOwner", Read("holderNft").owner = "token22", "InvalidAccountOwner")

Nft ==
  Step("nft",
       TokenAccount(Read("holderNft")) /\ Read("holderNft").mint = At("mint"),
       "InvalidAccountData")

NftData ==
  Step("nftData", TokenAccount(Read("holderNft")), "InvalidAccountData")

Bearer ==
  Step("bearer", Bears(Read("holderNft"), At("mint"), At("holder")),
       "NotPositionHolder")

StagingOwner ==
  Step("stagingOwner", Read("staging").owner = "token", "InvalidAccountOwner")

Staging ==
  Step("staging", Collateral(Read("staging"), Read("market"), At("position")),
       "InvalidAccountData")

-----------------------------------------------------------------------------
(* The CPIs.  The runtime wants the called program in the transaction, and *)
(* a writable or signing meta only where the transaction has that          *)
(* privilege or the program signs for it with the PDA's seeds.             *)

Addresses(roles) == {At(role) : role \in roles}

Privileged(program, writes, signs) ==
  /\ program \in Loaded
  /\ Addresses(writes) \subseteq tx.writes
  /\ Addresses(signs) \subseteq tx.signs \cup {PositionOf[At("mint")]}

Call(step, program, writes, signs) ==
  Step(step, Privileged(program, writes, signs), "runtime")

OpenPerps == Read("market").owner

TokenMetadataInitialize == Call("metadata", "token22", {"mint"}, {"position"})
TokenMintToOne ==
  Call("mintTo", "token22", {"mint", "holderNft"}, {"position"})
TokenRevokeMintAuthority == Call("revoke", "token22", {"mint"}, {"position"})
InitPortfolio ==
  Call("init", OpenPerps, {"portfolio", "position"}, {"position"})
Deposit ==
  Call("deposit", OpenPerps, {"market", "portfolio", "staging", "vault"},
       {"position"})
PlaceOrder ==
  Call("order", OpenPerps, {"market", "portfolio", "house"}, {"position"})
SettlePnl == Call("settle", OpenPerps, {"market", "portfolio"}, {"holder"})
Withdraw ==
  Call("withdraw", OpenPerps, {"market", "portfolio", "vault", "holderToken"},
       {"position"})
TokenBurnOne == Call("burn", "token22", {"holderNft", "mint"}, {"holder"})
TokenTransferSigned ==
  Call("drain", "token", {"staging", "holderToken"}, {"position"})
CloseStaging ==
  Call("closeStaging", "token", {"staging", "holder"}, {"position"})
CloseNft == Call("closeNft", "token22", {"holderNft", "holder"}, {"holder"})
CloseMint == Call("closeMint", "token22", {"mint", "holder"}, {"position"})
SystemTransferSigned ==
  Call("sweep", "system", {"position", "holder"}, {"position"})

Return ==
  /\ verdict = "pending" /\ Over
  /\ verdict' = "ok"
  /\ UNCHANGED <<tx, done>>

Check ==
  \/ Length \/ Signature \/ Amounts \/ Programs \/ Deployment \/ Header
  \/ Position \/ PortfolioAddress \/ MintOwner \/ PositionMint \/ NftOwner
  \/ Nft \/ NftData \/ Bearer \/ StagingOwner \/ Staging

Cpi ==
  \/ TokenMetadataInitialize \/ TokenMintToOne \/ TokenRevokeMintAuthority
  \/ InitPortfolio \/ Deposit \/ PlaceOrder \/ SettlePnl \/ Withdraw
  \/ TokenBurnOne \/ TokenTransferSigned \/ CloseStaging \/ CloseNft
  \/ CloseMint \/ SystemTransferSigned

Next == Check \/ Cpi \/ Return

Spec == Init /\ [][Next]_cvars

-----------------------------------------------------------------------------
(* What the checks are worth. *)

Checks ==
  {"length", "signature", "amounts", "programs", "deployment", "header",
   "position", "portfolio", "mintOwner", "mint", "nftOwner", "nft",
   "nftData", "bearer", "stagingOwner", "staging"}

(* All checks have passed: the CPIs have begun, or are over. *)
Screened ==
  /\ verdict \in {"pending", "ok"}
  /\ Over \/ Current \notin Checks

(* A transaction as the SDK builds it for its own position. *)
FromSdk ==
  /\ tx = Built(tx.kind, SdkKeys(tx.kind), tx.create, tx.size, tx.amount,
                tx.dust, tx.gift)
  /\ tx.kind = "open" => tx.size /\ tx.amount

(* The transcriptions of the account list agree (instructions.ts:1-3):     *)
(* what openPositionIx and closePositionIx write passes every check of the *)
(* handlers and gives every CPI its privileges, whichever CPIs the close   *)
(* needs.  The one exception: the sweep of lamports (processor.rs:505-514) *)
(* calls the System program, which a close carries only when it creates    *)
(* the payout account along the way, as cli.ts does.                       *)
OwnListPasses ==
  FromSdk =>
    \/ verdict \in {"pending", "ok"}
    \/ verdict = "runtime" /\ Current = "sweep" /\ ~tx.create

(* The places the handlers leave to the programs they call; at close also  *)
(* the portfolio, which has to be the PDA's for the order and the withdraw.*)
LeftToOthers(kind) ==
  {"house", "vault", "houseCap", "feeConfig", "riskConfig"}
    \cup (IF kind = "open" THEN {"system", "holder", "holderNft"}
                           ELSE {"portfolio", "holderToken"})

(* The places in which another account may stand: another of the PDA's    *)
(* staging accounts; at close also another account with the signer's unit, *)
(* and another market, for only the open derives the portfolio.            *)
Replaceable(kind) ==
  {"staging"} \cup (IF kind = "open" THEN {} ELSE {"market", "holderNft"})

(* The same program wrote it, and the handlers read the same in it. *)
AsGood(role, a, b) ==
  /\ a.owner = b.owner
  /\ IF role = "market" THEN a.at48 = b.at48
     ELSE a.mint = b.mint /\ a.holder = b.holder
  /\ role = "holderNft" => a.amount = b.amount

(* (nft_mint, market) re-derives everything (state.rs:1-4): a list with    *)
(* one foreign account, or two exchanged, gets through the checks only if  *)
(* the place is left to others, or the account is as good as the SDK's.    *)
OnlyThoseOpen ==
  Screened =>
    \A i \in 1 .. 16 :
      LET role == HandlerOrder(tx.kind)[i] IN
      tx.keys[i] # role /\ role \notin LeftToOthers(tx.kind) =>
        /\ role \in Replaceable(tx.kind)
        /\ AsGood(role, Account[tx.keys[i]], Account[role])

(* Possession is the only credential (processor.rs:3-8): the PDA's         *)
(* signature is lent to nobody but a signer who bears the unit of the mint *)
(* the PDA derives from, or, at open, for a mint that has no unit yet.     *)
SignsForTheBearer ==
  Screened =>
    \E mint \in Address :
      /\ At("position") = PositionOf[mint]
      /\ IF tx.kind = "open"
         THEN Account[mint].surrendered = At("position")
         ELSE \E w \in tx.signs, k \in Address :
                /\ Account[k].owner = "token22" /\ Account[k].holder = w
                /\ Account[k].mint = mint /\ Account[k].amount = 1

(* An account written by a different layout reads as uninitialized instead *)
(* of being silently mis-decoded (state.rs:46-48): what is staged, drained *)
(* and paid out is what the market really settles in.                      *)
NeverMisdecoded ==
  Screened => Read("staging").mint = Read("market").collateral
=============================================================================
