# OpenPerps position program: formal models

TLA+ models, TLC runs and TLAPS proofs for the repository's program
(`program/`) and the clients that drive it (`sdk/`).

## The system

A position is a perp position in a bearer NFT. The program keeps **no state of
its own** (`state.rs:1-4`): everything is derived from the NFT mint. What a
position consists of lives in accounts of four other programs.

| part | state it keeps | operations | hard because |
|---|---|---|---|
| position program (`processor.rs`) | none; the position PDA signs for the accounts below | `OpenPosition`, `ClosePosition`: ten to twelve checks, then a fixed sequence of CPIs | any client sends any accounts and any numbers; one refused CPI reverts all |
| mint whitelist (`state.rs:94-168`) | none; reads a Token-2022 mint | base fields, then a walk over the extension entries | lengths come from the account; a miss shows only at redemption |
| market binding (`processor.rs:89-109`, `state.rs:41-54`) | none | market owner = program, header version, collateral mint | header versions |
| Token-2022 (external) | the NFT mint: supply, mint authority, extensions, metadata; one token account per wallet | create, mint, revoke, transfer, burn, close | anyone may act between two client transactions |
| SPL Token and System (external) | collateral in wallets and in the position's staging account; lamports on the PDA | transfer, close | strangers may donate |
| OpenPerps (external) | portfolio of each position and market: capital, pnl, legs; the house | InitPortfolio, Deposit, PlaceOrder, SettlePnl, Withdraw, liquidation | marks move, anyone may settle or liquidate |
| SDK builders (`position.ts`, `instructions.ts`) | none | one transaction that prepares the accounts and opens; one that closes | must agree byte for byte with the decoder |
| command-line client (`cli.ts`) | none | read portfolio and mark, compute flatten and payout, send | what it read is old when the transaction runs |

All interaction is by instructions: client to program, program to the token
programs and to OpenPerps by CPI, with the position PDA as signer. There are no
threads and no callbacks. Concurrency is between *transactions* of unrelated
parties; failure is a *refused check or CPI*, which the runtime turns into no
effect at all.

What makes each part correct:

* handlers: the NFT is a 1-of-1; only its holder is paid; a position is isolated
  from every other one; it can always be redeemed; rent comes back; the name on
  the NFT is the side it holds;
* whitelist: accepts exactly the documented mints, reads in bounds, ends;
* clients: what they ask for is what the program and the engine accept.

## Modules

| module | models | code |
|---|---|---|
| `OpenPerps` | the engine and wrapper operations on a pair of portfolio and house | external, through `opcpi.rs` |
| `PositionProgram` | all accounts of all positions; client, program and engine actions | `processor.rs`, `position.ts` |
| `PositionProperties` | what the program promises | |
| `BearerNft` | the abstract bearer instrument: issued, passed on, ended, paid once | `processor.rs:3-8` |
| `Transactions` | the two handlers CPI by CPI, with the roll-back | `processor.rs`, `opcpi.rs` |
| `AccountChecks` | the account lists, the checks in the code's order, the privileges of every CPI | `instructions.ts`, `processor.rs`, `state.rs`, `opcpi.rs`, `error.rs` |
| `Client` | the command-line close: read, compute, send, try again | `cli.ts` |
| `Wire` | encoders, decoder, CPI payloads, and what the programs called read | `instructions.ts`, `instruction.rs`, `opcpi.rs` |
| `MintWhitelist` | `verify_position_mint`, one action per turn of the loop, and its properties | `state.rs:85-168` |
| `PositionProofs`, `BearerProofs`, `TransactionProofs`, `TransactionTheorems`, `MintWhitelistProofs`, `ClientProofs`, `AccountCheckProofs`, `WireProofs` | TLAPS proofs | |
| `MCPosition`, `MCTransactions`, `MCAccountChecks`, `MCClient`, `MCWire`, `MCMintWhitelist` | instances for TLC | |

How they fit together: `Transactions` and `Client` are built on the actions of
`PositionProgram`, which is built on `OpenPerps`. `Transactions` implements
`PositionProgram` (the handlers as one step), which implements `BearerNft`.
`PositionProgram` takes for granted that the accounts are the right ones and
that the arguments arrive: `AccountChecks` and `Wire` are about that, and
`MintWhitelist` about the one word `vetted` of its mints.

### PositionProgram and the code

`n \in Nft` stands for a mint address and for everything derived from it: the
position PDA and its portfolio in each market. `Stash` are token accounts of one
PDA that hold the collateral mint: the handlers ask for nothing else
(`processor.rs:202-213, 375-386`), so a client may name any of them.

| variable | account |
|---|---|
| `mint[n]` | Token-2022 mint: exists, passes the immutable part of the whitelist (`vetted`), PDA still mint authority, supply, name; as history, the market its unit was issued on |
| `nftAcct`, `nftAmt[n][w]` | `w`'s token account for that mint |
| `staging`, `staged[n][st]` | the collateral accounts owned by the PDA: pairs `<<n, st>>` that exist, and what is in them |
| `pda[n]` | lamports on the PDA |
| `pf[n][mk]`, `house[mk]` | portfolio and counterparty liquidity |
| `tok[w]`, `sol[w]` | a wallet's collateral and lamports |
| `redeemed` | history only |

A transaction is atomic, so a handler is one action: all its checks are guards,
together with the condition under which each of its CPIs is accepted, and its
effect is the effect of the CPIs in their order (order, settle, withdraw, burn,
drain, close, close, close, sweep). A refused transaction is a stuttering step.
The set-up instructions the SDK puts in front of an open are *separate* actions
that any wallet may take for any position at any time, so donations, half-done
set-ups, and opens that use what somebody else prepared are all behaviours.
`OpenPosition` and `ClosePosition` take the portfolio as a parameter of its own
(`pn`): the open checks its derivation, the close does not, and leaves the
order and the withdraw to refuse a foreign one. The account that receives the
payout (`y`) is the signer's choice, as in the code. `mint[n].market` is not in
any account: a mint that is closed, created and opened again can have a portfolio
in each of two markets, and `NeverWedged` and `NamedExposure` speak of the one
its present life was opened on. No action reads it.

### OpenPerps, an assumption

The engine is not in the repository, so this module is what the handlers, their
comments and the SDK rely on:

* an order that shrinks a leg always passes; any other one needs equity left
  after its fee (`OrderAccepted`);
* only a flat portfolio pays out, up to its capital; a profit is released only to
  a flat portfolio, no further than the counterparty can pay (`SettlePnl`);
* a portfolio whose equity is at or below `Maintenance` may be liquidated by
  anyone, *in any parts*: one leg is cut by one unit, by more, or taken whole
  (`processor.rs:393` speaks of "fully liquidated"). What a liquidation costs the
  portfolio beyond the loss it has is not modelled;
* a side byte of 1 sells, 0 buys; any other byte (2 stands for all of them) is
  refused or buys, `OtherBuys`. The runs take the case in which it buys, which
  is the one in which a position exists; the proofs hold for both. An engine that
  *sold* on such a byte is excluded by this assumption: the program, which compares
  with 1 (`processor.rs:220`), would write "Long" on a short.

### BearerNft and the program

`ImplementsBearer` reads `bearer[n]` as the wallets that pass the bearer check
and `side[n]` as the name of a live mint. An open is an `Issue`, a transfer a
`Pass`, a close and a burn outside the program a `Retire`; everything else,
market moves included, is a `Spend` or a stutter.

### Transactions and the code

`tx` is the request, `work` the accounts of the request as the CPIs have left
them, `at` the CPI about to be made. `Begin` makes the checks; every CPI is an
action that is either accepted (`Accepts`, what the called program asks) or
refused, and then `Revert` drops `work`; `Commit` writes it back. While a
transaction runs nobody else moves: the runtime locks its accounts. Requests are
all a client can send, including the three it should not: a payout into the
staging account that is about to be drained (`self`), the PDA of the same mint
under another bump (`~home`: `processor.rs:346` takes the client's bump), and
the portfolio of another position. `AtomicHandlers` is the refinement:
whatever the CPIs do is one step of `PositionProgram`, or nothing.

### AccountChecks and the code

An account is an address and what can be read from it. A behaviour is one
transaction going through `Steps`, the checks and CPIs of its handler in the order
of the code; `done` counts those behind it, and a CPI there is nothing to do for
(`Taken`) is passed over. A check that fails ends it with the `PositionError` the code
returns, a CPI without its program or its privileges with `"runtime"`. The SDK's
lists (`SdkKeys`, `Built`) and the handlers' destructuring (`HandlerOrder`) are
two separate transcriptions, as in the code. `OnlyThoseOpen` says place by place
what another account must be to get past the checks: in a place of `LeftToOthers`
anything, which the called program has to refuse; in a `Replaceable` one an account
in which the handlers read the same (`AsGood`); in all others nothing but the
SDK's. At close the market is replaceable: only the open derives the portfolio, so
the handler takes any market of the same program and collateral and leaves it to
the engine that a portfolio is of one market.

### Client and the code

`Read` is `cli.ts:54-88`: one look at the portfolio, from which flatten and
payout are computed (`Computed`). The request also records, as history, what the engine
still owed a portfolio that had lost its leg (`owed`): the code prints the pnl
and does not use it. `Send` is `cli.ts:89-111`; the program closes or refuses, and
in both cases the client forgets what it asked for. Everything else may happen in
between: sales, donations, settles by anyone (`Keeper`, to which nobody is
bound), and liquidation, of the whole leg or of a part of it. `FeeEstimate` is
the client's close fee; the runs take it equal to the engine's
(`FeeCovered` asks no less), because how the engine rounds is not in this repository.

### Wire and the code

One call: `Init` is the SDK's encoder, the adversary sends the bytes whole, cut,
padded or under an unknown tag. The encoder is given byte by byte: the last
field that covers a byte has written it. Then come the tag, the bounds, `unpack`, the
refusal of an empty position, and all CPI payloads at once, each read again by
a decoder for the program it goes to. Offsets and widths are the code's; a byte
has `Radix` values instead of 256 (`Place[n]` is what the digit n places up is
worth). Names are as long as the code's, letter by letter the same letter.

### MintWhitelist and the code

The offsets (166, 4), the type ids (3, 18) and the lengths (32, 64) are the real
ones; keys are `"pda"`, `"mint"`, `"other"`. The bytes are given by entries at
the offsets where their headers start; bytes of no entry are zero. `reach` is a
history variable: the end of the highest slice taken so far, so that "no panic"
is `reach <= mint.size`. The assumption `MintsAssumption` says that entries
follow one another from the start of the region, as Token-2022 writes them;
nothing is assumed of their lengths and the account size.

## Runs

| run | question | instance | states |
|---|---|---|---|
| `lifecycle` | type, 1-of-1, redeemable, named exposure, payment, rent | 1 position, 2 wallets, 2 assets, fee 1, rents 1 | 195,885 |
| `isolation` | can one position touch another, any portfolio account passed | 2 positions, 2 wallets, 1 market | 435,769 |
| `reopen` | burned outside or redeemed, created again, opened on another market; a burned unit stays buried; the program implements `BearerNft` | 1 mint, 2 markets | 415,559 |
| `tx_calls` | do the CPIs amount to the single steps, does any refuse without cause, do the books balance in between | 1 position, 2 wallets, every request | 162,016 |
| `account_lists` | do the SDK's lists pass; what can be put into them instead | the SDK's 64 transactions and those with one account replaced or exchanged, one privilege or account missing | 35,445 |
| `client_lifeboat` | what may go wrong between read and send; does a request in hand stay true, and is one that is up to date accepted; what does a stale one leave behind; is the position redeemed in the end with nobody's help | 1 position of size 3, 2 holders, 2 moves | 229,902 |
| `wire` | do the four layouts agree, at every edge | every field at its edges, neighbours 0, 1 or full; every cut | 37,143 |
| `mint_whitelist` | exact verdict, in bounds, ends | lists of up to 3 extensions of 9 kinds, 6 sizes each; 7 base defects; 3 short accounts | 17,311 |
| `client_stale` | finding 1 below | 1 holder, size 3, 3 moves | |
| `held_again` | finding 2 | as reopen | |
| `client_profit` | finding 3 | 1 holder, sizes to 2, 2 moves | |
| `client_unsettled` | finding 4 | 1 holder, size 3, 3 moves | |

Bounds, all constants of the configurations: `Amount` and `Size` up to 3 and 2,
enough for a deposit, an order fee, a profit, and a partial as well as an
excessive payout; `PnlBound` 1 or 2 caps what a leg may gain or lose, enough to
wipe out the collateral of an open and to owe more than it; `InitialTokens` and
`InitialSol` bound what can be funded, donated and rented (in `lifecycle` an open
costs four lamports and the two wallets have six: they share the rent of one
position and have some left to give). In `isolation` the house holds one unit and
two positions can each be owed one: the second profit is not released. Two wallets are
the holder and the stranger, who may buy the NFT; two positions are the one that
moves and the one that must not. Wallets, and in `isolation` positions, are
symmetric. `reopen` and `isolation` set fee and account rents to zero, so that the
wallets can pay for a second life and a second position.
`tx_calls` has one position, two amounts and one unit of collateral per wallet,
enough for one wallet to fund what the other one opens, and for each
CPI to be refused in some behaviour; the house and the foreign portfolio of a
close are covered by `isolation`, which passes every portfolio account.
In `account_lists` the chain has, for each role, an account that differs from
the right one in one respect: other market, other layout version, other owner,
other mint, other position, no unit, too short; and, for the three that can be
replaced, one that is as good. In `wire` the radix is 3: two values would make
"one" and "full" the same digit; each offset and width is exercised whatever the
radix is. `client_lifeboat` opens legs of size 3, the smallest that a liquidation
can cut so that the order for the whole leg still shrinks what is left (3, cut to
2, crossed to 1 on the other side), and allows two moves of the mark or sales: a
loss and a sale between a read and its send; liquidations and settles are not
counted. Its rents are zero except the portfolio's.
Deadlock is not checked: a system without clients may stop for ever.

Fairness: `PositionProgram` has none, and only safety is claimed of it; that a
holder ever redeems is up to the holder. What replaces liveness is `NeverWedged`:
in every state a close exists that would succeed. `MintWhitelist` has
`WF_vars(Next)` for `Terminates`: a function that was called executes. `Client`
has weak fairness of `Command(w)`: a holder who wants out runs the command again
and again, which is the only retry there is (`cli.ts` has none). No fairness is given to
anything else: not to settles, sales, donations or liquidation. Under this alone
`EventuallyRedeemed` fails (finding 4); what does hold is `RedeemedUnlessOwing`: a
position that is never redeemed ends with a loss that nobody settles. It also
rests on the bound `MaxMoves`: the mark comes to rest.

### Findings

1. `client_stale`: a close with payout 0 skips the withdraw (`processor.rs:435`),
   the only step that refuses open legs, and burns the NFT with legs and capital
   left; `position.ts:14-17` says a wrong client can never lose the position. Any
   client may send such a close, and the run shows that the repository's own command
   does: a leg cut by a liquidation between the read and the send is crossed by
   the order for the leg that was read, and the payout of a capital not above the
   fee is 0. `OnlyCutLegsStay` says that this is the only way it happens to the command.
2. `held_again`: the closed mint can be created again under the same key and its
   unit minted by an open on another market, so the same PDA signs again;
   `processor.rs:457-458` says it never can.
3. `client_profit`: the command-line client asks for the capital it read less the
   fee and leaves the pnl out; a profit that the close's own settle releases
   stays in the portfolio of a burned NFT. `cli.ts:84-85` says it withdraws
   everything the flatten leaves behind.
4. `client_unsettled`: the other side of finding 3. With a loss not yet settled the
   command asks for more than the close's own settle leaves, the close reverts
   with that settle in it, and running the command again asks for the same, until
   somebody else settles or liquidates (any wallet can). `cli.ts:2-3` and
   `README.md:42-43` say that no keeper is needed.

Observations, from the same models:

* (a) `PrincipalPaid` rests on the engine: a close computed before a liquidation
  would open a leg on the portfolio that is flat by then. If the payout is zero
  nothing in the program refuses that; the engine does, for want of margin, as long as
  liquidation leaves no more equity than a new order needs
  (`LiquidatedCannotOrder`, `Maintenance <= OrderFee`, which the runs satisfy and
  the proof names as its hypothesis). `ClientInductive` and `OnlyCutLegsStay` do
  not need it: in the second, a leg taken whole is the extreme case of a cut;
* (b) after finding 2 a mint can have a portfolio of an earlier life in another
  market. `NeverWedged` says that a close in full exists on the market of the
  present life. A close that names the earlier market passes as well: it burns the
  unit of the present life, whose portfolio keeps its leg and capital, which is
  finding 1 once more (`RedeemedIsFlat`);
* (c) what stays behind (`PrincipalPaid`) may be more than the pnl at the moment
  of the close: a portfolio liquidated while the house was empty still has its
  profit owed to it; if another position's fee refills the house and somebody
  settles between read and send, the profit becomes capital that the payout,
  computed before, leaves out. It takes three positions, more than the run has;
  the attempt to prove the bound found it, and the property counts that part
  as `owed`. A fee estimated too high (`Overestimate`) stays behind as well;
* (d) nothing in the close ties the market to the position: a market of the same
  program with the same collateral passes every check of the handler, and only
  the engine, asked to order or to withdraw, sees that the portfolio belongs to
  another one. The open derives the portfolio and is tied to its market. The
  attempt to prove `OnlyThoseOpen` for every chain showed it: the chain of the run
  had no such market, and has one now;
* (e) the portfolio account that the open creates is never closed, and its rent
  stays in it; `processor.rs:461-462` and `README.md:41` say every account is
  closed. `RentReturns` is about the other accounts;
* (f) the staging account of a close is any token account of the PDA with the
  collateral mint: a close that names an empty one burns the NFT, and collateral
  in another one stays with the PDA (`RentReturns` says the others stay as they
  are). `processor.rs:374` calls it the canonical one; the SDK always names
  the associated account;
* (g) the sweep of the PDA's lamports calls the System program, which is not in
  the account list of `ClosePosition`: a close built without `createHolderToken`
  of a position whose PDA holds a lamport is refused, and `OwnListPasses` names
  exactly this exception. The command-line client creates the account.

## Proofs

The proof modules are checked by TLAPS for all values of the constants: any
number of positions, wallets, stashes, markets and assets, any amounts, fees and
rents; any mint account.

**Position** (`PositionProofs`). The invariant `Inductive` is
`TypeOK /\ OneBearer /\ NamedExposure`.
`OneOfOne` alone is not inductive: that the unit is in the account of exactly
one wallet has to be known before a transfer, and redeeming needs to know that
a staging account is still there and that the mint was vetted, so
`OneBearer` says of every mint that it is `Unissued` or has a `BearerOf`.
`NamedExposure` is inductive only with `OneBearer`: a live mint is never opened
again, so no order is added to a portfolio in use except by a close; and a
liquidation in parts never turns a leg to the other side (`CutFrom`,
`LiquidationCuts`). It is about the portfolio on the market of the present life
(`mint[n].market`), for any number of lives.
From it follow `TypeCorrect`, `BearerInstrument`, `ExposureAsNamed`, and, with
the two lemmas `FlattenWorks` (the engine accepts an order that reduces a leg,
whatever the equity) and `FlatCloses` (a flat portfolio passes every check of
the close, on that market), `AlwaysRedeemable`: the invariant alone, whoever steps, leaves
every live position a close, hence `NeverUnredeemable`. `PaidForAnNft`, `RentGoesHome`, `Isolation` and
`Burial` are action properties proved from the invariant, one case per action.
`PaidForAnNft` bounds the payment by what was staged and what the portfolio of
the burned position gave up; `RentGoesHome` is about the one staging account that the
close names and says that the position's others stay as they are, observation (f).

**Bearer instrument** (`BearerProofs`). `BearerImplemented` is the refinement:
`OneBearer` says who the bearer is before and after a step, the lemmas say
for each action which step of `BearerNft` that makes.

**Transactions** (`TransactionProofs`, `TransactionTheorems`). `OnTrack` says,
for every CPI about to be made, exactly what the loaded accounts are by then
(`OpenWork`, `CloseWork`) and what the accepted CPIs have established about the
request (`OpenPassed`, `ClosePassed`). One lemma per CPI shows that it leads
from one stage to the next; `CommitOpens` and `CommitCloses` show that the
last stage, written back, is `OpenPosition` or `ClosePosition`. From it follow
`HandlersAreAtomic` (the refinement), `RefusalsHaveCauses`, `BooksBalance` (with
`Untouched`: a portfolio that never existed holds nothing) and
`TransactionTypes`. By the refinement every theorem on `PositionProgram` holds
of the transactions too, refused half-way or not: `BearerOfTransactions`,
`TransactionsNeverWedge`, `TransactionsOpenAsNamed`, `TransactionsPayBearers`,
`TransactionsIsolate`, `TransactionsReturnRent`, `TransactionsBury`, and, with
`BearerImplemented`, `TransactionsAreBearer`: the CPIs implement the bearer
instrument.

**Whitelist** (`MintWhitelistProofs`). `Inductive` adds to the bound what the
flags and the offset stand for (`Walked`). `SeenIsWalked` is the heart: when the
loop stops, the entries it admitted are all the entries there are to see.
`VerdictExact` and `NeverOutOfBounds` follow; `TypeCorrect` and `WalkedCorrect`
are the parts of the invariant. `EveryTurnCounts` is the half of `Terminates`
that scheduling has no part in: what is left of the account (`Remaining`) is a
natural number that every turn makes smaller.

**Client** (`ClientProofs`). `ClientInductive` relates each request in hand to the
portfolio as it is now (`RequestsFit`): a leg still there is the one that was
read or what a liquidation left of it, on the side the order flattens, and its
capital has not grown; a flat portfolio has all that was seen, or the request
still asks for an order. It rests on a position not yet redeemed having one portfolio
with at most one leg (`OnePortfolio`), also when its unit was burned outside, and
on a flat one having been liquidated (`LiquidatedIsPoor`). It is inductive without any
hypothesis, for any number of wallets, positions, assets and moves and for every
`FeeEstimate`; `ClientStaysSound` needs no fairness.
`ClientLeavesOnlyCutLegs` is what it says about a stale close: `Redemption` finds the
request that the redeeming step used up, `FlattensOrCrosses` that its order
flattens the leg that was read or crosses one that was cut, and a payout would have
gone through the withdraw, which refuses legs (`CloseLeavesCutLegs`,
`NoOrderWithoutLeg` for a portfolio that was flat already).
`ClientPaysPrincipal` bounds what stays behind, under `LiquidatedCannotOrder`,
observation (a).
`UpToDateIsAccepted` is the safety half of the lifeboat: a holder's request that
is still what the command would compute is refused only for a loss nobody has
settled, finding 4. `ComputedIsAccepted` puts together that `positions[0]` is
the only leg, that the flipped side flattens it and that the payout is there
(`PayoutIsThere`), which needs the fee estimate to cover the fee (`FeeCovered`).
`ClientNeverWedges` needs no estimate: the clients cannot wedge a position.

**Account checks** (`AccountCheckProofs`). `Vetted` says, for each place in the
handler's list, what the checks before it have established: nothing they looked
at changes before the CPIs. `SignsOnlyForTheBearer` follows for every chain and
every list of accounts, without hypothesis. `NeverDecodesAnotherLayout` needs
`LayoutFour`: 32 bytes at offset 48 of a marked version-4 account are its
collateral mint, whichever program wrote it, since the code pins no engine.
`OwnListsAlwaysPass` needs a chain on which the caller's own accounts exist
(`Ready`); its heart is `SameOrder`: the SDK's lists are the handlers' lists, so
every role is in its place. `OneThingWrongIsFound` states `OnlyThoseOpen` for every
chain around those accounts and for every list with one account replaced or two
exchanged (`OneThingWrong`), under `PlacesApart`: no other mint or market derives
an address of this transaction, and its accounts are of different kinds. The
argument is that of two wrong accounts each stands in the other's place
(`TwoWrong`), so if one is not of the list at all, all others are right
(`OthersInPlace`); a derived address then fixes what it is derived from
(`MintInPlace`, `OpenInPlace`), and an account read is fixed by those around it
(`StagingFits`, `MarketFits`, `BearerFits`). TLC finds `Ready`, `LayoutFour`,
`PlacesApart` and `OneThingWrong` true on the chain and the lists of the run.

**Wire** (`WireProofs`), for every base above two, every call and every balance.
`Apart` shows that no two fields share a byte, hence `EncodedBytes`: after a
field's offset stand the digits of its argument, in range or not.
`BeginsWithACall` carries them to the offsets at which the program looks,
whatever follows the payload: `EveryFieldArrives`. `CutShort` shows that a prefix
with its tag lacks the last field: `NoPrefixIsACall`.
What *number* the digits are is `ValueOfDigits`: the digits `LE` writes, read
back, are the argument modulo `Place[width]`, in particular a negative one in two's
complement and a u128 written in two halves; it is an induction over the width
(`Induction`: a set of naturals with 0 and all successors is `Nat`, from the
library's well-founded minimum) with `DivTwice` and `DivModUnique` for the
arithmetic of a digit. With it `OneFieldWraps` is `OnlyItselfWraps` for all integers.
`AskedIsHeard` goes on to the programs called: every message is its parts
one after the other (`SaysByteByByte`, `TwoParts`, `SixParts`), no two formats
understand the same first bytes (`FormatsApart`), so each message is understood as
the one that was meant (`UnderstoodAs`, `OrderHeard`, `NameHeard`), and the handlers
say what the conditions of the code let them say, no more (`AmongBoth`,
`OpenTold`, `CloseTold`). The invariant `Spoke` keeps, from unpacking to the last CPI,
that what was heard is what a handler with the decoded arguments says.

Assumptions, all named and evaluated by TLC: amounts, fees, rents and endowments
are natural numbers; a market lists some asset; `MintsAssumption`;
`AddressAssumption` (the types of the chain), `CallAssumption` (the kinds of calls;
arguments are integers), `BalanceAssumption` (balances are natural numbers),
`RadixAssumption` (a byte has more than two values: 2, the type of the System
program's transfer, has to be one digit; 256 in the code). Hypotheses of single theorems, named above:
`LiquidatedCannotOrder`, `FeeCovered`, `LayoutFour`, `Ready`, `OneThingWrong`,
`PlacesApart`. What
`OpenPerps` says of the engine is an assumption about code outside this
repository, listed under that module.

**Only model-checked**: `Terminates` and `RedeemedUnlessOwing`, for liveness and
`ENABLED` are out of the prover's reach, and the four counterexamples. Every safety
invariant and every action property of the runs is a theorem.

## Not modelled

* the derivation of addresses (`lib.rs`) and `find_program_address`: an
  account is the PDA it claims to be, or another bump's, or not; the entrypoint
  and the log lines, which keep no state;
* mints whose authority is not the position PDA at creation, and units minted
  under it: they never pass the whitelist and no position has them;
* a PDA balance below the rent minimum: the portfolio's rent is the unit in which
  lamports are given to a PDA;
* the engine's prices, margin, spread and open-interest caps: an order that
  increases exposure is accepted when equity is left after its fee; what it
  charges for a liquidation, how it rounds a fee, and how old the oracle price is that a client passes as its limit;
* overflow of balances: token supplies bound them far below 2^64. The widths of
  the instruction fields are modelled, in `Wire`.

## Plan

1. done: `OpenPerps`, `PositionProgram`, properties and proofs; `MintWhitelist`
   and proofs.
2. done: `BearerNft`, and `PositionProgram` shown to implement it, by TLC and by
   proof.
3. done: `Transactions`, shown to implement `PositionProgram`, by TLC and by
   proof; `AccountChecks`, the account validation in the code's order.
4. done: `Client`, the command-line close, and redemption under a holder who
   keeps trying.
5. done: `Wire`, encoders, decoder and CPI payloads as field layouts.
6. done: proofs about `Client`, `AccountChecks` and `Wire`, down to the number an
   argument is when the engine reads it; the consequences of the two refinements
   for the CPI-by-CPI model.
7. done: liquidation in parts, the side bytes without a meaning, and redemption
   without anybody's help.
8. left: the engine's own rounding and liquidation fee, once it is vendored.
