-------------------------------- MODULE Wire --------------------------------
(***************************************************************************)
(* The bytes of a call and what becomes of them: the SDK's encoders        *)
(* (instructions.ts:14-70), PositionInstruction::unpack                    *)
(* (instruction.rs:98-153), the refusal of empty positions, the payloads   *)
(* of every CPI (opcpi.rs) in the order of the handlers, and what the      *)
(* programs called read in them.  Four layouts have to agree.              *)
(*                                                                         *)
(* A byte is a digit to the base Radix, 256 in the code; the widths and    *)
(* the offsets are the code's.  Tag bytes are kept as they are.            *)
(***************************************************************************)
EXTENDS Integers, SequencesExt

CONSTANTS
  Radix,    \* how many values a byte has
  Calls,    \* the calls clients build
  Balances  \* token amounts and lamports a close may find

Kind == {"open", "close"}

VARIABLES
  asked,    \* the arguments the SDK was given
  data,     \* the instruction data
  sent,     \* "built", "whole", "cut", "padded" or "mistagged"
  read,     \* the arguments as the program decoded them
  heard,    \* the CPIs as the programs called understood them
  verdict   \* "pending", "ok" or a PositionError

wvars == <<asked, data, sent, read, heard, verdict>>

ASSUME RadixAssumption == Radix \in Nat /\ Radix > 2

ASSUME BalanceAssumption == Balances \subseteq Nat

Field(name, offset, width) ==
  [name |-> name, offset |-> offset, width |-> width]

(* What a digit is worth: Radix to the n-th power. *)
Place[n \in Nat] == IF n = 0 THEN 1 ELSE Radix * Place[n - 1]

(* The least significant digit first: to_le_bytes, and DataView's setters, *)
(* which keep the low digits of what does not fit.                         *)
LE(v, width) == [i \in 1 .. width |-> (v \div Place[i - 1]) % Radix]

(* from_le_bytes. *)
ValueOf(bytes) ==
  LET upTo[n \in 0 .. Len(bytes)] ==
        IF n = 0 THEN 0 ELSE upTo[n - 1] + bytes[n] * Place[n - 1]
  IN  upTo[Len(bytes)]

Slice(bytes, f) == SubSeq(bytes, f.offset + 1, f.offset + f.width)

Fits(bytes, f) == f.offset + f.width <= Len(bytes)

Values(bytes, layout) ==
  [n \in {layout[i].name : i \in DOMAIN layout} |->
     ValueOf(Slice(bytes, layout[CHOOSE i \in DOMAIN layout :
                                   layout[i].name = n]))]

-----------------------------------------------------------------------------
(* The SDK. *)

(* A close has no second bump. *)
Fields(kind) == IF kind = "open" THEN 8 ELSE 7

(* Mutant: the fee one byte early. *)
SdkLayoutEarly(kind) ==
  [i \in 1 .. Fields(kind) |->
     <<Field("side", 1, 1), Field("asset", 2, 4), Field("size", 6, 16),
       Field("price", 22, 8), Field("fee", 29, 8), Field("amount", 38, 16),
       Field("positionBump", 54, 1), Field("portfolioBump", 55, 1)>>[i]]

SdkLayout(kind) ==
  [i \in 1 .. Fields(kind) |->
     <<Field("side", 1, 1), Field("asset", 2, 4), Field("size", 6, 16),
       Field("price", 22, 8), Field("fee", 30, 8), Field("amount", 38, 16),
       Field("positionBump", 54, 1), Field("portfolioBump", 55, 1)>>[i]]

SdkLength(kind) == IF kind = "open" THEN 56 ELSE 55

(* Arguments are whole numbers, of any size. *)
ASSUME CallAssumption ==
  \A call \in Calls :
    /\ call.kind \in Kind
    /\ \A i \in DOMAIN SdkLayout(call.kind) :
         call.args[SdkLayout(call.kind)[i].name] \in Int

TagOf(kind) == IF kind = "open" THEN 0 ELSE 1

(* Mutant: the high half by division, which rounds towards zero. *)
U128Divided(v) ==
  LE(v, 8) \o
    LE(IF v < 0 THEN -((-v) \div Place[8]) ELSE v \div Place[8], 8)

(* writeU128LE: the low half masked, then the rest. *)
U128(v) == LE(v, 8) \o LE(v \div Place[8], 8)

Digits(v, width) == IF width = 16 THEN U128(v) ELSE LE(v, width)

(* A buffer of zeros, the tag, then field by field.  A byte that two       *)
(* fields cover is the later one's.                                        *)
Encoded(kind, args) ==
  LET layout == SdkLayout(kind)
      Covering(k) == {i \in DOMAIN layout :
                        k - layout[i].offset \in 1 .. layout[i].width}
  IN  [k \in 1 .. SdkLength(kind) |->
         IF Covering(k) = {}
         THEN IF k = 1 THEN TagOf(kind) ELSE 0
         ELSE LET f == layout[Max(Covering(k))]
              IN  Digits(args[f.name], f.width)[k - f.offset]]

-----------------------------------------------------------------------------
(* The program: the tag, then offsets into the rest. *)

(* Mutant: the second bump is read where the first one is. *)
RestLayoutTwice(kind) ==
  [i \in 1 .. Fields(kind) |->
     <<Field("side", 0, 1), Field("asset", 1, 4), Field("size", 5, 16),
       Field("price", 21, 8), Field("fee", 29, 8), Field("amount", 37, 16),
       Field("positionBump", 53, 1), Field("portfolioBump", 53, 1)>>[i]]

RestLayout(kind) ==
  [i \in 1 .. Fields(kind) |->
     <<Field("side", 0, 1), Field("asset", 1, 4), Field("size", 5, 16),
       Field("price", 21, 8), Field("fee", 29, 8), Field("amount", 37, 16),
       Field("positionBump", 53, 1), Field("portfolioBump", 54, 1)>>[i]]

KindOf(tag) == CASE tag = 0 -> "open" [] tag = 1 -> "close" [] OTHER -> "none"

Readable(rest, kind) ==
  \A i \in DOMAIN RestLayout(kind) : Fits(rest, RestLayout(kind)[i])

(* The payloads.  A name is as many equal letters as it has bytes. *)
Letters(letter, n) == [i \in 1 .. n |-> letter]

NameOf(side) == IF side = 1 THEN Letters("S", 24) ELSE Letters("L", 23)

Symbol == Letters("O", 5)

Discriminator == <<210, 225, 30, 162, 88, 184, 77, 141>>

Payload(to, bytes) == [to |-> to, bytes |-> bytes]

MetadataInitialize(name) ==
  Payload("token22", Discriminator \o LE(Len(name), 4) \o name
                       \o LE(Len(Symbol), 4) \o Symbol \o LE(0, 4))

TokenTransfer(amount) == Payload("token", <<3>> \o LE(amount, 8))
SystemTransfer(lamports) == Payload("system", LE(2, 4) \o LE(lamports, 8))
MintToOne == Payload("token22", <<7>> \o LE(1, 8))
RevokeMintAuthority == Payload("token22", <<6, 0, 0>>)
BurnOne == Payload("token22", <<8>> \o LE(1, 8))
CloseAccount(program) == Payload(program, <<9>>)

InitPortfolio(bump) == Payload("engine", <<1, bump>>)
Deposit(amount) == Payload("engine", <<2>> \o LE(amount, 16))
Withdraw(amount) == Payload("engine", <<7>> \o LE(amount, 16))
SettlePnl == Payload("engine", <<20>>)

(* encode_place_order: copies into a zeroed array of 38 bytes. *)
PlaceOrder(a) ==
  Payload("engine",
          <<14>> \o LE(a.side, 1) \o LE(a.asset, 4) \o LE(a.size, 16)
                 \o LE(a.price, 8) \o LE(a.fee, 8))

When(condition, payload) == IF condition THEN <<payload>> ELSE <<>>

(* What the handlers send. *)
OpenPayloads(a) ==
  <<MetadataInitialize(NameOf(a.side)), MintToOne, RevokeMintAuthority,
    InitPortfolio(a.portfolioBump), Deposit(a.amount), PlaceOrder(a)>>

(* Mutant: the flatten and the payout are skipped on each other's zero. *)
ClosePayloadsCrossed(a, staged, lamports) ==
  When(a.amount > 0, PlaceOrder(a)) \o <<SettlePnl>>
    \o When(a.size > 0, Withdraw(a.amount)) \o <<BurnOne>>
    \o When(staged > 0, TokenTransfer(staged))
    \o <<CloseAccount("token"), CloseAccount("token22"),
         CloseAccount("token22")>>
    \o When(lamports > 0, SystemTransfer(lamports))

ClosePayloads(a, staged, lamports) ==
  When(a.size > 0, PlaceOrder(a)) \o <<SettlePnl>>
    \o When(a.amount > 0, Withdraw(a.amount)) \o <<BurnOne>>
    \o When(staged > 0, TokenTransfer(staged))
    \o <<CloseAccount("token"), CloseAccount("token22"),
         CloseAccount("token22")>>
    \o When(lamports > 0, SystemTransfer(lamports))

-----------------------------------------------------------------------------
(* The programs called (external): what they take a payload for. *)

Format(to, tag, op, layout) ==
  [to |-> to, tag |-> tag, op |-> op, layout |-> layout]

Formats ==
  {Format("engine", <<1>>, "init", <<Field("bump", 1, 1)>>),
   Format("engine", <<2>>, "deposit", <<Field("amount", 1, 16)>>),
   Format("engine", <<7>>, "withdraw", <<Field("amount", 1, 16)>>),
   Format("engine", <<14>>, "order",
          <<Field("side", 1, 1), Field("asset", 2, 4), Field("size", 6, 16),
            Field("price", 22, 8), Field("fee", 30, 8)>>),
   Format("engine", <<20>>, "settle", <<>>),
   Format("system", <<2, 0, 0, 0>>, "transfer", <<Field("amount", 4, 8)>>)}
  \cup UNION
  {{Format(t, <<3>>, "transfer", <<Field("amount", 1, 8)>>),
    Format(t, <<6>>, "authority", <<Field("type", 1, 1),
                                    Field("some", 2, 1)>>),
    Format(t, <<7>>, "mintTo", <<Field("amount", 1, 8)>>),
    Format(t, <<8>>, "burn", <<Field("amount", 1, 8)>>),
    Format(t, <<9>>, "close", <<>>)} : t \in {"token", "token22"}}

(* A borsh string at an offset, and the offset after it. *)
BorshText(bytes, at) ==
  SubSeq(bytes, at + 5, at + 4 + ValueOf(SubSeq(bytes, at + 1, at + 4)))
After(bytes, at) == at + 4 + Len(BorshText(bytes, at))

Message(to, op, args) == [to |-> to, op |-> op, args |-> args]

Understood(p) ==
  IF IsPrefix(Discriminator, p.bytes)
  THEN LET symbol == After(p.bytes, 8)
       IN  Message(p.to, "metadata",
                   [name |-> BorshText(p.bytes, 8),
                    symbol |-> BorshText(p.bytes, symbol),
                    uri |-> BorshText(p.bytes, After(p.bytes, symbol))])
  ELSE LET f == CHOOSE g \in Formats :
                  g.to = p.to /\ IsPrefix(g.tag, p.bytes)
       IN  Message(p.to, f.op, Values(p.bytes, f.layout))

-----------------------------------------------------------------------------
(* One call. *)

Nothing == [none |-> 0]

Init ==
  /\ asked \in Calls
  /\ data = Encoded(asked.kind, asked.args)
  /\ sent = "built"
  /\ read = Nothing
  /\ heard = <<>>
  /\ verdict = "pending"

(* The SDK's bytes, or those of a client that cuts them short, lets        *)
(* something follow them, or writes a tag the program does not know.       *)
Sent(how, bytes) ==
  /\ sent = "built"
  /\ sent' = how
  /\ data' = bytes
  /\ UNCHANGED <<asked, read, heard, verdict>>

Whole == Sent("whole", data)
CutTo(n) == Sent("cut", SubSeq(data, 1, n))
Padded == Sent("padded", Append(data, 1))
Mistagged == Sent("mistagged", <<99>> \o Tail(data))

Refuse(error) ==
  /\ verdict' = error
  /\ UNCHANGED <<asked, data, sent, read, heard>>

Arrived == sent # "built" /\ verdict = "pending" /\ read = Nothing

Tagged == data # <<>> /\ KindOf(Head(data)) # "none"

RefuseTag ==
  /\ Arrived
  /\ ~Tagged
  /\ Refuse("InvalidInstruction")

Known == Arrived /\ Tagged

RefuseShort ==
  /\ Known
  /\ ~Readable(Tail(data), KindOf(Head(data)))
  /\ Refuse("InvalidInstructionData")

Unpack ==
  /\ Known
  /\ LET kind == KindOf(Head(data)) IN
       /\ Readable(Tail(data), kind)
       /\ read' = [kind |-> kind,
                   args |-> Values(Tail(data), RestLayout(kind))]
  /\ UNCHANGED <<asked, data, sent, heard, verdict>>

Decoded == read # Nothing /\ verdict = "pending"

Empty(a) == a.size = 0 \/ a.amount = 0

RefuseEmpty ==
  /\ Decoded
  /\ read.kind = "open"
  /\ Empty(read.args)
  /\ Refuse("InvalidInstructionData")

Say(payloads) ==
  /\ heard' = [i \in DOMAIN payloads |-> Understood(payloads[i])]
  /\ verdict' = "ok"
  /\ UNCHANGED <<asked, data, sent, read>>

OpenPosition ==
  /\ Decoded
  /\ read.kind = "open"
  /\ ~Empty(read.args)
  /\ Say(OpenPayloads(read.args))

ClosePosition(staged, lamports) ==
  /\ Decoded
  /\ read.kind = "close"
  /\ Say(ClosePayloads(read.args, staged, lamports))

Next ==
  \/ Whole \/ Padded \/ Mistagged
  \/ \E n \in 0 .. Len(data) - 1 : CutTo(n)
  \/ RefuseTag \/ RefuseShort \/ Unpack \/ RefuseEmpty \/ OpenPosition
  \/ \E staged, lamports \in Balances : ClosePosition(staged, lamports)

Spec == Init /\ [][Next]_wvars

-----------------------------------------------------------------------------
(* What a call asks for, said without bytes. *)

Limit(f) == Place[f.width]

InRange(f) == asked.args[f.name] \in 0 .. Limit(f) - 1

AllInRange == \A i \in DOMAIN SdkLayout(asked.kind) :
                InRange(SdkLayout(asked.kind)[i])

Orders(a) == [side |-> a.side, asset |-> a.asset, size |-> a.size,
              price |-> a.price, fee |-> a.fee]

ToldTo(to, op) == {i \in DOMAIN heard : heard[i].to = to /\ heard[i].op = op}

(* The messages of a kind carry these arguments, and there is one if it    *)
(* was wanted, none if not.                                                *)
Told(wanted, to, op, args) ==
  {heard[i].args : i \in ToldTo(to, op)} = (IF wanted THEN {args} ELSE {})

(* SDK, program and OpenPerps agree: what the caller asked for, as long as *)
(* every argument fits its field, is what the engine and the token program *)
(* are told, to the digit, whatever follows the payload; nothing is placed *)
(* or paid that was not asked (instructions.ts:27-70, instruction.rs:125,  *)
(* opcpi.rs:249-286, processor.rs:133, 394, 436).                          *)
HeardAsAsked ==
  LET a == asked.args
      opening == asked.kind = "open"
      closing == ~opening
  IN  (sent \in {"whole", "padded"} /\ AllInRange) =>
        /\ verdict = "InvalidInstructionData" => opening /\ Empty(a)
        /\ verdict # "InvalidInstruction"
        /\ verdict = "ok" =>
             /\ Told(opening \/ a.size > 0, "engine", "order", Orders(a))
             /\ Told(opening, "engine", "deposit", [amount |-> a.amount])
             /\ Told(closing /\ a.amount > 0, "engine", "withdraw",
                     [amount |-> a.amount])
             /\ opening =>
                  /\ Told(TRUE, "engine", "init", [bump |-> a.portfolioBump])
                  /\ Told(TRUE, "token22", "metadata",
                          [name |-> NameOf(a.side), symbol |-> Symbol,
                           uri |-> <<>>])
             /\ read.args.positionBump = a.positionBump

(* A strict prefix of a payload is never taken for a call, whatever it is  *)
(* cut out of; only an empty one is an unknown instruction                 *)
(* (instruction.rs:98-129).                                                *)
NoPrefixDecodes ==
  sent = "cut" =>
    /\ read = Nothing
    /\ heard = <<>>
    /\ verdict # "pending" =>
         (verdict = "InvalidInstruction" <=> data = <<>>)

(* An argument too large for its field, or below zero, reaches the program *)
(* reduced, and moves no digit of any other argument: nobody is told of it *)
(* (instructions.ts:14-25).                                                *)
OnlyItselfWraps ==
  (sent = "whole" /\ read # Nothing) =>
    \A i \in DOMAIN SdkLayout(asked.kind) :
      LET f == SdkLayout(asked.kind)[i] IN
        read.args[f.name] = asked.args[f.name] % Limit(f)
=============================================================================
