---------------------------- MODULE MintWhitelist ----------------------------
(***************************************************************************)
(* verify_position_mint (program/src/state.rs): the walk over the bytes of *)
(* a Token-2022 mint that decides whether an NFT may become a position.    *)
(* Offsets and lengths are the real ones; a 32-byte key is one of "pda",   *)
(* "mint" and "other".                                                     *)
(*                                                                         *)
(* A mint account is its base fields, its size in bytes and its extension  *)
(* entries, each at the offset where its header starts.  Bytes that belong *)
(* to no entry are zero; an entry may reach past the end of the account.   *)
(***************************************************************************)
EXTENDS Integers

CONSTANT Mints   \* the accounts the verification may be run on

Key == {"none", "pda", "mint", "other"}

TlvOffset        == 166
HeaderSize       == 4
CloseAuthority   == 3     \* EXT_MINT_CLOSE_AUTHORITY
MetadataPointer  == 18    \* EXT_METADATA_POINTER

(* first and second are the keys in bytes 0-31 and 32-63 of the body. *)
U16   == 0 .. 65535
Entry == [type : U16, len : U16, first : Key, second : Key]

(* What the zero bytes after the last entry decode to. *)
Padding == [type |-> 0, len |-> 0, first |-> "none", second |-> "none"]

Base == [initialized : BOOLEAN, decimals : 0 .. 255, supply : Nat,
         authority : Key, freezable : BOOLEAN, isMint : BOOLEAN]

(* Where the bytes of the entry at offset o end. *)
End(m, o) == o + HeaderSize + m.tlv[o].len

(* Token-2022 writes one entry after the other. *)
Contiguous(m) ==
  LET at == DOMAIN m.tlv IN
  /\ \A o \in at : TlvOffset \in at /\ o >= TlvOffset
  /\ \A o \in at : End(m, o) \in at \/ \A p \in at : p < End(m, o)
  /\ \A o, p \in at : o < p => End(m, o) <= p

IsMintAccount(m) ==
  /\ m.base \in Base
  /\ m.size \in Nat
  /\ DOMAIN m.tlv \subseteq Nat
  /\ \A o \in DOMAIN m.tlv : m.tlv[o] \in Entry
  /\ Contiguous(m)

ASSUME MintsAssumption == \A m \in Mints : IsMintAccount(m)

VARIABLES
  mint,      \* the account under verification
  pc,        \* "base", "walk", "ok" or "refused"
  off,       \* offset of the next header
  close,     \* close_authority_ok
  pointer,   \* metadata_pointer_ok
  reach      \* history: end of the highest byte read so far

vars == <<mint, pc, off, close, pointer, reach>>

Init ==
  /\ mint \in Mints
  /\ pc = "base"
  /\ off = TlvOffset
  /\ close = FALSE
  /\ pointer = FALSE
  /\ reach = 0

Highest(i, j) == IF i >= j THEN i ELSE j

-----------------------------------------------------------------------------
(* Mutant: the length of an SPL mint without extensions. *)
SplMintSize == 82

(* The shortest account that has the account-type byte. *)
ShortestMint == TlvOffset

(* Un-minted, indivisible, surrendered to the PDA, never freezable. *)
BaseOk(b) ==
  /\ b.initialized /\ b.decimals = 0 /\ b.supply = 0
  /\ b.authority = "pda" /\ ~b.freezable
  /\ b.isMint

CheckBase ==
  /\ pc = "base"
  /\ IF mint.size < ShortestMint
     THEN pc' = "refused" /\ UNCHANGED reach
     ELSE /\ pc' = IF BaseOk(mint.base) THEN "walk" ELSE "refused"
          /\ reach' = TlvOffset
  /\ UNCHANGED <<mint, off, close, pointer>>

-----------------------------------------------------------------------------
(* What the bytes at off decode to. *)
Header == IF off \in DOMAIN mint.tlv THEN mint.tlv[off] ELSE Padding

Body == off + HeaderSize

(* Mutant: a header may start anywhere before the end. *)
RoomForOneByte == off < mint.size

(* Four bytes are left for a header. *)
RoomForHeader == off + HeaderSize <= mint.size

(* Mutant: the declared length is trusted. *)
TrustedLength(e) == TRUE

(* The body the header announces is within the account. *)
Fits(e) == Body + e.len <= mint.size

(* Mutants: the pointer's authority is read for its target; an extension   *)
(* the program does not know is skipped instead of refused.                *)
PointerAtAuthority(e) ==
  \/ e.type = CloseAuthority /\ e.len = 32 /\ e.first = "pda"
  \/ e.type = MetadataPointer /\ e.len = 64 /\ e.first = "mint"
SkipUnknown(e) ==
  \/ e.type = CloseAuthority /\ e.len = 32 /\ e.first = "pda"
  \/ e.type = MetadataPointer /\ e.len = 64 /\ e.second = "mint"
  \/ e.type \notin {CloseAuthority, MetadataPointer}

(* The two whitelisted extensions, with the values they must have. *)
Whitelisted(e) ==
  \/ e.type = CloseAuthority /\ e.len = 32 /\ e.first = "pda"
  \/ e.type = MetadataPointer /\ e.len = 64 /\ e.second = "mint"

(* Mutants: the offset moves past the body but not past the header; it     *)
(* does not move at all.                                                   *)
AfterBodyOnly(e) == off + e.len
Unmoved(e) == off

AfterEntry(e) == Body + e.len

Exhausted == ~RoomForHeader \/ Header.type = 0

(* One turn of the loop: an entry that passes. *)
Accept ==
  /\ pc = "walk"
  /\ ~Exhausted
  /\ Fits(Header) /\ Whitelisted(Header)
  /\ close' = (close \/ Header.type = CloseAuthority)
  /\ pointer' = (pointer \/ Header.type = MetadataPointer)
  /\ off' = AfterEntry(Header)
  /\ reach' = Highest(reach, Body + Header.len)
  /\ UNCHANGED <<mint, pc>>

(* One turn of the loop: an entry that does not.  A key is read only when  *)
(* the length is the expected one.                                         *)
Refuse ==
  /\ pc = "walk"
  /\ ~Exhausted
  /\ ~(Fits(Header) /\ Whitelisted(Header))
  /\ pc' = "refused"
  /\ reach' = Highest(reach,
                IF /\ Fits(Header)
                   /\ <<Header.type, Header.len>> \in
                        {<<CloseAuthority, 32>>, <<MetadataPointer, 64>>}
                THEN Body + Header.len ELSE Body)
  /\ UNCHANGED <<mint, off, close, pointer>>

(* Mutant: one of the two extensions is enough. *)
EitherPresent == close \/ pointer

BothPresent == close /\ pointer

(* The loop ends, at the padding or at the end of the account. *)
Finish ==
  /\ pc = "walk"
  /\ Exhausted
  /\ pc' = IF BothPresent THEN "ok" ELSE "refused"
  /\ reach' = Highest(reach, IF RoomForHeader THEN Body ELSE reach)
  /\ UNCHANGED <<mint, off, close, pointer>>

Next == CheckBase \/ Accept \/ Refuse \/ Finish

Spec == Init /\ [][Next]_vars

(* The loop runs to its end: a Rust function that is called executes. *)
FairSpec == Spec /\ WF_vars(Next)

-----------------------------------------------------------------------------
(* The walk never loses step: off is where an entry starts, or past all.   *)
TypeOK ==
  /\ IsMintAccount(mint)
  /\ pc \in {"base", "walk", "ok", "refused"}
  /\ off \in Nat
  /\ off \in DOMAIN mint.tlv \/ \A p \in DOMAIN mint.tlv : p < off
  /\ close \in BOOLEAN /\ pointer \in BOOLEAN
  /\ reach \in Nat

(* No slice or read_32 of the walk (state.rs:114-161) goes past the end of *)
(* the account: the program would panic instead of returning an error.     *)
InBounds == reach <= mint.size

(* The entries Token-2022 itself sees: up to the first one of type zero. *)
Seen(a) ==
  {o \in DOMAIN a.tlv :
     /\ o + HeaderSize <= a.size
     /\ \A p \in DOMAIN a.tlv : p <= o => a.tlv[p].type # 0}

(* What the doc comment of verify_position_mint asks for (state.rs:94-106),*)
(* stated over the whole account at once.                                  *)
CloseEntry   == {e \in Entry : e.type = 3 /\ e.len = 32 /\ e.first = "pda"}
PointerEntry == {e \in Entry : e.type = 18 /\ e.len = 64 /\ e.second = "mint"}

PositionMint(a) ==
  /\ a.size >= TlvOffset
  /\ a.base = [initialized |-> TRUE, decimals |-> 0, supply |-> 0,
               authority |-> "pda", freezable |-> FALSE, isMint |-> TRUE]
  /\ \A o \in Seen(a) :
       a.tlv[o] \in CloseEntry \cup PointerEntry /\ End(a, o) <= a.size
  /\ \E o \in Seen(a) : a.tlv[o] \in CloseEntry
  /\ \E o \in Seen(a) : a.tlv[o] \in PointerEntry

(* The verdict is exact: no mint that could be frozen, seized, minted      *)
(* again or never closed gets through, and no good one is turned away.     *)
Exact ==
  /\ pc = "ok" => PositionMint(mint)
  /\ pc = "refused" => ~PositionMint(mint)

(* What the two flags and the offset stand for on the way: everything      *)
(* before off was admitted, and a flag is set by an entry of its type.     *)
Walked ==
  /\ pc \in {"walk", "ok"} => mint.size >= TlvOffset /\ BaseOk(mint.base)
  /\ \A o \in DOMAIN mint.tlv :
       o < off => Whitelisted(mint.tlv[o]) /\ End(mint, o) <= mint.size
  /\ close <=> \E o \in DOMAIN mint.tlv :
                 o < off /\ mint.tlv[o].type = CloseAuthority
  /\ pointer <=> \E o \in DOMAIN mint.tlv :
                 o < off /\ mint.tlv[o].type = MetadataPointer
  /\ pc = "ok" => Exhausted /\ close /\ pointer

Inductive == TypeOK /\ InBounds /\ Walked /\ Exact

(* Every run of the verification ends: an entry always moves the offset.   *)
Terminates == <>(pc \in {"ok", "refused"})
=============================================================================
