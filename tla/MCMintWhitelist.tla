--------------------------- MODULE MCMintWhitelist ---------------------------
(* Every short list of extensions, at every interesting account size.       *)
EXTENDS MintWhitelist, SequencesExt

GoodBase == [initialized |-> TRUE, decimals |-> 0, supply |-> 0,
             authority |-> "pda", freezable |-> FALSE, isMint |-> TRUE]

(* One defect each. *)
BadBases ==
  {[GoodBase EXCEPT !.initialized = FALSE], [GoodBase EXCEPT !.decimals = 6],
   [GoodBase EXCEPT !.supply = 1], [GoodBase EXCEPT !.authority = "other"],
   [GoodBase EXCEPT !.authority = "none"], [GoodBase EXCEPT !.freezable = TRUE],
   [GoodBase EXCEPT !.isMint = FALSE]}

Ext(type, len, first, second) ==
  [type |-> type, len |-> len, first |-> first, second |-> second]

(* The two legal extensions, the same with a wrong key or length, a        *)
(* PermanentDelegate (12), an empty NonTransferable (9), and padding.      *)
Extensions ==
  {Ext(3, 32, "pda", "none"), Ext(3, 32, "other", "none"),
   Ext(3, 0, "none", "none"), Ext(18, 64, "none", "mint"),
   Ext(18, 64, "mint", "other"), Ext(18, 32, "mint", "none"),
   Ext(12, 32, "other", "none"), Ext(9, 0, "none", "none"),
   Ext(0, 0, "none", "none")}

(* Where each entry of s starts, and where the last one ends. *)
Starts(s) ==
  LET at[i \in 1 .. Len(s) + 1] ==
        IF i = 1 THEN TlvOffset ELSE at[i - 1] + HeaderSize + s[i - 1].len
  IN  at

(* slack: bytes after the last entry, or cut off its end. *)
Account(base, s, slack) ==
  LET at == Starts(s) IN
  [base |-> base, size |-> at[Len(s) + 1] + slack,
   tlv  |-> [o \in {at[i] : i \in DOMAIN s} |->
               s[CHOOSE i \in DOMAIN s : at[i] = o]]]

MCMints ==
  {Account(GoodBase, s, slack) :
     s \in SeqOf(Extensions, 3), slack \in {-33, -1, 0, 3, 4, 40}}
  \cup {Account(base, s, 0) : base \in BadBases, s \in SeqOf(Extensions, 2)}
  \cup {[base |-> GoodBase, size |-> size, tlv |-> << >>] :
          size \in {82, 165, 166}}
=============================================================================
