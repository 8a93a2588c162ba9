------------------------------- MODULE MCWire -------------------------------
(* Calls around the edges of every field: one field varied at a time, its  *)
(* neighbours all zero, all one, or all at their largest.                  *)
EXTENDS Wire

Top(f) == Limit(f) - 1

Edges(f) == {-1, 0, 1, 2, Top(f) - 1, Top(f), Top(f) + 1, Top(f) + 2}

Around(kind) ==
  LET layout == SdkLayout(kind)
      names == {layout[i].name : i \in DOMAIN layout}
      Of(n) == layout[CHOOSE i \in DOMAIN layout : layout[i].name = n]
      bases == {[n \in names |-> 0], [n \in names |-> 1],
                [n \in names |-> Top(Of(n))]}
  IN  {[kind |-> kind, args |-> [b EXCEPT ![n] = v]] :
         <<b, n, v>> \in UNION {bases \X {n} \X Edges(Of(n)) : n \in names}}

MCCalls == Around("open") \cup Around("close")

MCBalances == {0, 1, Radix^8 - 1}
=============================================================================
