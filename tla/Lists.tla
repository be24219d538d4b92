--------------------------------- MODULE Lists ---------------------------------
(* Lists from which elements are removed wherever they stand.  Sequences!   *)
(* SelectSeq says the same of a predicate; it has no definition that the   *)
(* proof system can unfold.                                                *)
EXTENDS Integers, Sequences

(* The elements of s that are in S, in their order.                        *)
Only(s, S) ==
  LET kept[i \in 0..Len(s)] ==
        IF i = 0 THEN <<>>
        ELSE IF s[i] \in S THEN Append(kept[i - 1], s[i]) ELSE kept[i - 1]
  IN  kept[Len(s)]

Removed(s, x) == Only(s, {s[i] : i \in DOMAIN s} \ {x})
===============================================================================
