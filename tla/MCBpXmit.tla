------------------------------- MODULE MCBpXmit -------------------------------
(* Small instances of BpXmit for TLC: two neighbours, one of which has a   *)
(* single contact.                                                         *)
EXTENDS BpXmit

CONSTANTS p, q
TwoAndOne == [x \in {p, q} |-> IF x = p THEN 2 ELSE 1]
=============================================================================
