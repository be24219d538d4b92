------------------------------- MODULE LtpBlock -------------------------------
(***************************************************************************)
(* What LTP promises about the red part of a block: the service data units *)
(* of an export session go back to their owner exactly once, in Complete   *)
(* notices only after the other engine has the whole block; and a block is *)
(* delivered only if it was received whole and its import session has not  *)
(* been cancelled since.                                                   *)
(***************************************************************************)
CONSTANT Session

VARIABLES
  sdus,   \* "none", "held", "complete" or "canceled" at the sending engine
  block   \* "absent", "whole", "delivered" or "dropped" at the receiving one

vars == <<sdus, block>>

Init == /\ sdus = [s \in Session |-> "none"]
        /\ block = [s \in Session |-> "absent"]

Accept(s) == /\ sdus[s] = "none"
             /\ sdus' = [sdus EXCEPT ![s] = "held"]
             /\ UNCHANGED block

Receive(s) == /\ sdus[s] # "none" /\ block[s] = "absent"
              /\ block' = [block EXCEPT ![s] = "whole"]
              /\ UNCHANGED sdus

Deliver(s) == /\ block[s] = "whole"
              /\ block' = [block EXCEPT ![s] = "delivered"]
              /\ UNCHANGED sdus

Drop(s) == /\ block[s] = "whole"
           /\ block' = [block EXCEPT ![s] = "dropped"]
           /\ UNCHANGED sdus

Complete(s) == /\ sdus[s] = "held" /\ block[s] # "absent"
               /\ sdus' = [sdus EXCEPT ![s] = "complete"]
               /\ UNCHANGED block

(* Any number of sessions at once: a span that stops cancels all of them.  *)
Cancel(S) == /\ \A s \in S : sdus[s] = "held"
             /\ sdus' = [s \in Session |-> IF s \in S THEN "canceled" ELSE sdus[s]]
             /\ UNCHANGED block

Next == \/ \E s \in Session : Accept(s) \/ Receive(s) \/ Deliver(s) \/ Drop(s) \/ Complete(s)
        \/ \E S \in SUBSET Session : Cancel(S)

Spec == Init /\ [][Next]_vars
===============================================================================
