------------------------------ MODULE MCZcoSpace ------------------------------
(* Small instances of ZcoSpace for TLC: three tasks, of which the third    *)
(* does not wait, and an account with room for two of them.  Init chooses  *)
(* whether all requisitions have one priority or the second task's go in   *)
(* front of the others'.                                                   *)
EXTENDS ZcoSpace, TLC

VARIABLE mixed         \* never changes

Sizes == <<2, 1, 1>>
Flat  == <<0, 0, 0>>

Mixed == INSTANCE ZcoSpace WITH Priority <- <<0, 1, 0>>

MixInit == Init /\ mixed \in BOOLEAN
MixNext ==
  \/ ~mixed /\ Next /\ UNCHANGED mixed
  \/ mixed /\ Mixed!Next /\ UNCHANGED mixed

MixSpec == MixInit /\ [][MixNext]_<<vars, mixed>>

(* The fairness of FairSpec, of tasks and clock where priorities are equal. *)
MixFairSpec ==
  /\ MixSpec
  /\ \A t \in Task : WF_vars(~mixed /\ (Claims(t) \/ Destroy(t)))
  /\ WF_vars(~mixed /\ Clock)

(* Nothing is promised to those who are overtaken again and again.         *)
EqualWaiterServed == ~mixed => WaiterServed
EqualReservationsRecovered == ~mixed => ReservationsRecovered
===============================================================================
