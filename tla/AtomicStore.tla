----------------------------- MODULE AtomicStore -----------------------------
(***************************************************************************)
(* What a reversible SDR promises (doc/pod3/sdr.pod): a store changed by   *)
(* one transaction at a time, whose contents become all of the             *)
(* transaction's updates in one step, or none of them, whatever fails.     *)
(***************************************************************************)
CONSTANTS Addr, Val, InitVal

VARIABLES
  store,         \* contents that outlive the tasks
  work,          \* contents the open transaction sees
  open           \* a transaction is open

avars == <<store, work, open>>

AInit ==
  /\ store = [a \in Addr |-> InitVal]
  /\ work = store
  /\ open = FALSE

Begin ==
  /\ ~open
  /\ open' = TRUE
  /\ UNCHANGED <<store, work>>

Write ==
  /\ open
  /\ \E a \in Addr, v \in Val : work' = [work EXCEPT ![a] = v]
  /\ UNCHANGED <<store, open>>

Commit ==
  /\ open
  /\ store' = work
  /\ open' = FALSE
  /\ UNCHANGED work

(* Cancellation, failure, or death of the tasks.                           *)
Abort ==
  /\ open
  /\ work' = store
  /\ open' = FALSE
  /\ UNCHANGED store

ANext == Begin \/ Write \/ Commit \/ Abort

ASpec == AInit /\ [][ANext]_avars
=============================================================================
