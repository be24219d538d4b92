------------------------------- MODULE ZcoSpace -------------------------------
(***************************************************************************)
(* Admission to ZCO space (ici/library/ion.c): tasks lodge requisitions    *)
(* for space of one account, wait for it on the semaphore of their         *)
(* attendant, consume it by creating a ZCO and shred their ticket.  The    *)
(* clock daemon (ici/daemon/rfxclock.c) takes back what is not claimed.    *)
(*                                                                         *)
(* File, bulk and heap space follow the same rules; there is one kind      *)
(* here.  Each task has one ZCO and one requisition at a time, so that a   *)
(* ticket is named by its task.  What a ZCO occupies beyond its source     *)
(* data is left out.                                                       *)
(***************************************************************************)
EXTENDS Integers, Sequences, FiniteSets, FiniteSetsExt, SequencesExt, Lists

CONSTANTS
  Task,
  Attended,              \* tasks that pass an attendant and so may wait
  Need,                  \* [Task -> heapSpaceNeeded]
  Priority,              \* [Task -> priority of its requisitions]
  MaxOccupancy,          \* maxHeapOccupancy of the account
  MAX_SECONDS_UNCLAIMED, \* 3 in the code
  Prompt,                \* tasks that live claim their space in time
  MaxFaults              \* model bound on deaths and interruptions

ASSUME ZcoAssumption ==
  /\ IsFiniteSet(Task) /\ Attended \subseteq Task
  /\ Need \in [Task -> Nat \ {0}] /\ Priority \in [Task -> Nat]
  /\ MaxOccupancy \in Nat /\ MAX_SECONDS_UNCLAIMED \in Nat
  /\ Prompt \in BOOLEAN /\ MaxFaults \in Nat

VARIABLES
  requisitions,      \* vdb->requisitions of the account: the tasks' tickets
  secondsUnclaimed,  \* of each task's requisition; -1 is not serviced
  semaphore,         \* the value of the attendant's: "taken" or "given"
  ended,             \* the flag of the attendant's
  occupancy,         \* heapOccupancy of the account
  pc,                \* where a task is
  faults,
  unoffered,         \* history: what a requisition gave up was offered to nobody
  overtaken          \* history: tasks whose reservation has been overtaken

semaphores == <<semaphore, ended>>
history == <<unoffered, overtaken>>
vars == <<requisitions, secondsUnclaimed, semaphores, occupancy, pc, faults, history>>

-----------------------------------------------------------------------------
Serviced(t) == secondsUnclaimed[t] >= 0

(* Gives do not add up, and sm_SemTake does not look at the flag.          *)
SemGive(T) == semaphore' = [t \in Task |-> IF t \in T THEN "given" ELSE semaphore[t]]
SemTake(t) == semaphore' = [semaphore EXCEPT ![t] = "taken"]

SemEnd(T) == SemGive(T) /\ ended' = [t \in Task |-> ended[t] \/ t \in T]

Needs(T) == MapThenSumSet(LAMBDA t : Need[t], T)

(* Mutant: it forgets what it has reserved for others.                     *)
ProvidedTwice(reqs, occupied) ==
  {reqs[k] : k \in {k \in DOMAIN reqs :
     ~Serviced(reqs[k]) /\ \A i \in 1..k :
        Serviced(reqs[i]) \/ Need[reqs[i]] <= MaxOccupancy - occupied}}

(* ionProvideZcoSpace, on a given list and occupancy: from the start of    *)
(* the list up to the first requisition that cannot be serviced.           *)
Provided(reqs, occupied) ==
  LET Avbl(k) == MaxOccupancy - occupied - Needs({reqs[i] : i \in 1..(k - 1)})
      Fits(k) == Serviced(reqs[k]) \/ Need[reqs[k]] <= Avbl(k)
  IN  {reqs[k] : k \in {k \in DOMAIN reqs :
                          ~Serviced(reqs[k]) /\ \A i \in 1..k : Fits(i)}}

ProvideZcoSpace(reqs, occupied) ==
  LET now == Provided(reqs, occupied)
  IN  /\ secondsUnclaimed' = [t \in Task |-> IF t \in now THEN 0 ELSE secondsUnclaimed[t]]
      /\ SemGive(now \cap Attended)

(* The place of a new requisition: after the last one of no lower priority.*)
Inserted(reqs, t) ==
  LET k == Cardinality({i \in DOMAIN reqs : Priority[reqs[i]] >= Priority[t]})
  IN  InsertAt(reqs, k + 1, t)

Goes(t, from, to) == pc[t] = from /\ pc' = [pc EXCEPT ![t] = to]

(* The tasks that have space reserved which they have yet to occupy, and   *)
(* those that occupy space.                                                *)
Reserved == {t \in Task : Serviced(t) /\ pc[t] \notin {"created", "dead"}}
Holders  == {t \in Task : pc[t] \in {"created", "using"}}

-----------------------------------------------------------------------------
(* ionRequestZcoSpace, its first transaction.                              *)
Request(t) ==
  /\ Goes(t, "idle", "lodged")
  /\ requisitions' = Inserted(requisitions, t)
  /\ secondsUnclaimed' = [secondsUnclaimed EXCEPT ![t] = -1]
  /\ overtaken' = overtaken \cup {u \in Reserved : Priority[u] < Priority[t]}
  /\ UNCHANGED <<semaphores, occupancy, faults, unoffered>>

(* Its second one: an attempt to service the request at once.              *)
Provide(t) ==
  /\ Goes(t, "lodged", "tried")
  /\ ProvideZcoSpace(requisitions, occupancy)
  /\ unoffered' = FALSE
  /\ UNCHANGED <<requisitions, ended, occupancy, faults, overtaken>>

(* Outside of any transaction it looks at the requisition.  A task without *)
(* an attendant withdraws a request that has not been serviced.            *)
Look(t) ==
  /\ Goes(t, "tried", IF Serviced(t) THEN "ready"
                      ELSE IF t \in Attended THEN "clearing" ELSE "refused")
  /\ UNCHANGED <<requisitions, secondsUnclaimed, semaphores, occupancy, faults, history>>

(* sm_SemGive and sm_SemTake leave the attendant's semaphore taken, also   *)
(* if it has been given or ended in the meantime: the give of an           *)
(* ionPauseAttendant before this step wakes nobody.                        *)
Clear(t) ==
  /\ Goes(t, "clearing", "ready")
  /\ SemTake(t)
  /\ UNCHANGED <<requisitions, secondsUnclaimed, ended, occupancy, faults, history>>

(* Mutant: it waits without looking once more.                             *)
SpaceAwardedUnasked(t) ==
  /\ Goes(t, "ready", "waiting")
  /\ UNCHANGED <<requisitions, secondsUnclaimed, semaphores, occupancy, faults, history>>

(* ionSpaceAwarded.                                                        *)
SpaceAwarded(t) ==
  /\ Goes(t, "ready", IF Serviced(t) THEN "awarded" ELSE "waiting")
  /\ UNCHANGED <<requisitions, secondsUnclaimed, semaphores, occupancy, faults, history>>

(* Mutant: the end of the semaphore is not noticed.                        *)
WakeUnchecked(t) ==
  /\ semaphore[t] = "given"
  /\ Goes(t, "waiting", "awarded")
  /\ SemTake(t)
  /\ UNCHANGED <<requisitions, secondsUnclaimed, ended, occupancy, faults, history>>

(* sm_SemTake and sm_SemEnded in ionCreateZco; the latter gives again what *)
(* has ended.                                                              *)
Wake(t) ==
  /\ semaphore[t] = "given"
  /\ \/ /\ ~ended[t]
        /\ Goes(t, "waiting", "awarded")
        /\ SemTake(t)
     \/ /\ ended[t]
        /\ Goes(t, "waiting", "refused")
        /\ UNCHANGED semaphore
  /\ UNCHANGED <<requisitions, secondsUnclaimed, ended, occupancy, faults, history>>

(* zco_create with the space that has been awarded.                        *)
Create(t) ==
  /\ Goes(t, "awarded", "created")
  /\ occupancy' = occupancy + Need[t]
  /\ UNCHANGED <<requisitions, secondsUnclaimed, semaphores, faults, history>>

(* ionShred, of a claimed reservation or of a request that is withdrawn.   *)
(* Nobody else is offered the space here.                                  *)
Shred(t) ==
  /\ \/ Goes(t, "created", "using") /\ UNCHANGED history
     \/ /\ Goes(t, "refused", "idle")
        /\ unoffered' = TRUE
        /\ overtaken' = overtaken \ {t}
  /\ requisitions' = Only(requisitions, Task \ {t})
  /\ secondsUnclaimed' = [secondsUnclaimed EXCEPT ![t] = -1]
  /\ UNCHANGED <<semaphores, occupancy, faults>>

(* zco_destroy and its callback, ionProvideZcoSpace.                       *)
Destroy(t) ==
  /\ Goes(t, "using", "idle")
  /\ occupancy' = occupancy - Need[t]
  /\ ProvideZcoSpace(requisitions, occupancy')
  /\ unoffered' = FALSE
  /\ overtaken' = overtaken \ {t}
  /\ UNCHANGED <<requisitions, ended, faults>>

(* rfxclock, once a second: from the start of the list up to the first     *)
(* requisition that has not been serviced.                                 *)
(* Mutants: the newest reservation is left alone; no age is too much.      *)
AgedButLast ==
  {requisitions[k] : k \in {k \in DOMAIN requisitions :
     k < Len(requisitions) /\ \A i \in 1..k : Serviced(requisitions[i])}}
Aged ==
  {requisitions[k] : k \in {k \in DOMAIN requisitions :
                              \A i \in 1..k : Serviced(requisitions[i])}}
ExpiredNever == {}
Expired == {t \in Aged : secondsUnclaimed[t] = MAX_SECONDS_UNCLAIMED}

Clock ==
  /\ Aged # {}
  /\ Prompt => \A t \in Expired : pc[t] = "dead"
  /\ requisitions' = Only(requisitions, Task \ Expired)
  /\ secondsUnclaimed' = [t \in Task |->
       IF t \in Expired THEN -1
       ELSE IF t \in Aged THEN secondsUnclaimed[t] + 1 ELSE secondsUnclaimed[t]]
  /\ SemEnd(Expired \cap Attended)
  /\ unoffered' = (unoffered \/ Expired # {})
  /\ UNCHANGED <<occupancy, pc, faults, overtaken>>

(* ionPauseAttendant, from a signal handler, and ionResumeAttendant.       *)
Pause(t) ==
  /\ faults < MaxFaults /\ faults' = faults + 1
  /\ t \in Attended
  /\ SemEnd({t})
  /\ UNCHANGED <<requisitions, secondsUnclaimed, occupancy, pc, history>>

Resume(t) ==
  /\ pc[t] = "idle" /\ ended[t]
  /\ ended' = [ended EXCEPT ![t] = FALSE]
  /\ SemGive({t})
  /\ UNCHANGED <<requisitions, secondsUnclaimed, occupancy, pc, faults, history>>

(* A task dies between two of its transactions.                            *)
Die(t) ==
  /\ faults < MaxFaults /\ faults' = faults + 1
  /\ pc[t] # "dead" /\ pc' = [pc EXCEPT ![t] = "dead"]
  /\ overtaken' = IF t \in Holders THEN overtaken ELSE overtaken \ {t}
  /\ UNCHANGED <<requisitions, secondsUnclaimed, semaphores, occupancy, unoffered>>

-----------------------------------------------------------------------------
Init ==
  /\ requisitions = <<>>
  /\ secondsUnclaimed = [t \in Task |-> -1]
  /\ semaphore = [t \in Task |-> "given"] /\ ended = [t \in Task |-> FALSE]
  /\ occupancy = 0
  /\ pc = [t \in Task |-> "idle"]
  /\ faults = 0 /\ unoffered = FALSE /\ overtaken = {}

Claims(t) == \/ Provide(t) \/ Look(t) \/ Clear(t) \/ SpaceAwarded(t) \/ Wake(t)
             \/ Create(t) \/ Shred(t)

Next ==
  \/ \E t \in Task : \/ Request(t) \/ Claims(t) \/ Destroy(t)
                     \/ Pause(t) \/ Resume(t) \/ Die(t)
  \/ Clock

Spec == Init /\ [][Next]_vars

(* Tasks that live run on, the clock ticks, and ZCOs are destroyed when    *)
(* what they carry has been sent, delivered or has expired.  Nobody is     *)
(* bound to ask for space.                                                 *)
FairSpec ==
  /\ Spec
  /\ \A t \in Task : WF_vars(Claims(t) \/ Destroy(t))
  /\ WF_vars(Clock)

-----------------------------------------------------------------------------
(* Properties.                                                             *)

(* Every variable has its type; a requisition is listed once, and what is  *)
(* not listed is not serviced.                                             *)
TypeOK ==
  /\ requisitions \in Seq(Task) /\ IsInjective(requisitions)
  /\ secondsUnclaimed \in [Task -> -1..MAX_SECONDS_UNCLAIMED]
  /\ semaphore \in [Task -> {"taken", "given"}] /\ ended \in [Task -> BOOLEAN]
  /\ occupancy \in Nat /\ faults \in Nat
  /\ unoffered \in BOOLEAN /\ overtaken \subseteq Task
  /\ pc \in [Task -> {"idle", "lodged", "tried", "clearing", "ready", "waiting", "awarded",
                      "created", "using", "refused", "dead"}]
  /\ \A t \in Task : Serviced(t) => \E k \in DOMAIN requisitions : requisitions[k] = t

(* What ZCOs occupy and what is reserved for tasks that have not claimed   *)
(* it yet fit in the account, save for what had been reserved for tasks    *)
(* that a requisition of higher priority has then overtaken: space is      *)
(* never promised twice to tasks of one priority, and an account that is   *)
(* overcommitted is so by the overtaken alone, and no longer than they     *)
(* last.  ion.c:2411: reserved space "is not available for any other       *)
(* requests".                                                              *)
NoOvercommit == occupancy + Needs(Reserved) <= MaxOccupancy + Needs(overtaken)

(* A task that wakes up has the space it waited for: it creates its ZCO    *)
(* without looking at the requisition again.                               *)
WokenIsServiced == \A t \in Task : pc[t] = "awarded" => Serviced(t)

(* A task that waits does not wait for ever: no give that announces space  *)
(* is lost between its looks and its wait, whenever it is paused, and no   *)
(* turn of the list passes it over.  It may wait for ever only if what     *)
(* some requisition gave up is never offered again, because nobody asks    *)
(* for space or destroys a ZCO any more, or if a ZCO has lost its owner.   *)
Orphaned == occupancy # Needs(Holders)

WaiterServed ==
  \A t \in Task : Need[t] <= MaxOccupancy =>
    ([]<>(~unoffered /\ ~Orphaned) => []<>(pc[t] # "waiting"))

(* What a task that died had reserved or asked for does not block the      *)
(* account for ever.                                                       *)
ReservationsRecovered ==
  \A t \in Task : pc[t] = "dead" /\ Serviced(t) ~> ~Serviced(t)
===============================================================================
