-------------------------------- MODULE BpXmit --------------------------------
(***************************************************************************)
(* Bundles on their way through one node (bpv7/library/libbpP.c): from the *)
(* application or a neighbour through the forwarder (ipn/ipnfw.c), the     *)
(* queue of an egress plan, bpclm (daemon/bpclm.c) and an outduct's buffer *)
(* to the convergence layer, with its reports, re-forwarding, limbo,       *)
(* blocked plans, expiration and the clock's alarms (daemon/bpclock.c).    *)
(*                                                                         *)
(* Every action is one SDR transaction.  `db' is what it reads and writes; *)
(* an operator named after a function maps the db it finds to the one it   *)
(* leaves.  The semaphores of forwarder, transit and plans are left out: a *)
(* daemon runs when it has something to do.                                *)
(*                                                                         *)
(* A node without fragmentation, local destinations, static routes and     *)
(* overrides, multicast, suspended and detained bundles, corrupt extension *)
(* blocks; one priority, one duct per plan, contacts that are all          *)
(* scheduled.  Each neighbour leads to each destination, and no bundle is  *)
(* forwarded so often that it reaches MAX_XMIT_COPIES or that one copy     *)
(* more would not help.  A bundle's address is an object of the heap, and  *)
(* the smallest free one is taken first.                                   *)
(***************************************************************************)
EXTENDS Integers, Sequences, FiniteSets, FiniteSetsExt, SequencesExt, Lists

CONSTANTS
  N,             \* model bound: the heap has room for N bundles
  Key,           \* source, creation time and sequence number of a bundle
  Source,        \* keys of bundles sent here; a neighbour has the others
  Critical,      \* keys of bundles flagged BP_MINIMUM_LATENCY
  NeedsReliable, \* keys of bundles flagged BP_RELIABLE
  Mortal,        \* keys of bundles whose lifetime may end
  Plan,          \* egress plans, each with its neighbour
  Reliable,      \* plans whose outduct is of a reliable protocol
  Unsure,        \* plans a route over which is not sure enough by itself
  None, Limbo, Due,
  Contacts,      \* [Plan -> number of contacts with its neighbour]
  MaxFaults, MaxReceipts  \* model bounds

Obj == 1..N

Bundles ==
  [key : Key, sender : Plan \union {None}, returnToSender : BOOLEAN,
   transitElt : BOOLEAN, fwdQueueElt : BOOLEAN,
   planXmitElt : Plan \union {Limbo, None},
   ductXmitElt : Plan \union {None},
   overdueElt : Plan \union {Due, None},
   enqueueTime : Nat, dlvConfidence : 0..2]

ASSUME BpAssumption ==
  /\ N \in Nat
  /\ Source \subseteq Key /\ Critical \subseteq Key
  /\ NeedsReliable \subseteq Key /\ Mortal \subseteq Key
  /\ Reliable \subseteq Plan /\ Unsure \subseteq Plan
  /\ IsFiniteSet(Plan)
  /\ {None, Limbo, Due} \intersect Plan = {}
  /\ None # Limbo /\ None # Due /\ Limbo # Due
  /\ None \notin Bundles /\ None \notin Obj
  /\ Contacts \in [Plan -> Nat \ {0}]
  /\ MaxFaults \in Nat /\ MaxReceipts \in Nat

VARIABLES
  db,        \* bundles, their hash table, and the lists they are in
  open,      \* plans whose neighbour is in contact
  left,      \* contacts of each plan that are still to begin
  blocked,   \* plans that the operator has blocked
  clm,       \* of each plan's bpclm: "checks" or "waits" for a bundle
  candidate, \* the bundle for which bptransit waits for ZCO space
  sent,      \* transmissions of which the convergence layer owes a result
  network,   \* neighbours that hold a copy of a bundle
  unsent,    \* keys of bundles the applications are still to send
  expired, excused,            \* history: keys whose lifetime has ended;
                               \* keys of bundles given up on good grounds
  faults,    \* transmissions that failed and plans that were blocked
  receipts

contacts == <<open, left>>
counts == <<faults, receipts>>
vars == <<db, contacts, blocked, clm, candidate, sent, network, unsent,
          expired, excused, counts>>

-----------------------------------------------------------------------------
(* Bundles and their hash table                                             *)

Live(d) == {o \in Obj : d.bundle[o] # None}
Copies(d, k) == {o \in Live(d) : d.bundle[o].key = k}
Malloc(d) == Min(Obj \ Live(d))

(* Without room a transaction is cancelled, and nothing has happened.       *)
HasRoom(d, n) == Cardinality(Live(d)) + n <= N

IsCritical(d, o) == d.bundle[o].key \in Critical

(* Mutant: the address of the first bundle of a key stays when another one  *)
(* comes.                                                                   *)
CatalogueFirst(d, k, o) ==
  [d EXCEPT !.hash[k] = [obj   |-> IF @.count = 0 THEN o ELSE @.obj,
                         count |-> @.count + 1]]

(* Several bundles of a key have no single address.                        *)
CatalogueBundle(d, k, o) ==
  [d EXCEPT !.hash[k] = [obj   |-> IF @.count = 0 THEN o ELSE 0,
                         count |-> @.count + 1]]

AddBundle(d, b) ==
  CatalogueBundle([d EXCEPT !.bundle[Malloc(d)] = b], b.key, Malloc(d))

NewBundle(k, sender) ==
  [key |-> k, sender |-> sender, returnToSender |-> FALSE,
   transitElt |-> FALSE, fwdQueueElt |-> FALSE, planXmitElt |-> None,
   ductXmitElt |-> None, overdueElt |-> None, enqueueTime |-> 0,
   dlvConfidence |-> 0]

(* Mutant: the hash table does not hear of the clone.                      *)
BpCloneUncatalogued(d, o) ==
  [d EXCEPT !.bundle[Malloc(d)] =
     [d.bundle[o] EXCEPT !.fwdQueueElt = FALSE, !.planXmitElt = None,
                         !.ductXmitElt = None, !.overdueElt = None]]

(* The clone is at Malloc(d).                                              *)
BpClone(d, o) ==
  AddBundle(d, [d.bundle[o] EXCEPT !.fwdQueueElt = FALSE,
                  !.planXmitElt = None, !.ductXmitElt = None,
                  !.overdueElt = None])

RemoveBundleFromQueue(d, o) ==
  [d EXCEPT !.queue[d.bundle[o].planXmitElt] = Removed(@, o),
            !.bundle[o].planXmitElt = None]

PurgePlanXmitElt(d, o) ==
  IF d.bundle[o].planXmitElt = None THEN d
  ELSE IF d.bundle[o].planXmitElt = Limbo
  THEN [d EXCEPT !.limbo = Removed(@, o), !.bundle[o].planXmitElt = None]
  ELSE RemoveBundleFromQueue(d, o)

PurgeDuctXmitElt(d, o) ==
  IF d.bundle[o].ductXmitElt = None THEN d
  ELSE [d EXCEPT !.buffer[d.bundle[o].ductXmitElt] = Removed(@, o),
                 !.bundle[o].ductXmitElt = None]

PurgeFwdQueueElt(d, o) ==
  [d EXCEPT !.forward = Removed(@, o), !.bundle[o].fwdQueueElt = FALSE]

(* Mutant: a bundle that expires while it waits for ZCO space stays in the  *)
(* list of bptransit.                                                       *)
PurgedButTransit(d, o) ==
  PurgeFwdQueueElt(PurgeDuctXmitElt(PurgePlanXmitElt(d, o), o), o)

Purged(d, o) ==
  PurgeFwdQueueElt(PurgeDuctXmitElt(PurgePlanXmitElt(
    [d EXCEPT !.transit = Removed(@, o), !.bundle[o].transitElt = FALSE],
    o), o), o)

(* A bundle that is forwarded or transmitted is not destroyed, unless       *)
(* unconditionally.                                                         *)
BpDestroyBundle(d, o, unconditional) ==
  LET e == IF unconditional THEN Purged(d, o) ELSE d
      b == e.bundle[o]
  IN IF b.fwdQueueElt \/ b.planXmitElt # None \/ b.ductXmitElt # None
     THEN e
     ELSE [e EXCEPT !.bundle[o] = None,
             !.hash[b.key] = [obj   |-> IF @.count = 1 THEN 0 ELSE @.obj,
                              count |-> @.count - 1]]

-----------------------------------------------------------------------------
(* Queues                                                                   *)

ForwardBundle(d, o) ==
  IF \/ d.bundle[o].fwdQueueElt
     \/ d.bundle[o].planXmitElt # None \/ d.bundle[o].ductXmitElt # None
  THEN d
  ELSE [d EXCEPT !.forward = Append(@, o), !.bundle[o].fwdQueueElt = TRUE]

Forwardable(d, o) ==
  [PurgeFwdQueueElt(PurgeDuctXmitElt(PurgePlanXmitElt(d, o), o), o)
     EXCEPT !.bundle[o].overdueElt = None]

(* Mutant: the way back stays closed.                                       *)
ReforwardOnward(d, o) ==
  IF IsCritical(d, o) THEN d ELSE ForwardBundle(Forwardable(d, o), o)

BpReforwardBundle(d, o) ==
  IF IsCritical(d, o) THEN d
  ELSE ForwardBundle([Forwardable(d, o) EXCEPT
                        !.bundle[o].returnToSender = TRUE], o)

EnqueueToLimbo(d, o) ==
  IF IsCritical(d, o) THEN d
  ELSE [d EXCEPT !.limbo = Append(@, o), !.bundle[o].planXmitElt = Limbo]

ReleaseFromLimbo(d, o) == BpReforwardBundle(PurgePlanXmitElt(d, o), o)

(* What bpBlockPlan does with a queued bundle.                             *)
ReverseEnqueue(d, o) == BpReforwardBundle(RemoveBundleFromQueue(d, o), o)

(* Mutant: bundles are transmitted in the order in which they come.         *)
InsertLast(d, q, o) == Append(q, o)

(* A bundle that was enqueued long ago and is re-forwarded goes in front of *)
(* all that were enqueued after it.                                         *)
InsertBundleIntoQueue(d, q, o) ==
  LET Junior(x) == d.bundle[o].enqueueTime < d.bundle[x].enqueueTime
      i == SelectInSeq(q, Junior)
  IN IF q = <<>> \/ ~Junior(Last(q)) THEN Append(q, o)
     ELSE InsertAt(q, i, o)

BpEnqueue(d, o, p) ==
  LET now == 1 + Max({d.bundle[x].enqueueTime : x \in Live(d)})
      e == [d EXCEPT !.bundle[o].planXmitElt = p,
                     !.bundle[o].enqueueTime = IF @ = 0 THEN now ELSE @]
  IN [e EXCEPT !.queue[p] = InsertBundleIntoQueue(e, @, o)]

-----------------------------------------------------------------------------
(* Routes                                                                   *)

(* Of three values: nothing is sent, what has been sent may not arrive, it  *)
(* is believed to arrive (MIN_NET_DELIVERY_CONFIDENCE).                     *)
Confidence(c, p) == IF p \in Unsure /\ c = 0 THEN 1 ELSE 2

(* A contact with the neighbour is on or to come, and the bundle is not     *)
(* sent back to where it came from before it has hit a dead end.            *)
BestRoutes(b) ==
  {p \in Plan : /\ p \notin blocked /\ (p \in open \/ left[p] > 0)
                /\ b.returnToSender \/ p # b.sender}

(* The alarm of a bundle that is not critical is set to the end of the      *)
(* neighbour's contact, the next one if none is on.                         *)
EnqueueToEntryNode(d, o, p) ==
  BpEnqueue([d EXCEPT !.bundle[o].dlvConfidence = Confidence(@, p),
               !.bundle[o].overdueElt = IF IsCritical(d, o) THEN @ ELSE p],
            o, p)

(* A copy for later is kept in limbo of a bundle that may not arrive.       *)
SendToBestRoute(d, o, p) ==
  LET e == EnqueueToEntryNode(d, o, p)
  IN IF e.bundle[o].dlvConfidence = 2 THEN e
     ELSE EnqueueToLimbo(BpClone(e, o), Malloc(e))

(* A critical bundle goes to all; its copy for later is refused in limbo.  *)
SendTo(r, p) ==
  IF r.d.bundle[r.o].planXmitElt = None
  THEN [r EXCEPT !.d = EnqueueToEntryNode(r.d, r.o, p)]
  ELSE [d |-> EnqueueToEntryNode(BpClone(r.d, r.o), Malloc(r.d), p),
        o |-> Malloc(r.d)]

SendCriticalBundle(d, o, routes) ==
  LET last == FoldLeft(SendTo, [d |-> d, o |-> o], SetToSeq(routes))
  IN IF last.d.bundle[last.o].dlvConfidence = 2 THEN last.d
     ELSE EnqueueToLimbo(BpClone(last.d, last.o), Malloc(last.d))

-----------------------------------------------------------------------------
(* Bundles come                                                             *)

Send(k) ==
  /\ k \in unsent /\ unsent' = unsent \ {k}
  /\ HasRoom(db, 1)
  /\ db' = ForwardBundle(AddBundle(db, NewBundle(k, None)), Malloc(db))
  /\ UNCHANGED <<contacts, blocked, clm, candidate, sent, network, expired,
                 excused, counts>>

InTransit(d, o) ==
  [d EXCEPT !.transit = Append(@, o), !.bundle[o].transitElt = TRUE]

(* Neighbour p passes its copy on to this node, which discards a bundle of *)
(* a key that it holds.  A bundle does not come back while the convergence *)
(* layer still owes the result of a transmission of it.                    *)
Receive(k, p) ==
  /\ p \in network[k] /\ \A t \in sent : t.key # k
  /\ receipts < MaxReceipts /\ receipts' = receipts + 1
  /\ network' = [network EXCEPT ![k] = @ \ {p}]
  /\ HasRoom(db, IF db.hash[k].count > 0 THEN 0 ELSE 1)
  /\ db' = IF db.hash[k].count > 0 THEN db
           ELSE InTransit(AddBundle(db, NewBundle(k, p)), Malloc(db))
  /\ UNCHANGED <<contacts, blocked, clm, candidate, sent, unsent, expired,
                 excused, faults>>

TransitRequest ==
  /\ candidate = None /\ db.transit # <<>>
  /\ candidate' = Head(db.transit)
  /\ UNCHANGED <<db, contacts, blocked, clm, sent, network, unsent, expired,
                 excused, counts>>

(* The bundle goes on if it is still the first when space has been awarded, *)
(* or another one is at its address.                                        *)
Moved(d, o) ==
  IF d.transit = <<>> \/ o # Head(d.transit) THEN d
  ELSE ForwardBundle([d EXCEPT !.transit = Tail(@),
                               !.bundle[o].transitElt = FALSE], o)

TransitMove ==
  /\ candidate # None /\ candidate' = None
  /\ db' = Moved(db, candidate)
  /\ UNCHANGED <<contacts, blocked, clm, sent, network, unsent, expired,
                 excused, counts>>

-----------------------------------------------------------------------------
(* Bundles go                                                               *)

(* Without a route a bundle waits in limbo if there is a prospect of one;   *)
(* otherwise, and if it is critical, it is abandoned.                       *)
Ipnfw ==
  /\ db.forward # <<>>
  /\ LET o == Head(db.forward)
         d == PurgeFwdQueueElt(db, o)
         b == d.bundle[o]
         routes == BestRoutes(b)
     IN \/ /\ b.key \in Critical /\ routes # {}
           /\ HasRoom(d, Cardinality(routes))
           /\ db' = SendCriticalBundle(d, o, routes)
           /\ UNCHANGED excused
        \/ /\ b.key \notin Critical
           /\ \E p \in routes :
                /\ HasRoom(d, 2 - Confidence(b.dlvConfidence, p))
                /\ db' = SendToBestRoute(d, o, p)
           /\ UNCHANGED excused
        \/ /\ b.key \notin Critical /\ routes = {}
           /\ db' = EnqueueToLimbo(d, o)
           /\ UNCHANGED excused
        \/ /\ routes = {}
           /\ db' = BpDestroyBundle(d, o, FALSE)
           /\ excused' = excused \union {b.key}
  /\ UNCHANGED <<contacts, blocked, clm, candidate, sent, network, unsent,
                 expired, counts>>

Usable(k, p) == k \in NeedsReliable => p \in Reliable

(* bpclm, in a contact with nothing to send.                               *)
ClmCheck(p) ==
  /\ clm[p] = "checks" /\ p \in open /\ db.queue[p] = <<>>
  /\ clm' = [clm EXCEPT ![p] = "waits"]
  /\ UNCHANGED <<db, contacts, blocked, candidate, sent, network, unsent,
                 expired, excused, counts>>

(* bpclm in a contact, or after its wait, with a bundle to hand over.  One  *)
(* that no duct of the plan can take goes to limbo.                         *)
ClmWork(p) ==
  /\ clm[p] = "checks" => p \in open
  /\ db.queue[p] # <<>>
  /\ LET o == Head(db.queue[p])
         d == RemoveBundleFromQueue(db, o)
     IN db' = IF Usable(d.bundle[o].key, p)
              THEN [d EXCEPT !.buffer[p] = Append(@, o),
                             !.bundle[o].ductXmitElt = p]
              ELSE EnqueueToLimbo(d, o)
  /\ clm' = [clm EXCEPT ![p] = "checks"]
  /\ UNCHANGED <<contacts, blocked, candidate, sent, network, unsent,
                 expired, excused, counts>>

(* Mutant: it is not looked whether the key is that of this bundle alone.  *)
StewardOfAny(d, o, p) ==
  /\ p \in Reliable \/ d.bundle[o].key \in NeedsReliable
  /\ ~IsCritical(d, o)

StewardshipAccepted(d, o, p) ==
  /\ p \in Reliable \/ d.bundle[o].key \in NeedsReliable
  /\ ~IsCritical(d, o)
  /\ d.hash[d.bundle[o].key].obj = o

(* Mutant: the alarm of a bundle that has been transmitted stays set.      *)
DequeuedAlarmed(d, o, p) ==
  LET e == PurgeDuctXmitElt(d, o)
  IN IF StewardshipAccepted(e, o, p) THEN e ELSE BpDestroyBundle(e, o, FALSE)

Dequeued(d, o, p) ==
  LET e == [PurgeDuctXmitElt(d, o) EXCEPT !.bundle[o].overdueElt = None]
  IN IF StewardshipAccepted(e, o, p) THEN e ELSE BpDestroyBundle(e, o, FALSE)

BpDequeue(p) ==
  /\ db.buffer[p] # <<>>
  /\ LET o == Head(db.buffer[p])
     IN /\ db' = Dequeued(db, o, p)
        /\ sent' = sent \union
             {[key |-> db.bundle[o].key, plan |-> p, obj |-> o,
               steward |-> StewardshipAccepted(db, o, p),
               arrived |-> FALSE]}
  /\ UNCHANGED <<contacts, blocked, clm, candidate, network, unsent, expired,
                 excused, counts>>

-----------------------------------------------------------------------------
(* Results of transmissions                                                 *)

Arrive(t) ==
  /\ t \in sent /\ ~t.arrived
  /\ network' = [network EXCEPT ![t.key] = @ \union {t.plan}]
  /\ sent' = (sent \ {t}) \union
       (IF t.steward THEN {[t EXCEPT !.arrived = TRUE]} ELSE {})
  /\ UNCHANGED <<db, contacts, blocked, clm, candidate, unsent, expired,
                 excused, counts>>

(* Nobody hears of the loss of a bundle without a steward.                 *)
Lose(t) ==
  /\ t \in sent /\ ~t.arrived /\ ~t.steward /\ sent' = sent \ {t}
  /\ faults < MaxFaults /\ faults' = faults + 1
  /\ excused' = excused \union {t.key}
  /\ UNCHANGED <<db, contacts, blocked, clm, candidate, network, unsent,
                 expired, receipts>>

(* The bundle of a result is looked up by its key, and may not be found.   *)
BpHandleXmitSuccess(t) ==
  /\ t \in sent /\ t.steward /\ t.arrived /\ sent' = sent \ {t}
  /\ LET o == db.hash[t.key].obj
     IN db' = IF o = 0 THEN db ELSE BpDestroyBundle(db, o, FALSE)
  /\ UNCHANGED <<contacts, blocked, clm, candidate, network, unsent, expired,
                 excused, counts>>

(* Mutant: it is given up.                                                 *)
FailedForGood(d, k) ==
  IF d.hash[k].obj = 0 THEN d ELSE BpDestroyBundle(d, d.hash[k].obj, FALSE)

XmitFailed(d, k) ==
  IF d.hash[k].obj = 0 THEN d ELSE BpReforwardBundle(d, d.hash[k].obj)

(* A failure may be reported although the bundle has arrived.              *)
BpHandleXmitFailure(t) ==
  /\ t \in sent /\ t.steward /\ sent' = sent \ {t}
  /\ faults < MaxFaults /\ faults' = faults + 1
  /\ db' = XmitFailed(db, t.key)
  /\ UNCHANGED <<contacts, blocked, clm, candidate, network, unsent, expired,
                 excused, receipts>>

-----------------------------------------------------------------------------
(* The clock and the operator                                               *)

(* The event expiredTTL of one bundle.                                     *)
Expire(o) ==
  /\ o \in Live(db) /\ db.bundle[o].key \in Mortal
  /\ db' = BpDestroyBundle(db, o, TRUE)
  /\ expired' = expired \union {db.bundle[o].key}
  /\ UNCHANGED <<contacts, blocked, clm, candidate, sent, network, unsent,
                 excused, counts>>

(* The event xmitOverdue.                                                  *)
Overdue(o) ==
  /\ o \in Live(db) /\ db.bundle[o].overdueElt = Due
  /\ db' = BpReforwardBundle(db, o)
  /\ UNCHANGED <<contacts, blocked, clm, candidate, sent, network, unsent,
                 expired, excused, counts>>

FlushLimbo ==
  /\ db.limbo # <<>>
  /\ db' = FoldLeft(ReleaseFromLimbo, db, db.limbo)
  /\ UNCHANGED <<contacts, blocked, clm, candidate, sent, network, unsent,
                 expired, excused, counts>>

OpenContact(p) ==
  /\ p \notin open /\ left[p] > 0
  /\ open' = open \union {p} /\ left' = [left EXCEPT ![p] = @ - 1]
  /\ UNCHANGED <<db, blocked, clm, candidate, sent, network, unsent, expired,
                 excused, counts>>

(* The last contact of a plan does not end.  Nothing is taken back from the *)
(* plan or its duct but by the alarms.                                      *)
CloseContact(p) ==
  /\ p \in open /\ left[p] > 0 /\ open' = open \ {p}
  /\ db' = [db EXCEPT !.bundle = [o \in Obj |->
              IF o \in Live(db) /\ @[o].overdueElt = p
              THEN [@[o] EXCEPT !.overdueElt = Due] ELSE @[o]]]
  /\ UNCHANGED <<left, blocked, clm, candidate, sent, network, unsent,
                 expired, excused, counts>>

BpBlockPlan(p) ==
  /\ p \notin blocked /\ blocked' = blocked \union {p}
  /\ faults < MaxFaults /\ faults' = faults + 1
  /\ db' = FoldLeft(ReverseEnqueue, db, db.queue[p])
  /\ UNCHANGED <<contacts, clm, candidate, sent, network, unsent, expired,
                 excused, receipts>>

BpUnblockPlan(p) ==
  /\ p \in blocked /\ blocked' = blocked \ {p}
  /\ db' = FoldLeft(ReleaseFromLimbo, db, db.limbo)
  /\ UNCHANGED <<contacts, clm, candidate, sent, network, unsent, expired,
                 excused, counts>>

-----------------------------------------------------------------------------
Init ==
  /\ db = [bundle |-> [o \in Obj |-> None],
           hash   |-> [k \in Key |-> [obj |-> 0, count |-> 0]],
           transit |-> <<>>, forward |-> <<>>, limbo |-> <<>>,
           queue  |-> [p \in Plan |-> <<>>],
           buffer |-> [p \in Plan |-> <<>>]]
  /\ open = {} /\ left = Contacts
  /\ blocked = {} /\ clm = [p \in Plan |-> "checks"]
  /\ candidate = None /\ sent = {} /\ unsent = Source
  /\ network \in {f \in [Key -> {{}} \union {{p} : p \in Plan}] :
                    \A k \in Key : f[k] = {} <=> k \in Source}
  /\ expired = {} /\ excused = {}
  /\ faults = 0 /\ receipts = 0

Clock == \E o \in Obj : Overdue(o)
Result == \E t \in sent : Arrive(t) \/ BpHandleXmitSuccess(t)

Next ==
  \/ \E k \in Key : Send(k)
  \/ \E k \in Key, p \in Plan : Receive(k, p)
  \/ TransitRequest \/ TransitMove \/ Ipnfw
  \/ \E p \in Plan : ClmCheck(p) \/ ClmWork(p) \/ BpDequeue(p)
  \/ Result \/ \E t \in sent : Lose(t) \/ BpHandleXmitFailure(t)
  \/ Clock \/ FlushLimbo \/ \E o \in Obj : Expire(o)
  \/ \E p \in Plan : OpenContact(p) \/ CloseContact(p)
                     \/ BpBlockPlan(p) \/ BpUnblockPlan(p)

Spec == Init /\ [][Next]_vars

(* Each daemon and duct works on, the clock's alarms go off, transmissions *)
(* end one way or the other, and the next contact comes.                   *)
FairSpec ==
  /\ Spec
  /\ WF_vars(TransitRequest) /\ WF_vars(TransitMove)
  /\ WF_vars(Ipnfw) /\ WF_vars(FlushLimbo)
  /\ WF_vars(Clock) /\ WF_vars(Result)
  /\ \A p \in Plan : /\ WF_vars(ClmWork(p)) /\ WF_vars(BpDequeue(p))
                     /\ WF_vars(OpenContact(p))

-----------------------------------------------------------------------------
(* Types of the state.                                                      *)
TypeOK ==
  /\ db.bundle \in [Obj -> {None} \union Bundles]
  /\ db.hash \in [Key -> [obj : Obj \union {0}, count : Nat]]
  /\ db.transit \in Seq(Obj) /\ db.forward \in Seq(Obj)
  /\ db.limbo \in Seq(Obj)
  /\ db.queue \in [Plan -> Seq(Obj)] /\ db.buffer \in [Plan -> Seq(Obj)]
  /\ open \subseteq Plan /\ left \in [Plan -> Nat]
  /\ blocked \subseteq Plan /\ clm \in [Plan -> {"checks", "waits"}]
  /\ candidate \in Obj \union {None}
  /\ sent \subseteq [key : Key, plan : Plan, obj : Obj, steward : BOOLEAN,
                     arrived : BOOLEAN]
  /\ network \in [Key -> SUBSET Plan]
  /\ unsent \subseteq Source /\ expired \subseteq Mortal
  /\ excused \subseteq Key
  /\ faults \in 0..MaxFaults /\ receipts \in 0..MaxReceipts

Holds(q, S) == ToSet(q) = S /\ Len(q) = Cardinality(S)
Having(P(_)) == {o \in Live(db) : P(db.bundle[o])}

(* Every list holds exactly the bundles that refer to it, each once,       *)
(* whatever takes them out of it: daemons, alarms, expiration, blocking.   *)
(* A list element without its bundle is a freed address for some daemon.   *)
QueuesMatch ==
  /\ Holds(db.transit, Having(LAMBDA b : b.transitElt))
  /\ Holds(db.forward, Having(LAMBDA b : b.fwdQueueElt))
  /\ Holds(db.limbo, Having(LAMBDA b : b.planXmitElt = Limbo))
  /\ \A p \in Plan :
       /\ Holds(db.queue[p], Having(LAMBDA b : b.planXmitElt = p))
       /\ Holds(db.buffer[p], Having(LAMBDA b : b.ductXmitElt = p))

(* The hash table counts the bundles of a key, and names one only if it is *)
(* the only one: no result of a transmission ends at a freed address or    *)
(* another copy.                                                           *)
CatalogueTrue ==
  \A k \in Key :
    /\ db.hash[k].count = Cardinality(Copies(db, k))
    /\ db.hash[k].obj # 0 => Copies(db, k) = {db.hash[k].obj}

Stewards(o) ==
  {t \in sent : t.steward /\ t.obj = o /\ t.key = db.bundle[o].key}
Places(b) ==
  {i \in 1..4 : <<b.transitElt, b.fwdQueueElt, b.planXmitElt # None,
                  b.ductXmitElt # None>>[i]}

(* A bundle with a steward is kept, out of all lists, and found by its key  *)
(* when the result comes, unless its lifetime ends.                         *)
StewardKept ==
  \A t \in sent : t.steward =>
    \/ t.key \in expired
    \/ /\ t.obj \in Live(db) /\ db.hash[t.key] = [obj |-> t.obj, count |-> 1]
       /\ Places(db.bundle[t.obj]) = {}

(* A bundle that is not critical is in one list, or one steward has it: it  *)
(* is neither forgotten until its lifetime ends nor on two ways.            *)
InOnePlace ==
  \A o \in Live(db) : db.bundle[o].key \notin Critical =>
    Cardinality(Places(db.bundle[o])) + Cardinality(Stewards(o)) = 1

(* No accepted bundle is lost: one whose lifetime has not ended is here, on *)
(* its way, or at a neighbour, unless it was abandoned for want of a route  *)
(* or lost by a transmission that nobody was the steward of.                *)
NotLost ==
  \A k \in Key \ (unsent \union expired \union excused) :
    \/ Copies(db, k) # {} \/ network[k] # {}
    \/ \E t \in sent : t.key = k

(* "Bundles have transmission seniority which must be honored": no plan     *)
(* transmits a bundle before one that was first enqueued earlier.           *)
SeniorFirst ==
  \A p \in Plan : \A i, j \in DOMAIN db.queue[p] : i < j =>
    db.bundle[db.queue[p][i]].enqueueTime
      <= db.bundle[db.queue[p][j]].enqueueTime

(* Every bundle leaves the node, transmitted or abandoned, if in the end a *)
(* plan is not blocked and those that are not have a duct for it.  Contacts *)
(* that end, failures, blocking and dead ends only delay it.                *)
EveryBundleLeaves ==
  \A k \in Key \ Critical :
    (<>[] (blocked # Plan /\ \A p \in Plan \ blocked : Usable(k, p)))
      => []<>(Copies(db, k) = {})

(* bpclm waits until rate control is satisfied, and only then passes a      *)
(* bundle to the outduct: in a contact.                                     *)
HandedOverInContact ==
  [][\A p \in Plan : Len(db'.buffer[p]) > Len(db.buffer[p]) => p \in open]_vars
=============================================================================
