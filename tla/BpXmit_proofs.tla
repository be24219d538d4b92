----------------------------- MODULE BpXmit_proofs -----------------------------
(***************************************************************************)
(* Proofs about BpXmit for every value of its constants, and so for any    *)
(* number of bundles, keys, plans and contacts: its types, that lists and  *)
(* bundles refer to each other, that the hash table is true, that a bundle *)
(* with a steward is kept, that a bundle is in one place and is not lost,  *)
(* and that plans honour seniority.                                        *)
(*                                                                         *)
(* The argument has three layers.  Each operator named after a function of *)
(* libbpP.c makes one bundle another one and the lists follow (Becomes,    *)
(* Adds, Frees): what keeps the db sound.  Each transaction either moves   *)
(* bundles from list to list (Moves) or has to do with one key (Tends).    *)
(* And KeyOK, what is true of a key, is kept by every step that moves, and *)
(* of all keys but one by a step that tends.                               *)
(***************************************************************************)
EXTENDS BpXmit, ListLemmas

-----------------------------------------------------------------------------
(* The db, its lists and its hash table.  A step on one bundle, in which the*)
(* lists follow, keeps them in accord.                                     *)

Dbs ==
  [bundle : [Obj -> {None} \union Bundles],
   hash : [Key -> [obj : Obj \union {0}, count : Nat]],
   transit : Seq(Obj), forward : Seq(Obj), limbo : Seq(Obj),
   queue : [Plan -> Seq(Obj)], buffer : [Plan -> Seq(Obj)]]

(* The bundles that refer to a list.                                       *)
TransitSet(d) == {o \in Live(d) : d.bundle[o].transitElt}
ForwardSet(d) == {o \in Live(d) : d.bundle[o].fwdQueueElt}
PlanSet(d, x) == {o \in Live(d) : d.bundle[o].planXmitElt = x}
DuctSet(d, p) == {o \in Live(d) : d.bundle[o].ductXmitElt = p}

ListsMatch(d) ==
  /\ Enumerates(d.transit, TransitSet(d))
  /\ Enumerates(d.forward, ForwardSet(d))
  /\ Enumerates(d.limbo, PlanSet(d, Limbo))
  /\ \A p \in Plan : /\ Enumerates(d.queue[p], PlanSet(d, p))
                     /\ Enumerates(d.buffer[p], DuctSet(d, p))

Catalogued(d) ==
  \A k \in Key : /\ d.hash[k].count = Cardinality(Copies(d, k))
                 /\ d.hash[k].obj # 0 => Copies(d, k) = {d.hash[k].obj}

(* The bundles of q are in the order of their first enqueueing.            *)
Ordered(q, bundle) ==
  \A i, j \in 1..Len(q) :
    i < j => bundle[q[i]].enqueueTime <= bundle[q[j]].enqueueTime

(* Bundles, lists and hash table agree.                                    *)
Sound(d) ==
  /\ d \in Dbs
  /\ ListsMatch(d)
  /\ Catalogued(d)
  /\ \A p \in Plan : Ordered(d.queue[p], d.bundle)

(* A step changes nothing but the bundle at o, and the lists.              *)
Sets(d, e, o, b) ==
  /\ e.hash = d.hash
  /\ e.bundle = [d.bundle EXCEPT ![o] = b]

With(S, x, c) == {y \in S \union {x} : y = x => c}

-----------------------------------------------------------------------------
(* What the constants are told apart by.                                   *)
LEMMA ObjNames ==
  /\ N \in Nat /\ None \notin Obj /\ None \notin Bundles /\ 0 \notin Obj
  /\ None \notin Plan /\ Limbo \notin Plan /\ Due \notin Plan
  /\ None # Limbo /\ None # Due /\ Limbo # Due
BY BpAssumption DEF Obj

(* A set to which nothing is done.                                         *)
LEMMA WithSame ==
  ASSUME NEW S, NEW x, NEW c \in BOOLEAN, c <=> x \in S
  PROVE  With(S, x, c) = S
BY DEF With

(* A set that gains an element, and one that loses it.                     *)
LEMMA WithIn ==
  ASSUME NEW S, NEW x
  PROVE  With(S, x, TRUE) = S \union {x} /\ With(S, x, FALSE) = S \ {x}
BY DEF With

(* The type of a db, part by part.                                         *)
LEMMA DbType ==
  ASSUME NEW d \in Dbs
  PROVE  /\ d.bundle \in [Obj -> {None} \union Bundles]
         /\ d.hash \in [Key -> [obj : Obj \union {0}, count : Nat]]
         /\ d.transit \in Seq(Obj) /\ d.forward \in Seq(Obj) /\ d.limbo \in Seq(Obj)
         /\ d.queue \in [Plan -> Seq(Obj)] /\ d.buffer \in [Plan -> Seq(Obj)]
         /\ Live(d) \subseteq Obj
         /\ \A o \in Live(d) : d.bundle[o] \in Bundles
         /\ \A o \in Obj : o \in Live(d) <=> d.bundle[o] # None
BY DEF Dbs, Live

(* The type of a bundle, field by field.                                   *)
LEMMA BundleType ==
  ASSUME NEW b \in Bundles
  PROVE  /\ b.key \in Key /\ b.sender \in Plan \union {None}
         /\ b.returnToSender \in BOOLEAN /\ b.transitElt \in BOOLEAN
         /\ b.fwdQueueElt \in BOOLEAN
         /\ b.planXmitElt \in Plan \union {Limbo, None}
         /\ b.ductXmitElt \in Plan \union {None}
         /\ b.overdueElt \in Plan \union {Due, None}
         /\ b.enqueueTime \in Nat /\ b.dlvConfidence \in 0..2
BY DEF Bundles

(* The other bundles are as they were.                                     *)
LEMMA SetsLive ==
  ASSUME NEW d \in Dbs, NEW e, NEW o \in Live(d), NEW b \in Bundles, Sets(d, e, o, b)
  PROVE  /\ Live(e) = Live(d) /\ e.bundle[o] = b
         /\ \A x \in Obj : x # o => e.bundle[x] = d.bundle[x]
BY DbType, ObjNames DEF Sets, Live

(* Two steps after each other on one bundle.                               *)
LEMMA SetsTwice ==
  ASSUME NEW d, NEW e, NEW f, NEW o, NEW b, NEW c, d \in Dbs,
         Sets(d, e, o, b), Sets(e, f, o, c)
  PROVE  Sets(d, f, o, c)
BY DbType DEF Sets

(* A step that makes b of the bundle at o does this to the lists.          *)
ListsFollow(d, e, o, b) ==
  /\ \/ e.transit = d.transit /\ (b.transitElt <=> d.bundle[o].transitElt)
     \/ Enumerates(e.transit, With(TransitSet(d), o, b.transitElt))
  /\ \/ e.forward = d.forward /\ (b.fwdQueueElt <=> d.bundle[o].fwdQueueElt)
     \/ Enumerates(e.forward, With(ForwardSet(d), o, b.fwdQueueElt))
  /\ \/ /\ e.limbo = d.limbo
        /\ b.planXmitElt = Limbo <=> d.bundle[o].planXmitElt = Limbo
     \/ Enumerates(e.limbo, With(PlanSet(d, Limbo), o, b.planXmitElt = Limbo))
  /\ \A p \in Plan :
       /\ \/ /\ e.queue[p] = d.queue[p]
             /\ b.planXmitElt = p <=> d.bundle[o].planXmitElt = p
          \/ Enumerates(e.queue[p], With(PlanSet(d, p), o, b.planXmitElt = p))
       /\ \/ e.queue[p] = d.queue[p] /\ b.enqueueTime = d.bundle[o].enqueueTime
          \/ Ordered(e.queue[p], e.bundle)
       /\ \/ /\ e.buffer[p] = d.buffer[p]
             /\ b.ductXmitElt = p <=> d.bundle[o].ductXmitElt = p
          \/ Enumerates(e.buffer[p], With(DuctSet(d, p), o, b.ductXmitElt = p))

(* What a step on one bundle must do to the lists.                         *)
LEMMA SetBundle ==
  ASSUME NEW d, Sound(d), NEW o \in Live(d), NEW b \in Bundles,
         b.key = d.bundle[o].key, NEW e \in Dbs, Sets(d, e, o, b),
         ListsFollow(d, e, o, b)
  PROVE  Sound(e)
<1>1. d \in Dbs /\ ListsMatch(d) /\ Catalogued(d) /\ \A p \in Plan : Ordered(d.queue[p], d.bundle)
  BY DEF Sound
<1>2. /\ Live(e) = Live(d) /\ e.bundle[o] = b /\ e.hash = d.hash
      /\ \A x \in Obj : x # o => e.bundle[x] = d.bundle[x]
      /\ Live(d) \subseteq Obj /\ d.bundle[o] \in Bundles
  <2>1. d \in Dbs
    BY <1>1
  <2>2. Live(d) \subseteq Obj /\ d.bundle[o] \in Bundles
    BY <2>1, DbType
  <2>3. e.hash = d.hash
    BY DEF Sets
  <2>4. /\ Live(e) = Live(d) /\ e.bundle[o] = b
        /\ \A x \in Obj : x # o => e.bundle[x] = d.bundle[x]
    BY <2>1, SetsLive
  <2> QED BY <2>2, <2>3, <2>4
<1>3. /\ TransitSet(e) = With(TransitSet(d), o, b.transitElt)
      /\ ForwardSet(e) = With(ForwardSet(d), o, b.fwdQueueElt)
      /\ \A x : PlanSet(e, x) = With(PlanSet(d, x), o, b.planXmitElt = x)
      /\ \A p : DuctSet(e, p) = With(DuctSet(d, p), o, b.ductXmitElt = p)
  <2>1. TransitSet(e) = With(TransitSet(d), o, b.transitElt)
    BY <1>2 DEF TransitSet, With
  <2>2. ForwardSet(e) = With(ForwardSet(d), o, b.fwdQueueElt)
    BY <1>2 DEF ForwardSet, With
  <2>3. ASSUME NEW x PROVE PlanSet(e, x) = With(PlanSet(d, x), o, b.planXmitElt = x)
    BY <1>2 DEF PlanSet, With
  <2>4. ASSUME NEW p PROVE DuctSet(e, p) = With(DuctSet(d, p), o, b.ductXmitElt = p)
    BY <1>2 DEF DuctSet, With
  <2> QED BY <2>1, <2>2, <2>3, <2>4
<1>4. Enumerates(e.transit, TransitSet(e))
  <2>1. CASE e.transit = d.transit /\ (b.transitElt <=> d.bundle[o].transitElt)
    <3>1. TransitSet(e) = TransitSet(d)
      BY <1>2, <2>1 DEF TransitSet
    <3> QED BY <1>1, <2>1, <3>1 DEF ListsMatch
  <2> QED BY <1>3, <2>1 DEF ListsFollow
<1>5. Enumerates(e.forward, ForwardSet(e))
  <2>1. CASE e.forward = d.forward /\ (b.fwdQueueElt <=> d.bundle[o].fwdQueueElt)
    <3>1. ForwardSet(e) = ForwardSet(d)
      BY <1>2, <2>1 DEF ForwardSet
    <3> QED BY <1>1, <2>1, <3>1 DEF ListsMatch
  <2> QED BY <1>3, <2>1 DEF ListsFollow
<1>6. Enumerates(e.limbo, PlanSet(e, Limbo))
  <2>1. CASE e.limbo = d.limbo /\ (b.planXmitElt = Limbo <=> d.bundle[o].planXmitElt = Limbo)
    <3>1. PlanSet(e, Limbo) = PlanSet(d, Limbo)
      BY <1>2, <2>1 DEF PlanSet
    <3> QED BY <1>1, <2>1, <3>1 DEF ListsMatch
  <2> QED BY <1>3, <2>1 DEF ListsFollow
<1>7. ASSUME NEW p \in Plan PROVE Enumerates(e.queue[p], PlanSet(e, p))
  <2>1. CASE e.queue[p] = d.queue[p] /\ (b.planXmitElt = p <=> d.bundle[o].planXmitElt = p)
    <3>1. PlanSet(e, p) = PlanSet(d, p)
      BY <1>2, <2>1 DEF PlanSet
    <3> QED BY <1>1, <2>1, <3>1 DEF ListsMatch
  <2> QED BY <1>3, <2>1 DEF ListsFollow
<1>8. ASSUME NEW p \in Plan PROVE Enumerates(e.buffer[p], DuctSet(e, p))
  <2>1. CASE e.buffer[p] = d.buffer[p] /\ (b.ductXmitElt = p <=> d.bundle[o].ductXmitElt = p)
    <3>1. DuctSet(e, p) = DuctSet(d, p)
      BY <1>2, <2>1 DEF DuctSet
    <3> QED BY <1>1, <2>1, <3>1 DEF ListsMatch
  <2> QED BY <1>3, <2>1 DEF ListsFollow
<1>9. Catalogued(e)
  <2>1. \A k : Copies(e, k) = Copies(d, k)
    BY <1>2 DEF Copies
  <2> QED BY <1>1, <1>2, <2>1 DEF Catalogued
<1>10. ASSUME NEW p \in Plan PROVE Ordered(e.queue[p], e.bundle)
  <2>1. CASE e.queue[p] = d.queue[p] /\ b.enqueueTime = d.bundle[o].enqueueTime
    <3> DEFINE q == d.queue[p]
    <3>4. q \in Seq(Obj)
      BY <1>1, DbType
    <3>1. \A i \in 1..Len(q) : q[i] \in Obj
      <4> HIDE DEF q
      <4> QED BY <3>4, ElementOfSeq
    <3>2. \A x \in Obj : e.bundle[x].enqueueTime = d.bundle[x].enqueueTime
      BY <1>2, <2>1
    <3>3. Ordered(q, d.bundle)
      BY <1>1
    <3>5. Ordered(q, e.bundle)
      <4> HIDE DEF q
      <4> QED BY <3>1, <3>2, <3>3 DEF Ordered
    <3> QED BY <2>1, <3>5
  <2> QED BY <2>1 DEF ListsFollow
<1> QED BY <1>4, <1>5, <1>6, <1>7, <1>8, <1>9, <1>10 DEF Sound, ListsMatch

-----------------------------------------------------------------------------
(* Steps on one bundle.                                                    *)

(* One step of an operator: the bundle at o becomes b.                     *)
Becomes(d, e, o, b) ==
  /\ b \in Bundles /\ b.key = d.bundle[o].key
  /\ Sets(d, e, o, b)
  /\ Sound(e)

(* A step on one bundle in which the lists follow.                         *)
LEMMA StepSound ==
  ASSUME NEW d, Sound(d), NEW o \in Live(d), NEW b \in Bundles,
         b.key = d.bundle[o].key, NEW e \in Dbs, Sets(d, e, o, b),
         ListsFollow(d, e, o, b)
  PROVE  Becomes(d, e, o, b)
BY SetBundle DEF Becomes

(* One step on a bundle after the other.                                   *)
LEMMA BecomesTwice ==
  ASSUME NEW d \in Dbs, NEW e, NEW f, NEW o \in Live(d), NEW b, NEW c,
         Becomes(d, e, o, b), Becomes(e, f, o, c)
  PROVE  Becomes(d, f, o, c)
<1>1. b \in Bundles /\ Sets(d, e, o, b) /\ b.key = d.bundle[o].key
  BY DEF Becomes
<1>2. c \in Bundles /\ Sets(e, f, o, c) /\ c.key = e.bundle[o].key /\ Sound(f)
  BY DEF Becomes
<1>3. e.bundle[o] = b
  BY <1>1, SetsLive
<1>4. Sets(d, f, o, c)
  BY <1>1, <1>2, SetsTwice
<1> QED BY <1>1, <1>2, <1>3, <1>4 DEF Becomes

(* What is the same after a step on one bundle, and what is not.           *)
LEMMA BecomesLive ==
  ASSUME NEW d, Sound(d), NEW e, NEW o \in Live(d), NEW b, Becomes(d, e, o, b)
  PROVE  /\ Live(e) = Live(d) /\ e.bundle[o] = b /\ e.hash = d.hash /\ Sound(e)
         /\ b \in Bundles /\ b.key = d.bundle[o].key
         /\ d \in Dbs /\ e \in Dbs /\ o \in Obj /\ o \in Live(e)
         /\ d.bundle[o] \in Bundles
         /\ \A x \in Obj : x # o => e.bundle[x] = d.bundle[x]
<1>1. b \in Bundles /\ Sets(d, e, o, b) /\ b.key = d.bundle[o].key /\ Sound(e)
  BY DEF Becomes
<1>2. d \in Dbs /\ e \in Dbs
  BY <1>1 DEF Sound
<1>3. Live(e) = Live(d) /\ e.bundle[o] = b /\ \A x \in Obj : x # o => e.bundle[x] = d.bundle[x]
  BY <1>1, <1>2, SetsLive
<1>4. o \in Obj /\ d.bundle[o] \in Bundles
  BY <1>2, DbType
<1> QED BY <1>1, <1>2, <1>3, <1>4 DEF Sets

(* The other bundles are as they were.                                     *)
LEMMA BecomesElse ==
  ASSUME NEW d, Sound(d), NEW e, NEW o \in Live(d), NEW b, Becomes(d, e, o, b),
         NEW x \in Obj, x # o
  PROVE  e.bundle[x] = d.bundle[x]
BY BecomesLive

(* A step that changes nothing.                                            *)
LEMMA BecomesSame ==
  ASSUME NEW d, Sound(d), NEW o \in Live(d)
  PROVE  Becomes(d, d, o, d.bundle[o])
<1>1. d \in Dbs
  BY DEF Sound
<1>2. d.bundle[o] \in Bundles /\ d.bundle \in [Obj -> {None} \union Bundles]
  BY <1>1, DbType
<1> QED BY <1>2 DEF Becomes, Sets

(* What a sound db promises of each list.                                  *)
LEMMA SoundParts ==
  ASSUME NEW d, Sound(d)
  PROVE  /\ d \in Dbs /\ Live(d) \subseteq Obj
         /\ Enumerates(d.transit, TransitSet(d))
         /\ Enumerates(d.forward, ForwardSet(d))
         /\ Enumerates(d.limbo, PlanSet(d, Limbo))
         /\ \A p \in Plan : /\ Enumerates(d.queue[p], PlanSet(d, p))
                            /\ Enumerates(d.buffer[p], DuctSet(d, p))
                            /\ Ordered(d.queue[p], d.bundle)
         /\ TransitSet(d) \subseteq Obj /\ ForwardSet(d) \subseteq Obj
         /\ \A x : PlanSet(d, x) \subseteq Obj /\ DuctSet(d, x) \subseteq Obj
<1>1. d \in Dbs /\ ListsMatch(d) /\ \A p \in Plan : Ordered(d.queue[p], d.bundle)
  BY DEF Sound
<1>2. Live(d) \subseteq Obj
  BY <1>1, DbType
<1>3. /\ TransitSet(d) \subseteq Obj /\ ForwardSet(d) \subseteq Obj
      /\ \A x : PlanSet(d, x) \subseteq Obj /\ DuctSet(d, x) \subseteq Obj
  BY <1>2 DEF TransitSet, ForwardSet, PlanSet, DuctSet
<1> QED BY <1>1, <1>2, <1>3 DEF ListsMatch

(* What a list becomes when a bundle leaves it or comes.                   *)
LEMMA ListWithout ==
  ASSUME NEW S \in SUBSET Obj, NEW s, Enumerates(s, S), NEW o
  PROVE  /\ Enumerates(Removed(s, o), With(S, o, FALSE))
         /\ Removed(s, o) \in Seq(Obj)
<1>1. Enumerates(Removed(s, o), S \ {o})
  BY EnumerationShrinks
<1>2. Removed(s, o) \in Seq(S \ {o})
  BY <1>1 DEF Enumerates
<1>3. Removed(s, o) \in Seq(Obj)
  BY <1>2, SeqMonotonic
<1> QED BY <1>1, <1>3, WithIn

(* An element joins a set that does not have it yet.                       *)
LEMMA ListWith ==
  ASSUME NEW S \in SUBSET Obj, NEW s, Enumerates(s, S), NEW o \in Obj, o \notin S
  PROVE  /\ Enumerates(Append(s, o), With(S, o, TRUE))
         /\ Append(s, o) \in Seq(Obj)
<1>1. Enumerates(Append(s, o), S \union {o})
  BY EnumerationGrows
<1>2. Append(s, o) \in Seq(S \union {o})
  BY <1>1 DEF Enumerates
<1>3. Append(s, o) \in Seq(Obj)
  BY <1>2, SeqMonotonic
<1> QED BY <1>1, <1>3, WithIn

(* Seniority is kept when a bundle leaves the queue.                       *)
LEMMA OrderedWithout ==
  ASSUME NEW S, NEW q, Enumerates(q, S), NEW bundle, NEW other, NEW o,
         \A x \in S : other[x].enqueueTime = bundle[x].enqueueTime,
         Ordered(q, bundle)
  PROVE  Ordered(Removed(q, o), other)
<1> DEFINE r == Removed(q, o)
<1>1. PICK g : Picks(g, r, q, S \ {o}, Len(q))
  BY EnumerationShrinks
<1>2. Enumerates(r, S \ {o})
  BY EnumerationShrinks
<1> HIDE DEF r
<1>3. SUFFICES ASSUME NEW i \in 1..Len(r), NEW j \in 1..Len(r), i < j
               PROVE  other[r[i]].enqueueTime <= other[r[j]].enqueueTime
  BY DEF Ordered, r
<1>4. /\ g[i] \in 1..Len(q) /\ g[j] \in 1..Len(q) /\ g[i] < g[j]
      /\ r[i] = q[g[i]] /\ r[j] = q[g[j]]
  BY <1>1, <1>3 DEF Picks
<1>5. r[i] \in S /\ r[j] \in S
  BY <1>2, EnumerationType
<1>6. bundle[r[i]].enqueueTime <= bundle[r[j]].enqueueTime
  BY <1>4 DEF Ordered
<1> QED BY <1>5, <1>6

(* A bundle leaves the queue of its plan.                                  *)
LEMMA RemoveBundleFromQueueStep ==
  ASSUME NEW d, Sound(d), NEW o \in Live(d), d.bundle[o].planXmitElt \in Plan
  PROVE  Becomes(d, RemoveBundleFromQueue(d, o), o,
                 [d.bundle[o] EXCEPT !.planXmitElt = None])
<1> DEFINE e == RemoveBundleFromQueue(d, o)
           b == [d.bundle[o] EXCEPT !.planXmitElt = None]
           p == d.bundle[o].planXmitElt
<1>1. d \in Dbs /\ o \in Obj /\ d.bundle[o] \in Bundles
  BY DbType, SoundParts
<1>2. /\ b \in Bundles /\ b.key = d.bundle[o].key /\ b.planXmitElt = None
      /\ b.transitElt = d.bundle[o].transitElt /\ b.fwdQueueElt = d.bundle[o].fwdQueueElt
      /\ b.ductXmitElt = d.bundle[o].ductXmitElt
      /\ b.enqueueTime = d.bundle[o].enqueueTime
  BY <1>1 DEF Bundles
<1>3. Enumerates(Removed(d.queue[p], o), With(PlanSet(d, p), o, FALSE))
      /\ Removed(d.queue[p], o) \in Seq(Obj)
  BY SoundParts, ListWithout
<1>4. /\ e.hash = d.hash /\ e.transit = d.transit /\ e.forward = d.forward
      /\ e.limbo = d.limbo /\ e.buffer = d.buffer
      /\ e.queue = [d.queue EXCEPT ![p] = Removed(@, o)]
      /\ e.bundle = [d.bundle EXCEPT ![o] = b]
      /\ e \in Dbs
  <2> HIDE DEF b
  <2>1. e = [d EXCEPT !.queue = [d.queue EXCEPT ![p] = Removed(@, o)],
                      !.bundle = [d.bundle EXCEPT ![o] = b]]
    BY <1>1 DEF RemoveBundleFromQueue, Dbs, b
  <2> HIDE DEF e
  <2> QED BY <1>1, <1>2, <1>3, <2>1 DEF Dbs
<1>5. \A x \in Obj : e.bundle[x].enqueueTime = d.bundle[x].enqueueTime
  <2> HIDE DEF b, e
  <2> QED BY <1>1, <1>2, <1>4, DbType
<1>6. Ordered(Removed(d.queue[p], o), e.bundle)
  <2> HIDE DEF e
  <2>1. /\ Enumerates(d.queue[p], PlanSet(d, p)) /\ Ordered(d.queue[p], d.bundle)
        /\ PlanSet(d, p) \subseteq Obj
    BY SoundParts
  <2> QED BY <1>5, <2>1, OrderedWithout
<1>7. ASSUME NEW x \in Plan
      PROVE  /\ \/ e.queue[x] = d.queue[x] /\ (b.planXmitElt = x <=> d.bundle[o].planXmitElt = x)
                \/ Enumerates(e.queue[x], With(PlanSet(d, x), o, b.planXmitElt = x))
             /\ \/ e.queue[x] = d.queue[x] /\ b.enqueueTime = d.bundle[o].enqueueTime
                \/ Ordered(e.queue[x], e.bundle)
  <2> HIDE DEF b, e
  <2>1. d.queue \in [Plan -> Seq(Obj)]
    BY <1>1, DbType
  <2>2. CASE x = p
    <3>1. e.queue[x] = Removed(d.queue[p], o) /\ (b.planXmitElt = x <=> FALSE)
      BY <1>2, <1>4, <2>1, <2>2, ObjNames
    <3> QED BY <1>3, <1>6, <2>2, <3>1
  <2>3. CASE x # p
    <3>1. e.queue[x] = d.queue[x] /\ b.planXmitElt # x
      BY <1>2, <1>4, <2>1, <2>3, ObjNames
    <3> QED BY <1>2, <2>3, <3>1
  <2> QED BY <2>2, <2>3
<1>8. b.planXmitElt = Limbo <=> d.bundle[o].planXmitElt = Limbo
  BY <1>2, ObjNames
<1>9. Sets(d, e, o, b)
  BY <1>4 DEF Sets
<1> HIDE DEF b, e
<1>10. ListsFollow(d, e, o, b)
  BY <1>2, <1>4, <1>7, <1>8 DEF ListsFollow
<1>11. Becomes(d, e, o, b)
  BY <1>2, <1>4, <1>9, <1>10, StepSound
<1> QED BY <1>11 DEF b, e

-----------------------------------------------------------------------------
(* A bundle leaves a list.                                                 *)

(* A bundle leaves limbo.                                                  *)
LEMMA LeaveLimboStep ==
  ASSUME NEW d, Sound(d), NEW o \in Live(d), d.bundle[o].planXmitElt = Limbo
  PROVE  Becomes(d, [d EXCEPT !.limbo = Removed(@, o), !.bundle[o].planXmitElt = None],
                 o, [d.bundle[o] EXCEPT !.planXmitElt = None])
<1> DEFINE e == [d EXCEPT !.limbo = Removed(@, o), !.bundle[o].planXmitElt = None]
           b == [d.bundle[o] EXCEPT !.planXmitElt = None]
<1>1. d \in Dbs /\ o \in Obj /\ d.bundle[o] \in Bundles
  BY DbType, SoundParts
<1>2. /\ b \in Bundles /\ b.key = d.bundle[o].key /\ b.planXmitElt = None
      /\ b.transitElt = d.bundle[o].transitElt /\ b.fwdQueueElt = d.bundle[o].fwdQueueElt
      /\ b.ductXmitElt = d.bundle[o].ductXmitElt
      /\ b.enqueueTime = d.bundle[o].enqueueTime
  BY <1>1 DEF Bundles
<1>3. Enumerates(Removed(d.limbo, o), With(PlanSet(d, Limbo), o, FALSE))
      /\ Removed(d.limbo, o) \in Seq(Obj)
  BY SoundParts, ListWithout
<1>4. /\ e.hash = d.hash /\ e.transit = d.transit /\ e.forward = d.forward
      /\ e.limbo = Removed(d.limbo, o) /\ e.buffer = d.buffer /\ e.queue = d.queue
      /\ e.bundle = [d.bundle EXCEPT ![o] = b]
      /\ e \in Dbs
  <2> HIDE DEF b
  <2>1. e = [d EXCEPT !.limbo = Removed(@, o), !.bundle = [d.bundle EXCEPT ![o] = b]]
    BY <1>1 DEF Dbs, b
  <2> HIDE DEF e
  <2> QED BY <1>1, <1>2, <1>3, <2>1 DEF Dbs
<1>5. Sets(d, e, o, b)
  BY <1>4 DEF Sets
<1> HIDE DEF b, e
<1>6. b.planXmitElt = Limbo <=> FALSE
  BY <1>2, ObjNames
<1>7. \A x \in Plan : b.planXmitElt = x <=> d.bundle[o].planXmitElt = x
  BY <1>2, ObjNames
<1>8. ListsFollow(d, e, o, b)
  BY <1>2, <1>3, <1>4, <1>6, <1>7 DEF ListsFollow
<1>9. Becomes(d, e, o, b)
  BY <1>2, <1>4, <1>5, <1>8, StepSound
<1> QED BY <1>9 DEF b, e

(* A bundle leaves its plan or limbo, if it is in one.                     *)
LEMMA PurgePlanXmitEltStep ==
  ASSUME NEW d, Sound(d), NEW o \in Live(d)
  PROVE  Becomes(d, PurgePlanXmitElt(d, o), o, [d.bundle[o] EXCEPT !.planXmitElt = None])
<1>1. d \in Dbs /\ o \in Obj /\ d.bundle[o] \in Bundles
  BY DbType, SoundParts
<1>2. CASE d.bundle[o].planXmitElt = None
  <2>1. [d.bundle[o] EXCEPT !.planXmitElt = None] = d.bundle[o]
    BY <1>1, <1>2 DEF Bundles
  <2>2. PurgePlanXmitElt(d, o) = d
    BY <1>2 DEF PurgePlanXmitElt
  <2>3. Becomes(d, d, o, d.bundle[o])
    BY BecomesSame
  <2> QED BY <2>1, <2>2, <2>3
<1>3. CASE d.bundle[o].planXmitElt = Limbo
  BY <1>3, ObjNames, LeaveLimboStep DEF PurgePlanXmitElt
<1>4. CASE d.bundle[o].planXmitElt \in Plan
  <2>1. PurgePlanXmitElt(d, o) = RemoveBundleFromQueue(d, o)
    BY <1>4, ObjNames DEF PurgePlanXmitElt
  <2> QED BY <1>4, <2>1, RemoveBundleFromQueueStep
<1> QED BY <1>1, <1>2, <1>3, <1>4, BundleType

(* A bundle leaves the buffer of its duct, if it is in one.                *)
LEMMA PurgeDuctXmitEltStep ==
  ASSUME NEW d, Sound(d), NEW o \in Live(d)
  PROVE  Becomes(d, PurgeDuctXmitElt(d, o), o, [d.bundle[o] EXCEPT !.ductXmitElt = None])
<1> DEFINE e == PurgeDuctXmitElt(d, o)
           b == [d.bundle[o] EXCEPT !.ductXmitElt = None]
           p == d.bundle[o].ductXmitElt
<1>1. d \in Dbs /\ o \in Obj /\ d.bundle[o] \in Bundles
  BY DbType, SoundParts
<1>2. CASE p = None
  <2>1. b = d.bundle[o]
    BY <1>1, <1>2 DEF Bundles
  <2>2. e = d
    BY <1>2 DEF PurgeDuctXmitElt
  <2>3. Becomes(d, d, o, d.bundle[o])
    BY BecomesSame
  <2> QED BY <2>1, <2>2, <2>3
<1>3. CASE p # None
  <2>0. p \in Plan
    BY <1>1, <1>3, BundleType
  <2>2. /\ b \in Bundles /\ b.key = d.bundle[o].key /\ b.ductXmitElt = None
        /\ b.transitElt = d.bundle[o].transitElt /\ b.fwdQueueElt = d.bundle[o].fwdQueueElt
        /\ b.planXmitElt = d.bundle[o].planXmitElt
        /\ b.enqueueTime = d.bundle[o].enqueueTime
    BY <1>1 DEF Bundles
  <2>3. Enumerates(Removed(d.buffer[p], o), With(DuctSet(d, p), o, FALSE))
        /\ Removed(d.buffer[p], o) \in Seq(Obj)
    BY <2>0, SoundParts, ListWithout
  <2>4. /\ e.hash = d.hash /\ e.transit = d.transit /\ e.forward = d.forward
        /\ e.limbo = d.limbo /\ e.queue = d.queue
        /\ e.buffer = [d.buffer EXCEPT ![p] = Removed(@, o)]
        /\ e.bundle = [d.bundle EXCEPT ![o] = b]
        /\ e \in Dbs
    <3> HIDE DEF b
    <3>1. e = [d EXCEPT !.buffer = [d.buffer EXCEPT ![p] = Removed(@, o)],
                        !.bundle = [d.bundle EXCEPT ![o] = b]]
      BY <1>1, <1>3 DEF PurgeDuctXmitElt, Dbs, b
    <3> HIDE DEF e
    <3> QED BY <1>1, <2>0, <2>2, <2>3, <3>1 DEF Dbs
  <2>5. Sets(d, e, o, b)
    BY <2>4 DEF Sets
  <2> HIDE DEF b, e
  <2>6. ASSUME NEW x \in Plan
        PROVE  \/ /\ e.buffer[x] = d.buffer[x]
                  /\ b.ductXmitElt = x <=> d.bundle[o].ductXmitElt = x
               \/ Enumerates(e.buffer[x], With(DuctSet(d, x), o, b.ductXmitElt = x))
    <3>1. d.buffer \in [Plan -> Seq(Obj)]
      BY <1>1, DbType
    <3>2. CASE x = p
      <4>1. e.buffer[x] = Removed(d.buffer[p], o) /\ (b.ductXmitElt = x <=> FALSE)
        BY <2>0, <2>2, <2>4, <3>1, <3>2, ObjNames
      <4> QED BY <2>3, <3>2, <4>1
    <3>3. CASE x # p
      BY <2>2, <2>4, <3>1, <3>3, ObjNames
    <3> QED BY <3>2, <3>3
  <2>7. ListsFollow(d, e, o, b)
    BY <2>2, <2>4, <2>6 DEF ListsFollow
  <2>8. Becomes(d, e, o, b)
    BY <2>2, <2>4, <2>5, <2>7, StepSound
  <2> QED BY <2>8 DEF b, e
<1> QED BY <1>2, <1>3

(* A bundle leaves the forwarder, if it is there.                          *)
LEMMA PurgeFwdQueueEltStep ==
  ASSUME NEW d, Sound(d), NEW o \in Live(d)
  PROVE  Becomes(d, PurgeFwdQueueElt(d, o), o, [d.bundle[o] EXCEPT !.fwdQueueElt = FALSE])
<1> DEFINE e == PurgeFwdQueueElt(d, o)
           b == [d.bundle[o] EXCEPT !.fwdQueueElt = FALSE]
<1>1. d \in Dbs /\ o \in Obj /\ d.bundle[o] \in Bundles
  BY DbType, SoundParts
<1>2. /\ b \in Bundles /\ b.key = d.bundle[o].key /\ b.fwdQueueElt = FALSE
      /\ b.transitElt = d.bundle[o].transitElt /\ b.planXmitElt = d.bundle[o].planXmitElt
      /\ b.ductXmitElt = d.bundle[o].ductXmitElt
      /\ b.enqueueTime = d.bundle[o].enqueueTime
  BY <1>1 DEF Bundles
<1>3. Enumerates(Removed(d.forward, o), With(ForwardSet(d), o, FALSE))
      /\ Removed(d.forward, o) \in Seq(Obj)
  BY SoundParts, ListWithout
<1>4. /\ e.hash = d.hash /\ e.transit = d.transit /\ e.forward = Removed(d.forward, o)
      /\ e.limbo = d.limbo /\ e.buffer = d.buffer /\ e.queue = d.queue
      /\ e.bundle = [d.bundle EXCEPT ![o] = b]
      /\ e \in Dbs
  <2> HIDE DEF b
  <2>1. e = [d EXCEPT !.forward = Removed(@, o), !.bundle = [d.bundle EXCEPT ![o] = b]]
    BY <1>1 DEF Dbs, b, PurgeFwdQueueElt
  <2> HIDE DEF e
  <2> QED BY <1>1, <1>2, <1>3, <2>1 DEF Dbs
<1>5. Sets(d, e, o, b)
  BY <1>4 DEF Sets
<1> HIDE DEF b, e
<1>8. ListsFollow(d, e, o, b)
  BY <1>2, <1>3, <1>4 DEF ListsFollow
<1>9. Becomes(d, e, o, b)
  BY <1>2, <1>4, <1>5, <1>8, StepSound
<1> QED BY <1>9 DEF b, e

(* A bundle that is on its way out leaves the list of bptransit.           *)
LEMMA LeaveTransitStep ==
  ASSUME NEW d, Sound(d), NEW o \in Live(d)
  PROVE  Becomes(d, [d EXCEPT !.transit = Removed(@, o), !.bundle[o].transitElt = FALSE],
                 o, [d.bundle[o] EXCEPT !.transitElt = FALSE])
<1> DEFINE e == [d EXCEPT !.transit = Removed(@, o), !.bundle[o].transitElt = FALSE]
           b == [d.bundle[o] EXCEPT !.transitElt = FALSE]
<1>1. d \in Dbs /\ o \in Obj /\ d.bundle[o] \in Bundles
  BY DbType, SoundParts
<1>2. /\ b \in Bundles /\ b.key = d.bundle[o].key /\ b.transitElt = FALSE
      /\ b.fwdQueueElt = d.bundle[o].fwdQueueElt /\ b.planXmitElt = d.bundle[o].planXmitElt
      /\ b.ductXmitElt = d.bundle[o].ductXmitElt
      /\ b.enqueueTime = d.bundle[o].enqueueTime
  BY <1>1 DEF Bundles
<1>3. Enumerates(Removed(d.transit, o), With(TransitSet(d), o, FALSE))
      /\ Removed(d.transit, o) \in Seq(Obj)
  BY SoundParts, ListWithout
<1>4. /\ e.hash = d.hash /\ e.forward = d.forward /\ e.transit = Removed(d.transit, o)
      /\ e.limbo = d.limbo /\ e.buffer = d.buffer /\ e.queue = d.queue
      /\ e.bundle = [d.bundle EXCEPT ![o] = b]
      /\ e \in Dbs
  <2> HIDE DEF b
  <2>1. e = [d EXCEPT !.transit = Removed(@, o), !.bundle = [d.bundle EXCEPT ![o] = b]]
    BY <1>1 DEF Dbs, b
  <2> HIDE DEF e
  <2> QED BY <1>1, <1>2, <1>3, <2>1 DEF Dbs
<1>5. Sets(d, e, o, b)
  BY <1>4 DEF Sets
<1> HIDE DEF b, e
<1>8. ListsFollow(d, e, o, b)
  BY <1>2, <1>3, <1>4 DEF ListsFollow
<1>9. Becomes(d, e, o, b)
  BY <1>2, <1>4, <1>5, <1>8, StepSound
<1> QED BY <1>9 DEF b, e

-----------------------------------------------------------------------------
(* A bundle joins a list.                                                  *)

(* A bundle joins the forwarder's list.                                    *)
LEMMA JoinForwardStep ==
  ASSUME NEW d, Sound(d), NEW o \in Live(d), ~d.bundle[o].fwdQueueElt
  PROVE  Becomes(d, [d EXCEPT !.forward = Append(@, o), !.bundle[o].fwdQueueElt = TRUE],
                 o, [d.bundle[o] EXCEPT !.fwdQueueElt = TRUE])
<1> DEFINE e == [d EXCEPT !.forward = Append(@, o), !.bundle[o].fwdQueueElt = TRUE]
           b == [d.bundle[o] EXCEPT !.fwdQueueElt = TRUE]
<1>1. d \in Dbs /\ o \in Obj /\ d.bundle[o] \in Bundles
  BY DbType, SoundParts
<1>2. /\ b \in Bundles /\ b.key = d.bundle[o].key /\ b.fwdQueueElt = TRUE
      /\ b.transitElt = d.bundle[o].transitElt /\ b.planXmitElt = d.bundle[o].planXmitElt
      /\ b.ductXmitElt = d.bundle[o].ductXmitElt
      /\ b.enqueueTime = d.bundle[o].enqueueTime
  BY <1>1 DEF Bundles
<1>3. Enumerates(Append(d.forward, o), With(ForwardSet(d), o, TRUE))
      /\ Append(d.forward, o) \in Seq(Obj)
  <2>1. o \notin ForwardSet(d)
    BY DEF ForwardSet
  <2> QED BY <1>1, <2>1, SoundParts, ListWith
<1>4. /\ e.hash = d.hash /\ e.transit = d.transit /\ e.forward = Append(d.forward, o)
      /\ e.limbo = d.limbo /\ e.buffer = d.buffer /\ e.queue = d.queue
      /\ e.bundle = [d.bundle EXCEPT ![o] = b]
      /\ e \in Dbs
  <2> HIDE DEF b
  <2>1. e = [d EXCEPT !.forward = Append(@, o), !.bundle = [d.bundle EXCEPT ![o] = b]]
    BY <1>1 DEF Dbs, b
  <2> HIDE DEF e
  <2> QED BY <1>1, <1>2, <1>3, <2>1 DEF Dbs
<1>5. Sets(d, e, o, b)
  BY <1>4 DEF Sets
<1> HIDE DEF b, e
<1>8. ListsFollow(d, e, o, b)
  BY <1>2, <1>3, <1>4 DEF ListsFollow
<1>9. Becomes(d, e, o, b)
  BY <1>2, <1>4, <1>5, <1>8, StepSound
<1> QED BY <1>9 DEF b, e

(* A bundle joins the list of bptransit.                                   *)
LEMMA JoinTransitStep ==
  ASSUME NEW d, Sound(d), NEW o \in Live(d), ~d.bundle[o].transitElt
  PROVE  Becomes(d, InTransit(d, o), o, [d.bundle[o] EXCEPT !.transitElt = TRUE])
<1> DEFINE e == InTransit(d, o)
           b == [d.bundle[o] EXCEPT !.transitElt = TRUE]
<1>1. d \in Dbs /\ o \in Obj /\ d.bundle[o] \in Bundles
  BY DbType, SoundParts
<1>2. /\ b \in Bundles /\ b.key = d.bundle[o].key /\ b.transitElt = TRUE
      /\ b.fwdQueueElt = d.bundle[o].fwdQueueElt /\ b.planXmitElt = d.bundle[o].planXmitElt
      /\ b.ductXmitElt = d.bundle[o].ductXmitElt
      /\ b.enqueueTime = d.bundle[o].enqueueTime
  BY <1>1 DEF Bundles
<1>3. Enumerates(Append(d.transit, o), With(TransitSet(d), o, TRUE))
      /\ Append(d.transit, o) \in Seq(Obj)
  <2>1. o \notin TransitSet(d)
    BY DEF TransitSet
  <2> QED BY <1>1, <2>1, SoundParts, ListWith
<1>4. /\ e.hash = d.hash /\ e.forward = d.forward /\ e.transit = Append(d.transit, o)
      /\ e.limbo = d.limbo /\ e.buffer = d.buffer /\ e.queue = d.queue
      /\ e.bundle = [d.bundle EXCEPT ![o] = b]
      /\ e \in Dbs
  <2> HIDE DEF b
  <2>1. e = [d EXCEPT !.transit = Append(@, o), !.bundle = [d.bundle EXCEPT ![o] = b]]
    BY <1>1 DEF Dbs, b, InTransit
  <2> HIDE DEF e
  <2> QED BY <1>1, <1>2, <1>3, <2>1 DEF Dbs
<1>5. Sets(d, e, o, b)
  BY <1>4 DEF Sets
<1> HIDE DEF b, e
<1>8. ListsFollow(d, e, o, b)
  BY <1>2, <1>3, <1>4 DEF ListsFollow
<1>9. Becomes(d, e, o, b)
  BY <1>2, <1>4, <1>5, <1>8, StepSound
<1> QED BY <1>9 DEF b, e

(* bptransit takes the first bundle of its list.                           *)
LEMMA TransitTailStep ==
  ASSUME NEW d, Sound(d), NEW o, d.transit # <<>>, o = Head(d.transit)
  PROVE  /\ o \in Live(d) /\ d.bundle[o].transitElt
         /\ Becomes(d, [d EXCEPT !.transit = Tail(@), !.bundle[o].transitElt = FALSE],
                    o, [d.bundle[o] EXCEPT !.transitElt = FALSE])
<1> DEFINE e == [d EXCEPT !.transit = Tail(@), !.bundle[o].transitElt = FALSE]
           b == [d.bundle[o] EXCEPT !.transitElt = FALSE]
<1>0. o \in Live(d) /\ d.bundle[o].transitElt
  <2>1. o \in TransitSet(d)
    BY SoundParts, EnumerationType
  <2> QED BY <2>1 DEF TransitSet
<1>1. d \in Dbs /\ o \in Obj /\ d.bundle[o] \in Bundles
  BY <1>0, DbType, SoundParts
<1>2. /\ b \in Bundles /\ b.key = d.bundle[o].key /\ b.transitElt = FALSE
      /\ b.fwdQueueElt = d.bundle[o].fwdQueueElt /\ b.planXmitElt = d.bundle[o].planXmitElt
      /\ b.ductXmitElt = d.bundle[o].ductXmitElt
      /\ b.enqueueTime = d.bundle[o].enqueueTime
  BY <1>1 DEF Bundles
<1>3. Enumerates(Tail(d.transit), With(TransitSet(d), o, FALSE))
      /\ Tail(d.transit) \in Seq(Obj)
  <2>1. Enumerates(d.transit, TransitSet(d)) /\ TransitSet(d) \subseteq Obj
    BY SoundParts
  <2>2. Enumerates(Tail(d.transit), TransitSet(d) \ {o})
    BY <2>1, EnumerationTail
  <2>3. Tail(d.transit) \in Seq(TransitSet(d) \ {o})
    BY <2>2 DEF Enumerates
  <2>4. Tail(d.transit) \in Seq(Obj)
    BY <2>1, <2>3, SeqMonotonic
  <2> QED BY <2>2, <2>4, WithIn
<1>4. /\ e.hash = d.hash /\ e.forward = d.forward /\ e.transit = Tail(d.transit)
      /\ e.limbo = d.limbo /\ e.buffer = d.buffer /\ e.queue = d.queue
      /\ e.bundle = [d.bundle EXCEPT ![o] = b]
      /\ e \in Dbs
  <2> HIDE DEF b
  <2>1. e = [d EXCEPT !.transit = Tail(@), !.bundle = [d.bundle EXCEPT ![o] = b]]
    BY <1>1 DEF Dbs, b
  <2> HIDE DEF e
  <2> QED BY <1>1, <1>2, <1>3, <2>1 DEF Dbs
<1>5. Sets(d, e, o, b)
  BY <1>4 DEF Sets
<1> HIDE DEF b, e
<1>8. ListsFollow(d, e, o, b)
  BY <1>2, <1>3, <1>4 DEF ListsFollow
<1>9. Becomes(d, e, o, b)
  BY <1>0, <1>2, <1>4, <1>5, <1>8, StepSound
<1> QED BY <1>0, <1>9 DEF b, e

(* A bundle joins limbo.                                                   *)
LEMMA EnqueueToLimboStep ==
  ASSUME NEW d, Sound(d), NEW o \in Live(d), d.bundle[o].planXmitElt = None,
         ~IsCritical(d, o)
  PROVE  Becomes(d, EnqueueToLimbo(d, o), o, [d.bundle[o] EXCEPT !.planXmitElt = Limbo])
<1> DEFINE e == EnqueueToLimbo(d, o)
           b == [d.bundle[o] EXCEPT !.planXmitElt = Limbo]
<1>1. d \in Dbs /\ o \in Obj /\ d.bundle[o] \in Bundles
  BY DbType, SoundParts
<1>2. /\ b \in Bundles /\ b.key = d.bundle[o].key /\ b.planXmitElt = Limbo
      /\ b.transitElt = d.bundle[o].transitElt /\ b.fwdQueueElt = d.bundle[o].fwdQueueElt
      /\ b.ductXmitElt = d.bundle[o].ductXmitElt
      /\ b.enqueueTime = d.bundle[o].enqueueTime
  BY <1>1 DEF Bundles
<1>3. Enumerates(Append(d.limbo, o), With(PlanSet(d, Limbo), o, TRUE))
      /\ Append(d.limbo, o) \in Seq(Obj)
  <2>1. o \notin PlanSet(d, Limbo)
    BY ObjNames DEF PlanSet
  <2> QED BY <1>1, <2>1, SoundParts, ListWith
<1>4. /\ e.hash = d.hash /\ e.transit = d.transit /\ e.forward = d.forward
      /\ e.limbo = Append(d.limbo, o) /\ e.buffer = d.buffer /\ e.queue = d.queue
      /\ e.bundle = [d.bundle EXCEPT ![o] = b]
      /\ e \in Dbs
  <2> HIDE DEF b
  <2>1. e = [d EXCEPT !.limbo = Append(@, o), !.bundle = [d.bundle EXCEPT ![o] = b]]
    BY <1>1 DEF Dbs, b, EnqueueToLimbo
  <2> HIDE DEF e
  <2> QED BY <1>1, <1>2, <1>3, <2>1 DEF Dbs
<1>5. Sets(d, e, o, b)
  BY <1>4 DEF Sets
<1> HIDE DEF b, e
<1>6. b.planXmitElt = Limbo <=> TRUE
  BY <1>2, ObjNames
<1>7. \A x \in Plan : b.planXmitElt = x <=> d.bundle[o].planXmitElt = x
  BY <1>2, ObjNames
<1>8. ListsFollow(d, e, o, b)
  BY <1>2, <1>3, <1>4, <1>6, <1>7 DEF ListsFollow
<1>9. Becomes(d, e, o, b)
  BY <1>2, <1>4, <1>5, <1>8, StepSound
<1> QED BY <1>9 DEF b, e

(* bpclm hands a bundle over to the duct.                                  *)
LEMMA JoinBufferStep ==
  ASSUME NEW d, Sound(d), NEW o \in Live(d), d.bundle[o].ductXmitElt = None,
         NEW p \in Plan
  PROVE  Becomes(d, [d EXCEPT !.buffer[p] = Append(@, o), !.bundle[o].ductXmitElt = p],
                 o, [d.bundle[o] EXCEPT !.ductXmitElt = p])
<1> DEFINE e == [d EXCEPT !.buffer[p] = Append(@, o), !.bundle[o].ductXmitElt = p]
           b == [d.bundle[o] EXCEPT !.ductXmitElt = p]
<1>1. d \in Dbs /\ o \in Obj /\ d.bundle[o] \in Bundles
  BY DbType, SoundParts
<1>2. /\ b \in Bundles /\ b.key = d.bundle[o].key /\ b.ductXmitElt = p
      /\ b.transitElt = d.bundle[o].transitElt /\ b.fwdQueueElt = d.bundle[o].fwdQueueElt
      /\ b.planXmitElt = d.bundle[o].planXmitElt
      /\ b.enqueueTime = d.bundle[o].enqueueTime
  BY <1>1 DEF Bundles
<1>3. Enumerates(Append(d.buffer[p], o), With(DuctSet(d, p), o, TRUE))
      /\ Append(d.buffer[p], o) \in Seq(Obj)
  <2>1. o \notin DuctSet(d, p)
    BY ObjNames DEF DuctSet
  <2> QED BY <1>1, <2>1, SoundParts, ListWith
<1>4. /\ e.hash = d.hash /\ e.transit = d.transit /\ e.forward = d.forward
      /\ e.limbo = d.limbo /\ e.queue = d.queue
      /\ e.buffer = [d.buffer EXCEPT ![p] = Append(@, o)]
      /\ e.bundle = [d.bundle EXCEPT ![o] = b]
      /\ e \in Dbs
  <2> HIDE DEF b
  <2>1. e = [d EXCEPT !.buffer = [d.buffer EXCEPT ![p] = Append(@, o)],
                      !.bundle = [d.bundle EXCEPT ![o] = b]]
    BY <1>1 DEF Dbs, b
  <2> HIDE DEF e
  <2> QED BY <1>1, <1>2, <1>3, <2>1 DEF Dbs
<1>5. Sets(d, e, o, b)
  BY <1>4 DEF Sets
<1> HIDE DEF b, e
<1>6. ASSUME NEW x \in Plan
      PROVE  \/ /\ e.buffer[x] = d.buffer[x]
                /\ b.ductXmitElt = x <=> d.bundle[o].ductXmitElt = x
             \/ Enumerates(e.buffer[x], With(DuctSet(d, x), o, b.ductXmitElt = x))
  <2>1. d.buffer \in [Plan -> Seq(Obj)]
    BY <1>1, DbType
  <2>2. CASE x = p
    <3>1. e.buffer[x] = Append(d.buffer[p], o) /\ (b.ductXmitElt = x <=> TRUE)
      BY <1>2, <1>4, <2>1, <2>2
    <3> QED BY <1>3, <2>2, <3>1
  <2>3. CASE x # p
    BY <1>2, <1>4, <2>1, <2>3, ObjNames
  <2> QED BY <2>2, <2>3
<1>8. ListsFollow(d, e, o, b)
  BY <1>2, <1>4, <1>6 DEF ListsFollow
<1>9. Becomes(d, e, o, b)
  BY <1>2, <1>4, <1>5, <1>8, StepSound
<1> QED BY <1>9 DEF b, e

(* Fields that say nothing of lists.                                       *)
LEMMA FieldsStep ==
  ASSUME NEW d, Sound(d), NEW o \in Live(d), NEW b \in Bundles,
         b.key = d.bundle[o].key, b.transitElt = d.bundle[o].transitElt,
         b.fwdQueueElt = d.bundle[o].fwdQueueElt,
         b.planXmitElt = d.bundle[o].planXmitElt,
         b.ductXmitElt = d.bundle[o].ductXmitElt,
         b.enqueueTime = d.bundle[o].enqueueTime
  PROVE  Becomes(d, [d EXCEPT !.bundle[o] = b], o, b)
<1> DEFINE e == [d EXCEPT !.bundle[o] = b]
<1>1. d \in Dbs /\ o \in Obj /\ d.bundle[o] \in Bundles
  BY DbType, SoundParts
<1>4. /\ e.hash = d.hash /\ e.transit = d.transit /\ e.forward = d.forward
      /\ e.limbo = d.limbo /\ e.buffer = d.buffer /\ e.queue = d.queue
      /\ e.bundle = [d.bundle EXCEPT ![o] = b]
      /\ e \in Dbs
  BY <1>1 DEF Dbs
<1>5. Sets(d, e, o, b)
  BY <1>4 DEF Sets
<1> HIDE DEF e
<1>8. ListsFollow(d, e, o, b)
  BY <1>4 DEF ListsFollow
<1>9. Becomes(d, e, o, b)
  BY <1>4, <1>5, <1>8, StepSound
<1> QED BY <1>9 DEF e

-----------------------------------------------------------------------------
(* The queue of a plan, in the order of first enqueueing.                  *)

(* InsertAt, position by position.                                         *)
LEMMA InsertAtLooks ==
  ASSUME NEW T, NEW q \in Seq(T), NEW i \in 1..Len(q), NEW x \in T
  PROVE  /\ InsertAt(q, i, x) \in Seq(T)
         /\ Len(InsertAt(q, i, x)) = Len(q) + 1
         /\ \A k \in 1..(Len(q) + 1) :
              InsertAt(q, i, x)[k] = IF k < i THEN q[k] ELSE IF k = i THEN x ELSE q[k - 1]
<1> DEFINE n == Len(q)
           u == SubSeq(q, 1, i - 1)
           v == SubSeq(q, i, n)
           w == <<x>>
<1>1. n \in Nat /\ i \in Int /\ 1 <= i /\ i <= n /\ \A k \in 1..n : q[k] \in T
  BY LenProperties, ElementOfSeq
<1>2. u \in Seq(T) /\ Len(u) = i - 1 /\ \A k \in 1..(i - 1) : u[k] = q[k]
  <2> HIDE DEF n
  <2>1. \A k \in 1..(i - 1) : q[k] \in T
    BY <1>1
  <2>2. i - 1 \in Int /\ 1 \in Int
    BY <1>1
  <2>3. /\ SubSeq(q, 1, i - 1) \in Seq(T)
        /\ Len(SubSeq(q, 1, i - 1)) = IF 1 <= i - 1 THEN (i - 1) - 1 + 1 ELSE 0
        /\ \A k \in 1..((i - 1) - 1 + 1) : SubSeq(q, 1, i - 1)[k] = q[1 + k - 1]
    BY <2>1, <2>2, SubSeqProperties
  <2> HIDE DEF u
  <2>4. u \in Seq(T)
        /\ Len(u) = (IF 1 <= i - 1 THEN (i - 1) - 1 + 1 ELSE 0)
        /\ \A k \in 1..((i - 1) - 1 + 1) : u[k] = q[1 + k - 1]
    BY <2>3 DEF u
  <2> QED BY <1>1, <2>4
<1>3. v \in Seq(T) /\ Len(v) = n - i + 1 /\ \A k \in 1..(n - i + 1) : v[k] = q[i + k - 1]
  <2> HIDE DEF n
  <2>1. \A k \in i..n : q[k] \in T
    BY <1>1
  <2>3. /\ SubSeq(q, i, n) \in Seq(T)
        /\ Len(SubSeq(q, i, n)) = IF i <= n THEN n - i + 1 ELSE 0
        /\ \A k \in 1..(n - i + 1) : SubSeq(q, i, n)[k] = q[i + k - 1]
    BY <1>1, <2>1, SubSeqProperties
  <2> QED BY <1>1, <2>3
<1>4. w \in Seq(T) /\ Len(w) = 1 /\ w[1] = x
  OBVIOUS
<1>5. InsertAt(q, i, x) = (u \o w) \o v
  BY DEF InsertAt
<1> HIDE DEF u, v, w, n
<1>6. /\ u \o w \in Seq(T) /\ Len(u \o w) = i
      /\ \A k \in 1..i : (u \o w)[k] = IF k <= i - 1 THEN u[k] ELSE w[k - (i - 1)]
  <2>1. /\ u \o w \in Seq(T) /\ Len(u \o w) = Len(u) + Len(w)
        /\ \A k \in 1..(Len(u) + Len(w)) :
              (u \o w)[k] = IF k <= Len(u) THEN u[k] ELSE w[k - Len(u)]
    BY <1>2, <1>4, ConcatProperties
  <2>2. Len(u) + Len(w) = i
    BY <1>1, <1>2, <1>4
  <2> QED BY <1>2, <2>1, <2>2
<1> DEFINE y == u \o w
           r == y \o v
<1>7. /\ r \in Seq(T) /\ Len(r) = n + 1
      /\ \A k \in 1..(n + 1) : r[k] = IF k <= i THEN y[k] ELSE v[k - i]
  <2>0. y \in Seq(T) /\ Len(y) = i
    BY <1>6
  <2> HIDE DEF y
  <2>1. /\ r \in Seq(T) /\ Len(r) = Len(y) + Len(v)
        /\ \A k \in 1..(Len(y) + Len(v)) :
              r[k] = IF k <= Len(y) THEN y[k] ELSE v[k - Len(y)]
    BY <2>0, <1>3, ConcatProperties
  <2> HIDE DEF r
  <2>2. Len(y) + Len(v) = n + 1
    BY <1>1, <1>3, <2>0
  <2> QED BY <2>0, <2>1, <2>2
<1>8. ASSUME NEW k \in 1..(n + 1)
      PROVE  r[k] = IF k < i THEN q[k] ELSE IF k = i THEN x ELSE q[k - 1]
  <2>1. r[k] = IF k <= i THEN y[k] ELSE v[k - i]
    BY <1>7
  <2>2. k \in 1..i => y[k] = IF k <= i - 1 THEN u[k] ELSE w[k - (i - 1)]
    BY <1>6
  <2> HIDE DEF r, y
  <2>3. CASE k < i
    BY <1>1, <1>2, <2>1, <2>2, <2>3
  <2>4. CASE k = i
    BY <1>1, <1>4, <2>1, <2>2, <2>4
  <2>5. CASE k > i
    <3>1. k - i \in 1..(n - i + 1) /\ i + (k - i) - 1 = k - 1
      BY <1>1, <2>5
    <3>2. v[k - i] = q[k - 1]
      BY <1>3, <3>1
    <3> QED BY <1>1, <2>1, <2>5, <3>2
  <2> QED BY <1>1, <2>3, <2>4, <2>5
<1> QED BY <1>5, <1>7, <1>8 DEF n

(* The list r is s with x put in at position i.                            *)
Inserted(r, s, i, x) ==
  /\ Len(r) = Len(s) + 1
  /\ \A k \in 1..(Len(s) + 1) :
       r[k] = IF k < i THEN s[k] ELSE IF k = i THEN x ELSE s[k - 1]

(* A set grows by an element that is put anywhere in its list.             *)
LEMMA EnumerationInserted ==
  ASSUME NEW s, NEW S, Enumerates(s, S), NEW x, x \notin S, NEW i \in 1..Len(s)
  PROVE  /\ Enumerates(InsertAt(s, i, x), S \union {x})
         /\ Inserted(InsertAt(s, i, x), s, i, x)
<1> DEFINE T == S \union {x}
           r == InsertAt(s, i, x)
           n == Len(s)
<1>1. /\ n \in Nat /\ s \in Seq(S) /\ \A k \in 1..n : s[k] \in S
      /\ \A y \in S : \E k \in 1..n : s[k] = y
  BY EnumerationType DEF Enumerates
<1>2. s \in Seq(T)
  BY <1>1, SeqMonotonic
<1>3. /\ r \in Seq(T) /\ Len(r) = n + 1
      /\ \A k \in 1..(n + 1) : r[k] = IF k < i THEN s[k] ELSE IF k = i THEN x ELSE s[k - 1]
  <2> HIDE DEF T
  <2>1. x \in T
    BY DEF T
  <2> QED BY <1>2, <2>1, InsertAtLooks
<1>0. i \in 1..n
  OBVIOUS
<1> DEFINE at(k) == IF k < i THEN k ELSE k - 1
<1>4. \A k \in 1..(n + 1) : k # i => at(k) \in 1..n /\ r[k] = s[at(k)]
  <2> HIDE DEF n, r, T
  <2>1. ASSUME NEW k \in 1..(n + 1), k # i PROVE at(k) \in 1..n /\ r[k] = s[at(k)]
    BY <1>0, <1>1, <1>3, <2>1
  <2> QED BY <2>1
<1>5. r[i] = x /\ i \in 1..(n + 1)
  <2> HIDE DEF n, r, T
  <2> QED BY <1>0, <1>1, <1>3
<1>6. ASSUME NEW j \in 1..(n + 1), NEW k \in 1..(n + 1), r[j] = r[k] PROVE j = k
  <2>1. CASE j = i \/ k = i
    BY <1>1, <1>4, <1>5, <1>6, <2>1
  <2>2. CASE j # i /\ k # i
    <3>1. s[at(j)] = s[at(k)] /\ at(j) \in 1..n /\ at(k) \in 1..n
      BY <1>4, <1>6, <2>2
    <3>2. at(j) = at(k)
      BY <3>1 DEF Enumerates
    <3> HIDE DEF n, r
    <3> QED BY <1>0, <1>1, <2>2, <3>2
  <2> QED BY <2>1, <2>2
<1>7. ASSUME NEW y \in T PROVE \E k \in 1..(n + 1) : r[k] = y
  <2>1. CASE y = x
    BY <1>5, <2>1
  <2>2. CASE y \in S
    <3>1. PICK k \in 1..n : s[k] = y
      BY <1>1, <2>2
    <3> DEFINE m == IF k < i THEN k ELSE k + 1
    <3>2. m \in 1..(n + 1) /\ m # i /\ at(m) = k
      <4> HIDE DEF n, r
      <4> QED BY <1>0, <1>1
    <3>3. r[m] = s[at(m)]
      <4> HIDE DEF m, at
      <4> QED BY <1>4, <3>2
    <3> QED BY <3>1, <3>2, <3>3
  <2> QED BY <1>7, <2>1, <2>2
<1> HIDE DEF T, r
<1>8. Enumerates(r, T)
  BY <1>3, <1>6, <1>7 DEF Enumerates
<1>9. Inserted(r, s, i, x)
  BY <1>3 DEF Inserted
<1> QED BY <1>8, <1>9 DEF r, T

(* A bundle goes behind all that were enqueued no later, in front of the   *)
(* others.                                                                 *)
LEMMA QueueInserted ==
  ASSUME NEW d, NEW S, NEW q, Enumerates(q, S), NEW o, o \notin S,
         \A x \in S \union {o} : d.bundle[x].enqueueTime \in Nat,
         Ordered(q, d.bundle)
  PROVE  /\ Enumerates(InsertBundleIntoQueue(d, q, o), S \union {o})
         /\ Ordered(InsertBundleIntoQueue(d, q, o), d.bundle)
<1> DEFINE Time(x) == d.bundle[x].enqueueTime
           n == Len(q)
           J == {i \in 1..n : Time(o) < Time(q[i])}
           r == InsertBundleIntoQueue(d, q, o)
<1>1. n \in Nat /\ \A i \in 1..n : q[i] \in S
  BY EnumerationType
<1>2. \A i \in 1..n : Time(q[i]) \in Nat
  BY <1>1
<1>3. Time(o) \in Nat
  OBVIOUS
<1>4. \A i, j \in 1..n : i < j => Time(q[i]) <= Time(q[j])
  BY DEF Ordered
<1>5. CASE q = <<>> \/ ~(Time(o) < Time(q[n]))
  <2>1. r = Append(q, o)
    BY <1>5 DEF InsertBundleIntoQueue, Last
  <2>2. Enumerates(Append(q, o), S \union {o})
    BY EnumerationGrows
  <2>3. q \in Seq(S \union {o})
    BY SeqMonotonic DEF Enumerates
  <2> DEFINE a == Append(q, o)
  <2>4. Len(a) = n + 1 /\ a[n + 1] = o /\ \A i \in 1..n : a[i] = q[i]
    BY <2>3, AppendProperties
  <2> HIDE DEF a, r
  <2>5. ASSUME NEW i \in 1..Len(a), NEW j \in 1..Len(a), i < j PROVE Time(a[i]) <= Time(a[j])
    <3>1. i \in 1..n /\ a[i] = q[i]
      BY <1>1, <2>4, <2>5
    <3>2. CASE j \in 1..n
      BY <1>4, <2>4, <2>5, <3>1, <3>2
    <3>3. CASE j = n + 1
      <4>1. a[j] = o /\ n \in 1..n
        BY <1>1, <2>4, <3>1, <3>3
      <4>2. Time(q[n]) <= Time(o)
        <5>1. q # <<>>
          BY <3>1
        <5> HIDE DEF n, Time
        <5> QED BY <1>2, <1>3, <1>5, <4>1, <5>1
      <4>3. Time(q[i]) <= Time(q[n])
        <5>1. i < n \/ i = n
          BY <1>1, <3>1
        <5>2. CASE i < n
          BY <1>4, <3>1, <4>1, <5>2
        <5>3. CASE i = n
          BY <1>2, <4>1, <5>3
        <5> QED BY <5>1, <5>2, <5>3
      <4>4. Time(q[i]) \in Nat /\ Time(q[n]) \in Nat
        BY <1>2, <3>1, <4>1
      <4> HIDE DEF Time
      <4> QED BY <1>3, <3>1, <4>1, <4>2, <4>3, <4>4
    <3> QED BY <1>1, <2>4, <3>2, <3>3
  <2>6. Ordered(a, d.bundle)
    BY <2>5 DEF Ordered
  <2> QED BY <2>1, <2>2, <2>6 DEF a, r
<1>6. CASE q # <<>> /\ Time(o) < Time(q[n])
  <2>1. n \in 1..n /\ n \in J
    BY <1>1, <1>6, EnumerationType
  <2>2. J # {} /\ J \in SUBSET Nat
    BY <2>1
  <2>3. PICK m \in J : \A y \in J : m <= y
    <3> HIDE DEF J
    <3> QED BY <2>2, LeastExists
  <2> DEFINE i == Min(J)
  <2>4. i \in J /\ \A y \in J : i <= y
    BY <2>3 DEF Min
  <2>5. r = InsertAt(q, i, o)
    <3>1. ~(q = <<>> \/ ~(d.bundle[o].enqueueTime < d.bundle[Last(q)].enqueueTime))
      BY <1>6 DEF Last
    <3>2. r = InsertAt(q, IF J # {} THEN i ELSE 0, o)
      BY <3>1, Zenon DEF InsertBundleIntoQueue, SelectInSeq
    <3> QED BY <2>2, <3>2
  <2> HIDE DEF i, r
  <2>6. i \in 1..n
    BY <2>4
  <2>7. Enumerates(InsertAt(q, i, o), S \union {o}) /\ Inserted(InsertAt(q, i, o), q, i, o)
    BY <2>6, EnumerationInserted
  <2>8. /\ Len(r) = n + 1
        /\ \A k \in 1..(n + 1) : r[k] = IF k < i THEN q[k] ELSE IF k = i THEN o ELSE q[k - 1]
    BY <2>5, <2>7 DEF Inserted
  <2>9. \A k \in 1..n : IF k < i THEN Time(q[k]) <= Time(o) ELSE Time(o) < Time(q[k])
    <3>1. ASSUME NEW k \in 1..n, k < i PROVE Time(q[k]) <= Time(o)
      <4>1. k \notin J
        BY <2>4, <2>6, <3>1
      <4>2. ~(Time(o) < Time(q[k])) /\ Time(q[k]) \in Nat
        BY <1>2, <4>1
      <4> HIDE DEF Time
      <4> QED BY <1>3, <4>2
    <3>2. ASSUME NEW k \in 1..n, ~(k < i) PROVE Time(o) < Time(q[k])
      <4>1. Time(o) < Time(q[i]) /\ Time(q[i]) \in Nat /\ Time(q[k]) \in Nat
        BY <1>2, <2>4, <2>6
      <4>2. Time(q[i]) <= Time(q[k])
        <5>1. i < k \/ i = k
          BY <2>6, <3>2
        <5>2. CASE i < k
          BY <1>4, <2>6, <5>2
        <5>3. CASE i = k
          BY <4>1, <5>3
        <5> QED BY <5>1, <5>2, <5>3
      <4> HIDE DEF Time
      <4> QED BY <1>3, <4>1, <4>2
    <3> QED BY <3>1, <3>2
  <2>10. ASSUME NEW j \in 1..Len(r), NEW k \in 1..Len(r), j < k
         PROVE  Time(r[j]) <= Time(r[k])
    <3>0. /\ j \in Int /\ k \in Int /\ i \in Int /\ 1 <= j /\ k <= n + 1 /\ 1 <= i /\ i <= n
          /\ j \in 1..(n + 1) /\ k \in 1..(n + 1)
      BY <1>1, <2>6, <2>8
    <3>1. CASE k < i
      <4>1. r[j] = q[j] /\ r[k] = q[k] /\ j \in 1..n /\ k \in 1..n
        BY <1>1, <2>8, <2>10, <3>0, <3>1
      <4> QED BY <1>4, <2>10, <4>1
    <3>2. CASE k = i
      <4>1. r[j] = q[j] /\ r[k] = o /\ j \in 1..n /\ j < i
        BY <1>1, <2>8, <2>10, <3>0, <3>2
      <4> QED BY <2>9, <4>1
    <3>3. CASE k > i
      <4>1. r[k] = q[k - 1] /\ k - 1 \in 1..n /\ ~(k - 1 < i)
        BY <1>1, <2>8, <3>0, <3>3
      <4>2. CASE j < i
        <5>1. r[j] = q[j] /\ j \in 1..n /\ j < k - 1
          BY <1>1, <2>8, <3>0, <3>3, <4>2
        <5> QED BY <1>4, <4>1, <5>1
      <4>3. CASE j = i
        <5>1. r[j] = o /\ Time(o) < Time(q[k - 1]) /\ Time(q[k - 1]) \in Nat
          BY <1>2, <2>8, <2>9, <3>0, <4>1, <4>3
        <5> HIDE DEF Time
        <5> QED BY <1>3, <4>1, <5>1
      <4>4. CASE j > i
        <5>1. r[j] = q[j - 1] /\ j - 1 \in 1..n /\ j - 1 < k - 1
          BY <1>1, <2>8, <2>10, <3>0, <4>4
        <5> QED BY <1>4, <4>1, <5>1
      <4> QED BY <3>0, <4>2, <4>3, <4>4
    <3> QED BY <3>0, <3>1, <3>2, <3>3
  <2>11. Ordered(r, d.bundle)
    BY <2>10 DEF Ordered
  <2> QED BY <2>5, <2>7, <2>11 DEF r
<1> QED BY <1>5, <1>6

-----------------------------------------------------------------------------
(* A bundle enters the queue of a plan.                                    *)

(* There is a latest time of enqueueing.                                   *)
LEMMA NowExists ==
  ASSUME NEW d, d \in Dbs, NEW o \in Live(d)
  PROVE  1 + Max({d.bundle[x].enqueueTime : x \in Live(d)}) \in Nat
<1> DEFINE Time(x) == d.bundle[x].enqueueTime
           T == {Time(x) : x \in Live(d)}
           B == {n \in Nat : \E m \in Nat : \A x \in Live(d) : x <= n => Time(x) <= m}
<1>1. \A x \in Live(d) : x \in 1..N /\ Time(x) \in Nat
  <2>1. ASSUME NEW x \in Live(d) PROVE x \in 1..N /\ Time(x) \in Nat
    <3>1. d.bundle[x] \in Bundles /\ x \in Obj
      BY DbType
    <3>2. d.bundle[x].enqueueTime \in Nat
      BY <3>1, BundleType
    <3> QED BY <3>1, <3>2 DEF Obj
  <2> QED BY <2>1
<1>2. 0 \in B
  <2>1. \A x \in Live(d) : ~(x <= 0)
    BY <1>1
  <2> QED BY <2>1
<1>3. ASSUME NEW n \in Nat, n \in B PROVE n + 1 \in B
  <2>1. PICK m \in Nat : \A x \in Live(d) : x <= n => Time(x) <= m
    BY <1>3
  <2>2. CASE n + 1 \in Live(d)
    <3> DEFINE t == Time(n + 1)
               k == IF m <= t THEN t ELSE m
    <3>1. t \in Nat /\ k \in Nat /\ m <= k /\ t <= k
      BY <1>1, <2>2
    <3>2. ASSUME NEW x \in Live(d), x <= n + 1 PROVE Time(x) <= k
      <4>1. x <= n \/ x = n + 1
        BY <1>1, <3>2
      <4>2. CASE x <= n
        <5>1. Time(x) <= m /\ Time(x) \in Nat
          BY <1>1, <2>1, <4>2
        <5> HIDE DEF Time, k, t
        <5> QED BY <3>1, <5>1
      <4>3. CASE x = n + 1
        BY <3>1, <4>3
      <4> QED BY <4>1, <4>2, <4>3
    <3> HIDE DEF k
    <3> QED BY <3>1, <3>2
  <2>3. CASE n + 1 \notin Live(d)
    <3>1. \A x \in Live(d) : x <= n + 1 => x <= n
      BY <1>1, <2>3
    <3> QED BY <2>1, <3>1
  <2> QED BY <2>2, <2>3
<1>4. N \in B
  <2> HIDE DEF B
  <2> QED BY <1>2, <1>3, SetInduction, ObjNames
<1>5. PICK m \in Nat : \A x \in Live(d) : Time(x) <= m
  BY <1>1, <1>4, ObjNames
<1>6. T \in SUBSET Nat /\ T # {} /\ \A t \in T : t <= m
  BY <1>1, <1>5
<1>7. \E t \in T : \A y \in T : y <= t
  <2> HIDE DEF T
  <2> QED BY <1>6, GreatestExists
<1>8. PICK t \in T : \A y \in T : t >= y
  <2> HIDE DEF T
  <2> QED BY <1>6, <1>7
<1>9. Max(T) \in T
  <2> HIDE DEF T
  <2> QED BY <1>8 DEF Max
<1>10. Max(T) \in Nat
  <2> HIDE DEF T
  <2> QED BY <1>6, <1>9
<1>11. 1 + Max(T) \in Nat
  <2> HIDE DEF T
  <2> QED BY <1>10
<1> QED BY <1>11

(* A bundle joins the queue of a plan, at the time of its first enqueueing.*)
LEMMA BpEnqueueStep ==
  ASSUME NEW d, Sound(d), NEW o \in Live(d), d.bundle[o].planXmitElt = None,
         NEW p \in Plan
  PROVE  \E t \in Nat :
           Becomes(d, BpEnqueue(d, o, p), o,
                   [d.bundle[o] EXCEPT !.planXmitElt = p, !.enqueueTime = t])
<1> DEFINE now == 1 + Max({d.bundle[x].enqueueTime : x \in Live(d)})
           t == IF d.bundle[o].enqueueTime = 0 THEN now ELSE d.bundle[o].enqueueTime
           b == [d.bundle[o] EXCEPT !.planXmitElt = p, !.enqueueTime = t]
           e == BpEnqueue(d, o, p)
           f == [d EXCEPT !.bundle[o].planXmitElt = p,
                          !.bundle[o].enqueueTime = IF @ = 0 THEN now ELSE @]
           r == InsertBundleIntoQueue(f, f.queue[p], o)
<1>1. d \in Dbs /\ o \in Obj /\ d.bundle[o] \in Bundles
  BY DbType, SoundParts
<1>2. now \in Nat
  BY <1>1, NowExists
<1> HIDE DEF now
<1>3. t \in Nat
  BY <1>1, <1>2, BundleType
<1>4. e = [f EXCEPT !.queue[p] = r]
  BY DEF BpEnqueue, now
<1>5. f = [d EXCEPT !.bundle = [d.bundle EXCEPT ![o] = b]]
  <2>1. f.bundle = [d.bundle EXCEPT ![o] = b]
    BY <1>1 DEF Dbs, Bundles
  <2> QED BY <1>1, <2>1 DEF Dbs
<1> HIDE DEF e, f, r
<1>6. /\ b \in Bundles /\ b.key = d.bundle[o].key /\ b.planXmitElt = p
      /\ b.transitElt = d.bundle[o].transitElt /\ b.fwdQueueElt = d.bundle[o].fwdQueueElt
      /\ b.ductXmitElt = d.bundle[o].ductXmitElt
  <2> HIDE DEF t
  <2> QED BY <1>1, <1>3 DEF Bundles
<1> HIDE DEF b, t
<1>7. f.queue = d.queue /\ f.bundle = [d.bundle EXCEPT ![o] = b] /\ f \in Dbs
  BY <1>1, <1>5, <1>6 DEF Dbs
<1> DEFINE q == d.queue[p]
           S == PlanSet(d, p)
<1>8. Enumerates(q, S) /\ Ordered(q, d.bundle) /\ S \subseteq Obj /\ o \notin S
  <2>1. o \notin S
    BY ObjNames DEF PlanSet
  <2> QED BY <2>1, SoundParts
<1>9. f.bundle[o] = b /\ \A x \in Obj : x # o => f.bundle[x] = d.bundle[x]
  BY <1>1, <1>7, DbType
<1>10. \A x \in S \union {o} : f.bundle[x].enqueueTime \in Nat
  <2>1. b.enqueueTime \in Nat
    BY <1>6, BundleType
  <2>2. \A x \in S : d.bundle[x].enqueueTime \in Nat
    BY <1>1, DbType, BundleType DEF PlanSet
  <2>3. \A x \in S : f.bundle[x] = d.bundle[x]
    BY <1>8, <1>9
  <2> QED BY <1>9, <2>1, <2>2, <2>3
<1>11. Ordered(q, f.bundle)
  <2>1. \A i \in 1..Len(q) : q[i] \in S
    BY <1>8, EnumerationType
  <2>2. \A x \in S : f.bundle[x] = d.bundle[x]
    BY <1>8, <1>9
  <2> HIDE DEF q, S
  <2> QED BY <1>8, <2>1, <2>2 DEF Ordered
<1>12. Enumerates(r, S \union {o}) /\ Ordered(r, f.bundle)
  <2>1. r = InsertBundleIntoQueue(f, q, o)
    BY <1>7 DEF r
  <2> HIDE DEF q, S
  <2> QED BY <1>8, <1>10, <1>11, <2>1, QueueInserted
<1>13. r \in Seq(Obj)
  <2>1. r \in Seq(S \union {o}) /\ S \union {o} \subseteq Obj
    BY <1>1, <1>8, <1>12 DEF Enumerates
  <2> QED BY <2>1, SeqMonotonic
<1>14. /\ e.hash = d.hash /\ e.transit = d.transit /\ e.forward = d.forward
       /\ e.limbo = d.limbo /\ e.buffer = d.buffer
       /\ e.queue = [d.queue EXCEPT ![p] = r]
       /\ e.bundle = [d.bundle EXCEPT ![o] = b] /\ e.bundle = f.bundle
       /\ e \in Dbs
  <2>1. e = [d EXCEPT !.queue = [d.queue EXCEPT ![p] = r],
                      !.bundle = [d.bundle EXCEPT ![o] = b]]
    BY <1>1, <1>4, <1>5 DEF Dbs
  <2> QED BY <1>1, <1>6, <1>7, <1>13, <2>1 DEF Dbs
<1>15. Sets(d, e, o, b)
  BY <1>14 DEF Sets
<1>16. b.planXmitElt = Limbo <=> d.bundle[o].planXmitElt = Limbo
  BY <1>6, ObjNames
<1>17. ASSUME NEW x \in Plan
       PROVE  /\ \/ /\ e.queue[x] = d.queue[x]
                    /\ b.planXmitElt = x <=> d.bundle[o].planXmitElt = x
                 \/ Enumerates(e.queue[x], With(PlanSet(d, x), o, b.planXmitElt = x))
              /\ \/ e.queue[x] = d.queue[x] /\ b.enqueueTime = d.bundle[o].enqueueTime
                 \/ Ordered(e.queue[x], e.bundle)
  <2>1. d.queue \in [Plan -> Seq(Obj)]
    BY <1>1, DbType
  <2>2. CASE x = p
    <3>1. e.queue[x] = r /\ (b.planXmitElt = x <=> TRUE)
      BY <1>6, <1>14, <2>1, <2>2
    <3>2. With(PlanSet(d, x), o, TRUE) = S \union {o}
      BY <2>2, WithIn
    <3> QED BY <1>12, <1>14, <3>1, <3>2
  <2>3. CASE x # p
    <3>1. e.queue[x] = d.queue[x] /\ b.planXmitElt # x /\ d.bundle[o].planXmitElt # x
      BY <1>6, <1>14, <2>1, <2>3, ObjNames
    <3>2. Ordered(d.queue[x], d.bundle) /\ Enumerates(d.queue[x], PlanSet(d, x))
          /\ o \notin PlanSet(d, x) /\ PlanSet(d, x) \subseteq Obj
      BY <3>1, SoundParts DEF PlanSet
    <3>3. \A i \in 1..Len(d.queue[x]) : d.queue[x][i] \in PlanSet(d, x)
      BY <3>2, EnumerationType
    <3>4. \A y \in PlanSet(d, x) : e.bundle[y] = d.bundle[y]
      BY <1>9, <1>14, <3>2
    <3>5. Ordered(d.queue[x], e.bundle)
      <4> DEFINE u == d.queue[x]
                 V == PlanSet(d, x)
      <4>1. /\ Ordered(u, d.bundle) /\ \A i \in 1..Len(u) : u[i] \in V
            /\ \A y \in V : e.bundle[y] = d.bundle[y]
        BY <3>2, <3>3, <3>4
      <4> HIDE DEF u, V
      <4>2. Ordered(u, e.bundle)
        BY <4>1 DEF Ordered
      <4> QED BY <4>2 DEF u
    <3> QED BY <3>1, <3>5
  <2> QED BY <2>2, <2>3
<1>18. ListsFollow(d, e, o, b)
  BY <1>6, <1>14, <1>16, <1>17 DEF ListsFollow
<1>19. Becomes(d, e, o, b)
  BY <1>6, <1>14, <1>15, <1>18, StepSound
<1> QED BY <1>3, <1>19 DEF e, b

(* The bundle at o enters the queue of the plan p.                         *)
Enters(d, e, o, p) ==
  \E t \in Nat, c \in 0..2, x \in Plan \union {Due, None} :
    /\ c = Confidence(d.bundle[o].dlvConfidence, p)
    /\ x = IF IsCritical(d, o) THEN d.bundle[o].overdueElt ELSE p
    /\ Becomes(d, e, o, [d.bundle[o] EXCEPT !.planXmitElt = p, !.enqueueTime = t,
                                            !.dlvConfidence = c, !.overdueElt = x])

(* The same, with the alarm and the confidence of the route.               *)
LEMMA EnqueueToEntryNodeStep ==
  ASSUME NEW d, Sound(d), NEW o \in Live(d), d.bundle[o].planXmitElt = None,
         NEW p \in Plan
  PROVE  Enters(d, EnqueueToEntryNode(d, o, p), o, p)
<1> DEFINE c == Confidence(d.bundle[o].dlvConfidence, p)
           x == IF IsCritical(d, o) THEN d.bundle[o].overdueElt ELSE p
           a == [d.bundle[o] EXCEPT !.dlvConfidence = c, !.overdueElt = x]
           f == [d EXCEPT !.bundle[o] = a]
<1>1. d \in Dbs /\ o \in Obj /\ d.bundle[o] \in Bundles
  BY DbType, SoundParts
<1>2. c \in 0..2 /\ x \in Plan \union {Due, None}
  BY <1>1, BundleType DEF Confidence
<1>3. EnqueueToEntryNode(d, o, p) = BpEnqueue(f, o, p)
  <2>1. [d EXCEPT !.bundle[o].dlvConfidence = Confidence(@, p),
                  !.bundle[o].overdueElt = IF IsCritical(d, o) THEN @ ELSE p] = f
    <3> HIDE DEF a, c
    <3>1. f = [d EXCEPT !.bundle = [d.bundle EXCEPT ![o] = a]]
      BY <1>1 DEF Dbs
    <3> DEFINE g == [d EXCEPT !.bundle[o].dlvConfidence = Confidence(@, p),
                              !.bundle[o].overdueElt = IF IsCritical(d, o) THEN @ ELSE p]
    <3>2. g.bundle[o] = a
      BY <1>1 DEF Dbs, Bundles, a, c
    <3>3. g.bundle = [d.bundle EXCEPT ![o] = g.bundle[o]]
      BY <1>1 DEF Dbs
    <3>4. g = [d EXCEPT !.bundle = g.bundle]
      BY <1>1 DEF Dbs
    <3> HIDE DEF g
    <3>5. g = f
      BY <3>1, <3>2, <3>3, <3>4
    <3> QED BY <3>5 DEF g
  <2> HIDE DEF f
  <2> QED BY <2>1 DEF EnqueueToEntryNode
<1> HIDE DEF c, x
<1>4. /\ a \in Bundles /\ a.key = d.bundle[o].key /\ a.transitElt = d.bundle[o].transitElt
      /\ a.fwdQueueElt = d.bundle[o].fwdQueueElt
      /\ a.planXmitElt = d.bundle[o].planXmitElt
      /\ a.ductXmitElt = d.bundle[o].ductXmitElt
      /\ a.enqueueTime = d.bundle[o].enqueueTime
  BY <1>1, <1>2 DEF Bundles
<1> HIDE DEF a, f
<1>5. Becomes(d, f, o, a)
  BY <1>4, FieldsStep DEF f
<1>6. /\ Sound(f) /\ o \in Live(f) /\ f.bundle[o] = a
  BY <1>5, BecomesLive
<1>7. PICK t \in Nat : Becomes(f, BpEnqueue(f, o, p), o,
                               [a EXCEPT !.planXmitElt = p, !.enqueueTime = t])
  BY <1>4, <1>6, BpEnqueueStep
<1>8. Becomes(d, BpEnqueue(f, o, p), o, [a EXCEPT !.planXmitElt = p, !.enqueueTime = t])
  BY <1>1, <1>5, <1>7, BecomesTwice
<1>9. [a EXCEPT !.planXmitElt = p, !.enqueueTime = t]
        = [d.bundle[o] EXCEPT !.planXmitElt = p, !.enqueueTime = t,
                              !.dlvConfidence = c, !.overdueElt = x]
  BY <1>1 DEF a, Bundles
<1>10. /\ c = Confidence(d.bundle[o].dlvConfidence, p)
       /\ x = IF IsCritical(d, o) THEN d.bundle[o].overdueElt ELSE p
  BY DEF c, x
<1>11. Becomes(d, EnqueueToEntryNode(d, o, p), o,
               [d.bundle[o] EXCEPT !.planXmitElt = p, !.enqueueTime = t,
                                   !.dlvConfidence = c, !.overdueElt = x])
  BY <1>3, <1>8, <1>9
<1> QED BY <1>2, <1>10, <1>11 DEF Enters

-----------------------------------------------------------------------------
(* Bundles come into being and are destroyed.                              *)

(* A bundle in no list.                                                    *)
Idle(b) ==
  /\ ~b.transitElt /\ ~b.fwdQueueElt
  /\ b.planXmitElt = None /\ b.ductXmitElt = None

(* A step that makes a bundle b at the free address o.                     *)
Adds(d, e, o, b) ==
  /\ o \in Obj \ Live(d) /\ b \in Bundles
  /\ e.bundle = [d.bundle EXCEPT ![o] = b]
  /\ e.hash = [d.hash EXCEPT ![b.key] =
                 [obj   |-> IF d.hash[b.key].count = 0 THEN o ELSE 0,
                  count |-> d.hash[b.key].count + 1]]
  /\ Live(e) = Live(d) \union {o}
  /\ Cardinality(Live(e)) = Cardinality(Live(d)) + 1
  /\ Sound(e)

(* The heap is finite.                                                     *)
LEMMA LiveFinite ==
  ASSUME NEW d
  PROVE  /\ IsFiniteSet(Live(d)) /\ Cardinality(Live(d)) \in Nat
         /\ \A k : IsFiniteSet(Copies(d, k)) /\ Cardinality(Copies(d, k)) \in Nat
<1>1. IsFiniteSet(Obj)
  <2>1. N \in Int /\ 1 \in Int
    BY ObjNames
  <2> QED BY <2>1, FS_Interval DEF Obj
<1>2. Live(d) \subseteq Obj /\ \A k : Copies(d, k) \subseteq Live(d)
  BY DEF Live, Copies
<1>3. IsFiniteSet(Live(d))
  BY <1>1, <1>2, FS_Subset
<1>4. \A k : IsFiniteSet(Copies(d, k))
  BY <1>2, <1>3, FS_Subset
<1> QED BY <1>3, <1>4, FS_CardinalityType

(* There is a free address if there is room for a bundle.                  *)
LEMMA MallocFree ==
  ASSUME NEW d, HasRoom(d, 1)
  PROVE  Malloc(d) \in Obj \ Live(d)
<1> DEFINE F == Obj \ Live(d)
<1>1. N \in Nat /\ F \in SUBSET Nat /\ Live(d) \subseteq Obj
  BY ObjNames DEF Obj, Live
<1>2. Cardinality(Obj) = N
  <2>1. Cardinality(1..N) = IF 1 > N THEN 0 ELSE N - 1 + 1
    <3>1. N \in Int /\ 1 \in Int
      BY <1>1
    <3> QED BY <3>1, FS_Interval
  <2> QED BY <1>1, <2>1 DEF Obj
<1>3. Cardinality(Live(d)) \in Nat
  BY LiveFinite
<1>4. F # {}
  <2> SUFFICES ASSUME F = {} PROVE FALSE
    OBVIOUS
  <2>1. Live(d) = Obj
    BY <1>1
  <2>2. N + 1 <= N
    BY <1>2, <2>1 DEF HasRoom
  <2> QED BY <1>1, <2>2
<1>5. PICK m \in F : \A y \in F : m <= y
  <2> HIDE DEF F
  <2> QED BY <1>1, <1>4, LeastExists
<1>6. Min(F) \in F
  <2> HIDE DEF F
  <2> QED BY <1>5 DEF Min
<1> QED BY <1>6 DEF Malloc

(* A new bundle in no list: lists, seniority and hash table stay right.    *)
LEMMA AddBundleStep ==
  ASSUME NEW d, Sound(d), HasRoom(d, 1), NEW b \in Bundles, Idle(b)
  PROVE  Adds(d, AddBundle(d, b), Malloc(d), b)
<1> DEFINE o == Malloc(d)
           e == AddBundle(d, b)
           k == b.key
           h == [obj |-> IF d.hash[k].count = 0 THEN o ELSE 0, count |-> d.hash[k].count + 1]
<1>1. o \in Obj \ Live(d)
  BY MallocFree
<1> HIDE DEF o
<1>2. d \in Dbs /\ k \in Key /\ b # None /\ Live(d) \subseteq Obj
  BY SoundParts, BundleType, ObjNames
<1>3. d.hash[k] \in [obj : Obj \union {0}, count : Nat]
  BY <1>2, DbType
<1>4. h \in [obj : Obj \union {0}, count : Nat]
  BY <1>1, <1>3
<1> HIDE DEF h
<1>5. e = [d EXCEPT !.bundle = [d.bundle EXCEPT ![o] = b], !.hash = [d.hash EXCEPT ![k] = h]]
  <2>1. e = [[d EXCEPT !.bundle[o] = b] EXCEPT
               !.hash[k] = [obj |-> IF @.count = 0 THEN o ELSE 0, count |-> @.count + 1]]
    BY DEF AddBundle, CatalogueBundle, o
  <2> HIDE DEF e
  <2> QED BY <1>2, <2>1 DEF Dbs, h
<1> HIDE DEF e
<1>6. /\ e.bundle = [d.bundle EXCEPT ![o] = b] /\ e.hash = [d.hash EXCEPT ![k] = h]
      /\ e.transit = d.transit /\ e.forward = d.forward /\ e.limbo = d.limbo
      /\ e.queue = d.queue /\ e.buffer = d.buffer
      /\ e \in Dbs
  <2> HIDE DEF k
  <2> QED BY <1>1, <1>2, <1>4, <1>5 DEF Dbs
<1>7. e.bundle[o] = b /\ \A x \in Obj : x # o => e.bundle[x] = d.bundle[x]
  BY <1>1, <1>2, <1>6, DbType
<1>8. Live(e) = Live(d) \union {o}
  <2>1. ASSUME NEW x \in Obj PROVE x \in Live(e) <=> x \in Live(d) \/ x = o
    BY <1>2, <1>7 DEF Live
  <2>2. Live(e) \subseteq Obj
    BY DEF Live
  <2> QED BY <1>1, <1>2, <2>1, <2>2
<1>9. Cardinality(Live(e)) = Cardinality(Live(d)) + 1
  BY <1>1, <1>8, LiveFinite, FS_AddElement
<1>10. /\ TransitSet(e) = TransitSet(d) /\ ForwardSet(e) = ForwardSet(d)
       /\ PlanSet(e, Limbo) = PlanSet(d, Limbo)
       /\ \A p \in Plan : PlanSet(e, p) = PlanSet(d, p) /\ DuctSet(e, p) = DuctSet(d, p)
  <2>1. /\ ~b.transitElt /\ ~b.fwdQueueElt /\ b.planXmitElt = None /\ b.ductXmitElt = None
        /\ None # Limbo /\ None \notin Plan
    BY ObjNames DEF Idle
  <2>2. TransitSet(e) = TransitSet(d)
    BY <1>1, <1>2, <1>7, <1>8, <2>1 DEF TransitSet
  <2>3. ForwardSet(e) = ForwardSet(d)
    BY <1>1, <1>2, <1>7, <1>8, <2>1 DEF ForwardSet
  <2>4. PlanSet(e, Limbo) = PlanSet(d, Limbo)
    BY <1>1, <1>2, <1>7, <1>8, <2>1 DEF PlanSet
  <2>5. ASSUME NEW p \in Plan PROVE PlanSet(e, p) = PlanSet(d, p)
    BY <1>1, <1>2, <1>7, <1>8, <2>1 DEF PlanSet
  <2>6. ASSUME NEW p \in Plan PROVE DuctSet(e, p) = DuctSet(d, p)
    BY <1>1, <1>2, <1>7, <1>8, <2>1 DEF DuctSet
  <2> QED BY <2>2, <2>3, <2>4, <2>5, <2>6
<1>11. ListsMatch(e)
  BY <1>6, <1>10, SoundParts DEF ListsMatch
<1>12. ASSUME NEW p \in Plan PROVE Ordered(e.queue[p], e.bundle)
  <2> DEFINE q == d.queue[p]
             S == PlanSet(d, p)
  <2>1. Enumerates(q, S) /\ Ordered(q, d.bundle)
    BY SoundParts
  <2>2. \A i \in 1..Len(q) : q[i] \in S
    BY <2>1, EnumerationType
  <2>3. \A x \in S : e.bundle[x] = d.bundle[x]
    BY <1>1, <1>2, <1>7 DEF PlanSet
  <2> HIDE DEF q, S
  <2>4. Ordered(q, e.bundle)
    BY <2>1, <2>2, <2>3 DEF Ordered
  <2> QED BY <1>6, <2>4 DEF q
<1>13. ASSUME NEW j \in Key
       PROVE  /\ e.hash[j].count = Cardinality(Copies(e, j))
              /\ e.hash[j].obj # 0 => Copies(e, j) = {e.hash[j].obj}
  <2>1. /\ d.hash[j].count = Cardinality(Copies(d, j))
        /\ d.hash[j].obj # 0 => Copies(d, j) = {d.hash[j].obj}
    BY DEF Sound, Catalogued
  <2>2. d.hash \in [Key -> [obj : Obj \union {0}, count : Nat]]
    BY <1>2, DbType
  <2>3. CASE j # k
    <3>1. e.hash[j] = d.hash[j]
      BY <1>6, <2>2, <2>3
    <3>2. Copies(e, j) = Copies(d, j)
      BY <1>1, <1>2, <1>7, <1>8, <2>3 DEF Copies
    <3> QED BY <2>1, <3>1, <3>2
  <2>4. CASE j = k
    <3>1. e.hash[j] = h
      BY <1>2, <1>6, <2>2, <2>4
    <3>2. Copies(e, j) = Copies(d, j) \union {o}
      BY <1>1, <1>2, <1>7, <1>8, <2>4 DEF Copies
    <3>3. o \notin Copies(d, j)
      BY <1>1 DEF Copies
    <3>4. Cardinality(Copies(e, j)) = Cardinality(Copies(d, j)) + 1
      BY <3>2, <3>3, LiveFinite, FS_AddElement
    <3>5. h.count = d.hash[k].count + 1 /\ h.obj = IF d.hash[k].count = 0 THEN o ELSE 0
      BY DEF h
    <3>6. d.hash[k].count = 0 => Copies(d, j) = {}
      <4>1. IsFiniteSet(Copies(d, j))
        BY LiveFinite
      <4> QED BY <2>1, <2>4, <4>1, FS_EmptySet
    <3>7. h.count = Cardinality(Copies(e, j))
      BY <2>1, <2>4, <3>4, <3>5
    <3>8. h.obj # 0 => Copies(e, j) = {h.obj}
      BY <3>2, <3>5, <3>6
    <3> QED BY <3>1, <3>7, <3>8
  <2> QED BY <2>3, <2>4
<1>14. Sound(e)
  BY <1>6, <1>11, <1>12, <1>13 DEF Sound, Catalogued
<1>15. Adds(d, e, o, b)
  BY <1>1, <1>6, <1>8, <1>9, <1>14 DEF Adds, h
<1> QED BY <1>15 DEF e, o

(* A step that destroys the bundle at o.                                   *)
Frees(d, e, o) ==
  /\ o \in Live(d)
  /\ e.bundle = [d.bundle EXCEPT ![o] = None]
  /\ e.hash = [d.hash EXCEPT ![d.bundle[o].key] =
                 [obj   |-> IF @.count = 1 THEN 0 ELSE @.obj,
                  count |-> @.count - 1]]
  /\ Live(e) = Live(d) \ {o}
  /\ Sound(e)

(* A bundle in no list is destroyed.                                       *)
LEMMA FreeStep ==
  ASSUME NEW d, Sound(d), NEW o \in Live(d), Idle(d.bundle[o])
  PROVE  Frees(d, BpDestroyBundle(d, o, FALSE), o)
<1> DEFINE e == BpDestroyBundle(d, o, FALSE)
           b == d.bundle[o]
           k == b.key
           h == [obj   |-> IF d.hash[k].count = 1 THEN 0 ELSE d.hash[k].obj,
                 count |-> d.hash[k].count - 1]
<1>1. d \in Dbs /\ o \in Obj /\ b \in Bundles /\ Live(d) \subseteq Obj
  BY DbType, SoundParts
<1>2. k \in Key
  BY <1>1, BundleType
<1>3. /\ d.hash[k].count = Cardinality(Copies(d, k))
      /\ d.hash[k].obj # 0 => Copies(d, k) = {d.hash[k].obj}
      /\ d.hash[k] \in [obj : Obj \union {0}, count : Nat]
      /\ d.hash \in [Key -> [obj : Obj \union {0}, count : Nat]]
  BY <1>1, <1>2, DbType DEF Sound, Catalogued
<1>4. o \in Copies(d, k)
  BY DEF Copies
<1>5. Copies(d, k) # {} /\ IsFiniteSet(Copies(d, k)) /\ Cardinality(Copies(d, k)) # 0
  BY <1>4, LiveFinite, FS_EmptySet
<1>6. h \in [obj : Obj \union {0}, count : Nat]
  BY <1>3, <1>5
<1>7. e = [d EXCEPT !.bundle = [d.bundle EXCEPT ![o] = None],
                    !.hash = [d.hash EXCEPT ![k] = h]]
  <2>1. ~(b.fwdQueueElt \/ b.planXmitElt # None \/ b.ductXmitElt # None)
    BY DEF Idle
  <2>2. e = [d EXCEPT !.bundle[o] = None,
               !.hash[k] = [obj   |-> IF @.count = 1 THEN 0 ELSE @.obj,
                            count |-> @.count - 1]]
    BY <2>1 DEF BpDestroyBundle
  <2> HIDE DEF e
  <2> QED BY <1>1, <2>2 DEF Dbs, h
<1> HIDE DEF e, h
<1>8. /\ e.bundle = [d.bundle EXCEPT ![o] = None] /\ e.hash = [d.hash EXCEPT ![k] = h]
      /\ e.transit = d.transit /\ e.forward = d.forward /\ e.limbo = d.limbo
      /\ e.queue = d.queue /\ e.buffer = d.buffer
      /\ e \in Dbs
  <2> HIDE DEF k, b
  <2> QED BY <1>1, <1>2, <1>6, <1>7 DEF Dbs
<1>9. e.bundle[o] = None /\ \A x \in Obj : x # o => e.bundle[x] = d.bundle[x]
  BY <1>1, <1>8, DbType
<1>10. Live(e) = Live(d) \ {o}
  <2>1. ASSUME NEW x \in Obj PROVE x \in Live(e) <=> x \in Live(d) /\ x # o
    BY <1>1, <1>9 DEF Live
  <2>2. Live(e) \subseteq Obj
    BY DEF Live
  <2> QED BY <1>1, <2>1, <2>2
<1>11. /\ TransitSet(e) = TransitSet(d) /\ ForwardSet(e) = ForwardSet(d)
       /\ PlanSet(e, Limbo) = PlanSet(d, Limbo)
       /\ \A p \in Plan : PlanSet(e, p) = PlanSet(d, p) /\ DuctSet(e, p) = DuctSet(d, p)
  <2>1. /\ ~b.transitElt /\ ~b.fwdQueueElt /\ b.planXmitElt = None /\ b.ductXmitElt = None
        /\ None # Limbo /\ None \notin Plan
    BY ObjNames DEF Idle
  <2>2. TransitSet(e) = TransitSet(d)
    BY <1>1, <1>9, <1>10, <2>1 DEF TransitSet
  <2>3. ForwardSet(e) = ForwardSet(d)
    BY <1>1, <1>9, <1>10, <2>1 DEF ForwardSet
  <2>4. PlanSet(e, Limbo) = PlanSet(d, Limbo)
    BY <1>1, <1>9, <1>10, <2>1 DEF PlanSet
  <2>5. ASSUME NEW p \in Plan PROVE PlanSet(e, p) = PlanSet(d, p)
    BY <1>1, <1>9, <1>10, <2>1 DEF PlanSet
  <2>6. ASSUME NEW p \in Plan PROVE DuctSet(e, p) = DuctSet(d, p)
    BY <1>1, <1>9, <1>10, <2>1 DEF DuctSet
  <2> QED BY <2>2, <2>3, <2>4, <2>5, <2>6
<1>12. ListsMatch(e)
  BY <1>8, <1>11, SoundParts DEF ListsMatch
<1>13. ASSUME NEW p \in Plan PROVE Ordered(e.queue[p], e.bundle)
  <2> DEFINE q == d.queue[p]
             S == PlanSet(d, p)
  <2>1. Enumerates(q, S) /\ Ordered(q, d.bundle)
    BY SoundParts
  <2>2. \A i \in 1..Len(q) : q[i] \in S
    BY <2>1, EnumerationType
  <2>3. \A x \in S : e.bundle[x] = d.bundle[x]
    BY <1>1, <1>9, <1>10, <1>11 DEF PlanSet
  <2> HIDE DEF q, S
  <2>4. Ordered(q, e.bundle)
    BY <2>1, <2>2, <2>3 DEF Ordered
  <2> QED BY <1>8, <2>4 DEF q
<1>14. ASSUME NEW j \in Key
       PROVE  /\ e.hash[j].count = Cardinality(Copies(e, j))
              /\ e.hash[j].obj # 0 => Copies(e, j) = {e.hash[j].obj}
  <2>1. /\ d.hash[j].count = Cardinality(Copies(d, j))
        /\ d.hash[j].obj # 0 => Copies(d, j) = {d.hash[j].obj}
    BY DEF Sound, Catalogued
  <2>3. CASE j # k
    <3>1. e.hash[j] = d.hash[j]
      BY <1>3, <1>8, <2>3
    <3>2. Copies(e, j) = Copies(d, j)
      BY <1>1, <1>9, <1>10, <2>3 DEF Copies
    <3> QED BY <2>1, <3>1, <3>2
  <2>4. CASE j = k
    <3>1. e.hash[j] = h
      BY <1>2, <1>3, <1>8, <2>4
    <3>2. Copies(e, j) = Copies(d, j) \ {o}
      BY <1>1, <1>9, <1>10, <2>4 DEF Copies
    <3>4. Cardinality(Copies(e, j)) = Cardinality(Copies(d, j)) - 1
      <4>1. Cardinality(Copies(d, k) \ {o}) = Cardinality(Copies(d, k)) - 1
        <5> HIDE DEF k
        <5> QED BY <1>4, <1>5, FS_RemoveElement
      <4> QED BY <2>4, <3>2, <4>1
    <3>5. h.count = d.hash[k].count - 1
          /\ h.obj = IF d.hash[k].count = 1 THEN 0 ELSE d.hash[k].obj
      BY DEF h
    <3>6. d.hash[k].obj # 0 => d.hash[k].count = 1
      BY <1>3, FS_Singleton
    <3>7. h.count = Cardinality(Copies(e, j))
      BY <2>1, <2>4, <3>4, <3>5
    <3>8. h.obj = 0
      BY <3>5, <3>6
    <3> QED BY <3>1, <3>7, <3>8
  <2> QED BY <2>3, <2>4
<1>15. Sound(e)
  BY <1>8, <1>12, <1>13, <1>14 DEF Sound, Catalogued
<1>16. Frees(d, e, o)
  BY <1>8, <1>10, <1>15 DEF Frees, h
<1> QED BY <1>16 DEF e

-----------------------------------------------------------------------------
(* A bundle is purged from its lists, and goes back to the forwarder.      *)

Reforwarded(b) ==
  [b EXCEPT !.planXmitElt = None, !.ductXmitElt = None, !.overdueElt = None,
            !.returnToSender = TRUE, !.fwdQueueElt = TRUE]

PurgedOf(b) ==
  [b EXCEPT !.transitElt = FALSE, !.planXmitElt = None, !.ductXmitElt = None,
            !.fwdQueueElt = FALSE]

(* Purging plan, duct and forwarder, in this order.                        *)
LEMMA PurgedWaysStep ==
  ASSUME NEW d, Sound(d), NEW o \in Live(d)
  PROVE  Becomes(d, PurgeFwdQueueElt(PurgeDuctXmitElt(PurgePlanXmitElt(d, o), o), o), o,
                 [d.bundle[o] EXCEPT !.planXmitElt = None, !.ductXmitElt = None,
                                     !.fwdQueueElt = FALSE])
<1> DEFINE b == d.bundle[o]
           e1 == PurgePlanXmitElt(d, o)
           b1 == [b EXCEPT !.planXmitElt = None]
           e2 == PurgeDuctXmitElt(e1, o)
           b2 == [b1 EXCEPT !.ductXmitElt = None]
           e3 == PurgeFwdQueueElt(e2, o)
           b3 == [b2 EXCEPT !.fwdQueueElt = FALSE]
<1>1. d \in Dbs /\ b \in Bundles
  BY DbType, SoundParts
<1>2. Becomes(d, e1, o, b1)
  BY PurgePlanXmitEltStep
<1> HIDE DEF e1
<1>3. Sound(e1) /\ o \in Live(e1) /\ e1.bundle[o] = b1 /\ e1 \in Dbs
  BY <1>2, BecomesLive
<1>4. Becomes(e1, e2, o, b2)
  BY <1>3, PurgeDuctXmitEltStep
<1> HIDE DEF e2
<1>5. Sound(e2) /\ o \in Live(e2) /\ e2.bundle[o] = b2 /\ e2 \in Dbs
  <2> HIDE DEF b1, b2
  <2>1. Sound(e1) /\ o \in Live(e1)
    BY <1>3
  <2> QED BY <1>4, <2>1, BecomesLive
<1>6. Becomes(e2, e3, o, b3)
  BY <1>5, PurgeFwdQueueEltStep
<1> HIDE DEF e3
<1>7. Becomes(d, e2, o, b2)
  BY <1>1, <1>2, <1>4, BecomesTwice
<1>8. Becomes(d, e3, o, b3)
  BY <1>1, <1>6, <1>7, BecomesTwice
<1>9. b3 = [b EXCEPT !.planXmitElt = None, !.ductXmitElt = None, !.fwdQueueElt = FALSE]
  BY <1>1 DEF Bundles
<1> QED BY <1>8, <1>9 DEF e1, e2, e3

(* A bundle leaves all lists.                                              *)
LEMMA PurgedStep ==
  ASSUME NEW d, Sound(d), NEW o \in Live(d)
  PROVE  /\ Becomes(d, Purged(d, o), o, PurgedOf(d.bundle[o]))
         /\ Idle(PurgedOf(d.bundle[o]))
<1> DEFINE b == d.bundle[o]
           e1 == [d EXCEPT !.transit = Removed(@, o), !.bundle[o].transitElt = FALSE]
           b1 == [b EXCEPT !.transitElt = FALSE]
           e2 == PurgeFwdQueueElt(PurgeDuctXmitElt(PurgePlanXmitElt(e1, o), o), o)
           b2 == [b1 EXCEPT !.planXmitElt = None, !.ductXmitElt = None,
                            !.fwdQueueElt = FALSE]
<1>1. d \in Dbs /\ b \in Bundles
  BY DbType, SoundParts
<1>2. Becomes(d, e1, o, b1)
  BY LeaveTransitStep
<1>0. Purged(d, o) = e2
  BY DEF Purged
<1> HIDE DEF e1
<1>3. Sound(e1) /\ o \in Live(e1) /\ e1.bundle[o] = b1
  BY <1>2, BecomesLive
<1>4. Becomes(e1, e2, o, b2)
  BY <1>3, PurgedWaysStep
<1> HIDE DEF e2
<1>5. Becomes(d, e2, o, b2)
  BY <1>1, <1>2, <1>4, BecomesTwice
<1>6. b2 = PurgedOf(b)
  BY <1>1 DEF Bundles, PurgedOf
<1>7. Idle(PurgedOf(b))
  BY <1>1 DEF Bundles, PurgedOf, Idle
<1> QED BY <1>0, <1>5, <1>6, <1>7

(* Whatever list the bundle is in.                                         *)
LEMMA DestroyAnywayStep ==
  ASSUME NEW d, Sound(d), NEW o \in Live(d)
  PROVE  Frees(d, BpDestroyBundle(d, o, TRUE), o)
<1> DEFINE f == Purged(d, o)
           e == BpDestroyBundle(f, o, FALSE)
           b == PurgedOf(d.bundle[o])
<1>1. Becomes(d, f, o, b) /\ Idle(b)
  BY PurgedStep
<1>2. BpDestroyBundle(d, o, TRUE) = e
  BY DEF BpDestroyBundle
<1> HIDE DEF f, b
<1>3. /\ Sound(f) /\ o \in Live(f) /\ f.bundle[o] = b /\ Live(f) = Live(d) /\ f.hash = d.hash
      /\ b.key = d.bundle[o].key /\ f.bundle = [d.bundle EXCEPT ![o] = b]
      /\ d \in Dbs
  BY <1>1, BecomesLive DEF Becomes, Sets
<1>4. Frees(f, e, o)
  BY <1>1, <1>3, FreeStep
<1> HIDE DEF e
<1>5. /\ e.bundle = [f.bundle EXCEPT ![o] = None]
      /\ e.hash = [f.hash EXCEPT ![f.bundle[o].key] =
                     [obj   |-> IF @.count = 1 THEN 0 ELSE @.obj,
                      count |-> @.count - 1]]
      /\ Live(e) = Live(f) \ {o}
      /\ Sound(e)
  BY <1>4 DEF Frees
<1>6. e.bundle = [d.bundle EXCEPT ![o] = None]
  <2>1. d.bundle \in [Obj -> {None} \union Bundles]
    BY <1>3, DbType
  <2> QED BY <1>3, <1>5, <2>1
<1>7. e.hash = [d.hash EXCEPT ![d.bundle[o].key] =
                     [obj   |-> IF @.count = 1 THEN 0 ELSE @.obj,
                      count |-> @.count - 1]]
  BY <1>3, <1>5
<1>8. Frees(d, e, o)
  BY <1>3, <1>5, <1>6, <1>7 DEF Frees
<1> QED BY <1>2, <1>8

(* A bundle in none of its ways joins the forwarder.                       *)
LEMMA ForwardBundleStep ==
  ASSUME NEW d, Sound(d), NEW o \in Live(d), ~d.bundle[o].fwdQueueElt,
         d.bundle[o].planXmitElt = None, d.bundle[o].ductXmitElt = None
  PROVE  Becomes(d, ForwardBundle(d, o), o, [d.bundle[o] EXCEPT !.fwdQueueElt = TRUE])
BY JoinForwardStep DEF ForwardBundle

(* A bundle goes back to the forwarder, wherever it is.                    *)
LEMMA BpReforwardBundleStep ==
  ASSUME NEW d, Sound(d), NEW o \in Live(d), ~IsCritical(d, o)
  PROVE  Becomes(d, BpReforwardBundle(d, o), o, Reforwarded(d.bundle[o]))
<1> DEFINE b == d.bundle[o]
           e1 == PurgeFwdQueueElt(PurgeDuctXmitElt(PurgePlanXmitElt(d, o), o), o)
           b1 == [b EXCEPT !.planXmitElt = None, !.ductXmitElt = None, !.fwdQueueElt = FALSE]
           b2 == [b1 EXCEPT !.overdueElt = None, !.returnToSender = TRUE]
           e2 == [e1 EXCEPT !.bundle[o] = b2]
           e3 == ForwardBundle(e2, o)
           b3 == [b2 EXCEPT !.fwdQueueElt = TRUE]
<1>1. d \in Dbs /\ b \in Bundles
  BY DbType, SoundParts
<1>2. Becomes(d, e1, o, b1)
  BY PurgedWaysStep
<1>3. BpReforwardBundle(d, o)
        = ForwardBundle([[e1 EXCEPT !.bundle[o].overdueElt = None]
                           EXCEPT !.bundle[o].returnToSender = TRUE], o)
  BY DEF BpReforwardBundle, Forwardable
<1> HIDE DEF e1
<1>4. Sound(e1) /\ o \in Live(e1) /\ e1.bundle[o] = b1 /\ e1 \in Dbs /\ o \in Obj
  BY <1>2, BecomesLive
<1>5. [[e1 EXCEPT !.bundle[o].overdueElt = None] EXCEPT !.bundle[o].returnToSender = TRUE] = e2
  <2> HIDE DEF b1
  <2>1. e2 = [e1 EXCEPT !.bundle = [e1.bundle EXCEPT ![o] = b2]]
    BY <1>4 DEF Dbs
  <2> QED BY <1>4, <2>1 DEF Dbs
<1>6. /\ b2 \in Bundles /\ b2.key = b1.key /\ b2.transitElt = b1.transitElt
      /\ b2.fwdQueueElt = b1.fwdQueueElt /\ b2.planXmitElt = b1.planXmitElt
      /\ b2.ductXmitElt = b1.ductXmitElt /\ b2.enqueueTime = b1.enqueueTime
      /\ ~b2.fwdQueueElt /\ b2.planXmitElt = None /\ b2.ductXmitElt = None
  BY <1>1 DEF Bundles
<1>7. Becomes(e1, e2, o, b2)
  BY <1>4, <1>6, FieldsStep
<1> HIDE DEF e2
<1>8. Sound(e2) /\ o \in Live(e2) /\ e2.bundle[o] = b2
  BY <1>4, <1>7, BecomesLive
<1>9. Becomes(e2, e3, o, b3)
  <2>1. ~e2.bundle[o].fwdQueueElt /\ e2.bundle[o].planXmitElt = None
        /\ e2.bundle[o].ductXmitElt = None
    BY <1>6, <1>8
  <2>2. Becomes(e2, ForwardBundle(e2, o), o, [e2.bundle[o] EXCEPT !.fwdQueueElt = TRUE])
    BY <1>8, <2>1, ForwardBundleStep
  <2> QED BY <1>8, <2>2
<1> HIDE DEF e3
<1>10. Becomes(d, e2, o, b2)
  BY <1>1, <1>2, <1>7, BecomesTwice
<1>11. Becomes(d, e3, o, b3)
  BY <1>1, <1>9, <1>10, BecomesTwice
<1>12. b3 = Reforwarded(b)
  BY <1>1 DEF Bundles, Reforwarded
<1> QED BY <1>3, <1>5, <1>11, <1>12 DEF e3

(* A bundle is released from limbo.                                        *)
LEMMA ReleaseFromLimboStep ==
  ASSUME NEW d, Sound(d), NEW o \in Live(d)
  PROVE  Becomes(d, ReleaseFromLimbo(d, o), o,
                 IF IsCritical(d, o) THEN [d.bundle[o] EXCEPT !.planXmitElt = None]
                 ELSE Reforwarded(d.bundle[o]))
<1> DEFINE b == d.bundle[o]
           e1 == PurgePlanXmitElt(d, o)
           b1 == [b EXCEPT !.planXmitElt = None]
<1>1. d \in Dbs /\ b \in Bundles
  BY DbType, SoundParts
<1>2. Becomes(d, e1, o, b1)
  BY PurgePlanXmitEltStep
<1>3. ReleaseFromLimbo(d, o) = BpReforwardBundle(e1, o)
  BY DEF ReleaseFromLimbo
<1> HIDE DEF e1
<1>4. Sound(e1) /\ o \in Live(e1) /\ e1.bundle[o] = b1 /\ b1.key = b.key
  BY <1>2, BecomesLive
<1>5. IsCritical(e1, o) <=> IsCritical(d, o)
  BY <1>4 DEF IsCritical
<1>6. CASE IsCritical(d, o)
  BY <1>2, <1>3, <1>5, <1>6 DEF BpReforwardBundle
<1>7. CASE ~IsCritical(d, o)
  <2>1. Becomes(e1, BpReforwardBundle(e1, o), o, Reforwarded(b1))
    BY <1>4, <1>5, <1>7, BpReforwardBundleStep
  <2>2. Reforwarded(b1) = Reforwarded(b)
    BY <1>1 DEF Bundles, Reforwarded
  <2> QED BY <1>1, <1>2, <1>3, <1>7, <2>1, <2>2, BecomesTwice
<1> QED BY <1>6, <1>7

(* A bundle is taken back from a blocked plan.                             *)
LEMMA ReverseEnqueueStep ==
  ASSUME NEW d, Sound(d), NEW o \in Live(d), d.bundle[o].planXmitElt \in Plan
  PROVE  Becomes(d, ReverseEnqueue(d, o), o,
                 IF IsCritical(d, o) THEN [d.bundle[o] EXCEPT !.planXmitElt = None]
                 ELSE Reforwarded(d.bundle[o]))
<1> DEFINE b == d.bundle[o]
           e1 == RemoveBundleFromQueue(d, o)
           b1 == [b EXCEPT !.planXmitElt = None]
<1>1. d \in Dbs /\ b \in Bundles
  BY DbType, SoundParts
<1>2. Becomes(d, e1, o, b1)
  BY RemoveBundleFromQueueStep
<1>3. ReverseEnqueue(d, o) = BpReforwardBundle(e1, o)
  BY DEF ReverseEnqueue
<1> HIDE DEF e1
<1>4. Sound(e1) /\ o \in Live(e1) /\ e1.bundle[o] = b1 /\ b1.key = b.key
  BY <1>2, BecomesLive
<1>5. IsCritical(e1, o) <=> IsCritical(d, o)
  BY <1>4 DEF IsCritical
<1>6. CASE IsCritical(d, o)
  BY <1>2, <1>3, <1>5, <1>6 DEF BpReforwardBundle
<1>7. CASE ~IsCritical(d, o)
  <2>1. Becomes(e1, BpReforwardBundle(e1, o), o, Reforwarded(b1))
    BY <1>4, <1>5, <1>7, BpReforwardBundleStep
  <2>2. Reforwarded(b1) = Reforwarded(b)
    BY <1>1 DEF Bundles, Reforwarded
  <2> QED BY <1>1, <1>2, <1>3, <1>7, <2>1, <2>2, BecomesTwice
<1> QED BY <1>6, <1>7

-----------------------------------------------------------------------------
(* What is true of a key, and which steps keep it.                         *)

(* The bundle is in a list.                                                *)
Placed(b) ==
  b.transitElt \/ b.fwdQueueElt \/ b.planXmitElt # None \/ b.ductXmitElt # None

(* A bundle is in at most one list, and an alarm is set only for one that  *)
(* a plan or a duct has.                                                   *)
Fit(b) ==
  /\ b.transitElt => ~b.fwdQueueElt
  /\ b.transitElt \/ b.fwdQueueElt => b.planXmitElt = None /\ b.ductXmitElt = None
  /\ b.planXmitElt = None \/ b.ductXmitElt = None
  /\ b.overdueElt # None => /\ b.key \notin Critical
                            /\ b.planXmitElt # None \/ b.ductXmitElt # None

Good(d) == Sound(d) /\ \A o \in Live(d) : Fit(d.bundle[o])

(* A step that takes bundles from list to list.                            *)
Moves(d, e) ==
  /\ Good(e)
  /\ Live(e) = Live(d) /\ e.hash = d.hash
  /\ \A o \in Live(d) :
       /\ e.bundle[o].key = d.bundle[o].key
       /\ d.bundle[o].key \notin Critical =>
            (Placed(e.bundle[o]) <=> Placed(d.bundle[o]))

(* A step that has to do with bundles of the key k only.                   *)
Tends(d, e, k) ==
  /\ Good(e)
  /\ \A j \in Key : j # k =>
       /\ e.hash[j] = d.hash[j]
       /\ Copies(e, j) = Copies(d, j)
       /\ \A o \in Copies(d, j) : e.bundle[o] = d.bundle[o]

(* What is true of a key: a steward answers for the only copy, which is in *)
(* no list, and waits for the result; other copies of a key that is not    *)
(* critical are in lists; what has been accepted is somewhere.             *)
Stewarded(d, s, nw, ex, k) ==
  \A t \in s : t.key = k /\ t.steward =>
    /\ k \notin Critical
    /\ \A u \in s : u.key = k /\ u.steward => u = t
    /\ \/ Copies(d, k) = {} /\ k \in ex
       \/ /\ Copies(d, k) = {t.obj} /\ d.hash[k] = [obj |-> t.obj, count |-> 1]
          /\ ~Placed(d.bundle[t.obj])
    /\ t.arrived => nw[k] # {}

Tended(d, s, k) ==
  k \notin Critical => \A o \in Copies(d, k) :
    Placed(d.bundle[o]) \/ \E t \in s : t.key = k /\ t.steward

Unborn(d, s, nw, us, k) ==
  k \in us => Copies(d, k) = {} /\ nw[k] = {} /\ \A t \in s : t.key # k

Somewhere(d, s, nw, us, ex, xc, k) ==
  k \notin us \union ex \union xc =>
    Copies(d, k) # {} \/ nw[k] # {} \/ \E t \in s : t.key = k

KeyOK(d, s, nw, us, ex, xc, k) ==
  /\ Stewarded(d, s, nw, ex, k)
  /\ Tended(d, s, k)
  /\ Unborn(d, s, nw, us, k)
  /\ Somewhere(d, s, nw, us, ex, xc, k)
  /\ \A t \in s : t.key = k /\ t.arrived => t.steward

-----------------------------------------------------------------------------
(* Copies of a key are bundles of it.                                      *)
LEMMA CopiesType ==
  ASSUME NEW d, NEW k
  PROVE  /\ Copies(d, k) \subseteq Live(d)
         /\ \A o \in Copies(d, k) : d.bundle[o].key = k /\ o \in Live(d)
         /\ \A o \in Live(d) : d.bundle[o].key = k => o \in Copies(d, k)
BY DEF Copies

(* A step on one bundle that leaves it in a list, or in none.              *)
LEMMA BecomesMoves ==
  ASSUME NEW d, Good(d), NEW o \in Live(d), NEW e, NEW b, Becomes(d, e, o, b), Fit(b),
         b.key \notin Critical => (Placed(b) <=> Placed(d.bundle[o]))
  PROVE  Moves(d, e)
<1>1. /\ Live(e) = Live(d) /\ e.bundle[o] = b /\ e.hash = d.hash /\ Sound(e)
      /\ b.key = d.bundle[o].key
      /\ \A x \in Obj : x # o => e.bundle[x] = d.bundle[x]
      /\ Live(d) \subseteq Obj
  BY BecomesLive, SoundParts DEF Good
<1>2. \A x \in Live(d) : Fit(d.bundle[x])
  BY DEF Good
<1>3. ASSUME NEW x \in Live(d)
      PROVE  /\ Fit(e.bundle[x]) /\ e.bundle[x].key = d.bundle[x].key
             /\ d.bundle[x].key \notin Critical =>
                  (Placed(e.bundle[x]) <=> Placed(d.bundle[x]))
  <2>1. CASE x = o
    BY <1>1, <2>1
  <2>2. CASE x # o
    <3>1. e.bundle[x] = d.bundle[x]
      BY <1>1, <2>2
    <3> QED BY <1>2, <3>1
  <2> QED BY <2>1, <2>2
<1> QED BY <1>1, <1>3 DEF Moves, Good

(* One move after the other.                                               *)
LEMMA MovesTwice ==
  ASSUME NEW d, NEW e, NEW f, Moves(d, e), Moves(e, f)
  PROVE  Moves(d, f)
BY DEF Moves

(* Nothing happens.                                                        *)
LEMMA MovesSame ==
  ASSUME NEW d, Good(d)
  PROVE  Moves(d, d)
BY DEF Moves

(* Bundles that move do not disturb what is true of their keys.            *)
LEMMA KeyMoves ==
  ASSUME NEW d, NEW e, Moves(d, e), NEW s, NEW nw, NEW us, NEW ex, NEW xc, NEW k,
         KeyOK(d, s, nw, us, ex, xc, k)
  PROVE  KeyOK(e, s, nw, us, ex, xc, k)
<1>1. Copies(e, k) = Copies(d, k)
  BY DEF Moves, Copies
<1>2. k \notin Critical => \A o \in Copies(d, k) : Placed(e.bundle[o]) <=> Placed(d.bundle[o])
  BY DEF Moves, Copies
<1>3. e.hash = d.hash
  BY DEF Moves
<1>4. Stewarded(e, s, nw, ex, k)
  <2>1. SUFFICES ASSUME NEW t \in s, t.key = k /\ t.steward
                 PROVE  /\ k \notin Critical
                        /\ \A u \in s : u.key = k /\ u.steward => u = t
                        /\ \/ Copies(e, k) = {} /\ k \in ex
                           \/ /\ Copies(e, k) = {t.obj}
                              /\ e.hash[k] = [obj |-> t.obj, count |-> 1]
                              /\ ~Placed(e.bundle[t.obj])
                        /\ t.arrived => nw[k] # {}
    BY DEF Stewarded
  <2>2. /\ k \notin Critical
        /\ \A u \in s : u.key = k /\ u.steward => u = t
        /\ \/ Copies(d, k) = {} /\ k \in ex
           \/ /\ Copies(d, k) = {t.obj} /\ d.hash[k] = [obj |-> t.obj, count |-> 1]
              /\ ~Placed(d.bundle[t.obj])
        /\ t.arrived => nw[k] # {}
    BY <2>1 DEF KeyOK, Stewarded
  <2> QED BY <1>1, <1>2, <1>3, <2>2
<1>5. Tended(e, s, k)
  BY <1>1, <1>2 DEF KeyOK, Tended
<1>6. Unborn(e, s, nw, us, k) /\ Somewhere(e, s, nw, us, ex, xc, k)
  BY <1>1 DEF KeyOK, Unborn, Somewhere
<1> QED BY <1>4, <1>5, <1>6 DEF KeyOK

(* The other keys of a step that tends to one key.                         *)
LEMMA KeyOther ==
  ASSUME NEW d, NEW e, NEW k, Tends(d, e, k), NEW j \in Key, j # k,
         NEW s, NEW nw, NEW us, NEW ex, NEW xc, KeyOK(d, s, nw, us, ex, xc, j),
         NEW s2, NEW nw2, NEW us2, NEW ex2, NEW xc2,
         \A t \in s : t.key = j => t \in s2,
         \A t \in s2 : t.key = j => t \in s,
         nw2[j] = nw[j], j \in us2 <=> j \in us,
         j \in ex => j \in ex2, j \in xc => j \in xc2
  PROVE  KeyOK(e, s2, nw2, us2, ex2, xc2, j)
<1>1. /\ e.hash[j] = d.hash[j] /\ Copies(e, j) = Copies(d, j)
      /\ \A o \in Copies(d, j) : e.bundle[o] = d.bundle[o]
  BY DEF Tends
<1>2. Stewarded(e, s2, nw2, ex2, j)
  <2>1. SUFFICES ASSUME NEW t \in s2, t.key = j /\ t.steward
                 PROVE  /\ j \notin Critical
                        /\ \A u \in s2 : u.key = j /\ u.steward => u = t
                        /\ \/ Copies(e, j) = {} /\ j \in ex2
                           \/ /\ Copies(e, j) = {t.obj}
                              /\ e.hash[j] = [obj |-> t.obj, count |-> 1]
                              /\ ~Placed(e.bundle[t.obj])
                        /\ t.arrived => nw2[j] # {}
    BY DEF Stewarded
  <2>2. /\ j \notin Critical
        /\ \A u \in s : u.key = j /\ u.steward => u = t
        /\ \/ Copies(d, j) = {} /\ j \in ex
           \/ /\ Copies(d, j) = {t.obj} /\ d.hash[j] = [obj |-> t.obj, count |-> 1]
              /\ ~Placed(d.bundle[t.obj])
        /\ t.arrived => nw[j] # {}
    BY <2>1 DEF KeyOK, Stewarded
  <2> QED BY <1>1, <2>2
<1>3. Tended(e, s2, j)
  BY <1>1 DEF KeyOK, Tended
<1>4. Unborn(e, s2, nw2, us2, j)
  BY <1>1 DEF KeyOK, Unborn
<1>5. Somewhere(e, s2, nw2, us2, ex2, xc2, j)
  BY <1>1 DEF KeyOK, Somewhere
<1>6. \A t \in s2 : t.key = j /\ t.arrived => t.steward
  BY DEF KeyOK
<1> QED BY <1>2, <1>3, <1>4, <1>5, <1>6 DEF KeyOK

(* Nobody is the steward of a bundle that is in a list.                    *)
LEMMA NoSteward ==
  ASSUME NEW d, NEW o \in Live(d), Placed(d.bundle[o]),
         NEW s, NEW nw, NEW us, NEW ex, NEW xc,
         KeyOK(d, s, nw, us, ex, xc, d.bundle[o].key)
  PROVE  /\ \A t \in s : t.key = d.bundle[o].key => ~t.steward /\ ~t.arrived
         /\ d.bundle[o].key \notin us
         /\ d.bundle[o].key \notin Critical =>
              \A x \in Copies(d, d.bundle[o].key) : Placed(d.bundle[x])
<1> DEFINE k == d.bundle[o].key
<1>1. o \in Copies(d, k)
  BY CopiesType
<1>2. ASSUME NEW t \in s, t.key = k PROVE ~t.steward /\ ~t.arrived
  <2>1. t.arrived => t.steward
    BY <1>2 DEF KeyOK
  <2>2. SUFFICES ASSUME t.steward PROVE FALSE
    BY <2>1
  <2>3. Copies(d, k) = {t.obj} /\ ~Placed(d.bundle[t.obj])
    BY <1>1, <1>2, <2>2 DEF KeyOK, Stewarded
  <2> QED BY <1>1, <2>3
<1>3. k \notin us
  BY <1>1 DEF KeyOK, Unborn
<1>4. k \notin Critical => \A x \in Copies(d, k) : Placed(d.bundle[x])
  BY <1>2 DEF KeyOK, Tended
<1> QED BY <1>2, <1>3, <1>4

-----------------------------------------------------------------------------
(* Folding a list: one step after the other.                               *)

(* The three operators by which lists are folded.                          *)
FoldStep(c, x, y) ==
  IF c = 1 THEN ReleaseFromLimbo(x, y)
  ELSE IF c = 2 THEN ReverseEnqueue(x, y)
  ELSE SendTo(x, y)

(* The function by which FoldLeft is defined.                              *)
FoldDef(c, base, q, D, h) ==
  h = [s \in SUBSET D |-> IF s = {} THEN base
                          ELSE FoldStep(c, h[s \ {Max(s)}], q[Max(s)])]

(* The greatest of a set of numbers up to n.                               *)
LEMMA MaxOf ==
  ASSUME NEW n \in Nat, NEW s \in SUBSET (1..n), s # {}
  PROVE  Max(s) \in s /\ \A y \in s : y <= Max(s)
<1>1. s \in SUBSET Nat /\ \A y \in s : y <= n
  OBVIOUS
<1>2. PICK m \in s : \A y \in s : y <= m
  BY <1>1, GreatestExists
<1>3. \E x \in s : \A y \in s : x >= y
  BY <1>1, <1>2
<1>4. Max(s) \in s /\ \A y \in s : Max(s) >= y
  BY <1>3 DEF Max
<1> QED BY <1>1, <1>4

(* The function by which FoldLeft is defined exists.                       *)
LEMMA FoldExists ==
  ASSUME NEW c, NEW base, NEW q, NEW m \in Nat
  PROVE  \E h : FoldDef(c, base, q, 1..m, h)
<1> DEFINE B == {n \in Nat : \E h : FoldDef(c, base, q, 1..n, h)}
<1>1. 0 \in B
  <2> DEFINE h == [s \in SUBSET (1..0) |-> base]
  <2>1. \A s \in SUBSET (1..0) : s = {}
    OBVIOUS
  <2>2. FoldDef(c, base, q, 1..0, h)
    BY <2>1 DEF FoldDef
  <2> QED BY <2>2
<1>2. ASSUME NEW n \in Nat, n \in B PROVE n + 1 \in B
  <2>1. PICK f : FoldDef(c, base, q, 1..n, f)
    BY <1>2
  <2> DEFINE S == SUBSET (1..(n + 1))
             h == [s \in S |-> IF s \in SUBSET (1..n) THEN f[s]
                               ELSE FoldStep(c, f[s \ {n + 1}], q[n + 1])]
             body(s) == IF s = {} THEN base
                        ELSE FoldStep(c, h[s \ {Max(s)}], q[Max(s)])
  <2>2. \A s \in SUBSET (1..n) : s \in S
    OBVIOUS
  <2>3. \A s \in SUBSET (1..n) : h[s] = f[s]
    BY <2>2
  <2>4. \A s \in SUBSET (1..n) :
           f[s] = IF s = {} THEN base ELSE FoldStep(c, f[s \ {Max(s)}], q[Max(s)])
    BY <2>1 DEF FoldDef
  <2>5. ASSUME NEW s \in S PROVE h[s] = body(s)
    <3>1. CASE s \in SUBSET (1..n)
      <4>1. s \ {Max(s)} \in SUBSET (1..n)
        BY <3>1
      <4>2. h[s \ {Max(s)}] = f[s \ {Max(s)}] /\ h[s] = f[s]
        BY <2>3, <3>1, <4>1
      <4> HIDE DEF h
      <4> QED BY <2>4, <3>1, <4>2
    <3>2. CASE s \notin SUBSET (1..n)
      <4>1. n + 1 \in s /\ s # {}
        BY <3>2
      <4>2. Max(s) = n + 1
        <5>1. n + 1 \in Nat
          OBVIOUS
        <5>2. Max(s) \in s /\ \A y \in s : y <= Max(s)
          BY <4>1, <5>1, MaxOf
        <5>3. Max(s) \in 1..(n + 1) /\ n + 1 <= Max(s)
          BY <4>1, <5>2
        <5> QED BY <5>3
      <4>3. s \ {n + 1} \in SUBSET (1..n)
        OBVIOUS
      <4>4. h[s \ {n + 1}] = f[s \ {n + 1}]
        BY <2>3, <4>3
      <4>5. h[s] = FoldStep(c, f[s \ {n + 1}], q[n + 1])
        BY <3>2
      <4> HIDE DEF h
      <4> QED BY <4>1, <4>2, <4>4, <4>5
    <3> QED BY <3>1, <3>2
  <2> HIDE DEF body
  <2>6. h = [s \in S |-> h[s]]
    OBVIOUS
  <2> HIDE DEF h
  <2>7. h = [s \in S |-> body(s)]
    BY <2>5, <2>6
  <2>8. FoldDef(c, base, q, 1..(n + 1), h)
    BY <2>7 DEF FoldDef, body
  <2> HIDE DEF S
  <2> QED BY <2>8
<1> HIDE DEF B
<1>3. m \in B
  BY <1>1, <1>2, SetInduction
<1> QED BY <1>3 DEF B

(* Folding a list is one step after the other.                             *)
FoldRuns(c, base, q, f) ==
  /\ f[0] = base
  /\ \A i \in 0..(Len(q) - 1) : f[i + 1] = FoldStep(c, f[i], q[i + 1])

(* That function is the result of as many steps.                           *)
LEMMA FoldRunsExist ==
  ASSUME NEW c, NEW base, NEW q, Len(q) \in Nat, NEW h,
         FoldDef(c, base, q, 1..Len(q), h)
  PROVE  \E f : FoldRuns(c, base, q, f) /\ h[1..Len(q)] = f[Len(q)]
<1> DEFINE n == Len(q)
           f == [i \in 0..n |-> h[1..i]]
<1>1. n \in Nat
  OBVIOUS
<1> HIDE DEF n
<1>2. f[0] = base
  <2>1. f[0] = h[1..0] /\ 1..0 = {} /\ {} \in SUBSET (1..n)
    BY <1>1
  <2> QED BY <2>1 DEF FoldDef, n
<1>3. ASSUME NEW i \in 0..(n - 1) PROVE f[i + 1] = FoldStep(c, f[i], q[i + 1])
  <2> DEFINE s == 1..(i + 1)
  <2>1. s \in SUBSET (1..n) /\ s # {} /\ s \ {i + 1} = 1..i /\ i + 1 \in Nat
    BY <1>1
  <2>2. Max(s) = i + 1
    <3>1. s \in SUBSET (1..(i + 1)) /\ i + 1 \in s
      BY <1>1
    <3>2. Max(s) \in s /\ \A y \in s : y <= Max(s)
      BY <2>1, <3>1, MaxOf
    <3>3. Max(s) \in 1..(i + 1) /\ i + 1 <= Max(s)
      BY <3>1, <3>2
    <3> QED BY <1>1, <3>3
  <2>3. h[s] = FoldStep(c, h[s \ {Max(s)}], q[Max(s)])
    <3> HIDE DEF s
    <3> QED BY <2>1 DEF FoldDef, n
  <2>4. f[i + 1] = h[s] /\ f[i] = h[1..i]
    BY <1>1
  <2> HIDE DEF f, s
  <2> QED BY <2>1, <2>2, <2>3, <2>4
<1>4. h[1..n] = f[n]
  BY <1>1
<1> HIDE DEF f
<1>5. FoldRuns(c, base, q, f)
  BY <1>2, <1>3 DEF FoldRuns, n
<1> QED BY <1>4, <1>5 DEF n

(* FoldLeft of ReleaseFromLimbo.                                           *)
LEMMA FoldOfReleases ==
  ASSUME NEW base, NEW q, Len(q) \in Nat, DOMAIN q = 1..Len(q)
  PROVE  \E f : /\ FoldRuns(1, base, q, f)
                /\ FoldLeft(ReleaseFromLimbo, base, q) = f[Len(q)]
<1> DEFINE D == DOMAIN q
           Def(h) == h = [s \in SUBSET D |-> IF s = {} THEN base
                            ELSE ReleaseFromLimbo(h[s \ {Max(s)}], q[Max(s)])]
           g == CHOOSE h : Def(h)
<1>1. FoldLeft(ReleaseFromLimbo, base, q) = g[D]
  BY Zenon DEF FoldLeft, MapThenFoldSet
<1>2. \A h : FoldDef(1, base, q, D, h) <=> Def(h)
  BY DEF FoldDef, FoldStep
<1>3. Def(g)
  <2>1. \E h : Def(h)
    <3> HIDE DEF Def
    <3> QED BY <1>2, FoldExists
  <2> HIDE DEF Def
  <2> QED BY <2>1
<1> HIDE DEF g, Def
<1>4. FoldDef(1, base, q, 1..Len(q), g)
  BY <1>2, <1>3
<1> QED BY <1>1, <1>4, FoldRunsExist

(* FoldLeft of ReverseEnqueue.                                             *)
LEMMA FoldOfReversals ==
  ASSUME NEW base, NEW q, Len(q) \in Nat, DOMAIN q = 1..Len(q)
  PROVE  \E f : /\ FoldRuns(2, base, q, f)
                /\ FoldLeft(ReverseEnqueue, base, q) = f[Len(q)]
<1> DEFINE D == DOMAIN q
           Def(h) == h = [s \in SUBSET D |-> IF s = {} THEN base
                            ELSE ReverseEnqueue(h[s \ {Max(s)}], q[Max(s)])]
           g == CHOOSE h : Def(h)
<1>1. FoldLeft(ReverseEnqueue, base, q) = g[D]
  BY Zenon DEF FoldLeft, MapThenFoldSet
<1>2. \A h : FoldDef(2, base, q, D, h) <=> Def(h)
  BY DEF FoldDef, FoldStep
<1>3. Def(g)
  <2>1. \E h : Def(h)
    <3> HIDE DEF Def
    <3> QED BY <1>2, FoldExists
  <2> HIDE DEF Def
  <2> QED BY <2>1
<1> HIDE DEF g, Def
<1>4. FoldDef(2, base, q, 1..Len(q), g)
  BY <1>2, <1>3
<1> QED BY <1>1, <1>4, FoldRunsExist

(* FoldLeft of SendTo.                                                     *)
LEMMA FoldOfSends ==
  ASSUME NEW base, NEW q, Len(q) \in Nat, DOMAIN q = 1..Len(q)
  PROVE  \E f : /\ FoldRuns(3, base, q, f)
                /\ FoldLeft(SendTo, base, q) = f[Len(q)]
<1> DEFINE D == DOMAIN q
           Def(h) == h = [s \in SUBSET D |-> IF s = {} THEN base
                            ELSE SendTo(h[s \ {Max(s)}], q[Max(s)])]
           g == CHOOSE h : Def(h)
<1>1. FoldLeft(SendTo, base, q) = g[D]
  BY Zenon DEF FoldLeft, MapThenFoldSet
<1>2. \A h : FoldDef(3, base, q, D, h) <=> Def(h)
  BY DEF FoldDef, FoldStep
<1>3. Def(g)
  <2>1. \E h : Def(h)
    <3> HIDE DEF Def
    <3> QED BY <1>2, FoldExists
  <2> HIDE DEF Def
  <2> QED BY <2>1
<1> HIDE DEF g, Def
<1>4. FoldDef(3, base, q, 1..Len(q), g)
  BY <1>2, <1>3
<1> QED BY <1>1, <1>4, FoldRunsExist

-----------------------------------------------------------------------------
(* Transactions that take bundles from list to list.                       *)

(* What a good db promises of each bundle.                                 *)
LEMMA GoodParts ==
  ASSUME NEW d, Good(d)
  PROVE  /\ Sound(d) /\ d \in Dbs /\ Live(d) \subseteq Obj
         /\ \A o \in Live(d) : Fit(d.bundle[o]) /\ d.bundle[o] \in Bundles /\ o \in Obj
BY SoundParts, DbType DEF Good

(* The first bundle of a list.                                             *)
LEMMA HeadOfForward ==
  ASSUME NEW d, Good(d), d.forward # <<>>
  PROVE  /\ Head(d.forward) \in Live(d) /\ d.bundle[Head(d.forward)].fwdQueueElt
<1>1. Enumerates(d.forward, ForwardSet(d))
  BY SoundParts DEF Good
<1>2. Head(d.forward) \in ForwardSet(d)
  BY <1>1, EnumerationType
<1> QED BY <1>2 DEF ForwardSet

(* The same of the queue of a plan.                                        *)
LEMMA HeadOfQueue ==
  ASSUME NEW d, Good(d), NEW p \in Plan, d.queue[p] # <<>>
  PROVE  /\ Head(d.queue[p]) \in Live(d)
         /\ d.bundle[Head(d.queue[p])].planXmitElt = p
<1>1. Enumerates(d.queue[p], PlanSet(d, p))
  BY SoundParts DEF Good
<1>2. Head(d.queue[p]) \in PlanSet(d, p)
  BY <1>1, EnumerationType
<1> QED BY <1>2 DEF PlanSet

(* The same of the buffer of a duct.                                       *)
LEMMA HeadOfBuffer ==
  ASSUME NEW d, Good(d), NEW p \in Plan, d.buffer[p] # <<>>
  PROVE  /\ Head(d.buffer[p]) \in Live(d)
         /\ d.bundle[Head(d.buffer[p])].ductXmitElt = p
<1>1. Enumerates(d.buffer[p], DuctSet(d, p))
  BY SoundParts DEF Good
<1>2. Head(d.buffer[p]) \in DuctSet(d, p)
  BY <1>1, EnumerationType
<1> QED BY <1>2 DEF DuctSet

(* bptransit passes a bundle on to the forwarder.                          *)
LEMMA MovedMoves ==
  ASSUME NEW d, Good(d), NEW o
  PROVE  Moves(d, Moved(d, o))
<1>1. CASE d.transit = <<>> \/ o # Head(d.transit)
  BY <1>1, MovesSame DEF Moved
<1>2. CASE d.transit # <<>> /\ o = Head(d.transit)
  <2> DEFINE b == d.bundle[o]
             e1 == [d EXCEPT !.transit = Tail(@), !.bundle[o].transitElt = FALSE]
             b1 == [b EXCEPT !.transitElt = FALSE]
             e2 == ForwardBundle(e1, o)
             b2 == [b1 EXCEPT !.fwdQueueElt = TRUE]
  <2>1. o \in Live(d) /\ b.transitElt /\ Becomes(d, e1, o, b1)
    BY <1>2, TransitTailStep DEF Good
  <2>2. b \in Bundles /\ Fit(b) /\ d \in Dbs /\ Sound(d)
    BY <2>1, GoodParts
  <2>3. Moved(d, o) = e2
    BY <1>2 DEF Moved
  <2> HIDE DEF e1
  <2>4. Sound(e1) /\ o \in Live(e1) /\ e1.bundle[o] = b1
    BY <2>1, <2>2, BecomesLive
  <2>5. ~b1.fwdQueueElt /\ b1.planXmitElt = None /\ b1.ductXmitElt = None
    BY <2>1, <2>2 DEF Fit, Bundles
  <2>6. Becomes(e1, e2, o, b2)
    BY <2>4, <2>5, ForwardBundleStep
  <2> HIDE DEF e2
  <2>7. Becomes(d, e2, o, b2)
    BY <2>1, <2>2, <2>6, BecomesTwice
  <2>8. Fit(b2) /\ Placed(b2) /\ Placed(b)
    BY <2>1, <2>2 DEF Fit, Bundles, Placed
  <2> HIDE DEF b2
  <2>9. Moves(d, e2)
    BY <2>1, <2>7, <2>8, BecomesMoves
  <2> QED BY <2>3, <2>9
<1> QED BY <1>1, <1>2

(* The forwarder finds no route, but a prospect of one.                    *)
LEMMA WaitsInLimbo ==
  ASSUME NEW d, Good(d), NEW o \in Live(d), d.bundle[o].fwdQueueElt,
         d.bundle[o].key \notin Critical
  PROVE  Moves(d, EnqueueToLimbo(PurgeFwdQueueElt(d, o), o))
<1> DEFINE b == d.bundle[o]
           e1 == PurgeFwdQueueElt(d, o)
           b1 == [b EXCEPT !.fwdQueueElt = FALSE]
           e2 == EnqueueToLimbo(e1, o)
           b2 == [b1 EXCEPT !.planXmitElt = Limbo]
<1>1. b \in Bundles /\ Fit(b) /\ d \in Dbs /\ Sound(d)
  BY GoodParts
<1>2. Becomes(d, e1, o, b1)
  BY <1>1, PurgeFwdQueueEltStep
<1> HIDE DEF e1
<1>3. Sound(e1) /\ o \in Live(e1) /\ e1.bundle[o] = b1 /\ b1.key = b.key
  BY <1>1, <1>2, BecomesLive
<1>4. b1.planXmitElt = None /\ ~IsCritical(e1, o)
  BY <1>1, <1>3 DEF Fit, Bundles, IsCritical
<1>5. Becomes(e1, e2, o, b2)
  BY <1>3, <1>4, EnqueueToLimboStep
<1> HIDE DEF e2
<1>6. Becomes(d, e2, o, b2)
  BY <1>1, <1>2, <1>5, BecomesTwice
<1>7. Fit(b2) /\ Placed(b2) /\ Placed(b)
  BY <1>1, ObjNames DEF Fit, Bundles, Placed
<1> HIDE DEF b2
<1>8. Moves(d, e2)
  BY <1>6, <1>7, BecomesMoves
<1> QED BY <1>8 DEF e1, e2

(* bpclm hands the first bundle of a plan over, or puts it into limbo.     *)
HandedOver(d, o, p) ==
  LET e == RemoveBundleFromQueue(d, o)
  IN IF Usable(e.bundle[o].key, p)
     THEN [e EXCEPT !.buffer[p] = Append(@, o), !.bundle[o].ductXmitElt = p]
     ELSE EnqueueToLimbo(e, o)

(* It is then in the buffer of the duct or in limbo.                       *)
LEMMA HandedOverMoves ==
  ASSUME NEW d, Good(d), NEW p \in Plan, NEW o \in Live(d), d.bundle[o].planXmitElt = p
  PROVE  Moves(d, HandedOver(d, o, p))
<1> DEFINE b == d.bundle[o]
           e1 == RemoveBundleFromQueue(d, o)
           b1 == [b EXCEPT !.planXmitElt = None]
<1>1. b \in Bundles /\ Fit(b) /\ d \in Dbs /\ Sound(d) /\ p # None
  BY GoodParts, ObjNames
<1>2. Becomes(d, e1, o, b1)
  BY <1>1, RemoveBundleFromQueueStep
<1>3. HandedOver(d, o, p)
        = IF Usable(e1.bundle[o].key, p)
          THEN [e1 EXCEPT !.buffer[p] = Append(@, o), !.bundle[o].ductXmitElt = p]
          ELSE EnqueueToLimbo(e1, o)
  BY DEF HandedOver
<1> HIDE DEF e1
<1>4. Sound(e1) /\ o \in Live(e1) /\ e1.bundle[o] = b1 /\ b1.key = b.key
  BY <1>1, <1>2, BecomesLive
<1>5. b1.planXmitElt = None /\ b1.ductXmitElt = None
  BY <1>1 DEF Fit, Bundles
<1>6. CASE Usable(e1.bundle[o].key, p)
  <2> DEFINE e2 == [e1 EXCEPT !.buffer[p] = Append(@, o), !.bundle[o].ductXmitElt = p]
             b2 == [b1 EXCEPT !.ductXmitElt = p]
  <2>1. Becomes(e1, e2, o, b2)
    <3>1. Sound(e1) /\ o \in Live(e1) /\ e1.bundle[o].ductXmitElt = None
      BY <1>4, <1>5
    <3>2. Becomes(e1, e2, o, [e1.bundle[o] EXCEPT !.ductXmitElt = p])
      BY <3>1, JoinBufferStep
    <3> QED BY <1>4, <3>2
  <2> HIDE DEF e2
  <2>2. Becomes(d, e2, o, b2)
    BY <1>1, <1>2, <2>1, BecomesTwice
  <2>3. Fit(b2) /\ Placed(b2) /\ Placed(b)
    BY <1>1 DEF Fit, Bundles, Placed
  <2> HIDE DEF b2
  <2>4. Moves(d, e2)
    BY <2>2, <2>3, BecomesMoves
  <2> QED BY <1>3, <1>6, <2>4 DEF e2
<1>7. CASE ~Usable(e1.bundle[o].key, p) /\ IsCritical(e1, o)
  <2>1. EnqueueToLimbo(e1, o) = e1
    BY <1>7 DEF EnqueueToLimbo
  <2>2. b1.key \in Critical
    BY <1>4, <1>7 DEF IsCritical
  <2>3. Fit(b1)
    BY <1>1, <1>4, <2>2 DEF Fit, Bundles
  <2> HIDE DEF b1
  <2>4. Moves(d, e1)
    BY <1>2, <2>2, <2>3, BecomesMoves
  <2> QED BY <1>3, <1>7, <2>1, <2>4
<1>8. CASE ~Usable(e1.bundle[o].key, p) /\ ~IsCritical(e1, o)
  <2> DEFINE e2 == EnqueueToLimbo(e1, o)
             b2 == [b1 EXCEPT !.planXmitElt = Limbo]
  <2>1. Becomes(e1, e2, o, b2)
    BY <1>4, <1>5, <1>8, EnqueueToLimboStep
  <2> HIDE DEF e2
  <2>2. Becomes(d, e2, o, b2)
    BY <1>1, <1>2, <2>1, BecomesTwice
  <2>3. Fit(b2) /\ Placed(b2) /\ Placed(b)
    BY <1>1, ObjNames DEF Fit, Bundles, Placed
  <2> HIDE DEF b2
  <2>4. Moves(d, e2)
    BY <2>2, <2>3, BecomesMoves
  <2> QED BY <1>3, <1>8, <2>4 DEF e2
<1> QED BY <1>6, <1>7, <1>8

(* A bundle with a plan or a duct goes back to the forwarder.              *)
LEMMA ReforwardedFit ==
  ASSUME NEW b \in Bundles, Fit(b), b.planXmitElt # None \/ b.ductXmitElt # None
  PROVE  /\ Fit(Reforwarded(b)) /\ Placed(Reforwarded(b)) /\ Placed(b)
         /\ Reforwarded(b).key = b.key
BY DEF Fit, Bundles, Placed, Reforwarded

(* So does one that a failed transmission or an alarm sends back.          *)
LEMMA ReforwardMoves ==
  ASSUME NEW d, Good(d), NEW o \in Live(d), d.bundle[o].key \notin Critical,
         d.bundle[o].planXmitElt # None \/ d.bundle[o].ductXmitElt # None
  PROVE  Moves(d, BpReforwardBundle(d, o))
<1>1. Becomes(d, BpReforwardBundle(d, o), o, Reforwarded(d.bundle[o]))
  BY GoodParts, BpReforwardBundleStep DEF IsCritical
<1>2. /\ Fit(Reforwarded(d.bundle[o])) /\ Placed(Reforwarded(d.bundle[o]))
      /\ Placed(d.bundle[o])
  BY GoodParts, ReforwardedFit
<1> QED BY <1>1, <1>2, BecomesMoves

(* One bundle of a fold is taken out of limbo, or of a blocked plan.       *)
LEMMA FoldStepMoves ==
  ASSUME NEW d, Good(d), NEW o \in Live(d), NEW c \in {1, 2},
         d.bundle[o].planXmitElt # None,
         c = 2 => d.bundle[o].planXmitElt \in Plan
  PROVE  /\ Moves(d, FoldStep(c, d, o))
         /\ \A x \in Obj : x # o => FoldStep(c, d, o).bundle[x] = d.bundle[x]
<1> DEFINE e == FoldStep(c, d, o)
           b == d.bundle[o]
           b1 == [b EXCEPT !.planXmitElt = None]
           b2 == IF IsCritical(d, o) THEN b1 ELSE Reforwarded(b)
<1>1. b \in Bundles /\ Fit(b) /\ d \in Dbs /\ Sound(d)
  BY GoodParts
<1>2. Becomes(d, e, o, b2)
  <2>1. CASE c = 1
    BY <1>1, <2>1, ReleaseFromLimboStep DEF FoldStep
  <2>2. CASE c = 2
    BY <1>1, <2>2, ReverseEnqueueStep DEF FoldStep
  <2> QED BY <2>1, <2>2
<1> HIDE DEF e
<1>3. Fit(b2) /\ (b2.key \notin Critical => (Placed(b2) <=> Placed(b)))
  <2>1. CASE IsCritical(d, o)
    <3>1. b.key \in Critical
      BY <2>1 DEF IsCritical
    <3> QED BY <1>1, <2>1, <3>1 DEF Fit, Bundles
  <2>2. CASE ~IsCritical(d, o)
    BY <1>1, <2>2, ReforwardedFit
  <2> QED BY <2>1, <2>2
<1> HIDE DEF b2
<1>4. Moves(d, e)
  BY <1>2, <1>3, BecomesMoves
<1>5. \A x \in Obj : x # o => e.bundle[x] = d.bundle[x]
  BY <1>1, <1>2, BecomesElse
<1> QED BY <1>4, <1>5 DEF e

(* A fold moves each bundle of its list once.                              *)
LEMMA FoldMoves ==
  ASSUME NEW d, Good(d), NEW c \in {1, 2}, NEW S \in SUBSET Live(d), NEW q, Enumerates(q, S),
         \A o \in S : /\ d.bundle[o].planXmitElt # None
                      /\ c = 2 => d.bundle[o].planXmitElt \in Plan,
         NEW f, FoldRuns(c, d, q, f)
  PROVE  Moves(d, f[Len(q)])
<1> DEFINE n == Len(q)
           Rest(i) == \A j \in 1..n : i < j => f[i].bundle[q[j]] = d.bundle[q[j]]
           B == {i \in Nat : i <= n => Moves(d, f[i]) /\ Rest(i)}
<1>1. n \in Nat /\ \A i \in 1..n : q[i] \in S
  BY EnumerationType
<1>2. 0 \in B
  <2>1. f[0] = d
    BY DEF FoldRuns
  <2> QED BY <2>1, MovesSame
<1>3. ASSUME NEW i \in Nat, i \in B PROVE i + 1 \in B
  <2> SUFFICES ASSUME i + 1 <= n PROVE Moves(d, f[i + 1]) /\ Rest(i + 1)
    OBVIOUS
  <2>1. i <= n /\ i \in 0..(n - 1) /\ i + 1 \in 1..n
    BY <1>1
  <2>2. Moves(d, f[i]) /\ Rest(i)
    BY <1>3, <2>1
  <2> DEFINE e == f[i]
             o == q[i + 1]
  <2>3. f[i + 1] = FoldStep(c, e, o)
    BY <2>1 DEF FoldRuns
  <2>4. e.bundle[o] = d.bundle[o]
    <3>1. i < i + 1
      OBVIOUS
    <3> QED BY <2>1, <2>2, <3>1
  <2>5. o \in S /\ Good(e) /\ Live(e) = Live(d)
    BY <1>1, <2>1, <2>2 DEF Moves
  <2>6. /\ o \in Live(e) /\ e.bundle[o].planXmitElt # None
        /\ c = 2 => e.bundle[o].planXmitElt \in Plan
    BY <2>4, <2>5
  <2> HIDE DEF e, o
  <2>7. /\ Moves(e, FoldStep(c, e, o))
        /\ \A x \in Obj : x # o => FoldStep(c, e, o).bundle[x] = e.bundle[x]
    BY <2>5, <2>6, FoldStepMoves
  <2>8. Moves(d, f[i + 1])
    BY <2>2, <2>3, <2>7, MovesTwice DEF e
  <2>9. ASSUME NEW j \in 1..n, i + 1 < j PROVE f[i + 1].bundle[q[j]] = d.bundle[q[j]]
    <3>1. i < j /\ j # i + 1
      BY <2>9
    <3>2. q[j] # o
      BY <2>1, <3>1 DEF Enumerates, o
    <3>3. q[j] \in Obj
      BY <1>1, GoodParts
    <3>4. f[i + 1].bundle[q[j]] = e.bundle[q[j]]
      BY <2>3, <2>7, <3>2, <3>3
    <3>5. e.bundle[q[j]] = d.bundle[q[j]]
      BY <2>2, <3>1 DEF e
    <3> QED BY <3>4, <3>5
  <2> QED BY <2>8, <2>9
<1> HIDE DEF B
<1>4. n \in B
  BY <1>1, <1>2, <1>3, SetInduction
<1> QED BY <1>1, <1>4 DEF B

(* Limbo is emptied.                                                       *)
LEMMA FlushMoves ==
  ASSUME NEW d, Good(d)
  PROVE  Moves(d, FoldLeft(ReleaseFromLimbo, d, d.limbo))
<1> DEFINE q == d.limbo
           S == PlanSet(d, Limbo)
<1>1. Enumerates(q, S)
  BY SoundParts DEF Good
<1>2. Len(q) \in Nat /\ DOMAIN q = 1..Len(q)
  <2> HIDE DEF q, S
  <2> QED BY <1>1, EnumerationType
<1>3. S \in SUBSET Live(d)
  BY DEF PlanSet
<1>4. \A o \in S : d.bundle[o].planXmitElt # None
  BY ObjNames DEF PlanSet
<1> HIDE DEF q, S
<1>5. PICK f : FoldRuns(1, d, q, f) /\ FoldLeft(ReleaseFromLimbo, d, q) = f[Len(q)]
  BY <1>2, FoldOfReleases
<1> DEFINE c == 1
<1>6. c \in {1, 2} /\ c # 2 /\ FoldRuns(c, d, q, f)
  BY <1>5
<1> HIDE DEF c
<1>7. Moves(d, f[Len(q)])
  BY <1>1, <1>3, <1>4, <1>6, FoldMoves
<1> QED BY <1>5, <1>7 DEF q

(* The queue of a plan is emptied.                                         *)
LEMMA BlockMoves ==
  ASSUME NEW d, Good(d), NEW p \in Plan
  PROVE  Moves(d, FoldLeft(ReverseEnqueue, d, d.queue[p]))
<1> DEFINE q == d.queue[p]
<1>1. Enumerates(q, PlanSet(d, p))
  BY SoundParts DEF Good
<1>2. Len(q) \in Nat /\ DOMAIN q = 1..Len(q)
  BY <1>1, EnumerationType
<1> HIDE DEF q
<1>3. PICK f : FoldRuns(2, d, q, f) /\ FoldLeft(ReverseEnqueue, d, q) = f[Len(q)]
  BY <1>2, FoldOfReversals
<1>4. PlanSet(d, p) \in SUBSET Live(d)
  BY DEF PlanSet
<1>5. \A o \in PlanSet(d, p) : d.bundle[o].planXmitElt # None /\ d.bundle[o].planXmitElt \in Plan
  BY ObjNames DEF PlanSet
<1>6. Moves(d, f[Len(q)])
  BY <1>1, <1>3, <1>4, <1>5, FoldMoves
<1> QED BY <1>3, <1>6 DEF q

-----------------------------------------------------------------------------
(* Contacts end.                                                           *)

(* A contact ends: the alarms of bundles that wait for it are due.         *)
Closed(d, p) ==
  [d EXCEPT !.bundle = [o \in Obj |->
     IF o \in Live(d) /\ @[o].overdueElt = p
     THEN [@[o] EXCEPT !.overdueElt = Due] ELSE @[o]]]

(* The alarms change nothing else.                                         *)
LEMMA ClosedMoves ==
  ASSUME NEW d, Good(d), NEW p \in Plan
  PROVE  Moves(d, Closed(d, p))
<1> DEFINE e == Closed(d, p)
           Same(o) ==
             /\ e.bundle[o] \in Bundles
             /\ e.bundle[o].key = d.bundle[o].key
             /\ e.bundle[o].transitElt = d.bundle[o].transitElt
             /\ e.bundle[o].fwdQueueElt = d.bundle[o].fwdQueueElt
             /\ e.bundle[o].planXmitElt = d.bundle[o].planXmitElt
             /\ e.bundle[o].ductXmitElt = d.bundle[o].ductXmitElt
             /\ e.bundle[o].enqueueTime = d.bundle[o].enqueueTime
             /\ e.bundle[o].overdueElt # None => d.bundle[o].overdueElt # None
<1>1. /\ d \in Dbs /\ Sound(d) /\ Live(d) \subseteq Obj
      /\ \A o \in Live(d) : Fit(d.bundle[o]) /\ d.bundle[o] \in Bundles
  BY GoodParts
<1>2. /\ e.hash = d.hash /\ e.transit = d.transit /\ e.forward = d.forward
      /\ e.limbo = d.limbo /\ e.queue = d.queue /\ e.buffer = d.buffer
      /\ e.bundle = [o \in Obj |->
           IF o \in Live(d) /\ d.bundle[o].overdueElt = p
           THEN [d.bundle[o] EXCEPT !.overdueElt = Due] ELSE d.bundle[o]]
  BY <1>1 DEF Closed, Dbs
<1>3. \A o \in Live(d) : Same(o)
  <2> SUFFICES ASSUME NEW o \in Live(d) PROVE Same(o)
    OBVIOUS
  <2> DEFINE b == d.bundle[o]
  <2>1. b \in Bundles /\ o \in Obj
    BY <1>1
  <2>2. CASE b.overdueElt = p
    <3>1. e.bundle[o] = [b EXCEPT !.overdueElt = Due]
      BY <1>2, <2>1, <2>2
    <3> HIDE DEF e
    <3> QED BY <2>1, <2>2, <3>1, ObjNames DEF Bundles
  <2>3. CASE b.overdueElt # p
    <3>1. e.bundle[o] = b
      BY <1>2, <2>1, <2>3
    <3> HIDE DEF e
    <3> QED BY <2>1, <3>1
  <2> QED BY <2>2, <2>3
<1>4. \A o \in Obj : o \notin Live(d) => e.bundle[o] = None
  BY <1>2 DEF Live
<1> HIDE DEF e
<1>5. Live(e) = Live(d)
  BY <1>1, <1>3, <1>4, ObjNames DEF Live
<1>6. e \in Dbs
  <2>1. e.bundle \in [Obj -> {None} \union Bundles]
    BY <1>2, <1>3, <1>4
  <2>2. e = [d EXCEPT !.bundle = e.bundle]
    <3>1. d \in Dbs
      BY <1>1
    <3> QED BY <3>1 DEF Dbs, e, Closed
  <2> QED BY <1>1, <2>1, <2>2 DEF Dbs
<1>7. /\ TransitSet(e) = TransitSet(d) /\ ForwardSet(e) = ForwardSet(d)
      /\ \A x : PlanSet(e, x) = PlanSet(d, x) /\ DuctSet(e, x) = DuctSet(d, x)
      /\ \A k \in Key : Copies(e, k) = Copies(d, k)
  BY <1>3, <1>5 DEF TransitSet, ForwardSet, PlanSet, DuctSet, Copies
<1>8. ListsMatch(e) /\ Catalogued(e)
  BY <1>1, <1>2, <1>7 DEF Sound, ListsMatch, Catalogued
<1>9. ASSUME NEW x \in Plan PROVE Ordered(e.queue[x], e.bundle)
  <2>1. Enumerates(d.queue[x], PlanSet(d, x)) /\ Ordered(d.queue[x], d.bundle)
    BY <1>1, SoundParts
  <2>2. \A i \in 1..Len(d.queue[x]) : d.queue[x][i] \in Live(d)
    BY <2>1, EnumerationType DEF PlanSet
  <2> DEFINE q == d.queue[x]
  <2>3. \A i \in 1..Len(q) : e.bundle[q[i]].enqueueTime = d.bundle[q[i]].enqueueTime
    BY <1>3, <2>2
  <2>4. e.queue[x] = q
    BY <1>2
  <2> QED BY <2>1, <2>3, <2>4 DEF Ordered
<1>10. Sound(e)
  BY <1>6, <1>8, <1>9 DEF Sound
<1>11. \A o \in Live(d) : Fit(e.bundle[o])
  BY <1>1, <1>3 DEF Fit
<1>12. \A o \in Live(d) : Placed(e.bundle[o]) <=> Placed(d.bundle[o])
  BY <1>3 DEF Placed
<1>13. Moves(d, e)
  BY <1>2, <1>3, <1>5, <1>10, <1>11, <1>12 DEF Moves, Good
<1> QED BY <1>13 DEF e

-----------------------------------------------------------------------------
(* Steps that have to do with one key.                                     *)
LEMMA TendsTwice ==
  ASSUME NEW d, NEW e, NEW f, NEW k, Tends(d, e, k), Tends(e, f, k)
  PROVE  Tends(d, f, k)
<1>1. Good(f)
  BY DEF Tends
<1>2. ASSUME NEW j \in Key, j # k
      PROVE  /\ f.hash[j] = d.hash[j] /\ Copies(f, j) = Copies(d, j)
             /\ \A o \in Copies(d, j) : f.bundle[o] = d.bundle[o]
  <2>1. /\ e.hash[j] = d.hash[j] /\ Copies(e, j) = Copies(d, j)
        /\ \A o \in Copies(d, j) : e.bundle[o] = d.bundle[o]
    BY <1>2 DEF Tends
  <2>2. /\ f.hash[j] = e.hash[j] /\ Copies(f, j) = Copies(e, j)
        /\ \A o \in Copies(e, j) : f.bundle[o] = e.bundle[o]
    BY <1>2 DEF Tends
  <2> QED BY <2>1, <2>2
<1> QED BY <1>1, <1>2 DEF Tends

(* A step on one bundle has to do with its key only.                       *)
LEMMA BecomesTends ==
  ASSUME NEW d, Good(d), NEW o \in Live(d), NEW e, NEW b, Becomes(d, e, o, b), Fit(b)
  PROVE  /\ Tends(d, e, b.key) /\ Copies(e, b.key) = Copies(d, b.key)
         /\ o \in Copies(d, b.key)
<1>1. /\ Live(e) = Live(d) /\ e.bundle[o] = b /\ e.hash = d.hash /\ Sound(e)
      /\ b.key = d.bundle[o].key
  BY GoodParts, BecomesLive
<1>2. Live(d) \subseteq Obj /\ \A x \in Obj : x # o => e.bundle[x] = d.bundle[x]
  BY GoodParts, BecomesElse
<1>3. \A x \in Live(e) : Fit(e.bundle[x])
  BY <1>1, <1>2, GoodParts
<1>4. \A j : Copies(e, j) = Copies(d, j)
  BY <1>1, <1>2 DEF Copies
<1>5. \A j : j # b.key => \A x \in Copies(d, j) : e.bundle[x] = d.bundle[x]
  BY <1>1, <1>2 DEF Copies
<1>6. Good(e)
  BY <1>1, <1>3 DEF Good
<1>7. o \in Copies(d, b.key)
  BY <1>1 DEF Copies
<1> QED BY <1>1, <1>4, <1>5, <1>6, <1>7 DEF Tends

(* So has a new bundle.                                                    *)
LEMMA AddTends ==
  ASSUME NEW d, Good(d), NEW e, NEW o, NEW b, Adds(d, e, o, b), Fit(b)
  PROVE  /\ Tends(d, e, b.key) /\ Copies(e, b.key) = Copies(d, b.key) \union {o}
         /\ e.bundle[o] = b /\ o \in Live(e) /\ o \in Obj \ Live(d)
         /\ \A x \in Live(d) : x \in Live(e) /\ e.bundle[x] = d.bundle[x]
<1>1. /\ o \in Obj \ Live(d) /\ b \in Bundles
      /\ e.bundle = [d.bundle EXCEPT ![o] = b]
      /\ Live(e) = Live(d) \union {o} /\ Sound(e)
  BY DEF Adds
<1>2. d \in Dbs /\ Live(d) \subseteq Obj /\ DOMAIN d.bundle = Obj /\ DOMAIN d.hash = Key
  BY GoodParts, DbType
<1>3. e.bundle[o] = b /\ \A x \in Live(d) : x \in Live(e) /\ e.bundle[x] = d.bundle[x]
  BY <1>1, <1>2
<1>4. \A x \in Live(e) : Fit(e.bundle[x])
  BY <1>1, <1>3, GoodParts
<1>5. ASSUME NEW j \in Key, j # b.key
      PROVE  /\ e.hash[j] = d.hash[j] /\ Copies(e, j) = Copies(d, j)
             /\ \A x \in Copies(d, j) : e.bundle[x] = d.bundle[x]
  <2>1. e.hash[j] = d.hash[j]
    BY <1>2, <1>5 DEF Adds
  <2>2. Copies(e, j) = Copies(d, j)
    BY <1>1, <1>3, <1>5 DEF Copies
  <2>3. \A x \in Copies(d, j) : e.bundle[x] = d.bundle[x]
    BY <1>3 DEF Copies
  <2> QED BY <2>1, <2>2, <2>3
<1>6. Copies(e, b.key) = Copies(d, b.key) \union {o}
  BY <1>1, <1>3 DEF Copies
<1>7. Tends(d, e, b.key)
  BY <1>1, <1>4, <1>5 DEF Tends, Good
<1> QED BY <1>1, <1>3, <1>6, <1>7

(* So has a bundle that is destroyed.                                      *)
LEMMA FreeTends ==
  ASSUME NEW d, Good(d), NEW e, NEW o, Frees(d, e, o)
  PROVE  LET k == d.bundle[o].key
         IN  /\ Tends(d, e, k) /\ Copies(e, k) = Copies(d, k) \ {o}
             /\ o \in Copies(d, k)
             /\ \A x \in Copies(e, k) : e.bundle[x] = d.bundle[x]
<1> DEFINE k == d.bundle[o].key
<1>1. /\ o \in Live(d) /\ e.bundle = [d.bundle EXCEPT ![o] = None]
      /\ Live(e) = Live(d) \ {o} /\ Sound(e)
  BY DEF Frees
<1>2. d \in Dbs /\ Live(d) \subseteq Obj /\ DOMAIN d.bundle = Obj /\ DOMAIN d.hash = Key
  BY GoodParts, DbType
<1>3. \A x \in Live(e) : e.bundle[x] = d.bundle[x]
  BY <1>1, <1>2
<1>4. \A x \in Live(e) : Fit(e.bundle[x])
  BY <1>1, <1>3, GoodParts
<1>5. ASSUME NEW j \in Key, j # k
      PROVE  /\ e.hash[j] = d.hash[j] /\ Copies(e, j) = Copies(d, j)
             /\ \A x \in Copies(d, j) : e.bundle[x] = d.bundle[x]
  <2>1. e.hash[j] = d.hash[j]
    BY <1>2, <1>5 DEF Frees
  <2>2. Copies(e, j) = Copies(d, j)
    BY <1>1, <1>3, <1>5 DEF Copies
  <2>3. \A x \in Copies(d, j) : e.bundle[x] = d.bundle[x]
    BY <1>3, <2>2 DEF Copies
  <2> QED BY <2>1, <2>2, <2>3
<1>6. Copies(e, k) = Copies(d, k) \ {o} /\ o \in Copies(d, k)
  BY <1>1, <1>3 DEF Copies
<1>7. Tends(d, e, k)
  BY <1>1, <1>4, <1>5 DEF Tends, Good
<1> QED BY <1>3, <1>6, <1>7 DEF Copies

-----------------------------------------------------------------------------
(* New bundles, clones, and the way to a plan.                             *)

(* A new bundle is in no list.                                             *)
LEMMA NewBundleIdle ==
  ASSUME NEW k \in Key, NEW p \in Plan \union {None}
  PROVE  /\ NewBundle(k, p) \in Bundles /\ Idle(NewBundle(k, p))
         /\ Fit(NewBundle(k, p)) /\ NewBundle(k, p).key = k
BY ObjNames DEF NewBundle, Bundles, Idle, Fit

(* A new bundle of the key k comes, and is in a list.                      *)
Comes(d, e, k) ==
  /\ Tends(d, e, k)
  /\ Malloc(d) \in Obj /\ Copies(e, k) = Copies(d, k) \union {Malloc(d)}
  /\ Placed(e.bundle[Malloc(d)])

(* A bundle that an application sends.                                     *)
LEMMA SendComes ==
  ASSUME NEW d, Good(d), HasRoom(d, 1), NEW k \in Key
  PROVE  Comes(d, ForwardBundle(AddBundle(d, NewBundle(k, None)), Malloc(d)), k)
<1> DEFINE b == NewBundle(k, None)
           o == Malloc(d)
           e1 == AddBundle(d, b)
           e2 == ForwardBundle(e1, o)
           b2 == [b EXCEPT !.fwdQueueElt = TRUE]
<1>1. b \in Bundles /\ Idle(b) /\ Fit(b) /\ b.key = k
  BY NewBundleIdle
<1> HIDE DEF b
<1>2. Adds(d, e1, o, b)
  BY <1>1, AddBundleStep, GoodParts
<1> HIDE DEF e1, o
<1>3. /\ Tends(d, e1, k) /\ Copies(e1, k) = Copies(d, k) \union {o}
      /\ e1.bundle[o] = b /\ o \in Live(e1) /\ o \in Obj
  BY <1>1, <1>2, AddTends
<1>4. Good(e1) /\ Sound(e1)
  BY <1>3, GoodParts DEF Tends
<1>5. Becomes(e1, e2, o, b2)
  BY <1>1, <1>3, <1>4, ForwardBundleStep DEF Idle
<1> HIDE DEF e2
<1>6. Fit(b2) /\ b2.key = k /\ Placed(b2)
  BY <1>1 DEF Fit, Idle, Bundles, Placed
<1>7. e2.bundle[o] = b2
  BY <1>3, <1>4, <1>5, BecomesLive
<1> HIDE DEF b2
<1>8. Tends(e1, e2, k) /\ Copies(e2, k) = Copies(e1, k)
  BY <1>3, <1>4, <1>5, <1>6, BecomesTends
<1>9. Tends(d, e2, k)
  BY <1>3, <1>8, TendsTwice
<1>10. Comes(d, e2, k)
  BY <1>3, <1>6, <1>7, <1>8, <1>9 DEF Comes, o
<1> QED BY <1>10 DEF e2, e1, b, o

(* A bundle that a neighbour passes on.                                    *)
LEMMA ReceiveComes ==
  ASSUME NEW d, Good(d), HasRoom(d, 1), NEW k \in Key, NEW p \in Plan
  PROVE  Comes(d, InTransit(AddBundle(d, NewBundle(k, p)), Malloc(d)), k)
<1> DEFINE b == NewBundle(k, p)
           o == Malloc(d)
           e1 == AddBundle(d, b)
           e2 == InTransit(e1, o)
           b2 == [b EXCEPT !.transitElt = TRUE]
<1>1. b \in Bundles /\ Idle(b) /\ Fit(b) /\ b.key = k
  BY NewBundleIdle
<1> HIDE DEF b
<1>2. Adds(d, e1, o, b)
  BY <1>1, AddBundleStep, GoodParts
<1> HIDE DEF e1, o
<1>3. /\ Tends(d, e1, k) /\ Copies(e1, k) = Copies(d, k) \union {o}
      /\ e1.bundle[o] = b /\ o \in Live(e1) /\ o \in Obj
  BY <1>1, <1>2, AddTends
<1>4. Good(e1) /\ Sound(e1)
  BY <1>3, GoodParts DEF Tends
<1>5. Becomes(e1, e2, o, b2)
  BY <1>1, <1>3, <1>4, JoinTransitStep DEF Idle
<1> HIDE DEF e2
<1>6. Fit(b2) /\ b2.key = k /\ Placed(b2)
  BY <1>1 DEF Fit, Idle, Bundles, Placed
<1>7. e2.bundle[o] = b2
  BY <1>3, <1>4, <1>5, BecomesLive
<1> HIDE DEF b2
<1>8. Tends(e1, e2, k) /\ Copies(e2, k) = Copies(e1, k)
  BY <1>3, <1>4, <1>5, <1>6, BecomesTends
<1>9. Tends(d, e2, k)
  BY <1>3, <1>8, TendsTwice
<1>10. Comes(d, e2, k)
  BY <1>3, <1>6, <1>7, <1>8, <1>9 DEF Comes, o
<1> QED BY <1>10 DEF e2, e1, b, o

(* A clone is in no list.                                                  *)
CloneOf(b) ==
  [b EXCEPT !.fwdQueueElt = FALSE, !.planXmitElt = None,
            !.ductXmitElt = None, !.overdueElt = None]

(* Cloning a bundle adds one.                                              *)
LEMMA BpCloneStep ==
  ASSUME NEW d, Good(d), HasRoom(d, 1), NEW o \in Live(d), ~d.bundle[o].transitElt
  PROVE  /\ Adds(d, BpClone(d, o), Malloc(d), CloneOf(d.bundle[o]))
         /\ CloneOf(d.bundle[o]).key = d.bundle[o].key
         /\ Idle(CloneOf(d.bundle[o])) /\ Fit(CloneOf(d.bundle[o]))
         /\ CloneOf(d.bundle[o]) \in Bundles
<1> DEFINE c == CloneOf(d.bundle[o])
<1>1. d.bundle[o] \in Bundles /\ Sound(d)
  BY GoodParts
<1>2. c \in Bundles /\ c.key = d.bundle[o].key /\ Idle(c) /\ Fit(c)
  BY <1>1, ObjNames DEF CloneOf, Bundles, Idle, Fit
<1>3. BpClone(d, o) = AddBundle(d, c)
  BY DEF BpClone, CloneOf
<1> HIDE DEF c
<1>4. Adds(d, BpClone(d, o), Malloc(d), c)
  BY <1>1, <1>2, <1>3, AddBundleStep
<1> QED BY <1>2, <1>4 DEF c

(* A bundle is enqueued for a plan.                                        *)
LEMMA EntryTends ==
  ASSUME NEW d, Good(d), NEW o \in Live(d), Idle(d.bundle[o]), NEW p \in Plan
  PROVE  LET e == EnqueueToEntryNode(d, o, p)
             k == d.bundle[o].key
         IN  /\ Tends(d, e, k) /\ Copies(e, k) = Copies(d, k) /\ o \in Copies(d, k)
             /\ Live(e) = Live(d) /\ e.bundle[o].key = k
             /\ e.bundle[o].dlvConfidence = Confidence(d.bundle[o].dlvConfidence, p)
             /\ e.bundle[o].planXmitElt = p /\ e.bundle[o].ductXmitElt = None
             /\ ~e.bundle[o].transitElt /\ ~e.bundle[o].fwdQueueElt
             /\ \A x \in Obj : x # o => e.bundle[x] = d.bundle[x]
<1> DEFINE e == EnqueueToEntryNode(d, o, p)
           b == d.bundle[o]
<1>1. Sound(d) /\ d \in Dbs /\ b \in Bundles /\ Fit(b)
  BY GoodParts
<1>2. PICK t \in Nat, c \in 0..2, x \in Plan \union {Due, None} :
        /\ c = Confidence(b.dlvConfidence, p)
        /\ x = IF IsCritical(d, o) THEN b.overdueElt ELSE p
        /\ Becomes(d, e, o, [b EXCEPT !.planXmitElt = p, !.enqueueTime = t,
                                      !.dlvConfidence = c, !.overdueElt = x])
  <2>1. Sound(d) /\ d.bundle[o].planXmitElt = None
    BY <1>1 DEF Idle
  <2>2. Enters(d, e, o, p)
    BY <2>1, EnqueueToEntryNodeStep
  <2> HIDE DEF e
  <2> QED BY <2>2 DEF Enters
<1> DEFINE b1 == [b EXCEPT !.planXmitElt = p, !.enqueueTime = t,
                           !.dlvConfidence = c, !.overdueElt = x]
<1> HIDE DEF e
<1>3. Becomes(d, e, o, b1)
  BY <1>2
<1>4. /\ b1.key = b.key /\ b1.dlvConfidence = c /\ b1.planXmitElt = p
      /\ b1.ductXmitElt = None /\ ~b1.transitElt /\ ~b1.fwdQueueElt
      /\ b1.overdueElt = x
  BY <1>1 DEF Bundles, Idle
<1>5. Fit(b1)
  <2>1. x # None => b.key \notin Critical
    BY <1>1, <1>2 DEF Fit, IsCritical
  <2> QED BY <1>4, <2>1, ObjNames DEF Fit
<1> HIDE DEF b1
<1>6. Live(e) = Live(d) /\ e.bundle[o] = b1
  BY <1>1, <1>3, BecomesLive
<1>7. \A y \in Obj : y # o => e.bundle[y] = d.bundle[y]
  BY <1>1, <1>3, BecomesElse
<1>8. Tends(d, e, b.key) /\ Copies(e, b.key) = Copies(d, b.key) /\ o \in Copies(d, b.key)
  BY <1>3, <1>4, <1>5, BecomesTends
<1> QED BY <1>2, <1>4, <1>6, <1>7, <1>8 DEF e

-----------------------------------------------------------------------------
(* Bundles that are not critical: to the best route.                       *)

(* A bundle that was taken from the forwarder has been sent on its way.    *)
Routed(d, e, o, k) ==
  /\ Tends(d, e, k) /\ Copies(d, k) \subseteq Copies(e, k)
  /\ k \notin Critical => \A x \in Copies(e, k) :
       \/ Placed(e.bundle[x])
       \/ (x \in Copies(d, k) \ {o} /\ e.bundle[x] = d.bundle[x])

(* A bundle goes to its best route, a copy for later to limbo.             *)
LEMMA SendToBestRouteStep ==
  ASSUME NEW d, Good(d), NEW o \in Live(d), Idle(d.bundle[o]), ~IsCritical(d, o),
         NEW p \in Plan, HasRoom(d, 2 - Confidence(d.bundle[o].dlvConfidence, p))
  PROVE  Routed(d, SendToBestRoute(d, o, p), o, d.bundle[o].key)
<1> DEFINE e == EnqueueToEntryNode(d, o, p)
           k == d.bundle[o].key
           m == Malloc(e)
<1>1. /\ Tends(d, e, k) /\ Copies(e, k) = Copies(d, k) /\ o \in Copies(d, k)
      /\ Live(e) = Live(d) /\ e.bundle[o].key = k
      /\ e.bundle[o].dlvConfidence = Confidence(d.bundle[o].dlvConfidence, p)
      /\ e.bundle[o].planXmitElt = p /\ ~e.bundle[o].transitElt
      /\ \A x \in Obj : x # o => e.bundle[x] = d.bundle[x]
  BY EntryTends
<1>2. SendToBestRoute(d, o, p)
        = IF e.bundle[o].dlvConfidence = 2 THEN e ELSE EnqueueToLimbo(BpClone(e, o), m)
  BY DEF SendToBestRoute
<1> HIDE DEF e
<1>3. Good(e) /\ Live(d) \subseteq Obj
  BY <1>1, GoodParts DEF Tends
<1>4. Placed(e.bundle[o])
  BY <1>1, ObjNames DEF Placed
<1>5. \A x \in Copies(e, k) : Placed(e.bundle[x]) \/ (x \in Copies(d, k) \ {o} /\ e.bundle[x] = d.bundle[x])
  <2> SUFFICES ASSUME NEW x \in Copies(e, k), x # o
               PROVE  x \in Copies(d, k) \ {o} /\ e.bundle[x] = d.bundle[x]
    BY <1>4
  <2>1. x \in Copies(d, k) \ {o}
    BY <1>1
  <2>2. x \in Obj
    BY <1>3, <2>1, CopiesType
  <2> QED BY <1>1, <2>1, <2>2
<1>6. CASE e.bundle[o].dlvConfidence = 2
  <2>1. Routed(d, e, o, k)
    BY <1>1, <1>5 DEF Routed
  <2> QED BY <1>2, <1>6, <2>1
<1>7. CASE e.bundle[o].dlvConfidence # 2
  <2> DEFINE f == BpClone(e, o)
             c == CloneOf(e.bundle[o])
             c2 == [c EXCEPT !.planXmitElt = Limbo]
             g == EnqueueToLimbo(f, m)
  <2>1. HasRoom(e, 1)
    BY <1>1, <1>7, LiveFinite DEF HasRoom, Confidence
  <2>2. /\ Adds(e, f, m, c) /\ c.key = k /\ Idle(c) /\ Fit(c) /\ c \in Bundles
    BY <1>1, <1>3, <2>1, BpCloneStep
  <2> HIDE DEF f, m, c
  <2>3. /\ Tends(e, f, k) /\ Copies(f, k) = Copies(e, k) \union {m}
        /\ f.bundle[m] = c /\ m \in Live(f) /\ m \in Obj \ Live(e)
        /\ \A x \in Live(e) : x \in Live(f) /\ f.bundle[x] = e.bundle[x]
    BY <1>3, <2>2, AddTends
  <2>4. Good(f) /\ Sound(f)
    BY <2>3, GoodParts DEF Tends
  <2>5. ~IsCritical(f, m) /\ f.bundle[m].planXmitElt = None
    BY <2>2, <2>3 DEF IsCritical, Idle
  <2>6. Becomes(f, g, m, c2)
    BY <2>3, <2>4, <2>5, EnqueueToLimboStep
  <2> HIDE DEF g
  <2>7. Fit(c2) /\ c2.key = k /\ Placed(c2)
    BY <2>2, ObjNames DEF Fit, Idle, Bundles, Placed
  <2> HIDE DEF c2
  <2>8. Tends(f, g, k) /\ Copies(g, k) = Copies(f, k)
    BY <2>3, <2>4, <2>6, <2>7, BecomesTends
  <2>9. g.bundle[m] = c2
    BY <2>3, <2>4, <2>6, BecomesLive
  <2>10. \A x \in Obj : x # m => g.bundle[x] = f.bundle[x]
    BY <2>3, <2>4, <2>6, BecomesElse
  <2>11. Tends(d, g, k)
    <3>1. Tends(d, f, k)
      BY <1>1, <2>3, TendsTwice
    <3> QED BY <2>8, <3>1, TendsTwice
  <2>12. ASSUME NEW x \in Copies(g, k)
         PROVE  Placed(g.bundle[x]) \/ (x \in Copies(d, k) \ {o} /\ g.bundle[x] = d.bundle[x])
    <3>1. CASE x = m
      <4>1. Placed(g.bundle[m])
        BY <2>7, <2>9
      <4> QED BY <3>1, <4>1
    <3>2. CASE x # m
      <4>1. x \in Copies(e, k) /\ x \in Live(e) /\ x \in Obj
        BY <1>1, <1>3, <2>3, <2>8, <3>2, CopiesType
      <4>2. g.bundle[x] = e.bundle[x]
        BY <2>3, <2>10, <3>2, <4>1
      <4> QED BY <1>5, <4>1, <4>2
    <3> QED BY <3>1, <3>2
  <2>13. Copies(d, k) \subseteq Copies(g, k)
    BY <1>1, <2>3, <2>8
  <2>14. Routed(d, g, o, k)
    BY <2>11, <2>12, <2>13 DEF Routed
  <2> QED BY <1>2, <1>7, <2>14 DEF f, g
<1> QED BY <1>6, <1>7

-----------------------------------------------------------------------------
(* A list of routes.                                                       *)
LEMMA RoutesListed ==
  ASSUME NEW S \in SUBSET Plan
  PROVE  /\ IsFiniteSet(S) /\ Cardinality(S) \in Nat
         /\ S # {} => Cardinality(S) > 0
         /\ Len(SetToSeq(S)) = Cardinality(S)
         /\ DOMAIN SetToSeq(S) = 1..Cardinality(S)
         /\ \A i \in 1..Cardinality(S) : SetToSeq(S)[i] \in Plan
<1> DEFINE n == Cardinality(S)
           F == [1..n -> S]
           q == SetToSeq(S)
<1>1. IsFiniteSet(S) /\ n \in Nat /\ (S # {} => n > 0)
  BY BpAssumption, FS_Subset, FS_CardinalityType, FS_EmptySet
<1>2. ExistsBijection(1..n, S)
  BY <1>1, FS_CardinalityType
<1>3. \E f \in F : IsInjective(f)
  BY <1>2 DEF ExistsBijection, Bijection, Injection, IsInjective
<1>4. q \in F
  <2>1. q = CHOOSE f \in F : IsInjective(f)
    BY Zenon DEF SetToSeq
  <2> HIDE DEF F, q
  <2> QED BY <1>3, <2>1
<1> HIDE DEF q, n
<1>5. Len(q) = n /\ DOMAIN q = 1..n /\ \A i \in 1..n : q[i] \in S
  BY <1>1, <1>4, LenProperties
<1> QED BY <1>1, <1>5 DEF q, n

-----------------------------------------------------------------------------
(* Critical bundles: to all routes.                                        *)

(* The critical bundle r.o of the key k is being sent to one plan after    *)
(* the other.                                                              *)
Sending(r, k) ==
  /\ r = [d |-> r.d, o |-> r.o]
  /\ Good(r.d) /\ r.o \in Live(r.d) /\ k \in Critical
  /\ r.d.bundle[r.o].key = k
  /\ ~r.d.bundle[r.o].transitElt /\ ~r.d.bundle[r.o].fwdQueueElt
  /\ r.d.bundle[r.o].ductXmitElt = None

Continues(r, r2, k) ==
  /\ Sending(r2, k) /\ Tends(r.d, r2.d, k) /\ Copies(r.d, k) \subseteq Copies(r2.d, k)
  /\ r2.d.bundle[r2.o].planXmitElt # None
  /\ Cardinality(Live(r2.d))
       = Cardinality(Live(r.d)) + IF r.d.bundle[r.o].planXmitElt = None THEN 0 ELSE 1

(* The next plan gets the bundle or a clone of it.                         *)
LEMMA SendToStep ==
  ASSUME NEW r, NEW k, Sending(r, k), NEW p \in Plan,
         r.d.bundle[r.o].planXmitElt = None \/ HasRoom(r.d, 1)
  PROVE  Continues(r, SendTo(r, p), k)
<1> DEFINE d == r.d
           o == r.o
           b == d.bundle[o]
<1>1. /\ r = [d |-> d, o |-> o] /\ Good(d) /\ o \in Live(d) /\ b.key = k /\ k \in Critical
      /\ ~b.transitElt /\ ~b.fwdQueueElt /\ b.ductXmitElt = None
  BY DEF Sending
<1>2. Cardinality(Live(d)) \in Nat
  BY LiveFinite
<1>3. CASE b.planXmitElt = None
  <2> DEFINE e == EnqueueToEntryNode(d, o, p)
  <2>1. SendTo(r, p) = [d |-> e, o |-> o]
    <3>1. SendTo(r, p) = [r EXCEPT !.d = e]
      BY <1>3 DEF SendTo
    <3> HIDE DEF e, d, o
    <3> QED BY <1>1, <3>1
  <2>2. Idle(b)
    BY <1>1, <1>3 DEF Idle
  <2>3. /\ Tends(d, e, k) /\ Copies(e, k) = Copies(d, k) /\ Live(e) = Live(d)
        /\ e.bundle[o].key = k /\ e.bundle[o].planXmitElt = p
        /\ e.bundle[o].ductXmitElt = None
        /\ ~e.bundle[o].transitElt /\ ~e.bundle[o].fwdQueueElt
    <3> HIDE DEF d, o
    <3> QED BY <1>1, <2>2, EntryTends
  <2> HIDE DEF e
  <2>4. Good(e)
    BY <2>3 DEF Tends
  <2>5. Sending([d |-> e, o |-> o], k)
    BY <1>1, <2>3, <2>4 DEF Sending
  <2> QED BY <1>1, <1>2, <1>3, <2>1, <2>3, <2>5, ObjNames DEF Continues
<1>4. CASE b.planXmitElt # None
  <2> DEFINE m == Malloc(d)
             e == BpClone(d, o)
             c == CloneOf(b)
             f == EnqueueToEntryNode(e, m, p)
  <2>1. SendTo(r, p) = [d |-> f, o |-> m]
    BY <1>4 DEF SendTo
  <2> HIDE DEF d, o
  <2>2. HasRoom(d, 1)
    BY <1>4 DEF d, o
  <2>3. /\ Adds(d, e, m, c) /\ c.key = k /\ Idle(c) /\ Fit(c)
    BY <1>1, <2>2, BpCloneStep
  <2> HIDE DEF e, m, c
  <2>4. /\ Tends(d, e, k) /\ Copies(e, k) = Copies(d, k) \union {m}
        /\ e.bundle[m] = c /\ m \in Live(e)
    BY <1>1, <2>3, AddTends
  <2>5. Cardinality(Live(e)) = Cardinality(Live(d)) + 1
    BY <2>3 DEF Adds
  <2>6. Good(e)
    BY <2>4 DEF Tends
  <2>7. /\ Tends(e, f, k) /\ Copies(f, k) = Copies(e, k) /\ Live(f) = Live(e)
        /\ f.bundle[m].key = k /\ f.bundle[m].planXmitElt = p
        /\ f.bundle[m].ductXmitElt = None
        /\ ~f.bundle[m].transitElt /\ ~f.bundle[m].fwdQueueElt
    BY <2>3, <2>4, <2>6, EntryTends
  <2> HIDE DEF f
  <2>8. Good(f) /\ Tends(d, f, k)
    BY <2>4, <2>7, TendsTwice DEF Tends
  <2>9. Sending([d |-> f, o |-> m], k)
    BY <1>1, <2>4, <2>7, <2>8 DEF Sending
  <2>10. Copies(d, k) \subseteq Copies(f, k) /\ f.bundle[m].planXmitElt # None
    BY <2>4, <2>7, ObjNames
  <2>11. Continues(r, [d |-> f, o |-> m], k)
    BY <1>1, <1>4, <2>5, <2>7, <2>8, <2>9, <2>10 DEF Continues, d, o
  <2> QED BY <2>1, <2>11 DEF f, m, e, c
<1> QED BY <1>3, <1>4

(* What the fold has done after i routes.                                  *)
Sent(d, r, i, k) ==
  /\ Sending(r, k)
  /\ i = 0 => /\ r.d = d /\ r.d.bundle[r.o].planXmitElt = None
  /\ i > 0 => /\ r.d.bundle[r.o].planXmitElt # None
              /\ Tends(d, r.d, k) /\ Copies(d, k) \subseteq Copies(r.d, k)
              /\ Cardinality(Live(r.d)) = Cardinality(Live(d)) + i - 1

(* All plans of a list get one, and there is room for all.                 *)
LEMMA SendToFold ==
  ASSUME NEW d, NEW o \in Live(d), Good(d), Idle(d.bundle[o]), NEW k \in Critical,
         d.bundle[o].key = k, NEW q, Len(q) \in Nat, \A i \in 1..Len(q) : q[i] \in Plan,
         HasRoom(d, Len(q)), NEW f, FoldRuns(3, [d |-> d, o |-> o], q, f)
  PROVE  Sent(d, f[Len(q)], Len(q), k)
<1> DEFINE n == Len(q)
           r0 == [d |-> d, o |-> o]
           B == {i \in Nat : i <= n => Sent(d, f[i], i, k)}
<1>1. Cardinality(Live(d)) \in Nat /\ N \in Nat /\ n \in Nat
  BY LiveFinite, ObjNames
<1>2. 0 \in B
  <2>1. f[0] = r0
    BY DEF FoldRuns
  <2>2. Sending(r0, k) /\ r0.d = d /\ r0.d.bundle[r0.o].planXmitElt = None
    BY DEF Sending, Idle
  <2>3. Sent(d, r0, 0, k)
    <3> HIDE DEF r0
    <3> QED BY <2>2 DEF Sent
  <2> QED BY <2>1, <2>3
<1>3. ASSUME NEW i \in Nat, i \in B PROVE i + 1 \in B
  <2> SUFFICES ASSUME i + 1 <= n PROVE Sent(d, f[i + 1], i + 1, k)
    OBVIOUS
  <2> DEFINE r == f[i]
             r2 == f[i + 1]
  <2>1. i <= n /\ i \in 0..(n - 1) /\ i + 1 \in 1..n
    BY <1>1
  <2>2. Sent(d, r, i, k)
    BY <1>3, <2>1
  <2>3. r2 = SendTo(r, q[i + 1])
    BY <2>1 DEF FoldRuns, FoldStep
  <2> HIDE DEF r, r2
  <2>4. r.d.bundle[r.o].planXmitElt = None \/ HasRoom(r.d, 1)
    BY <1>1, <2>1, <2>2 DEF Sent, HasRoom
  <2>5. Continues(r, r2, k)
    <3>1. Sending(r, k) /\ q[i + 1] \in Plan
      BY <2>1, <2>2 DEF Sent
    <3> QED BY <2>3, <2>4, <3>1, SendToStep
  <2>6. CASE i = 0
    <3>1. r.d = d /\ r.d.bundle[r.o].planXmitElt = None
      BY <2>2, <2>6 DEF Sent
    <3> QED BY <1>1, <2>5, <2>6, <3>1 DEF Sent, Continues, r2
  <2>7. CASE i > 0
    <3>1. /\ r.d.bundle[r.o].planXmitElt # None
          /\ Tends(d, r.d, k) /\ Copies(d, k) \subseteq Copies(r.d, k)
          /\ Cardinality(Live(r.d)) = Cardinality(Live(d)) + i - 1
      BY <2>2, <2>7 DEF Sent
    <3>2. /\ Sending(r2, k) /\ Tends(r.d, r2.d, k) /\ Copies(r.d, k) \subseteq Copies(r2.d, k)
          /\ r2.d.bundle[r2.o].planXmitElt # None
          /\ Cardinality(Live(r2.d)) = Cardinality(Live(r.d)) + 1
      BY <2>5, <3>1 DEF Continues
    <3>3. Tends(d, r2.d, k)
      BY <3>1, <3>2, TendsTwice
    <3> QED BY <1>1, <2>7, <3>1, <3>2, <3>3 DEF Sent, r2
  <2> QED BY <2>6, <2>7
<1> HIDE DEF B
<1>4. n \in B
  BY <1>1, <1>2, <1>3, SetInduction
<1> QED BY <1>1, <1>4 DEF B

(* A critical bundle goes to all routes.                                   *)
LEMMA SendCriticalBundleStep ==
  ASSUME NEW d, Good(d), NEW o \in Live(d), Idle(d.bundle[o]), IsCritical(d, o),
         NEW S \in SUBSET Plan, S # {}, HasRoom(d, Cardinality(S))
  PROVE  Routed(d, SendCriticalBundle(d, o, S), o, d.bundle[o].key)
<1> DEFINE k == d.bundle[o].key
           q == SetToSeq(S)
           n == Cardinality(S)
           r0 == [d |-> d, o |-> o]
           last == FoldLeft(SendTo, r0, q)
           e == BpClone(last.d, last.o)
           m == Malloc(last.d)
<1>1. /\ n \in Nat /\ n > 0 /\ Len(q) = n /\ DOMAIN q = 1..n
      /\ \A i \in 1..n : q[i] \in Plan
  BY RoutesListed
<1>2. k \in Critical
  BY DEF IsCritical
<1>3. SendCriticalBundle(d, o, S)
        = IF last.d.bundle[last.o].dlvConfidence = 2 THEN last.d ELSE EnqueueToLimbo(e, m)
  BY DEF SendCriticalBundle
<1> HIDE DEF q, n
<1>4. PICK f : FoldRuns(3, r0, q, f) /\ last = f[Len(q)]
  BY <1>1, FoldOfSends
<1> HIDE DEF last
<1>5. Sent(d, last, n, k)
  <2>1. HasRoom(d, Len(q))
    BY <1>1 DEF n
  <2> QED BY <1>1, <1>2, <1>4, <2>1, SendToFold
<1>6. /\ Sending(last, k) /\ Tends(d, last.d, k) /\ Copies(d, k) \subseteq Copies(last.d, k)
      /\ Cardinality(Live(last.d)) = Cardinality(Live(d)) + n - 1
  BY <1>1, <1>5 DEF Sent
<1>7. CASE last.d.bundle[last.o].dlvConfidence = 2
  <2>1. Routed(d, last.d, o, k)
    BY <1>2, <1>6 DEF Routed
  <2> QED BY <1>3, <1>7, <2>1
<1>8. CASE last.d.bundle[last.o].dlvConfidence # 2
  <2> DEFINE x == last.d
             y == last.o
             c == CloneOf(x.bundle[y])
  <2>1. Good(x) /\ y \in Live(x) /\ ~x.bundle[y].transitElt /\ x.bundle[y].key = k
    BY <1>6 DEF Sending
  <2>2. HasRoom(x, 1)
    <3>1. HasRoom(d, n) /\ Cardinality(Live(d)) \in Nat /\ N \in Nat
      BY LiveFinite, ObjNames DEF n
    <3> QED BY <1>1, <1>6, <3>1 DEF HasRoom
  <2> HIDE DEF x, y
  <2>3. Adds(x, BpClone(x, y), Malloc(x), c) /\ c.key = k /\ Fit(c)
    BY <2>1, <2>2, BpCloneStep
  <2> HIDE DEF c
  <2>4. /\ Tends(x, BpClone(x, y), k)
        /\ Copies(BpClone(x, y), k) = Copies(x, k) \union {Malloc(x)}
        /\ BpClone(x, y).bundle[Malloc(x)] = c
    BY <2>1, <2>3, AddTends
  <2>5. Tends(x, e, k) /\ Copies(x, k) \subseteq Copies(e, k) /\ e.bundle[m] = c
    BY <2>4 DEF x, y
  <2> HIDE DEF e, m
  <2>6. EnqueueToLimbo(e, m) = e
    BY <1>2, <2>3, <2>5 DEF EnqueueToLimbo, IsCritical
  <2>7. Tends(d, e, k)
    BY <1>6, <2>5, TendsTwice DEF x
  <2>8. Routed(d, e, o, k)
    BY <1>2, <1>6, <2>5, <2>7 DEF Routed, x
  <2> QED BY <1>3, <1>8, <2>6, <2>8
<1> QED BY <1>7, <1>8

-----------------------------------------------------------------------------
(* The invariant, and bundles that come.                                   *)

(* A key without a steward, whose bundles are in lists.                    *)
Loose(e, s, nw, us, ex, xc, k) ==
  /\ \A t \in s : t.key = k => ~t.steward /\ ~t.arrived
  /\ k \notin us
  /\ Somewhere(e, s, nw, us, ex, xc, k)
  /\ k \notin Critical => \A o \in Copies(e, k) : Placed(e.bundle[o])

(* Such a key is in order.                                                 *)
LEMMA LooseOK ==
  ASSUME NEW e, NEW s, NEW nw, NEW us, NEW ex, NEW xc, NEW k,
         Loose(e, s, nw, us, ex, xc, k)
  PROVE  KeyOK(e, s, nw, us, ex, xc, k)
BY DEF Loose, KeyOK, Stewarded, Tended, Unborn

(* All that is true of the bundles and their keys.                         *)
Whole(d, s, nw, us, ex, xc) ==
  Good(d) /\ \A k \in Key : KeyOK(d, s, nw, us, ex, xc, k)

(* The other keys than k are not touched.                                  *)
Apart(k, s, nw, us, ex, xc, s2, nw2, us2, ex2, xc2) ==
  \A j \in Key : j # k =>
    /\ \A t \in s : t.key = j => t \in s2
    /\ \A t \in s2 : t.key = j => t \in s
    /\ nw2[j] = nw[j] /\ (j \in us2 <=> j \in us)
    /\ j \in ex => j \in ex2
    /\ j \in xc => j \in xc2

(* A move keeps what is true of every key.                                 *)
LEMMA MovesWhole ==
  ASSUME NEW d, NEW e, NEW s, NEW nw, NEW us, NEW ex, NEW xc,
         Whole(d, s, nw, us, ex, xc), Moves(d, e)
  PROVE  Whole(e, s, nw, us, ex, xc)
<1>1. Good(e)
  BY DEF Moves
<1>2. ASSUME NEW k \in Key PROVE KeyOK(e, s, nw, us, ex, xc, k)
  <2>1. KeyOK(d, s, nw, us, ex, xc, k)
    BY DEF Whole
  <2> QED BY <2>1, KeyMoves
<1> QED BY <1>1, <1>2 DEF Whole

(* A step that has to do with one key keeps what is true of the others.    *)
LEMMA TendsWhole ==
  ASSUME NEW d, NEW e, NEW s, NEW nw, NEW us, NEW ex, NEW xc,
         Whole(d, s, nw, us, ex, xc), NEW k, Tends(d, e, k),
         NEW s2, NEW nw2, NEW us2, NEW ex2, NEW xc2,
         Apart(k, s, nw, us, ex, xc, s2, nw2, us2, ex2, xc2),
         KeyOK(e, s2, nw2, us2, ex2, xc2, k)
  PROVE  Whole(e, s2, nw2, us2, ex2, xc2)
<1>1. Good(e)
  BY DEF Tends
<1>2. ASSUME NEW j \in Key, j # k PROVE KeyOK(e, s2, nw2, us2, ex2, xc2, j)
  <2>1. KeyOK(d, s, nw, us, ex, xc, j)
    BY DEF Whole
  <2>2. /\ \A t \in s : t.key = j => t \in s2
        /\ \A t \in s2 : t.key = j => t \in s
        /\ nw2[j] = nw[j] /\ (j \in us2 <=> j \in us)
        /\ (j \in ex => j \in ex2) /\ (j \in xc => j \in xc2)
    BY <1>2 DEF Apart
  <2> QED BY <1>2, <2>1, <2>2, KeyOther
<1> QED BY <1>1, <1>2 DEF Whole

(* Nothing happens.                                                        *)
LEMMA TendsSame ==
  ASSUME NEW d, Good(d), NEW k
  PROVE  Tends(d, d, k)
BY DEF Tends

(* The rest of the state.                                                  *)
Transmissions ==
  [key : Key, plan : Plan, obj : Obj, steward : BOOLEAN, arrived : BOOLEAN]

RestOK ==
  /\ open \subseteq Plan /\ left \in [Plan -> Nat]
  /\ blocked \subseteq Plan /\ clm \in [Plan -> {"checks", "waits"}]
  /\ candidate \in Obj \union {None}
  /\ sent \subseteq Transmissions
  /\ network \in [Key -> SUBSET Plan]
  /\ unsent \subseteq Source /\ expired \subseteq Mortal
  /\ excused \subseteq Key
  /\ faults \in 0..MaxFaults /\ receipts \in 0..MaxReceipts

AllWhole == Whole(db, sent, network, unsent, expired, excused)

Inv == RestOK /\ AllWhole

-----------------------------------------------------------------------------
(* At the start there is no bundle.                                        *)
LEMMA InitInv ==
  ASSUME Init
  PROVE  Inv
<1>1. RestOK
  BY BpAssumption DEF Init, RestOK
<1>2. /\ db.bundle = [o \in Obj |-> None] /\ db.hash = [k \in Key |-> [obj |-> 0, count |-> 0]]
      /\ db.transit = <<>> /\ db.forward = <<>> /\ db.limbo = <<>>
      /\ db.queue = [p \in Plan |-> <<>>] /\ db.buffer = [p \in Plan |-> <<>>]
  BY DEF Init
<1>3. Live(db) = {} /\ \A k : Copies(db, k) = {}
  BY <1>2 DEF Live, Copies
<1>4. db \in Dbs
  <2>1. <<>> \in Seq(Obj)
    OBVIOUS
  <2>2. [k \in Key |-> [obj |-> 0, count |-> 0]] \in [Key -> [obj : Obj \union {0}, count : Nat]]
    OBVIOUS
  <2> QED BY <2>1, <2>2 DEF Init, Dbs
<1>5. ListsMatch(db)
  <2>1. /\ TransitSet(db) = {} /\ ForwardSet(db) = {}
        /\ \A x : PlanSet(db, x) = {} /\ DuctSet(db, x) = {}
    BY <1>3 DEF TransitSet, ForwardSet, PlanSet, DuctSet
  <2> QED BY <1>2, <2>1, NoneEnumerated DEF ListsMatch
<1>6. Catalogued(db)
  <2>1. \A k \in Key : db.hash[k].obj = 0 /\ db.hash[k].count = 0
    BY <1>2
  <2>2. Cardinality({}) = 0
    BY FS_EmptySet
  <2> QED BY <1>3, <2>1, <2>2 DEF Catalogued
<1>7. \A p \in Plan : Ordered(db.queue[p], db.bundle)
  BY <1>2 DEF Ordered
<1>8. Good(db)
  BY <1>3, <1>4, <1>5, <1>6, <1>7 DEF Good, Sound
<1>9. ASSUME NEW k \in Key PROVE KeyOK(db, sent, network, unsent, expired, excused, k)
  <2>1. sent = {} /\ unsent = Source /\ (network[k] = {} <=> k \in Source)
    BY DEF Init
  <2> QED BY <1>3, <2>1 DEF KeyOK, Stewarded, Tended, Unborn, Somewhere
<1>10. AllWhole
  BY <1>8, <1>9 DEF Whole, AllWhole
<1> QED BY <1>1, <1>10 DEF Inv

(* An action that takes bundles from list to list.                         *)
LEMMA MovesInv ==
  ASSUME Inv, Moves(db, db'), RestOK',
         UNCHANGED <<sent, network, unsent, expired, excused>>
  PROVE  Inv'
<1>1. Whole(db, sent, network, unsent, expired, excused)
  BY DEF Inv, AllWhole
<1>2. Whole(db', sent, network, unsent, expired, excused)
  BY <1>1, MovesWhole
<1> QED BY <1>2 DEF Inv, AllWhole

(* An action that does not touch the bundles.                              *)
LEMMA SameInv ==
  ASSUME Inv, RestOK', UNCHANGED <<db, sent, network, unsent, expired, excused>>
  PROVE  Inv'
BY DEF Inv, AllWhole

(* What the invariant says of the db, its keys and bundles.                *)
LEMMA InvParts ==
  ASSUME Inv
  PROVE  /\ RestOK /\ Good(db) /\ Sound(db) /\ db \in Dbs /\ Live(db) \subseteq Obj
         /\ Whole(db, sent, network, unsent, expired, excused)
         /\ \A k \in Key : KeyOK(db, sent, network, unsent, expired, excused, k)
         /\ \A o \in Live(db) : /\ Fit(db.bundle[o]) /\ db.bundle[o] \in Bundles
                                /\ db.bundle[o].key \in Key
BY GoodParts, BundleType DEF Inv, AllWhole, Whole

-----------------------------------------------------------------------------
(* An application sends a bundle.                                          *)
LEMMA SendInv ==
  ASSUME Inv, NEW k \in Key, Send(k)
  PROVE  Inv'
<1>1. /\ RestOK /\ Good(db) /\ Whole(db, sent, network, unsent, expired, excused)
      /\ KeyOK(db, sent, network, unsent, expired, excused, k)
  BY InvParts
<1>2. /\ HasRoom(db, 1) /\ k \in unsent /\ unsent' = unsent \ {k}
      /\ db' = ForwardBundle(AddBundle(db, NewBundle(k, None)), Malloc(db))
      /\ UNCHANGED <<contacts, blocked, clm, candidate, sent, network, expired,
                     excused, counts>>
  BY DEF Send
<1>3. Comes(db, db', k)
  BY <1>1, <1>2, SendComes
<1>4. Copies(db, k) = {} /\ \A t \in sent : t.key # k
  BY <1>1, <1>2 DEF KeyOK, Unborn
<1>5. /\ Tends(db, db', k) /\ Copies(db', k) = {Malloc(db)}
      /\ Placed(db'.bundle[Malloc(db)])
  BY <1>3, <1>4 DEF Comes
<1>6. Loose(db', sent, network, unsent', expired, excused, k)
  BY <1>2, <1>4, <1>5 DEF Loose, Somewhere
<1>7. KeyOK(db', sent, network, unsent', expired, excused, k)
  BY <1>6, LooseOK
<1>8. Apart(k, sent, network, unsent, expired, excused,
            sent, network, unsent', expired, excused)
  BY <1>2 DEF Apart
<1>9. Whole(db', sent, network, unsent', expired, excused)
  BY <1>1, <1>5, <1>7, <1>8, TendsWhole
<1>10. RestOK'
  BY <1>1, <1>2 DEF RestOK, contacts, counts
<1> QED BY <1>2, <1>9, <1>10 DEF Inv, AllWhole

(* A neighbour passes a bundle on.                                         *)
LEMMA ReceiveInv ==
  ASSUME Inv, NEW k \in Key, NEW p \in Plan, Receive(k, p)
  PROVE  Inv'
<1>1. /\ RestOK /\ Good(db) /\ Whole(db, sent, network, unsent, expired, excused)
      /\ KeyOK(db, sent, network, unsent, expired, excused, k)
  BY InvParts
<1>2. /\ p \in network[k] /\ \A t \in sent : t.key # k
      /\ receipts < MaxReceipts /\ receipts' = receipts + 1
      /\ network' = [network EXCEPT ![k] = @ \ {p}]
      /\ HasRoom(db, IF db.hash[k].count > 0 THEN 0 ELSE 1)
      /\ db' = IF db.hash[k].count > 0 THEN db
               ELSE InTransit(AddBundle(db, NewBundle(k, p)), Malloc(db))
      /\ UNCHANGED <<contacts, blocked, clm, candidate, sent, unsent, expired,
                     excused, faults>>
  BY DEF Receive
<1>3. k \notin unsent
  BY <1>1, <1>2 DEF KeyOK, Unborn
<1>4. /\ db.hash[k].count = Cardinality(Copies(db, k)) /\ IsFiniteSet(Copies(db, k))
      /\ Cardinality(Copies(db, k)) \in Nat
  BY <1>1, LiveFinite DEF Good, Sound, Catalogued
<1>5. /\ Tends(db, db', k) /\ Copies(db', k) # {}
      /\ k \notin Critical => \A o \in Copies(db', k) : Placed(db'.bundle[o])
  <2>1. CASE db.hash[k].count > 0
    <3>1. db' = db /\ Tends(db, db, k)
      BY <1>1, <1>2, <2>1, TendsSame
    <3>2. Copies(db, k) # {}
      BY <1>4, <2>1, FS_EmptySet
    <3>3. k \notin Critical => \A o \in Copies(db, k) : Placed(db.bundle[o])
      BY <1>1, <1>2 DEF KeyOK, Tended
    <3> QED BY <3>1, <3>2, <3>3
  <2>2. CASE ~(db.hash[k].count > 0)
    <3>1. /\ HasRoom(db, 1)
          /\ db' = InTransit(AddBundle(db, NewBundle(k, p)), Malloc(db))
      BY <1>2, <2>2
    <3>2. Comes(db, db', k)
      BY <1>1, <3>1, ReceiveComes
    <3>3. Copies(db, k) = {}
      BY <1>4, <2>2, FS_EmptySet
    <3> QED BY <3>2, <3>3 DEF Comes
  <2> QED BY <2>1, <2>2
<1>6. Loose(db', sent, network', unsent, expired, excused, k)
  BY <1>2, <1>3, <1>5 DEF Loose, Somewhere
<1>7. KeyOK(db', sent, network', unsent, expired, excused, k)
  BY <1>6, LooseOK
<1>8. Apart(k, sent, network, unsent, expired, excused,
            sent, network', unsent, expired, excused)
  BY <1>1, <1>2 DEF Apart, RestOK
<1>9. Whole(db', sent, network', unsent, expired, excused)
  BY <1>1, <1>5, <1>7, <1>8, TendsWhole
<1>10. RestOK'
  <2>1. network' \in [Key -> SUBSET Plan]
    BY <1>1, <1>2 DEF RestOK
  <2>2. receipts' \in 0..MaxReceipts
    BY <1>1, <1>2, BpAssumption DEF RestOK
  <2> QED BY <1>1, <1>2, <2>1, <2>2 DEF RestOK, contacts
<1> QED BY <1>2, <1>9, <1>10 DEF Inv, AllWhole

(* bptransit asks for space.                                               *)
LEMMA TransitRequestInv ==
  ASSUME Inv, TransitRequest
  PROVE  Inv'
<1>1. RestOK /\ Good(db) /\ Sound(db)
  BY InvParts
<1>2. /\ db.transit # <<>> /\ candidate' = Head(db.transit)
      /\ UNCHANGED <<db, contacts, blocked, clm, sent, network, unsent, expired,
                     excused, counts>>
  BY DEF TransitRequest
<1>3. candidate' \in Obj
  <2>1. Enumerates(db.transit, TransitSet(db)) /\ TransitSet(db) \subseteq Obj
    BY <1>1, SoundParts
  <2>2. Head(db.transit) \in TransitSet(db)
    BY <1>2, <2>1, EnumerationType
  <2> QED BY <1>2, <2>1, <2>2
<1>4. RestOK'
  BY <1>1, <1>2, <1>3 DEF RestOK, contacts, counts
<1> QED BY <1>2, <1>4, SameInv

(* bptransit goes on.                                                      *)
LEMMA TransitMoveInv ==
  ASSUME Inv, TransitMove
  PROVE  Inv'
<1>1. RestOK /\ Good(db)
  BY InvParts
<1>2. /\ candidate' = None /\ db' = Moved(db, candidate)
      /\ UNCHANGED <<contacts, blocked, clm, sent, network, unsent, expired,
                     excused, counts>>
  BY DEF TransitMove
<1>3. Moves(db, db')
  BY <1>1, <1>2, MovedMoves
<1>4. RestOK'
  BY <1>1, <1>2 DEF RestOK, contacts, counts
<1> QED BY <1>2, <1>3, <1>4, MovesInv

-----------------------------------------------------------------------------
(* The forwarder and bpclm.                                                *)

(* A bundle is taken from the forwarder.                                   *)
Forwarded(d, e, o, k) ==
  /\ o \in Live(d) /\ d.bundle[o].key = k /\ Placed(d.bundle[o])
  /\ Tends(d, e, k) /\ Copies(e, k) = Copies(d, k) /\ o \in Live(e)
  /\ e.bundle[o].key = k /\ Idle(e.bundle[o])
  /\ \A x \in Obj : x # o => e.bundle[x] = d.bundle[x]

(* What the forwarder has in hand is in no list.                           *)
LEMMA FromForward ==
  ASSUME NEW d, Good(d), d.forward # <<>>
  PROVE  LET o == Head(d.forward)
         IN  Forwarded(d, PurgeFwdQueueElt(d, o), o, d.bundle[o].key)
<1> DEFINE o == Head(d.forward)
           b == d.bundle[o]
           e == PurgeFwdQueueElt(d, o)
           b1 == [b EXCEPT !.fwdQueueElt = FALSE]
<1>1. o \in Live(d) /\ b.fwdQueueElt
  BY HeadOfForward
<1> HIDE DEF o
<1>2. b \in Bundles /\ Fit(b) /\ Sound(d) /\ d \in Dbs
  BY <1>1, GoodParts
<1>3. Becomes(d, e, o, b1)
  BY <1>1, <1>2, PurgeFwdQueueEltStep
<1> HIDE DEF e
<1>4. Fit(b1) /\ Idle(b1) /\ b1.key = b.key /\ Placed(b)
  BY <1>1, <1>2 DEF Fit, Idle, Bundles, Placed
<1> HIDE DEF b1
<1>5. Tends(d, e, b.key) /\ Copies(e, b.key) = Copies(d, b.key)
  BY <1>1, <1>3, <1>4, BecomesTends
<1>6. Live(e) = Live(d) /\ e.bundle[o] = b1
  BY <1>1, <1>2, <1>3, BecomesLive
<1>7. \A x \in Obj : x # o => e.bundle[x] = d.bundle[x]
  BY <1>1, <1>2, <1>3, BecomesElse
<1>8. Forwarded(d, e, o, b.key)
  BY <1>1, <1>4, <1>5, <1>6, <1>7 DEF Forwarded
<1> QED BY <1>8 DEF e, o

(* What the forwarder sends on its way keeps what is true of its key.      *)
LEMMA RoutedInv ==
  ASSUME Inv, NEW d, NEW o, NEW k, Forwarded(db, d, o, k), Routed(d, db', o, k),
         RestOK', UNCHANGED <<sent, network, unsent, expired, excused>>
  PROVE  Inv'
<1>1. /\ Good(db) /\ Whole(db, sent, network, unsent, expired, excused)
      /\ Live(db) \subseteq Obj
  BY InvParts
<1>2. /\ o \in Live(db) /\ db.bundle[o].key = k /\ Placed(db.bundle[o])
      /\ Tends(db, d, k) /\ Copies(d, k) = Copies(db, k)
      /\ \A x \in Obj : x # o => d.bundle[x] = db.bundle[x]
  BY DEF Forwarded
<1>3. /\ Tends(d, db', k) /\ Copies(d, k) \subseteq Copies(db', k)
      /\ k \notin Critical => \A x \in Copies(db', k) :
           \/ Placed(db'.bundle[x])
           \/ x \in Copies(d, k) \ {o} /\ db'.bundle[x] = d.bundle[x]
  BY DEF Routed
<1>4. KeyOK(db, sent, network, unsent, expired, excused, k)
  BY <1>2, InvParts
<1>5. /\ \A t \in sent : t.key = k => ~t.steward /\ ~t.arrived
      /\ k \notin unsent
      /\ k \notin Critical => \A x \in Copies(db, k) : Placed(db.bundle[x])
  BY <1>2, <1>4, NoSteward
<1>6. Copies(db', k) # {}
  BY <1>2, <1>3 DEF Copies
<1>7. ASSUME k \notin Critical, NEW x \in Copies(db', k) PROVE Placed(db'.bundle[x])
  <2>1. CASE x \in Copies(d, k) \ {o} /\ db'.bundle[x] = d.bundle[x]
    <3>1. x \in Copies(db, k) /\ x \in Obj /\ x # o
      BY <1>1, <1>2, <2>1, CopiesType
    <3>2. db'.bundle[x] = db.bundle[x]
      BY <1>2, <2>1, <3>1
    <3> QED BY <1>5, <1>7, <3>1, <3>2
  <2> QED BY <1>3, <1>7, <2>1
<1>8. Loose(db', sent, network, unsent, expired, excused, k)
  BY <1>5, <1>6, <1>7 DEF Loose, Somewhere
<1>9. KeyOK(db', sent, network, unsent, expired, excused, k)
  BY <1>8, LooseOK
<1>10. Apart(k, sent, network, unsent, expired, excused,
             sent, network, unsent, expired, excused)
  BY DEF Apart
<1>11. Tends(db, db', k)
  BY <1>2, <1>3, TendsTwice
<1>12. Whole(db', sent, network, unsent, expired, excused)
  BY <1>1, <1>9, <1>10, <1>11, TendsWhole
<1> QED BY <1>12 DEF Inv, AllWhole

(* A bundle is gone.                                                       *)
Dropped(d, e, o, k) ==
  /\ o \in Copies(d, k) /\ Tends(d, e, k) /\ Copies(e, k) = Copies(d, k) \ {o}
  /\ \A x \in Copies(e, k) : e.bundle[x] = d.bundle[x]

(* A bundle in no list is destroyed, and it alone.                         *)
LEMMA FreeDrops ==
  ASSUME NEW d, Good(d), NEW o \in Live(d), Idle(d.bundle[o])
  PROVE  Dropped(d, BpDestroyBundle(d, o, FALSE), o, d.bundle[o].key)
<1> DEFINE e == BpDestroyBundle(d, o, FALSE)
<1>1. Frees(d, e, o)
  BY GoodParts, FreeStep
<1> HIDE DEF e
<1>2. Dropped(d, e, o, d.bundle[o].key)
  BY <1>1, FreeTends DEF Dropped
<1> QED BY <1>2 DEF e

(* The forwarder sends a bundle on its way, to limbo, or abandons it.      *)
LEMMA IpnfwInv ==
  ASSUME Inv, Ipnfw
  PROVE  Inv'
<1> DEFINE o == Head(db.forward)
           d == PurgeFwdQueueElt(db, o)
           b == d.bundle[o]
           k == db.bundle[o].key
           S == BestRoutes(b)
<1>1. RestOK /\ Good(db) /\ Whole(db, sent, network, unsent, expired, excused)
  BY InvParts
<1>2. /\ db.forward # <<>>
      /\ UNCHANGED <<contacts, blocked, clm, candidate, sent, network, unsent,
                     expired, counts>>
      /\ \/ /\ b.key \in Critical /\ S # {} /\ HasRoom(d, Cardinality(S))
            /\ db' = SendCriticalBundle(d, o, S) /\ UNCHANGED excused
         \/ /\ b.key \notin Critical
            /\ \E p \in S : /\ HasRoom(d, 2 - Confidence(b.dlvConfidence, p))
                            /\ db' = SendToBestRoute(d, o, p)
            /\ UNCHANGED excused
         \/ /\ b.key \notin Critical /\ S = {}
            /\ db' = EnqueueToLimbo(d, o) /\ UNCHANGED excused
         \/ /\ S = {} /\ db' = BpDestroyBundle(d, o, FALSE)
            /\ excused' = excused \union {b.key}
  BY DEF Ipnfw
<1>3. Forwarded(db, d, o, k)
  BY <1>1, <1>2, FromForward
<1>4. S \in SUBSET Plan
  BY DEF BestRoutes
<1>5. o \in Live(db) /\ db.bundle[o].fwdQueueElt
  BY <1>1, <1>2, HeadOfForward
<1>6. k \in Key
  BY <1>5, InvParts
<1>7. excused' \subseteq Key => RestOK'
  BY <1>1, <1>2 DEF RestOK, contacts, counts
<1>8. /\ o \in Live(d) /\ b.key = k /\ Idle(b) /\ Good(d) /\ Tends(db, d, k)
      /\ Copies(d, k) = Copies(db, k)
      /\ \A x \in Obj : x # o => d.bundle[x] = db.bundle[x]
      /\ Placed(db.bundle[o])
  BY <1>3 DEF Forwarded, Tends
<1>9. excused \subseteq Key
  BY <1>1 DEF RestOK
<1> HIDE DEF o, d, S
<1>10. CASE /\ b.key \in Critical /\ S # {} /\ HasRoom(d, Cardinality(S))
            /\ db' = SendCriticalBundle(d, o, S) /\ UNCHANGED excused
  <2>1. Routed(d, db', o, k)
    BY <1>4, <1>8, <1>10, SendCriticalBundleStep DEF IsCritical
  <2>2. RestOK'
    BY <1>7, <1>9, <1>10
  <2> QED BY <1>2, <1>3, <1>10, <2>1, <2>2, RoutedInv
<1>11. CASE /\ b.key \notin Critical
            /\ \E p \in S : /\ HasRoom(d, 2 - Confidence(b.dlvConfidence, p))
                            /\ db' = SendToBestRoute(d, o, p)
            /\ UNCHANGED excused
  <2>1. PICK p \in S : /\ HasRoom(d, 2 - Confidence(b.dlvConfidence, p))
                       /\ db' = SendToBestRoute(d, o, p)
    BY <1>11
  <2>2. ~IsCritical(d, o) /\ p \in Plan
    BY <1>4, <1>11 DEF IsCritical
  <2>3. Routed(d, db', o, k)
    BY <1>8, <2>1, <2>2, SendToBestRouteStep
  <2>4. RestOK'
    BY <1>7, <1>9, <1>11
  <2> QED BY <1>2, <1>3, <1>11, <2>3, <2>4, RoutedInv
<1>12. CASE /\ b.key \notin Critical /\ S = {}
            /\ db' = EnqueueToLimbo(d, o) /\ UNCHANGED excused
  <2>1. Moves(db, db')
    BY <1>1, <1>5, <1>8, <1>12, WaitsInLimbo DEF d
  <2>2. RestOK'
    BY <1>7, <1>9, <1>12
  <2> QED BY <1>2, <1>12, <2>1, <2>2, MovesInv
<1>13. CASE /\ S = {} /\ db' = BpDestroyBundle(d, o, FALSE)
            /\ excused' = excused \union {b.key}
  <2>1. Dropped(d, db', o, k)
    BY <1>8, <1>13, FreeDrops
  <2>2. KeyOK(db, sent, network, unsent, expired, excused, k)
    BY <1>6, InvParts
  <2>3. /\ \A t \in sent : t.key = k => ~t.steward /\ ~t.arrived
        /\ k \notin unsent
        /\ k \notin Critical => \A x \in Copies(db, k) : Placed(db.bundle[x])
    BY <1>5, <1>8, <2>2, NoSteward
  <2>4. ASSUME NEW x \in Copies(db', k)
        PROVE  x \in Copies(db, k) /\ db'.bundle[x] = db.bundle[x]
    <3>1. x \in Copies(db, k) /\ x # o /\ db'.bundle[x] = d.bundle[x]
      BY <1>8, <2>1 DEF Dropped
    <3>2. x \in Obj
      BY <3>1, CopiesType, InvParts
    <3> QED BY <1>8, <3>1, <3>2
  <2>5. Loose(db', sent, network, unsent, expired, excused', k)
    BY <1>8, <1>13, <2>3, <2>4 DEF Loose, Somewhere
  <2>6. KeyOK(db', sent, network, unsent, expired, excused', k)
    BY <2>5, LooseOK
  <2>7. Apart(k, sent, network, unsent, expired, excused,
              sent, network, unsent, expired, excused')
    BY <1>8, <1>13 DEF Apart
  <2>8. Tends(db, db', k)
    BY <1>8, <2>1, TendsTwice DEF Dropped
  <2>9. Whole(db', sent, network, unsent, expired, excused')
    BY <1>1, <2>6, <2>7, <2>8, TendsWhole
  <2>10. RestOK'
    BY <1>6, <1>7, <1>8, <1>9, <1>13
  <2> QED BY <1>2, <2>9, <2>10 DEF Inv, AllWhole
<1> QED BY <1>2, <1>10, <1>11, <1>12, <1>13

(* bpclm finds nothing to do.                                              *)
LEMMA ClmCheckInv ==
  ASSUME Inv, NEW p \in Plan, ClmCheck(p)
  PROVE  Inv'
<1>1. RestOK
  BY InvParts
<1>2. RestOK'
  BY <1>1 DEF RestOK, ClmCheck, contacts, counts
<1> QED BY <1>2, SameInv DEF ClmCheck

(* bpclm hands a bundle over.                                              *)
LEMMA ClmWorkInv ==
  ASSUME Inv, NEW p \in Plan, ClmWork(p)
  PROVE  Inv'
<1>1. RestOK /\ Good(db)
  BY InvParts
<1>2. /\ db.queue[p] # <<>> /\ db' = HandedOver(db, Head(db.queue[p]), p)
      /\ clm' = [clm EXCEPT ![p] = "checks"]
      /\ UNCHANGED <<contacts, blocked, candidate, sent, network, unsent,
                     expired, excused, counts>>
  BY DEF ClmWork, HandedOver
<1>3. Head(db.queue[p]) \in Live(db) /\ db.bundle[Head(db.queue[p])].planXmitElt = p
  BY <1>1, <1>2, HeadOfQueue
<1>4. Moves(db, db')
  BY <1>1, <1>2, <1>3, HandedOverMoves
<1>5. RestOK'
  BY <1>1, <1>2 DEF RestOK, contacts, counts
<1> QED BY <1>2, <1>4, <1>5, MovesInv

-----------------------------------------------------------------------------
(* Bundles are transmitted.                                                *)

(* The address in the hash table is that of the only bundle.               *)
LEMMA OnlyOne ==
  ASSUME NEW d, Good(d), NEW k \in Key, d.hash[k].obj # 0
  PROVE  /\ Copies(d, k) = {d.hash[k].obj}
         /\ d.hash[k] = [obj |-> d.hash[k].obj, count |-> 1]
<1>1. /\ d \in Dbs /\ d.hash[k].count = Cardinality(Copies(d, k))
      /\ Copies(d, k) = {d.hash[k].obj}
  BY DEF Good, Sound, Catalogued
<1>2. d.hash[k] \in [obj : Obj \union {0}, count : Nat]
  BY <1>1, DbType
<1>3. d.hash[k].count = 1
  BY <1>1, FS_Singleton
<1> QED BY <1>1, <1>2, <1>3

(* A bundle leaves its duct, and is kept for its steward.                  *)
Kept(d, e, o, k) ==
  /\ k \notin Critical /\ Tends(d, e, k)
  /\ Copies(e, k) = {o} /\ e.hash[k] = [obj |-> o, count |-> 1]
  /\ ~Placed(e.bundle[o])

(* A transmitted bundle is kept for its steward, or destroyed.             *)
LEMMA DequeuedStep ==
  ASSUME NEW d, Good(d), NEW o \in Live(d), NEW p \in Plan, d.bundle[o].ductXmitElt = p
  PROVE  LET k == d.bundle[o].key
         IN  /\ StewardshipAccepted(d, o, p) => Kept(d, Dequeued(d, o, p), o, k)
             /\ ~StewardshipAccepted(d, o, p) => Dropped(d, Dequeued(d, o, p), o, k)
<1> DEFINE b == d.bundle[o]
           k == b.key
           e1 == PurgeDuctXmitElt(d, o)
           b1 == [b EXCEPT !.ductXmitElt = None]
           b2 == [b1 EXCEPT !.overdueElt = None]
           e2 == [e1 EXCEPT !.bundle[o] = b2]
           f == BpDestroyBundle(e2, o, FALSE)
<1>1. d \in Dbs /\ Sound(d) /\ b \in Bundles /\ Fit(b) /\ o \in Obj /\ p # None
  BY GoodParts, ObjNames
<1>2. Becomes(d, e1, o, b1)
  BY <1>1, PurgeDuctXmitEltStep
<1>3. Dequeued(d, o, p)
        = LET e == [e1 EXCEPT !.bundle[o].overdueElt = None]
          IN IF StewardshipAccepted(e, o, p) THEN e ELSE BpDestroyBundle(e, o, FALSE)
  BY DEF Dequeued
<1> HIDE DEF e1
<1>4. Sound(e1) /\ o \in Live(e1) /\ e1.bundle[o] = b1 /\ e1 \in Dbs /\ e1.hash = d.hash
  BY <1>1, <1>2, BecomesLive
<1>5. [e1 EXCEPT !.bundle[o].overdueElt = None] = e2
  BY <1>1, <1>4 DEF Dbs
<1>6. /\ b2 \in Bundles /\ b2.key = b1.key /\ b2.transitElt = b1.transitElt
      /\ b2.fwdQueueElt = b1.fwdQueueElt /\ b2.planXmitElt = b1.planXmitElt
      /\ b2.ductXmitElt = b1.ductXmitElt /\ b2.enqueueTime = b1.enqueueTime
  BY <1>1 DEF Bundles
<1>7. Becomes(e1, e2, o, b2)
  BY <1>4, <1>6, FieldsStep
<1> HIDE DEF e2
<1>8. Fit(b2) /\ Idle(b2) /\ ~Placed(b2) /\ b2.key = k
  BY <1>1, ObjNames DEF Fit, Bundles, Idle, Placed
<1>9. Becomes(d, e2, o, b2)
  BY <1>1, <1>2, <1>7, BecomesTwice
<1> HIDE DEF b2
<1>10. Live(e2) = Live(d) /\ e2.bundle[o] = b2 /\ e2.hash = d.hash
  BY <1>1, <1>9, BecomesLive
<1>11. /\ Tends(d, e2, k) /\ Copies(e2, k) = Copies(d, k) /\ o \in Copies(d, k)
  BY <1>8, <1>9, BecomesTends
<1>12. \A x \in Obj : x # o => e2.bundle[x] = d.bundle[x]
  BY <1>1, <1>9, BecomesElse
<1>13. StewardshipAccepted(e2, o, p) <=> StewardshipAccepted(d, o, p)
  BY <1>8, <1>10 DEF StewardshipAccepted, IsCritical
<1>14. Dequeued(d, o, p) = IF StewardshipAccepted(d, o, p) THEN e2 ELSE f
  BY <1>3, <1>5, <1>13
<1>15. CASE StewardshipAccepted(d, o, p)
  <2>1. k \notin Critical /\ d.hash[k].obj = o /\ o # 0 /\ k \in Key
    BY <1>1, <1>15, ObjNames, BundleType DEF StewardshipAccepted, IsCritical
  <2>2. Copies(d, k) = {o} /\ d.hash[k] = [obj |-> o, count |-> 1]
    BY <2>1, OnlyOne
  <2>3. Kept(d, e2, o, k)
    BY <1>8, <1>10, <1>11, <2>1, <2>2 DEF Kept
  <2> QED BY <1>14, <1>15, <2>3
<1>16. CASE ~StewardshipAccepted(d, o, p)
  <2>1. Good(e2) /\ o \in Live(e2) /\ e2.bundle[o] = b2
    BY <1>10, <1>11 DEF Tends
  <2>2. Dropped(e2, f, o, k)
    BY <1>8, <2>1, FreeDrops
  <2> HIDE DEF f, b, k
  <2>3. Tends(d, f, k)
    BY <1>11, <2>2, TendsTwice DEF Dropped
  <2>4. Copies(f, k) = Copies(d, k) \ {o} /\ \A x \in Copies(f, k) : f.bundle[x] = e2.bundle[x]
    BY <1>11, <2>2 DEF Dropped
  <2>5. ASSUME NEW x \in Copies(f, k) PROVE f.bundle[x] = d.bundle[x]
    <3>1. x \in Copies(d, k) /\ x # o
      BY <2>4
    <3>2. x \in Obj
      BY <3>1, CopiesType, GoodParts
    <3> QED BY <1>12, <2>4, <3>1, <3>2
  <2>6. Dropped(d, f, o, k)
    BY <1>11, <2>3, <2>4, <2>5 DEF Dropped
  <2> QED BY <1>14, <1>16, <2>6 DEF k, b
<1> QED BY <1>15, <1>16

(* A duct transmits a bundle.                                              *)
LEMMA BpDequeueInv ==
  ASSUME Inv, NEW p \in Plan, BpDequeue(p)
  PROVE  Inv'
<1> DEFINE o == Head(db.buffer[p])
           k == db.bundle[o].key
           t0 == [key |-> k, plan |-> p, obj |-> o,
                  steward |-> StewardshipAccepted(db, o, p), arrived |-> FALSE]
<1>1. /\ RestOK /\ Good(db) /\ Whole(db, sent, network, unsent, expired, excused)
      /\ Live(db) \subseteq Obj
  BY InvParts
<1>2. /\ db.buffer[p] # <<>> /\ db' = Dequeued(db, o, p)
      /\ sent' = sent \union {t0}
      /\ UNCHANGED <<contacts, blocked, clm, candidate, network, unsent, expired,
                     excused, counts>>
  BY DEF BpDequeue
<1>3. o \in Live(db) /\ db.bundle[o].ductXmitElt = p
  BY <1>1, <1>2, HeadOfBuffer
<1> HIDE DEF o
<1>4. /\ StewardshipAccepted(db, o, p) => Kept(db, db', o, k)
      /\ ~StewardshipAccepted(db, o, p) => Dropped(db, db', o, k)
  BY <1>1, <1>2, <1>3, DequeuedStep
<1>5. k \in Key /\ Placed(db.bundle[o])
  BY <1>3, InvParts, ObjNames DEF Placed
<1>6. KeyOK(db, sent, network, unsent, expired, excused, k)
  BY <1>5, InvParts
<1>7. /\ \A t \in sent : t.key = k => ~t.steward /\ ~t.arrived
      /\ k \notin unsent
      /\ k \notin Critical => \A x \in Copies(db, k) : Placed(db.bundle[x])
  BY <1>3, <1>5, <1>6, NoSteward
<1>8. /\ t0 \in Transmissions /\ t0.key = k /\ t0.obj = o /\ t0.arrived = FALSE
      /\ t0.steward = StewardshipAccepted(db, o, p)
  BY <1>1, <1>3, <1>5 DEF Transmissions, StewardshipAccepted, IsCritical
<1> HIDE DEF t0, k
<1>9. Apart(k, sent, network, unsent, expired, excused,
            sent', network, unsent, expired, excused)
  BY <1>2, <1>8 DEF Apart
<1>10. RestOK'
  BY <1>1, <1>2, <1>8 DEF RestOK, contacts, counts
<1>11. Tends(db, db', k) /\ KeyOK(db', sent', network, unsent, expired, excused, k)
  <2>1. CASE StewardshipAccepted(db, o, p)
    <3>1. /\ k \notin Critical /\ Tends(db, db', k)
          /\ Copies(db', k) = {o} /\ db'.hash[k] = [obj |-> o, count |-> 1]
          /\ ~Placed(db'.bundle[o])
      BY <1>4, <2>1 DEF Kept
    <3>2. \A t \in sent' : t.key = k /\ t.steward => t = t0
      BY <1>2, <1>7
    <3>3. Stewarded(db', sent', network, expired, k)
      BY <1>8, <3>1, <3>2 DEF Stewarded
    <3>4. t0 \in sent' /\ t0.key = k /\ t0.steward
      BY <1>2, <1>8, <2>1
    <3>5. Tended(db', sent', k) /\ Unborn(db', sent', network, unsent, k)
      BY <1>7, <3>4 DEF Tended, Unborn
    <3>6. Somewhere(db', sent', network, unsent, expired, excused, k)
      BY <3>4 DEF Somewhere
    <3>7. \A t \in sent' : t.key = k /\ t.arrived => t.steward
      BY <1>2, <1>7, <1>8
    <3> QED BY <3>1, <3>3, <3>5, <3>6, <3>7 DEF KeyOK
  <2>2. CASE ~StewardshipAccepted(db, o, p)
    <3>1. /\ Tends(db, db', k) /\ Copies(db', k) = Copies(db, k) \ {o}
          /\ \A x \in Copies(db', k) : db'.bundle[x] = db.bundle[x]
      BY <1>4, <2>2 DEF Dropped
    <3>2. \A t \in sent' : t.key = k => ~t.steward /\ ~t.arrived
      BY <1>2, <1>7, <1>8, <2>2
    <3>3. Somewhere(db', sent', network, unsent, expired, excused, k)
      BY <1>2, <1>8 DEF Somewhere
    <3>4. Loose(db', sent', network, unsent, expired, excused, k)
      BY <1>7, <3>1, <3>2, <3>3 DEF Loose
    <3> QED BY <3>1, <3>4, LooseOK
  <2> QED BY <2>1, <2>2
<1>12. Whole(db', sent', network, unsent, expired, excused)
  BY <1>1, <1>9, <1>11, TendsWhole
<1> QED BY <1>2, <1>10, <1>12 DEF Inv, AllWhole

-----------------------------------------------------------------------------
(* A transmission arrives.                                                 *)
LEMMA ArriveInv ==
  ASSUME Inv, NEW t \in sent, Arrive(t)
  PROVE  Inv'
<1> DEFINE k == t.key
           u == [t EXCEPT !.arrived = TRUE]
<1>1. /\ RestOK /\ Good(db) /\ Whole(db, sent, network, unsent, expired, excused)
  BY InvParts
<1>2. /\ network' = [network EXCEPT ![t.key] = @ \union {t.plan}]
      /\ sent' = (sent \ {t}) \union (IF t.steward THEN {u} ELSE {})
      /\ UNCHANGED <<db, contacts, blocked, clm, candidate, unsent, expired,
                     excused, counts>>
  BY DEF Arrive
<1>3. /\ t \in Transmissions /\ k \in Key /\ t.plan \in Plan /\ u \in Transmissions
      /\ u.key = k /\ u.steward = t.steward /\ u.arrived /\ u.obj = t.obj
  BY <1>1 DEF RestOK, Transmissions
<1>4. network' \in [Key -> SUBSET Plan] /\ network'[k] # {}
  BY <1>1, <1>2, <1>3 DEF RestOK
<1>5. \A j \in Key : j # k => network'[j] = network[j]
  BY <1>1, <1>2 DEF RestOK
<1> HIDE DEF u
<1>6. sent' \subseteq Transmissions
  BY <1>1, <1>2, <1>3 DEF RestOK
<1>7. RestOK'
  BY <1>1, <1>2, <1>4, <1>6 DEF RestOK, contacts, counts
<1>8. Apart(k, sent, network, unsent, expired, excused,
            sent', network', unsent, expired, excused)
  BY <1>2, <1>3, <1>5 DEF Apart
<1>9. KeyOK(db, sent, network, unsent, expired, excused, k)
  BY <1>3, InvParts
<1>10. Stewarded(db, sent', network', expired, k)
  <2>1. SUFFICES ASSUME NEW s \in sent', s.key = k /\ s.steward
                 PROVE  /\ k \notin Critical
                        /\ \A v \in sent' : v.key = k /\ v.steward => v = s
                        /\ \/ Copies(db, k) = {} /\ k \in expired
                           \/ /\ Copies(db, k) = {s.obj}
                              /\ db.hash[k] = [obj |-> s.obj, count |-> 1]
                              /\ ~Placed(db.bundle[s.obj])
                        /\ s.arrived => network'[k] # {}
    BY DEF Stewarded
  <2>2. \A w \in sent : w.key = k /\ w.steward =>
          /\ k \notin Critical
          /\ \A v \in sent : v.key = k /\ v.steward => v = w
          /\ \/ Copies(db, k) = {} /\ k \in expired
             \/ /\ Copies(db, k) = {w.obj} /\ db.hash[k] = [obj |-> w.obj, count |-> 1]
                /\ ~Placed(db.bundle[w.obj])
    BY <1>9 DEF KeyOK, Stewarded
  <2>3. CASE t.steward
    <3>1. \A v \in sent : v.key = k /\ v.steward => v = t
      BY <2>2, <2>3
    <3>2. \A v \in sent' : v.key = k /\ v.steward => v = u
      BY <1>2, <2>3, <3>1
    <3>3. s = u /\ s.obj = t.obj
      BY <1>3, <2>1, <3>2
    <3> QED BY <1>4, <2>2, <2>3, <3>2, <3>3
  <2>4. CASE ~t.steward
    <3>1. sent' \subseteq sent
      BY <1>2, <2>4
    <3> QED BY <1>4, <2>1, <2>2, <3>1
  <2> QED BY <2>3, <2>4
<1>11. Tended(db, sent', k)
  BY <1>2, <1>3, <1>9 DEF KeyOK, Tended
<1>12. Unborn(db, sent', network', unsent, k)
  BY <1>9 DEF KeyOK, Unborn
<1>13. Somewhere(db, sent', network', unsent, expired, excused, k)
  BY <1>4 DEF Somewhere
<1>14. \A s \in sent' : s.key = k /\ s.arrived => s.steward
  BY <1>2, <1>3, <1>9 DEF KeyOK
<1>15. KeyOK(db, sent', network', unsent, expired, excused, k)
  BY <1>10, <1>11, <1>12, <1>13, <1>14 DEF KeyOK
<1>16. Whole(db, sent', network', unsent, expired, excused)
  BY <1>1, <1>8, <1>15, TendsSame, TendsWhole
<1> QED BY <1>2, <1>7, <1>16 DEF Inv, AllWhole

(* A transmission is lost.                                                 *)
LEMMA LoseInv ==
  ASSUME Inv, NEW t \in sent, Lose(t)
  PROVE  Inv'
<1> DEFINE k == t.key
<1>1. /\ RestOK /\ Good(db) /\ Whole(db, sent, network, unsent, expired, excused)
  BY InvParts
<1>2. /\ ~t.steward /\ sent' = sent \ {t} /\ excused' = excused \union {k}
      /\ faults < MaxFaults /\ faults' = faults + 1
      /\ UNCHANGED <<db, contacts, blocked, clm, candidate, network, unsent,
                     expired, receipts>>
  BY DEF Lose
<1>3. k \in Key
  BY <1>1 DEF RestOK, Transmissions
<1>4. faults' \in 0..MaxFaults
  BY <1>1, <1>2, BpAssumption DEF RestOK
<1>5. RestOK'
  BY <1>1, <1>2, <1>3, <1>4 DEF RestOK, contacts
<1>6. Apart(k, sent, network, unsent, expired, excused,
            sent', network, unsent, expired, excused')
  BY <1>2 DEF Apart
<1>7. KeyOK(db, sent, network, unsent, expired, excused, k)
  BY <1>3, InvParts
<1>8. Stewarded(db, sent', network, expired, k)
  BY <1>2, <1>7 DEF KeyOK, Stewarded
<1>9. Tended(db, sent', k)
  BY <1>2, <1>7 DEF KeyOK, Tended
<1>10. Unborn(db, sent', network, unsent, k)
  BY <1>2, <1>7 DEF KeyOK, Unborn
<1>11. Somewhere(db, sent', network, unsent, expired, excused', k)
  BY <1>2 DEF Somewhere
<1>12. \A s \in sent' : s.key = k /\ s.arrived => s.steward
  BY <1>2, <1>7 DEF KeyOK
<1>13. KeyOK(db, sent', network, unsent, expired, excused', k)
  BY <1>8, <1>9, <1>10, <1>11, <1>12 DEF KeyOK
<1>14. Whole(db, sent', network, unsent, expired, excused')
  BY <1>1, <1>6, <1>13, TendsSame, TendsWhole
<1> QED BY <1>2, <1>5, <1>14 DEF Inv, AllWhole

-----------------------------------------------------------------------------
(* Results, the clock, the operator.                                       *)

(* What a steward finds when it hears the result of its transmission t.    *)
Answered(d, ex, t) ==
  /\ t.key \notin Critical
  /\ \/ d.hash[t.key].obj = 0 /\ Copies(d, t.key) = {} /\ t.key \in ex
     \/ /\ d.hash[t.key].obj = t.obj /\ t.obj # 0 /\ Copies(d, t.key) = {t.obj}
        /\ ~Placed(d.bundle[t.obj])

(* The steward finds its bundle by the key, unless its lifetime has ended. *)
LEMMA StewardHears ==
  ASSUME Inv, NEW t \in sent, t.steward
  PROVE  /\ t.key \in Key /\ Answered(db, expired, t)
         /\ \A u \in sent \ {t} : u.key = t.key => ~u.steward /\ ~u.arrived
         /\ t.key \notin unsent
         /\ t.arrived => network[t.key] # {}
<1> DEFINE k == t.key
<1>1. RestOK /\ Good(db) /\ Live(db) \subseteq Obj
  BY InvParts
<1>2. k \in Key
  BY <1>1 DEF RestOK, Transmissions
<1>3. KeyOK(db, sent, network, unsent, expired, excused, k)
  BY <1>2, InvParts
<1>4. /\ k \notin Critical
      /\ \A u \in sent : u.key = k /\ u.steward => u = t
      /\ \/ Copies(db, k) = {} /\ k \in expired
         \/ /\ Copies(db, k) = {t.obj} /\ db.hash[k] = [obj |-> t.obj, count |-> 1]
            /\ ~Placed(db.bundle[t.obj])
      /\ t.arrived => network[k] # {}
  BY <1>3 DEF KeyOK, Stewarded
<1>5. \A u \in sent \ {t} : u.key = k => ~u.steward /\ ~u.arrived
  BY <1>3, <1>4 DEF KeyOK
<1>6. k \notin unsent
  BY <1>3 DEF KeyOK, Unborn
<1>7. Answered(db, expired, t)
  <2>1. CASE Copies(db, k) = {} /\ k \in expired
    <3>1. db.hash[k].obj = 0
      <4>1. db.hash[k].obj # 0 => Copies(db, k) = {db.hash[k].obj}
        BY <1>1, <1>2 DEF Good, Sound, Catalogued
      <4> QED BY <2>1, <4>1
    <3> QED BY <1>4, <2>1, <3>1 DEF Answered
  <2>2. CASE /\ Copies(db, k) = {t.obj} /\ db.hash[k] = [obj |-> t.obj, count |-> 1]
             /\ ~Placed(db.bundle[t.obj])
    <3>1. t.obj \in Obj
      BY <1>1, <2>2, CopiesType
    <3>2. t.obj # 0 /\ db.hash[k].obj = t.obj
      BY <2>2, <3>1, ObjNames
    <3> QED BY <1>4, <2>2, <3>2 DEF Answered
  <2> QED BY <1>4, <2>1, <2>2
<1> QED BY <1>2, <1>4, <1>5, <1>6, <1>7

(* A steward hears that its transmission was successful.                   *)
LEMMA SuccessInv ==
  ASSUME Inv, NEW t \in sent, BpHandleXmitSuccess(t)
  PROVE  Inv'
<1> DEFINE k == t.key
           o == db.hash[k].obj
<1>1. /\ RestOK /\ Good(db) /\ Whole(db, sent, network, unsent, expired, excused)
  BY InvParts
<1>2. /\ t.steward /\ t.arrived /\ sent' = sent \ {t}
      /\ db' = IF o = 0 THEN db ELSE BpDestroyBundle(db, o, FALSE)
      /\ UNCHANGED <<contacts, blocked, clm, candidate, network, unsent, expired,
                     excused, counts>>
  BY DEF BpHandleXmitSuccess
<1>3. /\ k \in Key /\ Answered(db, expired, t)
      /\ \A u \in sent' : u.key = k => ~u.steward /\ ~u.arrived
      /\ k \notin unsent /\ network[k] # {}
  BY <1>2, StewardHears
<1>4. Tends(db, db', k) /\ Copies(db', k) = {}
  <2>1. CASE o = 0
    BY <1>1, <1>2, <1>3, <2>1, TendsSame DEF Answered
  <2>2. CASE o # 0
    <3>1. o = t.obj /\ Copies(db, k) = {o} /\ ~Placed(db.bundle[o])
      BY <1>3, <2>2 DEF Answered
    <3> HIDE DEF o
    <3>2. o \in Live(db) /\ db.bundle[o].key = k
      BY <3>1, CopiesType
    <3>3. Idle(db.bundle[o])
      BY <3>1 DEF Placed, Idle
    <3>4. Dropped(db, db', o, k)
      BY <1>1, <1>2, <2>2, <3>2, <3>3, FreeDrops DEF o
    <3> QED BY <3>1, <3>4 DEF Dropped
  <2> QED BY <2>1, <2>2
<1>5. Loose(db', sent', network, unsent, expired, excused, k)
  BY <1>3, <1>4 DEF Loose, Somewhere
<1>6. KeyOK(db', sent', network, unsent, expired, excused, k)
  BY <1>5, LooseOK
<1>7. Apart(k, sent, network, unsent, expired, excused,
            sent', network, unsent, expired, excused)
  BY <1>2 DEF Apart
<1>8. Whole(db', sent', network, unsent, expired, excused)
  BY <1>1, <1>4, <1>6, <1>7, TendsWhole
<1>9. RestOK'
  BY <1>1, <1>2 DEF RestOK, contacts, counts
<1> QED BY <1>2, <1>8, <1>9 DEF Inv, AllWhole

(* A steward hears that its transmission failed.                           *)
LEMMA FailureInv ==
  ASSUME Inv, NEW t \in sent, BpHandleXmitFailure(t)
  PROVE  Inv'
<1> DEFINE k == t.key
           o == db.hash[k].obj
<1>1. /\ RestOK /\ Good(db) /\ Whole(db, sent, network, unsent, expired, excused)
  BY InvParts
<1>2. /\ t.steward /\ sent' = sent \ {t}
      /\ faults < MaxFaults /\ faults' = faults + 1
      /\ db' = IF o = 0 THEN db ELSE BpReforwardBundle(db, o)
      /\ UNCHANGED <<contacts, blocked, clm, candidate, network, unsent, expired,
                     excused, receipts>>
  BY DEF BpHandleXmitFailure, XmitFailed
<1>3. /\ k \in Key /\ Answered(db, expired, t)
      /\ \A u \in sent' : u.key = k => ~u.steward /\ ~u.arrived
      /\ k \notin unsent
  BY <1>2, StewardHears
<1>4. /\ Tends(db, db', k)
      /\ Copies(db', k) # {} \/ k \in expired
      /\ \A x \in Copies(db', k) : Placed(db'.bundle[x])
  <2>1. CASE o = 0
    BY <1>1, <1>2, <1>3, <2>1, TendsSame DEF Answered
  <2>2. CASE o # 0
    <3> DEFINE b == db.bundle[o]
               b2 == Reforwarded(b)
    <3>1. /\ o = t.obj /\ Copies(db, k) = {o} /\ ~Placed(db.bundle[o])
          /\ k \notin Critical
      BY <1>3, <2>2 DEF Answered
    <3>2. db' = BpReforwardBundle(db, o)
      BY <1>2, <2>2
    <3> HIDE DEF o
    <3>3. o \in Live(db) /\ b.key = k
      BY <3>1, CopiesType
    <3>4. b \in Bundles /\ Fit(b) /\ Sound(db) /\ ~IsCritical(db, o)
      BY <1>1, <3>1, <3>3, GoodParts DEF IsCritical
    <3>5. Becomes(db, db', o, b2)
      BY <3>2, <3>3, <3>4, BpReforwardBundleStep
    <3>6. Fit(b2) /\ Placed(b2) /\ b2.key = k
      BY <3>1, <3>3, <3>4 DEF Fit, Placed, Bundles, Reforwarded
    <3> HIDE DEF b2
    <3>7. Tends(db, db', k) /\ Copies(db', k) = {o}
      BY <1>1, <3>1, <3>3, <3>5, <3>6, BecomesTends
    <3>8. db'.bundle[o] = b2
      BY <3>3, <3>4, <3>5, BecomesLive
    <3> QED BY <3>6, <3>7, <3>8
  <2> QED BY <2>1, <2>2
<1>5. Loose(db', sent', network, unsent, expired, excused, k)
  BY <1>3, <1>4 DEF Loose, Somewhere
<1>6. KeyOK(db', sent', network, unsent, expired, excused, k)
  BY <1>5, LooseOK
<1>7. Apart(k, sent, network, unsent, expired, excused,
            sent', network, unsent, expired, excused)
  BY <1>2 DEF Apart
<1>8. Whole(db', sent', network, unsent, expired, excused)
  BY <1>1, <1>4, <1>6, <1>7, TendsWhole
<1>9. faults' \in 0..MaxFaults
  BY <1>1, <1>2, BpAssumption DEF RestOK
<1>10. RestOK'
  BY <1>1, <1>2, <1>9 DEF RestOK, contacts
<1> QED BY <1>2, <1>8, <1>10 DEF Inv, AllWhole

-----------------------------------------------------------------------------
(* A lifetime ends.                                                        *)
LEMMA ExpireInv ==
  ASSUME Inv, NEW o \in Obj, Expire(o)
  PROVE  Inv'
<1> DEFINE k == db.bundle[o].key
<1>1. /\ RestOK /\ Good(db) /\ Whole(db, sent, network, unsent, expired, excused)
      /\ Sound(db)
  BY InvParts
<1>2. /\ o \in Live(db) /\ k \in Mortal /\ db' = BpDestroyBundle(db, o, TRUE)
      /\ expired' = expired \union {k}
      /\ UNCHANGED <<contacts, blocked, clm, candidate, sent, network, unsent,
                     excused, counts>>
  BY DEF Expire
<1>3. Frees(db, db', o)
  BY <1>1, <1>2, DestroyAnywayStep
<1>4. /\ Tends(db, db', k) /\ Copies(db', k) = Copies(db, k) \ {o} /\ o \in Copies(db, k)
      /\ \A x \in Copies(db', k) : db'.bundle[x] = db.bundle[x]
  BY <1>1, <1>3, FreeTends
<1>5. k \in Key
  BY <1>2, InvParts
<1> HIDE DEF k
<1>6. KeyOK(db, sent, network, unsent, expired, excused, k)
  BY <1>5, InvParts
<1>7. Stewarded(db', sent, network, expired', k)
  <2>1. ASSUME NEW t \in sent, t.key = k /\ t.steward
        PROVE  /\ k \notin Critical
               /\ \A u \in sent : u.key = k /\ u.steward => u = t
               /\ Copies(db, k) = {t.obj} \/ Copies(db, k) = {}
               /\ t.arrived => network[k] # {}
    BY <1>6, <2>1 DEF KeyOK, Stewarded
  <2>2. (\E t \in sent : t.key = k /\ t.steward) => Copies(db', k) = {}
    BY <1>4, <2>1
  <2> QED BY <1>2, <2>1, <2>2 DEF Stewarded
<1>8. Tended(db', sent, k)
  BY <1>4, <1>6 DEF KeyOK, Tended
<1>9. Unborn(db', sent, network, unsent, k)
  BY <1>4, <1>6 DEF KeyOK, Unborn
<1>10. Somewhere(db', sent, network, unsent, expired', excused, k)
  BY <1>2 DEF Somewhere
<1>11. \A s \in sent : s.key = k /\ s.arrived => s.steward
  BY <1>6 DEF KeyOK
<1>12. KeyOK(db', sent, network, unsent, expired', excused, k)
  BY <1>7, <1>8, <1>9, <1>10, <1>11 DEF KeyOK
<1>13. Apart(k, sent, network, unsent, expired, excused,
             sent, network, unsent, expired', excused)
  BY <1>2 DEF Apart
<1>14. Whole(db', sent, network, unsent, expired', excused)
  BY <1>1, <1>4, <1>12, <1>13, TendsWhole
<1>15. RestOK'
  BY <1>1, <1>2 DEF RestOK, contacts, counts
<1> QED BY <1>2, <1>14, <1>15 DEF Inv, AllWhole

(* An alarm goes off.                                                      *)
LEMMA OverdueInv ==
  ASSUME Inv, NEW o \in Obj, Overdue(o)
  PROVE  Inv'
<1>1. RestOK /\ Good(db)
  BY InvParts
<1>2. /\ o \in Live(db) /\ db.bundle[o].overdueElt = Due
      /\ db' = BpReforwardBundle(db, o)
      /\ UNCHANGED <<contacts, blocked, clm, candidate, sent, network, unsent,
                     expired, excused, counts>>
  BY DEF Overdue
<1>3. /\ db.bundle[o].key \notin Critical
      /\ db.bundle[o].planXmitElt # None \/ db.bundle[o].ductXmitElt # None
  BY <1>2, InvParts, ObjNames DEF Fit
<1>4. Moves(db, db')
  BY <1>1, <1>2, <1>3, ReforwardMoves
<1>5. RestOK'
  BY <1>1, <1>2 DEF RestOK, contacts, counts
<1> QED BY <1>2, <1>4, <1>5, MovesInv

(* Limbo is emptied.                                                       *)
LEMMA FlushLimboInv ==
  ASSUME Inv, FlushLimbo
  PROVE  Inv'
<1>1. RestOK /\ Good(db)
  BY InvParts
<1>2. Moves(db, db')
  BY <1>1, FlushMoves DEF FlushLimbo
<1>3. RestOK'
  BY <1>1 DEF FlushLimbo, RestOK, contacts, counts
<1> QED BY <1>2, <1>3, MovesInv DEF FlushLimbo

(* A contact begins.                                                       *)
LEMMA OpenContactInv ==
  ASSUME Inv, NEW p \in Plan, OpenContact(p)
  PROVE  Inv'
<1>1. RestOK
  BY InvParts
<1>2. left' \in [Plan -> Nat] /\ open' \subseteq Plan
  BY <1>1 DEF RestOK, OpenContact
<1>3. RestOK'
  BY <1>1, <1>2 DEF OpenContact, RestOK, counts
<1> QED BY <1>3, SameInv DEF OpenContact

(* A contact ends.                                                         *)
LEMMA CloseContactInv ==
  ASSUME Inv, NEW p \in Plan, CloseContact(p)
  PROVE  Inv'
<1>1. RestOK /\ Good(db)
  BY InvParts
<1>2. db' = Closed(db, p)
  BY DEF CloseContact, Closed
<1>3. Moves(db, db')
  BY <1>1, <1>2, ClosedMoves
<1>4. RestOK'
  BY <1>1 DEF CloseContact, RestOK, counts
<1> QED BY <1>3, <1>4, MovesInv DEF CloseContact

(* The operator blocks a plan.                                             *)
LEMMA BpBlockPlanInv ==
  ASSUME Inv, NEW p \in Plan, BpBlockPlan(p)
  PROVE  Inv'
<1>1. RestOK /\ Good(db)
  BY InvParts
<1>2. Moves(db, db')
  BY <1>1, BlockMoves DEF BpBlockPlan
<1>3. faults' \in 0..MaxFaults
  BY <1>1, BpAssumption DEF RestOK, BpBlockPlan
<1>4. RestOK'
  BY <1>1, <1>3 DEF BpBlockPlan, RestOK, contacts
<1> QED BY <1>2, <1>4, MovesInv DEF BpBlockPlan

(* The operator unblocks a plan.                                           *)
LEMMA BpUnblockPlanInv ==
  ASSUME Inv, NEW p \in Plan, BpUnblockPlan(p)
  PROVE  Inv'
<1>1. RestOK /\ Good(db)
  BY InvParts
<1>2. Moves(db, db')
  BY <1>1, FlushMoves DEF BpUnblockPlan
<1>3. RestOK'
  BY <1>1 DEF BpUnblockPlan, RestOK, contacts, counts
<1> QED BY <1>2, <1>3, MovesInv DEF BpUnblockPlan

(* Every step keeps the invariant.                                         *)
LEMMA NextInv ==
  ASSUME Inv, [Next]_vars
  PROVE  Inv'
<1>1. CASE \E k \in Key : Send(k)
  BY <1>1, SendInv
<1>2. CASE \E k \in Key, p \in Plan : Receive(k, p)
  BY <1>2, ReceiveInv
<1>3. CASE TransitRequest
  BY <1>3, TransitRequestInv
<1>4. CASE TransitMove
  BY <1>4, TransitMoveInv
<1>5. CASE Ipnfw
  BY <1>5, IpnfwInv
<1>6. CASE \E p \in Plan : ClmCheck(p) \/ ClmWork(p) \/ BpDequeue(p)
  BY <1>6, ClmCheckInv, ClmWorkInv, BpDequeueInv
<1>7. CASE Result
  BY <1>7, ArriveInv, SuccessInv DEF Result
<1>8. CASE \E t \in sent : Lose(t) \/ BpHandleXmitFailure(t)
  BY <1>8, LoseInv, FailureInv
<1>9. CASE Clock
  BY <1>9, OverdueInv DEF Clock
<1>10. CASE FlushLimbo
  BY <1>10, FlushLimboInv
<1>11. CASE \E o \in Obj : Expire(o)
  BY <1>11, ExpireInv
<1>12. CASE \E p \in Plan : OpenContact(p) \/ CloseContact(p)
                            \/ BpBlockPlan(p) \/ BpUnblockPlan(p)
  BY <1>12, OpenContactInv, CloseContactInv, BpBlockPlanInv, BpUnblockPlanInv
<1>13. CASE UNCHANGED vars
  <2>1. UNCHANGED <<db, sent, network, unsent, expired, excused>>
    BY <1>13 DEF vars
  <2>2. RestOK'
    BY <1>13, InvParts DEF RestOK, vars, contacts, counts
  <2> QED BY <2>1, <2>2, SameInv
<1> QED BY <1>1, <1>2, <1>3, <1>4, <1>5, <1>6, <1>7, <1>8, <1>9, <1>10, <1>11, <1>12,
           <1>13 DEF Next

(* Lists, hash table and bundles agree, each bundle fits into its place, and*)
(* every key is in order: the invariant is inductive.                      *)
THEOREM Invariant == Spec => []Inv
<1>1. Init => Inv
  BY InitInv
<1>2. Inv /\ [Next]_vars => Inv'
  BY NextInv
<1> QED BY <1>1, <1>2, PTL DEF Spec

-----------------------------------------------------------------------------
(* What the invariant says.                                                *)

(* The lists in which a bundle is.                                         *)
LEMMA PlacesOf ==
  ASSUME NEW b \in Bundles
  PROVE  /\ 1 \in Places(b) <=> b.transitElt
         /\ 2 \in Places(b) <=> b.fwdQueueElt
         /\ 3 \in Places(b) <=> b.planXmitElt # None
         /\ 4 \in Places(b) <=> b.ductXmitElt # None
         /\ Places(b) \subseteq {1, 2, 3, 4}
<1>1. /\ b.transitElt \in BOOLEAN /\ b.fwdQueueElt \in BOOLEAN
  BY BundleType
<1> DEFINE q == <<b.transitElt, b.fwdQueueElt, b.planXmitElt # None, b.ductXmitElt # None>>
<1>2. /\ q[1] = b.transitElt /\ q[2] = b.fwdQueueElt
      /\ q[3] = (b.planXmitElt # None) /\ q[4] = (b.ductXmitElt # None)
  OBVIOUS
<1>3. Places(b) = {i \in 1..4 : q[i]}
  BY DEF Places
<1> HIDE DEF q
<1>4. 1..4 = {1, 2, 3, 4}
  OBVIOUS
<1> QED BY <1>1, <1>2, <1>3, <1>4

(* A bundle that fits is in one list or in none.                           *)
LEMMA PlacesCount ==
  ASSUME NEW b \in Bundles, Fit(b)
  PROVE  /\ Placed(b) => Cardinality(Places(b)) = 1
         /\ ~Placed(b) => Places(b) = {} /\ Cardinality(Places(b)) = 0
<1>1. /\ 1 \in Places(b) <=> b.transitElt
      /\ 2 \in Places(b) <=> b.fwdQueueElt
      /\ 3 \in Places(b) <=> b.planXmitElt # None
      /\ 4 \in Places(b) <=> b.ductXmitElt # None
      /\ Places(b) \subseteq {1, 2, 3, 4}
  BY PlacesOf
<1>2. ASSUME Placed(b) PROVE \E i : Places(b) = {i}
  <2>1. CASE b.transitElt
    <3>1. Places(b) = {1}
      BY <1>1, <2>1 DEF Fit
    <3> QED BY <3>1
  <2>2. CASE b.fwdQueueElt
    <3>1. Places(b) = {2}
      BY <1>1, <2>2 DEF Fit
    <3> QED BY <3>1
  <2>3. CASE b.planXmitElt # None
    <3>1. Places(b) = {3}
      BY <1>1, <2>3 DEF Fit
    <3> QED BY <3>1
  <2>4. CASE b.ductXmitElt # None
    <3>1. Places(b) = {4}
      BY <1>1, <2>4 DEF Fit
    <3> QED BY <3>1
  <2> QED BY <1>2, <2>1, <2>2, <2>3, <2>4 DEF Placed
<1>3. ~Placed(b) => Places(b) = {}
  BY <1>1 DEF Placed
<1>4. \A i : Cardinality({i}) = 1
  BY FS_Singleton
<1> QED BY <1>2, <1>3, <1>4, FS_EmptySet

-----------------------------------------------------------------------------
(* Every variable keeps its type, through all daemons, alarms and results. *)
THEOREM TypeCorrect == Spec => []TypeOK
<1>1. Inv => TypeOK
  <2> SUFFICES ASSUME Inv PROVE TypeOK
    OBVIOUS
  <2>1. RestOK /\ db \in Dbs
    BY InvParts
  <2>2. /\ db.bundle \in [Obj -> {None} \union Bundles]
        /\ db.hash \in [Key -> [obj : Obj \union {0}, count : Nat]]
        /\ db.transit \in Seq(Obj) /\ db.forward \in Seq(Obj) /\ db.limbo \in Seq(Obj)
        /\ db.queue \in [Plan -> Seq(Obj)] /\ db.buffer \in [Plan -> Seq(Obj)]
    BY <2>1, DbType
  <2> QED BY <2>1, <2>2 DEF TypeOK, RestOK, Transmissions
<1> QED BY <1>1, Invariant, PTL

(* What the lists are said to hold.                                        *)
LEMMA EnumerationHolds ==
  ASSUME NEW s, NEW S, Enumerates(s, S)
  PROVE  Holds(s, S)
<1>1. DOMAIN s = 1..Len(s) /\ S = {s[i] : i \in 1..Len(s)}
  BY EnumerationType
<1>2. Cardinality(S) = Len(s)
  BY EnumerationCounts
<1> QED BY <1>1, <1>2 DEF Holds, ToSet

(* Every list of the node holds exactly the bundles that refer to it, each *)
(* once, for any number of bundles and plans: no daemon finds the address of*)
(* a bundle that has been destroyed by expiration or purged by an alarm.   *)
THEOREM ListsCorrect == Spec => []QueuesMatch
<1>1. Inv => QueuesMatch
  <2> SUFFICES ASSUME Inv PROVE QueuesMatch
    OBVIOUS
  <2>1. /\ Enumerates(db.transit, TransitSet(db))
        /\ Enumerates(db.forward, ForwardSet(db))
        /\ Enumerates(db.limbo, PlanSet(db, Limbo))
        /\ \A p \in Plan : /\ Enumerates(db.queue[p], PlanSet(db, p))
                           /\ Enumerates(db.buffer[p], DuctSet(db, p))
    BY InvParts, SoundParts
  <2>2. /\ Holds(db.transit, TransitSet(db)) /\ Holds(db.forward, ForwardSet(db))
        /\ Holds(db.limbo, PlanSet(db, Limbo))
    BY <2>1, EnumerationHolds
  <2>3. \A p \in Plan : /\ Holds(db.queue[p], PlanSet(db, p))
                        /\ Holds(db.buffer[p], DuctSet(db, p))
    BY <2>1, EnumerationHolds
  <2> QED BY <2>2, <2>3 DEF QueuesMatch, Having, TransitSet, ForwardSet, PlanSet, DuctSet
<1> QED BY <1>1, Invariant, PTL

(* The hash table counts the bundles of a key and names one only if it is the*)
(* only one, through clones, expiration and results that come late.        *)
THEOREM CatalogueCorrect == Spec => []CatalogueTrue
<1>1. Inv => CatalogueTrue
  BY InvParts DEF Sound, Catalogued, CatalogueTrue
<1> QED BY <1>1, Invariant, PTL

(* A bundle for which a steward waits is kept out of all lists and found by*)
(* its key until the result comes or its lifetime ends, however often bundles*)
(* of its key come and go.                                                 *)
THEOREM StewardsCorrect == Spec => []StewardKept
<1>1. Inv => StewardKept
  <2> SUFFICES ASSUME Inv, NEW t \in sent, t.steward, t.key \notin expired
               PROVE  /\ t.obj \in Live(db)
                      /\ db.hash[t.key] = [obj |-> t.obj, count |-> 1]
                      /\ Places(db.bundle[t.obj]) = {}
    BY DEF StewardKept
  <2>1. t.key \in Key /\ Answered(db, expired, t)
    BY StewardHears
  <2>2. /\ db.hash[t.key].obj = t.obj /\ t.obj # 0 /\ Copies(db, t.key) = {t.obj}
        /\ ~Placed(db.bundle[t.obj])
    BY <2>1 DEF Answered
  <2>3. t.obj \in Live(db)
    BY <2>2, CopiesType
  <2>4. db.hash[t.key] = [obj |-> t.obj, count |-> 1]
    BY <2>1, <2>2, OnlyOne, InvParts
  <2>5. Places(db.bundle[t.obj]) = {}
    BY <2>2, <2>3, InvParts, PlacesCount
  <2> QED BY <2>3, <2>4, <2>5
<1> QED BY <1>1, Invariant, PTL

(* A bundle that is not critical is in exactly one list, or exactly one    *)
(* steward has it: re-forwarding, blocking, alarms and failures neither    *)
(* forget it nor send it on two ways.                                      *)
THEOREM PlacesCorrect == Spec => []InOnePlace
<1>1. Inv => InOnePlace
  <2> SUFFICES ASSUME Inv, NEW o \in Live(db), db.bundle[o].key \notin Critical
               PROVE  Cardinality(Places(db.bundle[o])) + Cardinality(Stewards(o)) = 1
    BY DEF InOnePlace
  <2> DEFINE b == db.bundle[o]
             k == b.key
  <2>1. b \in Bundles /\ Fit(b) /\ k \in Key
    BY InvParts
  <2>2. KeyOK(db, sent, network, unsent, expired, excused, k)
    BY <2>1, InvParts
  <2>3. CASE Placed(b)
    <3>1. \A t \in sent : t.key = k => ~t.steward
      BY <2>2, <2>3, NoSteward
    <3>2. Stewards(o) = {}
      BY <3>1 DEF Stewards
    <3>3. Cardinality(Stewards(o)) = 0
      BY <3>2, FS_EmptySet
    <3>4. Cardinality(Places(b)) = 1
      BY <2>1, <2>3, PlacesCount
    <3> QED BY <3>3, <3>4
  <2>4. CASE ~Placed(b)
    <3>1. o \in Copies(db, k)
      BY CopiesType
    <3>2. PICK t \in sent : t.key = k /\ t.steward
      BY <2>2, <2>4, <3>1 DEF KeyOK, Tended
    <3>3. /\ \A u \in sent : u.key = k /\ u.steward => u = t
          /\ Copies(db, k) = {t.obj}
      BY <2>2, <3>1, <3>2 DEF KeyOK, Stewarded
    <3>4. t.obj = o
      BY <3>1, <3>3
    <3>5. Stewards(o) = {t}
      BY <3>2, <3>3, <3>4 DEF Stewards
    <3>6. Cardinality(Stewards(o)) = 1
      BY <3>5, FS_Singleton
    <3>7. Cardinality(Places(b)) = 0
      BY <2>1, <2>4, PlacesCount
    <3> QED BY <3>6, <3>7
  <2> QED BY <2>3, <2>4
<1> QED BY <1>1, Invariant, PTL

(* An accepted bundle whose lifetime has not ended and that was neither    *)
(* abandoned for want of a route nor lost without a steward is here, on its*)
(* way, or at a neighbour.                                                 *)
THEOREM NothingLost == Spec => []NotLost
<1>1. Inv => NotLost
  BY InvParts DEF KeyOK, Somewhere, NotLost
<1> QED BY <1>1, Invariant, PTL

(* No plan transmits a bundle before one that was first enqueued earlier,  *)
(* however often bundles are re-forwarded and put back.                    *)
THEOREM SeniorityHonored == Spec => []SeniorFirst
<1>1. Inv => SeniorFirst
  <2> SUFFICES ASSUME Inv, NEW p \in Plan,
                      NEW i \in DOMAIN db.queue[p], NEW j \in DOMAIN db.queue[p], i < j
               PROVE  db.bundle[db.queue[p][i]].enqueueTime
                        <= db.bundle[db.queue[p][j]].enqueueTime
    BY DEF SeniorFirst
  <2>1. Enumerates(db.queue[p], PlanSet(db, p)) /\ Ordered(db.queue[p], db.bundle)
    BY InvParts, SoundParts
  <2>2. DOMAIN db.queue[p] = 1..Len(db.queue[p])
    BY <2>1, EnumerationType
  <2> QED BY <2>1, <2>2 DEF Ordered
<1> QED BY <1>1, Invariant, PTL
===============================================================================
