---------------------------- MODULE ZcoSpace_proofs ----------------------------
(***************************************************************************)
(* Proofs about ZcoSpace for every value of its constants: its types, that *)
(* a task that wakes up has its space, and that the account is             *)
(* overcommitted by no more than what was reserved for tasks that a        *)
(* requisition of higher priority has overtaken.                           *)
(***************************************************************************)
EXTENDS ZcoSpace, ListLemmas, FiniteSetTheorems

-----------------------------------------------------------------------------
(* Needs is a sum: what a set of tasks needs is what one of them needs and *)
(* what the others need.                                                   *)
OneOf(s) == CHOOSE x \in s : TRUE
IsSum(f, S) == f = [s \in SUBSET S |-> IF s = {} THEN 0
                                       ELSE Need[OneOf(s)] + f[s \ {OneOf(s)}]]

LEMMA UpTo ==
  ASSUME NEW n \in Nat
  PROVE  IsFiniteSet(1..n) /\ Cardinality(1..n) = n
<1>1. IsFiniteSet(1..n) /\ Cardinality(1..n) = IF 1 > n THEN 0 ELSE n - 1 + 1
  BY FS_Interval
<1> QED BY <1>1

LEMMA AnyOne ==
  ASSUME NEW s, s # {}
  PROVE  OneOf(s) \in s
BY DEF OneOf

(* The sizes of the subsets of a finite set, with and without an element.  *)
LEMMA Smaller ==
  ASSUME NEW S, IsFiniteSet(S), NEW s \in SUBSET S
  PROVE  /\ IsFiniteSet(s) /\ Cardinality(s) \in Nat /\ Cardinality(s) <= Cardinality(S)
         /\ Cardinality(s) = 0 <=> s = {}
         /\ \A x \in s : /\ s \ {x} \in SUBSET S
                         /\ Cardinality(s \ {x}) = Cardinality(s) - 1
<1>1. IsFiniteSet(s) /\ Cardinality(s) \in Nat /\ Cardinality(s) <= Cardinality(S)
  BY FS_Subset, FS_CardinalityType
<1>2. Cardinality(s) = 0 <=> s = {}
  BY <1>1, FS_EmptySet
<1>3. \A x \in s : s \ {x} \in SUBSET S /\ Cardinality(s \ {x}) = Cardinality(s) - 1
  BY <1>1, FS_RemoveElement
<1> QED BY <1>1, <1>2, <1>3

(* The recursive function behind Needs exists.                             *)
LEMMA SumExists ==
  ASSUME NEW S, IsFiniteSet(S)
  PROVE  \E f : IsSum(f, S)
<1> DEFINE Small(n) == {s \in SUBSET S : Cardinality(s) <= n}
           Def(f, n) == f = [s \in Small(n) |-> IF s = {} THEN 0
                                                ELSE Need[OneOf(s)] + f[s \ {OneOf(s)}]]
           N == {n \in Nat : \E f : Def(f, n)}
<1>1. 0 \in N
  <2>1. \A s \in Small(0) : s = {}
    BY Smaller
  <2>2. Def([s \in Small(0) |-> 0], 0)
    BY <2>1
  <2> QED BY <2>2
<1>2. ASSUME NEW n \in Nat, n \in N PROVE n + 1 \in N
  <2>1. PICK f : Def(f, n)
    BY <1>2
  <2> DEFINE new(s) == Need[OneOf(s)] + f[s \ {OneOf(s)}]
             h == [s \in Small(n + 1) |-> IF s \in Small(n) THEN f[s] ELSE new(s)]
             body(s) == IF s = {} THEN 0 ELSE Need[OneOf(s)] + h[s \ {OneOf(s)}]
  <2>2. ASSUME NEW s \in Small(n + 1), s # {}
        PROVE  s \ {OneOf(s)} \in Small(n) /\ s \ {OneOf(s)} \in Small(n + 1)
    <3>1. OneOf(s) \in s
      BY <2>2, AnyOne
    <3>2. s \ {OneOf(s)} \in SUBSET S /\ Cardinality(s \ {OneOf(s)}) = Cardinality(s) - 1
          /\ Cardinality(s) \in Nat
      BY <3>1, Smaller
    <3> QED BY <3>2
  <2>3. \A s \in Small(n) : s \in Small(n + 1)
    BY Smaller
  <2>4. {} \in Small(n)
    BY FS_EmptySet
  <2>5. \A s \in Small(n) : f[s] = IF s = {} THEN 0 ELSE new(s)
    BY <2>1, Zenon
  <2> HIDE DEF Small
  <2>6. ASSUME NEW s \in Small(n + 1), s # {}
        PROVE  h[s \ {OneOf(s)}] = f[s \ {OneOf(s)}]
    BY <2>2, <2>6
  <2>7. ASSUME NEW s \in Small(n + 1) PROVE h[s] = body(s)
    <3>1. CASE s = {}
      BY <2>3, <2>4, <2>5, <3>1
    <3>2. CASE s # {}
      <4>1. h[s] = new(s)
        BY <2>5, <3>2
      <4> QED BY <2>6, <3>2, <4>1
    <3> QED BY <3>1, <3>2
  <2>8. Def(h, n + 1)
    <3> HIDE DEF body
    <3>1. h = [s \in Small(n + 1) |-> h[s]]
      OBVIOUS
    <3> HIDE DEF h
    <3>2. h = [s \in Small(n + 1) |-> body(s)]
      BY <2>7, <3>1
    <3> QED BY <3>2, Zenon DEF body
  <2> HIDE DEF h, Def
  <2> QED BY <2>8
<1>3. Cardinality(S) \in Nat
  BY FS_CardinalityType
<1>4. \E f : Def(f, Cardinality(S))
  <2> HIDE DEF N
  <2>1. Cardinality(S) \in N
    BY <1>1, <1>2, <1>3, SetInduction
  <2> QED BY <2>1 DEF N
<1>5. Small(Cardinality(S)) = SUBSET S
  BY Smaller
<1> HIDE DEF Small
<1> QED BY <1>4, <1>5 DEF IsSum

LEMMA NeedsDefined ==
  ASSUME NEW S, IsFiniteSet(S)
  PROVE  \E f : IsSum(f, S) /\ Needs(S) = f[S]
<1> DEFINE f == CHOOSE g : IsSum(g, S)
<1>1. IsSum(f, S)
  BY SumExists
<1>2. Needs(S) = f[S]
  BY Zenon DEF Needs, MapThenSumSet, MapThenFoldSet, IsSum, OneOf
<1> HIDE DEF f
<1> QED BY <1>1, <1>2

LEMMA SumStep ==
  ASSUME NEW S, NEW f, IsSum(f, S)
  PROVE  /\ f[{}] = 0
         /\ \A s \in SUBSET S : s # {} => f[s] = Need[OneOf(s)] + f[s \ {OneOf(s)}]
<1> DEFINE body(s) == IF s = {} THEN 0 ELSE Need[OneOf(s)] + f[s \ {OneOf(s)}]
<1>1. \A s \in SUBSET S : f[s] = body(s)
  BY Zenon DEF IsSum
<1> QED BY <1>1

(* Two such functions agree where both are defined.                        *)
LEMMA SumUnique ==
  ASSUME NEW S, IsFiniteSet(S), NEW T \in SUBSET S, NEW f, NEW g, IsSum(f, S), IsSum(g, T)
  PROVE  \A s \in SUBSET T : f[s] = g[s]
<1> DEFINE N == {n \in Nat : \A s \in SUBSET T : Cardinality(s) = n => f[s] = g[s]}
<1>0. \A s \in SUBSET T : s \in SUBSET S
  OBVIOUS
<1>1. 0 \in N
  <2>1. f[{}] = 0 /\ g[{}] = 0
    BY SumStep
  <2>2. \A s \in SUBSET T : Cardinality(s) = 0 => s = {}
    BY <1>0, Smaller
  <2> QED BY <2>1, <2>2
<1>2. ASSUME NEW n \in Nat, n \in N PROVE n + 1 \in N
  <2> SUFFICES ASSUME NEW s \in SUBSET T, Cardinality(s) = n + 1 PROVE f[s] = g[s]
    OBVIOUS
  <2>1. s # {} /\ OneOf(s) \in s
    BY FS_EmptySet, AnyOne
  <2>2. s \ {OneOf(s)} \in SUBSET T /\ Cardinality(s \ {OneOf(s)}) = n
    BY <1>0, <2>1, Smaller
  <2>3. f[s \ {OneOf(s)}] = g[s \ {OneOf(s)}]
    BY <1>2, <2>2
  <2> QED BY <1>0, <2>1, <2>3, SumStep
<1>3. \A n \in Nat : n \in N
  <2> HIDE DEF N
  <2> QED BY <1>1, <1>2, SetInduction
<1> QED BY <1>0, <1>3, Smaller

LEMMA NeedType == \A t \in Task : Need[t] \in Nat /\ Need[t] > 0
BY ZcoAssumption

LEMMA SumNat ==
  ASSUME NEW f, IsSum(f, Task)
  PROVE  \A s \in SUBSET Task : f[s] \in Nat
<1> DEFINE N == {n \in Nat : \A s \in SUBSET Task : Cardinality(s) = n => f[s] \in Nat}
<1>0. IsFiniteSet(Task)
  BY ZcoAssumption
<1>1. 0 \in N
  <2>1. \A s \in SUBSET Task : Cardinality(s) = 0 => s = {}
    BY <1>0, Smaller
  <2>2. f[{}] = 0
    BY SumStep
  <2> QED BY <2>1, <2>2
<1>2. ASSUME NEW n \in Nat, n \in N PROVE n + 1 \in N
  <2> SUFFICES ASSUME NEW s \in SUBSET Task, Cardinality(s) = n + 1 PROVE f[s] \in Nat
    OBVIOUS
  <2>1. s # {} /\ OneOf(s) \in s
    BY FS_EmptySet, AnyOne
  <2>2. s \ {OneOf(s)} \in SUBSET Task /\ Cardinality(s \ {OneOf(s)}) = n
    BY <1>0, <2>1, Smaller
  <2>3. f[s \ {OneOf(s)}] \in Nat /\ Need[OneOf(s)] \in Nat
    BY <1>2, <2>1, <2>2, NeedType
  <2>4. f[s] = Need[OneOf(s)] + f[s \ {OneOf(s)}]
    BY <2>1, SumStep
  <2> QED BY <2>3, <2>4
<1>3. \A n \in Nat : n \in N
  <2> HIDE DEF N
  <2> QED BY <1>1, <1>2, SetInduction
<1> QED BY <1>0, <1>3, Smaller

(* Whichever element is taken first, the sum is the same.                  *)
LEMMA SumRemove ==
  ASSUME NEW f, IsSum(f, Task)
  PROVE  \A s \in SUBSET Task : \A x \in s : f[s] = Need[x] + f[s \ {x}]
<1> DEFINE N == {n \in Nat : \A s \in SUBSET Task : Cardinality(s) = n =>
                               \A x \in s : f[s] = Need[x] + f[s \ {x}]}
<1>0. IsFiniteSet(Task)
  BY ZcoAssumption
<1>1. 0 \in N
  BY <1>0, Smaller
<1>2. ASSUME NEW n \in Nat, n \in N PROVE n + 1 \in N
  <2> SUFFICES ASSUME NEW s \in SUBSET Task, Cardinality(s) = n + 1, NEW x \in s
               PROVE  f[s] = Need[x] + f[s \ {x}]
    OBVIOUS
  <2> DEFINE y == OneOf(s)
  <2>1. s # {} /\ y \in s /\ f[s] = Need[y] + f[s \ {y}]
    <3>1. s # {}
      OBVIOUS
    <3>2. OneOf(s) \in s
      BY <3>1, AnyOne
    <3>3. f[s] = Need[OneOf(s)] + f[s \ {OneOf(s)}]
      BY <3>1, SumStep
    <3> QED BY <3>1, <3>2, <3>3
  <2> HIDE DEF y
  <2>2. /\ s \ {y} \in SUBSET Task /\ Cardinality(s \ {y}) = n
        /\ s \ {x} \in SUBSET Task /\ Cardinality(s \ {x}) = n
    BY <1>0, <2>1, Smaller
  <2>3. CASE x # y
    <3>1. x \in s \ {y} /\ y \in s \ {x} /\ (s \ {y}) \ {x} = (s \ {x}) \ {y}
      BY <2>1, <2>3
    <3>2. f[s \ {y}] = Need[x] + f[(s \ {y}) \ {x}]
      BY <1>2, <2>2, <3>1
    <3>3. f[s \ {x}] = Need[y] + f[(s \ {x}) \ {y}]
      BY <1>2, <2>2, <3>1
    <3>4. (s \ {x}) \ {y} \in SUBSET Task /\ f[(s \ {x}) \ {y}] \in Nat
      BY SumNat
    <3>5. Need[x] \in Nat /\ Need[y] \in Nat
      BY <2>1, NeedType
    <3> DEFINE r == f[(s \ {x}) \ {y}]
    <3>6. f[s] = Need[y] + (Need[x] + r) /\ f[s \ {x}] = Need[y] + r /\ r \in Nat
      BY <2>1, <3>1, <3>2, <3>3, <3>4
    <3> HIDE DEF r
    <3> QED BY <3>5, <3>6
  <2> QED BY <2>1, <2>3
<1>3. \A n \in Nat : n \in N
  <2> HIDE DEF N
  <2> QED BY <1>1, <1>2, SetInduction
<1>4. \A s \in SUBSET Task : Cardinality(s) \in Nat
  BY <1>0, Smaller
<1> QED BY <1>3, <1>4

(* What is used of Needs below.                                            *)
LEMMA NeedsIs ==
  \E f : IsSum(f, Task) /\ \A S \in SUBSET Task : Needs(S) = f[S]
<1>1. IsFiniteSet(Task)
  BY ZcoAssumption
<1>2. PICK f : IsSum(f, Task)
  BY <1>1, SumExists
<1>3. ASSUME NEW S \in SUBSET Task PROVE Needs(S) = f[S]
  <2>1. IsFiniteSet(S)
    BY <1>1, Smaller
  <2>2. PICK g : IsSum(g, S) /\ Needs(S) = g[S]
    BY <2>1, NeedsDefined
  <2> QED BY <1>1, <1>2, <2>2, SumUnique
<1> QED BY <1>2, <1>3

LEMMA NeedsNat == ASSUME NEW S \in SUBSET Task PROVE Needs(S) \in Nat
BY NeedsIs, SumNat

LEMMA NeedsNone == Needs({}) = 0
BY NeedsIs, SumStep

LEMMA NeedsRemove ==
  ASSUME NEW S \in SUBSET Task, NEW t \in S
  PROVE  Needs(S) = Need[t] + Needs(S \ {t})
<1>1. S \ {t} \in SUBSET Task
  OBVIOUS
<1> QED BY <1>1, NeedsIs, SumRemove

LEMMA NeedsAdd ==
  ASSUME NEW S \in SUBSET Task, NEW t \in Task, t \notin S
  PROVE  Needs(S \cup {t}) = Need[t] + Needs(S)
<1>1. S \cup {t} \in SUBSET Task /\ t \in S \cup {t} /\ (S \cup {t}) \ {t} = S
  OBVIOUS
<1> QED BY <1>1, NeedsRemove, Zenon

(* More tasks need more.                                                   *)
LEMMA NeedsMonotone ==
  ASSUME NEW S \in SUBSET Task, NEW T \in SUBSET S
  PROVE  Needs(T) <= Needs(S)
<1> DEFINE N == {n \in Nat : \A R \in SUBSET Task : T \in SUBSET R /\ Cardinality(R) = n =>
                               Needs(T) <= Needs(R)}
<1>0. IsFiniteSet(Task) /\ Needs(T) \in Nat
  BY ZcoAssumption, NeedsNat
<1>1. 0 \in N
  <2>1. \A R \in SUBSET Task : Cardinality(R) = 0 => R = {}
    BY <1>0, Smaller
  <2>2. \A R \in SUBSET Task : T \in SUBSET R /\ Cardinality(R) = 0 => R = T
    BY <2>1
  <2> QED BY <1>0, <2>2
<1>2. ASSUME NEW n \in Nat, n \in N PROVE n + 1 \in N
  <2> SUFFICES ASSUME NEW R \in SUBSET Task, T \in SUBSET R, Cardinality(R) = n + 1
               PROVE  Needs(T) <= Needs(R)
    OBVIOUS
  <2>1. CASE R = T
    BY <1>0, <2>1
  <2>2. CASE R # T
    <3>1. PICK x \in R : x \notin T
      BY <2>2
    <3>2. R \ {x} \in SUBSET Task /\ T \in SUBSET (R \ {x}) /\ Cardinality(R \ {x}) = n
      BY <1>0, <3>1, Smaller
    <3>3. Needs(T) <= Needs(R \ {x})
      BY <1>2, <3>2
    <3>4. Needs(R) = Need[x] + Needs(R \ {x}) /\ Need[x] \in Nat /\ Needs(R \ {x}) \in Nat
      BY <3>1, <3>2, NeedsRemove, NeedsNat, NeedType
    <3> QED BY <1>0, <3>3, <3>4
  <2> QED BY <2>1, <2>2
<1>3. \A n \in Nat : n \in N
  <2> HIDE DEF N
  <2> QED BY <1>1, <1>2, SetInduction
<1> QED BY <1>0, <1>3, Smaller

(* What a set needs is bounded by what its parts need.                     *)
LEMMA NeedsSplit ==
  ASSUME NEW S \in SUBSET Task, NEW T \in SUBSET Task
  PROVE  Needs(S) <= Needs(S \ T) + Needs(T)
<1> DEFINE N == {n \in Nat : \A R \in SUBSET Task : Cardinality(R) = n =>
                               Needs(S) <= Needs(S \ R) + Needs(R)}
<1>0. IsFiniteSet(Task) /\ Needs(S) \in Nat
  BY ZcoAssumption, NeedsNat
<1>1. 0 \in N
  <2>1. \A R \in SUBSET Task : Cardinality(R) = 0 => R = {}
    BY <1>0, Smaller
  <2>2. Needs(S) <= Needs(S \ {}) + Needs({})
    <3>1. S \ {} = S
      OBVIOUS
    <3> QED BY <1>0, <3>1, NeedsNone
  <2> QED BY <2>1, <2>2
<1>2. ASSUME NEW n \in Nat, n \in N PROVE n + 1 \in N
  <2> SUFFICES ASSUME NEW R \in SUBSET Task, Cardinality(R) = n + 1
               PROVE  Needs(S) <= Needs(S \ R) + Needs(R)
    OBVIOUS
  <2>1. PICK x \in R : TRUE
    BY FS_EmptySet
  <2> DEFINE Q == R \ {x}
  <2>2. Q \in SUBSET Task /\ Cardinality(Q) = n /\ S \ Q \in SUBSET Task /\ S \ R \in SUBSET Task
    BY <1>0, <2>1, Smaller
  <2>3. Needs(S) <= Needs(S \ Q) + Needs(Q)
    BY <1>2, <2>2
  <2>4. Needs(R) = Need[x] + Needs(Q)
    BY <2>1, NeedsRemove
  <2>5. /\ Need[x] \in Nat /\ Needs(Q) \in Nat
        /\ Needs(S \ Q) \in Nat /\ Needs(S \ R) \in Nat
    BY <2>1, <2>2, NeedsNat, NeedType
  <2>6. Needs(S \ Q) <= Need[x] + Needs(S \ R)
    <3>1. CASE x \in S
      <4>1. x \in S \ Q /\ (S \ Q) \ {x} = S \ R
        BY <2>1, <3>1
      <4>2. Needs(S \ Q) = Need[x] + Needs((S \ Q) \ {x})
        BY <2>2, <4>1, NeedsRemove
      <4> QED BY <2>5, <4>1, <4>2
    <3>2. CASE x \notin S
      <4>1. S \ Q = S \ R
        BY <2>1, <3>2
      <4>2. Needs(S \ Q) = Needs(S \ R)
        BY <4>1, Zenon
      <4> HIDE DEF Q
      <4> QED BY <2>5, <4>2
    <3> QED BY <3>1, <3>2
  <2> HIDE DEF Q
  <2> QED BY <1>0, <2>3, <2>4, <2>5, <2>6
<1>3. \A n \in Nat : n \in N
  <2> HIDE DEF N
  <2> QED BY <1>1, <1>2, SetInduction
<1> QED BY <1>0, <1>3, Smaller

-----------------------------------------------------------------------------
(* Lists of requisitions.                                                  *)
Listing(reqs) == reqs \in Seq(Task) /\ \A i, j \in 1..Len(reqs) : reqs[i] = reqs[j] => i = j
In(reqs) == {reqs[k] : k \in 1..Len(reqs)}

Sorted(reqs) ==
  \A i, j \in 1..Len(reqs) : i < j => Priority[reqs[i]] >= Priority[reqs[j]]

(* Whatever comes before an element of P is in Q.                          *)
Leading(reqs, P, Q) ==
  \A i, j \in 1..Len(reqs) : i < j /\ reqs[j] \in P => reqs[i] \in Q

LEMMA ListingIs ==
  ASSUME NEW reqs \in Seq(Task)
  PROVE  /\ DOMAIN reqs = 1..Len(reqs) /\ Len(reqs) \in Nat
         /\ \A k \in 1..Len(reqs) : reqs[k] \in Task
         /\ IsInjective(reqs) <=> Listing(reqs)
         /\ In(reqs) \in SUBSET Task
<1>1. DOMAIN reqs = 1..Len(reqs) /\ Len(reqs) \in Nat
  OBVIOUS
<1>2. \A k \in 1..Len(reqs) : reqs[k] \in Task
  BY ElementOfSeq
<1>3. IsInjective(reqs) <=> Listing(reqs)
  <2> DEFINE D == 1..Len(reqs)
  <2>1. DOMAIN reqs = D
    BY <1>1
  <2>2. IsInjective(reqs) <=> \A i, j \in D : reqs[i] = reqs[j] => i = j
    <3> HIDE DEF D
    <3> QED BY <2>1 DEF IsInjective
  <2> QED BY <2>2 DEF Listing
<1> QED BY <1>1, <1>2, <1>3 DEF In

(* Requisitions that are dropped leave the others in their order.          *)
LEMMA OnlyListed ==
  ASSUME NEW reqs, Listing(reqs), NEW S \in SUBSET Task
  PROVE  /\ Listing(Only(reqs, S))
         /\ In(Only(reqs, S)) = In(reqs) \cap S
         /\ Sorted(reqs) => Sorted(Only(reqs, S))
         /\ \A P, Q, P2, Q2 :
              /\ Leading(reqs, P, Q)
              /\ \A t \in In(reqs) \cap S : (t \in P2 => t \in P) /\ (t \in Q => t \in Q2)
              => Leading(Only(reqs, S), P2, Q2)
<1> DEFINE r == Only(reqs, S)
<1>1. reqs \in Seq(Task)
  BY DEF Listing
<1>2. r \in Seq(Task) /\ \E g : Picks(g, r, reqs, S, Len(reqs))
  BY <1>1, OnlyKeeps
<1>3. PICK g : Picks(g, r, reqs, S, Len(reqs))
  BY <1>2
<1> HIDE DEF r
<1>4. Len(r) \in Nat /\ Len(reqs) \in Nat
  BY <1>1, <1>2
<1>5. ASSUME NEW k \in 1..Len(r) PROVE g[k] \in 1..Len(reqs) /\ r[k] = reqs[g[k]] /\ r[k] \in S
  BY <1>3 DEF Picks
<1>6. ASSUME NEW i \in 1..Len(r), NEW j \in 1..Len(r), r[i] = r[j] PROVE i = j
  <2>1. g[i] = g[j]
    BY <1>5, <1>6, SMTT(30) DEF Listing
  <2>2. ~(i < j) /\ ~(j < i)
    <3>1. (i < j => g[i] < g[j]) /\ (j < i => g[j] < g[i])
      BY <1>3 DEF Picks
    <3>2. g[i] \in Nat /\ g[j] \in Nat
      BY <1>4, <1>5
    <3> QED BY <2>1, <3>1, <3>2
  <2> QED BY <1>4, <2>2
<1>7. In(r) = In(reqs) \cap S
  <2>1. \A t \in In(r) : t \in In(reqs) \cap S
    BY <1>5 DEF In
  <2>2. ASSUME NEW t \in In(reqs), t \in S PROVE t \in In(r)
    <3>1. PICK i \in 1..Len(reqs) : reqs[i] = t
      BY DEF In
    <3>2. PICK k \in 1..Len(r) : g[k] = i
      BY <1>3, <2>2, <3>1 DEF Picks
    <3> QED BY <1>5, <3>1, <3>2 DEF In
  <2> QED BY <2>1, <2>2
<1>8. ASSUME NEW P, NEW Q, NEW P2, NEW Q2, Leading(reqs, P, Q),
             \A t \in In(reqs) \cap S : (t \in P2 => t \in P) /\ (t \in Q => t \in Q2)
      PROVE  Leading(r, P2, Q2)
  <2> SUFFICES ASSUME NEW i \in 1..Len(r), NEW j \in 1..Len(r), i < j, r[j] \in P2
               PROVE  r[i] \in Q2
    BY DEF Leading
  <2>1. g[i] < g[j]
    BY <1>3 DEF Picks
  <2>2. r[i] \in In(reqs) \cap S /\ r[j] \in In(reqs) \cap S
    BY <1>5 DEF In
  <2>3. reqs[g[j]] \in P
    BY <1>5, <1>8, <2>2
  <2>4. reqs[g[i]] \in Q
    BY <1>5, <2>1, <2>3, <1>8 DEF Leading
  <2> QED BY <1>5, <1>8, <2>2, <2>4
<1>9. ASSUME Sorted(reqs) PROVE Sorted(r)
  <2> SUFFICES ASSUME NEW i \in 1..Len(r), NEW j \in 1..Len(r), i < j
               PROVE  Priority[r[i]] >= Priority[r[j]]
    BY DEF Sorted
  <2>1. g[i] < g[j]
    BY <1>3 DEF Picks
  <2> QED BY <1>5, <1>9, <2>1 DEF Sorted
<1> QED BY <1>2, <1>6, <1>7, <1>8, <1>9 DEF Listing, r

(* A set of positions that has with each one all that come before it.      *)
LEMMA FrontIs ==
  ASSUME NEW n \in Nat, NEW D \in SUBSET (1..n), \A i \in D : \A j \in 1..i : j \in D
  PROVE  D = 1..Cardinality(D)
<1>1. CASE D = {}
  BY <1>1, FS_EmptySet
<1>2. CASE D # {}
  <2>1. D \in SUBSET Nat /\ \A i \in D : i <= n
    OBVIOUS
  <2>2. PICK m \in D : \A i \in D : i <= m
    BY <1>2, <2>1, GreatestExists
  <2>3. m \in Nat /\ D = 1..m
    <3>1. m \in Nat /\ \A i \in 1..m : i \in D
      BY <2>1, <2>2
    <3>2. \A i \in D : i \in 1..m
      BY <2>1, <2>2, <3>1
    <3> QED BY <3>1, <3>2
  <2>4. Cardinality(1..m) = m
    BY <2>3, UpTo
  <2> QED BY <2>3, <2>4
<1> QED BY <1>1, <1>2

(* A new requisition has its place behind those of no lower priority.      *)
LEMMA InsertedListed ==
  ASSUME NEW reqs, Listing(reqs), Sorted(reqs), NEW t \in Task, t \notin In(reqs)
  PROVE  /\ Listing(Inserted(reqs, t))
         /\ In(Inserted(reqs, t)) = In(reqs) \cup {t}
         /\ Sorted(Inserted(reqs, t))
         /\ \A P, Q : /\ Leading(reqs, P, Q)
                      /\ \A u \in P : u # t /\ Priority[u] >= Priority[t]
                      => Leading(Inserted(reqs, t), P, Q)
<1> DEFINE D == {i \in DOMAIN reqs : Priority[reqs[i]] >= Priority[t]}
           k == Cardinality(D)
           front == SubSeq(reqs, 1, (k + 1) - 1)
           back == SubSeq(reqs, k + 1, Len(reqs))
           r == (front \o <<t>>) \o back
<1>1. reqs \in Seq(Task) /\ Len(reqs) \in Nat /\ DOMAIN reqs = 1..Len(reqs)
      /\ \A i \in 1..Len(reqs) : reqs[i] \in Task
  BY ListingIs DEF Listing
<1>2. k \in Nat /\ k <= Len(reqs)
  <2>1. IsFiniteSet(1..Len(reqs)) /\ Cardinality(1..Len(reqs)) = Len(reqs)
    BY <1>1, UpTo
  <2>2. D \in SUBSET (1..Len(reqs))
    BY <1>1
  <2> HIDE DEF D
  <2> QED BY <2>1, <2>2, FS_Subset, FS_CardinalityType
<1>3. Inserted(reqs, t) = r
  BY Zenon DEF Inserted, InsertAt
<1>4. \A i \in 1..Len(reqs) : i <= k <=> Priority[reqs[i]] >= Priority[t]
  <2>1. \A i \in 1..Len(reqs) : i \in D <=> Priority[reqs[i]] >= Priority[t]
    BY <1>1
  <2>2. D \in SUBSET (1..Len(reqs))
    BY <1>1
  <2>3. ASSUME NEW i \in D, NEW j \in 1..i PROVE j \in D
    <3>1. i \in 1..Len(reqs) /\ j \in 1..Len(reqs) /\ (j < i \/ j = i)
      BY <1>1, <2>2
    <3>2. /\ Priority[reqs[i]] \in Nat /\ Priority[reqs[j]] \in Nat /\ Priority[t] \in Nat
      BY <1>1, <3>1, ZcoAssumption
    <3>3. Priority[reqs[j]] >= Priority[reqs[i]]
      BY <3>1, <3>2 DEF Sorted
    <3>4. Priority[reqs[j]] >= Priority[t]
      BY <2>1, <3>1, <3>2, <3>3
    <3> QED BY <2>1, <3>1, <3>4
  <2>4. D = 1..k
    <3> HIDE DEF D
    <3> QED BY <1>1, <2>2, <2>3, FrontIs
  <2> HIDE DEF D, k
  <2> QED BY <1>2, <2>1, <2>4
<1> HIDE DEF k
<1>5. front \in Seq(Task) /\ Len(front) = k /\ \A i \in 1..k : front[i] = reqs[i]
  <2>1. (k + 1) - 1 = k /\ \A i \in 1..k : reqs[i] \in Task
    BY <1>1, <1>2
  <2>2. /\ SubSeq(reqs, 1, k) \in Seq(Task)
        /\ Len(SubSeq(reqs, 1, k)) = IF 1 <= k THEN k - 1 + 1 ELSE 0
        /\ \A i \in 1..k - 1 + 1 : SubSeq(reqs, 1, k)[i] = reqs[1 + i - 1]
    BY <1>2, <2>1, SubSeqProperties
  <2>3. \A i \in 1..k : i \in 1..k - 1 + 1 /\ 1 + i - 1 = i
    BY <1>2
  <2> QED BY <1>2, <2>1, <2>2, <2>3
<1>6. back \in Seq(Task) /\ Len(back) = Len(reqs) - k
      /\ \A i \in 1..Len(reqs) - k : back[i] = reqs[k + i]
  <2>1. /\ SubSeq(reqs, k + 1, Len(reqs)) \in Seq(Task)
        /\ Len(SubSeq(reqs, k + 1, Len(reqs)))
             = IF k + 1 <= Len(reqs) THEN Len(reqs) - (k + 1) + 1 ELSE 0
        /\ \A i \in 1..Len(reqs) - (k + 1) + 1 :
             SubSeq(reqs, k + 1, Len(reqs))[i] = reqs[(k + 1) + i - 1]
    BY <1>1, <1>2, SubSeqProperties
  <2>2. \A i \in 1..Len(reqs) - k : /\ i \in 1..Len(reqs) - (k + 1) + 1
                                   /\ (k + 1) + i - 1 = k + i
    BY <1>1, <1>2
  <2>3. CASE k + 1 <= Len(reqs)
    <3>1. Len(reqs) - (k + 1) + 1 = Len(reqs) - k
      BY <1>1, <1>2
    <3> QED BY <2>1, <2>2, <2>3, <3>1
  <2>4. CASE ~(k + 1 <= Len(reqs))
    <3>1. k = Len(reqs)
      <4>1. \A a, b \in Nat : a <= b /\ ~(a + 1 <= b) => a = b
        OBVIOUS
      <4> QED BY <1>1, <1>2, <2>4, <4>1, Zenon
    <3>2. Len(reqs) - Len(reqs) = 0
      BY <1>1
    <3>3. 0 = Len(reqs) - k
      BY <3>1, <3>2
    <3> QED BY <2>1, <2>2, <2>4, <3>3
  <2> QED BY <2>3, <2>4
<1> HIDE DEF front, back
<1>7. front \o <<t>> \in Seq(Task) /\ Len(front \o <<t>>) = k + 1
      /\ \A i \in 1..k + 1 : (front \o <<t>>)[i] = IF i <= k THEN reqs[i] ELSE t
  <2>1. <<t>> \in Seq(Task) /\ Len(<<t>>) = 1 /\ <<t>>[1] = t
    OBVIOUS
  <2>2. front \o <<t>> \in Seq(Task) /\ Len(front \o <<t>>) = Len(front) + Len(<<t>>)
        /\ \A i \in 1..Len(front) + Len(<<t>>) : (front \o <<t>>)[i] =
             IF i <= Len(front) THEN front[i] ELSE <<t>>[i - Len(front)]
    BY <1>5, <2>1, ConcatProperties
  <2>3. \A i \in 1..k + 1 : IF i <= k THEN i \in 1..k ELSE i - k = 1
    BY <1>2
  <2> QED BY <1>2, <1>5, <2>1, <2>2, <2>3
<1>8. r \in Seq(Task) /\ Len(r) = Len(reqs) + 1
      /\ \A i \in 1..Len(reqs) + 1 : r[i] = IF i <= k THEN reqs[i]
                                            ELSE IF i = k + 1 THEN t ELSE reqs[i - 1]
  <2> DEFINE f == front \o <<t>>
  <2> HIDE DEF f
  <2>1. f \in Seq(Task) /\ Len(f) = k + 1
        /\ \A i \in 1..k + 1 : f[i] = IF i <= k THEN reqs[i] ELSE t
    BY <1>7 DEF f
  <2>2. f \o back \in Seq(Task) /\ Len(f \o back) = Len(f) + Len(back)
        /\ \A i \in 1..Len(f) + Len(back) : (f \o back)[i] =
             IF i <= Len(f) THEN f[i] ELSE back[i - Len(f)]
    BY <1>6, <2>1, ConcatProperties
  <2>3. ASSUME NEW i \in 1..Len(reqs) + 1
        PROVE  (f \o back)[i] = IF i <= k THEN reqs[i] ELSE IF i = k + 1 THEN t ELSE reqs[i - 1]
    <3>1. i \in 1..Len(f) + Len(back)
      BY <1>1, <1>2, <1>6, <2>1
    <3>2. CASE i <= k + 1
      BY <1>2, <2>1, <2>2, <3>1, <3>2
    <3>3. CASE ~(i <= k + 1)
      <4>1. i - (k + 1) \in 1..Len(reqs) - k /\ k + (i - (k + 1)) = i - 1
        BY <1>1, <1>2, <3>3
      <4>2. (f \o back)[i] = back[i - (k + 1)]
        BY <2>1, <2>2, <3>1, <3>3
      <4> QED BY <1>2, <1>6, <3>3, <4>1, <4>2
    <3> QED BY <3>2, <3>3
  <2>4. f \o back \in Seq(Task) /\ Len(f \o back) = Len(reqs) + 1
    BY <1>1, <1>2, <1>6, <2>1, <2>2
  <2> QED BY <2>3, <2>4 DEF f
<1> HIDE DEF r
<1>9. ASSUME NEW i \in 1..Len(r)
      PROVE  \/ i <= k /\ i \in 1..Len(reqs) /\ r[i] = reqs[i]
             \/ i = k + 1 /\ r[i] = t
             \/ i > k + 1 /\ i - 1 \in 1..Len(reqs) /\ r[i] = reqs[i - 1]
  BY <1>1, <1>2, <1>8
<1>10. \A i \in 1..Len(reqs) : reqs[i] # t
  BY DEF In
<1>11. ASSUME NEW i \in 1..Len(r), NEW j \in 1..Len(r), r[i] = r[j] PROVE i = j
  BY <1>2, <1>9, <1>10, <1>11, SMTT(30) DEF Listing
<1>12. In(r) = In(reqs) \cup {t}
  <2>1. \A u \in In(r) : u \in In(reqs) \cup {t}
    BY <1>9 DEF In
  <2>2. ASSUME NEW i \in 1..Len(reqs) PROVE reqs[i] \in In(r)
    <3>1. CASE i <= k
      BY <1>1, <1>8, <3>1 DEF In
    <3>2. CASE ~(i <= k)
      <4>1. i + 1 \in 1..Len(r) /\ i + 1 \in 1..Len(reqs) + 1 /\ r[i + 1] = reqs[i]
        BY <1>1, <1>2, <1>8, <3>2
      <4> QED BY <4>1 DEF In
    <3> QED BY <3>1, <3>2
  <2>3. t \in In(r)
    <3>1. k + 1 \in 1..Len(r) /\ r[k + 1] = t
      BY <1>1, <1>2, <1>8
    <3> QED BY <3>1 DEF In
  <2> QED BY <2>1, <2>2, <2>3 DEF In
<1>13. ASSUME NEW P, NEW Q, Leading(reqs, P, Q),
              \A u \in P : u # t /\ Priority[u] >= Priority[t]
       PROVE  Leading(r, P, Q)
  <2> SUFFICES ASSUME NEW i \in 1..Len(r), NEW j \in 1..Len(r), i < j, r[j] \in P
               PROVE  r[i] \in Q
    BY DEF Leading
  <2>1. r[j] # t /\ Priority[r[j]] >= Priority[t]
    BY <1>13
  <2>2. j <= k /\ j \in 1..Len(reqs) /\ r[j] = reqs[j]
    <3>1. CASE j > k + 1
      <4>1. j - 1 \in 1..Len(reqs) /\ r[j] = reqs[j - 1] /\ ~(j - 1 <= k)
        BY <1>2, <1>9, <3>1
      <4> QED BY <1>4, <2>1, <4>1
    <3> QED BY <1>9, <2>1, <3>1
  <2>3. i \in 1..Len(reqs) /\ r[i] = reqs[i]
    <3>1. i <= k /\ i # k + 1
      BY <1>2, <2>2
    <3> QED BY <1>2, <1>9, <3>1
  <2> QED BY <1>13, <2>2, <2>3 DEF Leading
<1>14. Listing(r)
  BY <1>8, <1>11 DEF Listing
<1>15. Sorted(r)
  <2> SUFFICES ASSUME NEW i \in 1..Len(r), NEW j \in 1..Len(r), i < j
               PROVE  Priority[r[i]] >= Priority[r[j]]
    BY DEF Sorted
  <2>1. Priority[t] \in Nat /\ \A u \in 1..Len(reqs) : Priority[reqs[u]] \in Nat
    BY <1>1, ZcoAssumption
  <2>2. \A u \in 1..Len(reqs) : u <= k <=> Priority[reqs[u]] >= Priority[t]
    BY <1>4
  <2>3. \A u, v \in 1..Len(reqs) : u < v => Priority[reqs[u]] >= Priority[reqs[v]]
    BY DEF Sorted
  <2>4. CASE i <= k /\ j = k + 1
    <3>1. i \in 1..Len(reqs) /\ r[i] = reqs[i] /\ r[j] = t
      BY <1>2, <1>9, <2>4
    <3> QED BY <2>2, <2>4, <3>1
  <2>5. CASE i = k + 1 /\ j > k + 1
    <3>1. j - 1 \in 1..Len(reqs) /\ r[j] = reqs[j - 1] /\ ~(j - 1 <= k) /\ r[i] = t
      BY <1>2, <1>9, <2>5
    <3>2. ~(Priority[reqs[j - 1]] >= Priority[t])
      BY <2>2, <3>1
    <3> QED BY <2>1, <3>1, <3>2
  <2>6. CASE i <= k /\ j <= k
    <3>1. i \in 1..Len(reqs) /\ j \in 1..Len(reqs) /\ r[i] = reqs[i] /\ r[j] = reqs[j]
      BY <1>2, <1>9, <2>6
    <3> QED BY <2>3, <3>1
  <2>7. CASE i <= k /\ j > k + 1
    <3>1. i \in 1..Len(reqs) /\ j - 1 \in 1..Len(reqs) /\ i < j - 1
          /\ r[i] = reqs[i] /\ r[j] = reqs[j - 1]
      BY <1>2, <1>9, <2>7
    <3> QED BY <2>3, <3>1
  <2>8. CASE i > k + 1
    <3>1. i - 1 \in 1..Len(reqs) /\ j - 1 \in 1..Len(reqs) /\ i - 1 < j - 1
          /\ r[i] = reqs[i - 1] /\ r[j] = reqs[j - 1]
      BY <1>2, <1>9, <2>8
    <3> QED BY <2>3, <3>1
  <2> QED BY <1>2, <1>9, <2>4, <2>5, <2>6, <2>7, <2>8
<1>16. /\ In(r) = In(reqs) \cup {t}
       /\ \A P, Q : /\ Leading(reqs, P, Q)
                    /\ \A u \in P : u # t /\ Priority[u] >= Priority[t]
                    => Leading(r, P, Q)
  BY <1>12, <1>13
<1> QED BY <1>3, <1>14, <1>15, <1>16, Zenon

-----------------------------------------------------------------------------
(* The inductive invariant.                                                *)
Places == {"idle", "lodged", "tried", "clearing", "ready", "waiting", "awarded",
           "created", "using", "refused", "dead"}
Sv == {t \in Task : Serviced(t)}

(* The reservations that nobody has overtaken.                             *)
Firm == Reserved \ overtaken

DataOK ==
  /\ Listing(requisitions)
  /\ secondsUnclaimed \in [Task -> -1..MAX_SECONDS_UNCLAIMED]
  /\ semaphore \in [Task -> {"taken", "given"}] /\ ended \in [Task -> BOOLEAN]
  /\ occupancy \in Nat /\ faults \in Nat
  /\ unoffered \in BOOLEAN /\ overtaken \in SUBSET Task
  /\ pc \in [Task -> Places]

ListedOK == Sv \subseteq In(requisitions)

(* The list is in the order of priorities.                                 *)
SortedOK == Sorted(requisitions)

(* A task that is not in a request has no requisition.                     *)
IdleOK == \A t \in Task : pc[t] \in {"idle", "using"} => t \notin In(requisitions)

HeldOK == Needs(Holders) <= occupancy

(* Space is awarded from the front of the list: only by overtaking does a  *)
(* requisition get in front of a reservation before it is serviced.        *)
LeadOK == Leading(requisitions, Firm, Sv)

(* A semaphore that is given announces space, or an end.                   *)
WakeOK ==
  \A t \in Task : pc[t] \in {"ready", "waiting"} /\ semaphore[t] = "given" /\ ~ended[t]
                    => Serviced(t)

(* The overtaken have reserved space, or they occupy it, or have died.     *)
OvertakenOK == \A t \in overtaken : t \in Reserved \/ pc[t] \in {"created", "using", "dead"}

(* What holds if those who live claim their space in time.                 *)
PromptOK == WakeOK /\ WokenIsServiced /\ OvertakenOK /\ NoOvercommit

IInv ==
  /\ DataOK /\ ListedOK /\ SortedOK /\ IdleOK /\ HeldOK /\ LeadOK
  /\ Prompt => PromptOK

LEMMA IInvTypeOK == ASSUME IInv PROVE TypeOK
<1>1. requisitions \in Seq(Task)
  BY DEF IInv, DataOK, Listing
<1>2. IsInjective(requisitions) /\ DOMAIN requisitions = 1..Len(requisitions)
  BY <1>1, ListingIs DEF IInv, DataOK
<1>3. \A t \in Task : Serviced(t) => \E k \in DOMAIN requisitions : requisitions[k] = t
  BY <1>2 DEF IInv, ListedOK, Sv, In
<1> QED BY <1>1, <1>2, <1>3 DEF IInv, DataOK, TypeOK, Places

(* What is added up in NoOvercommit.                                       *)
LEMMA SumsNat ==
  /\ Reserved \in SUBSET Task /\ Holders \in SUBSET Task
  /\ Needs(Reserved) \in Nat /\ Needs(Holders) \in Nat
  /\ overtaken \in SUBSET Task => Needs(overtaken) \in Nat
<1>1. Reserved \in SUBSET Task /\ Holders \in SUBSET Task
  BY DEF Reserved, Holders
<1> QED BY <1>1, NeedsNat

LEMMA InitIInv == Init => IInv
<1> SUFFICES ASSUME Init PROVE IInv
  OBVIOUS
<1>1. Listing(requisitions) /\ In(requisitions) = {} /\ Sorted(requisitions)
      /\ \A P, Q : Leading(requisitions, P, Q)
  BY EmptySeq DEF Init, Listing, In, Sorted, Leading
<1>2. secondsUnclaimed \in [Task -> -1..MAX_SECONDS_UNCLAIMED]
      /\ \A t \in Task : secondsUnclaimed[t] = -1
  BY ZcoAssumption DEF Init
<1>3. DataOK
  BY <1>1, <1>2 DEF Init, DataOK, Places
<1>4. Sv = {}
  BY <1>2 DEF Sv, Serviced
<1>5. ListedOK /\ IdleOK /\ SortedOK /\ LeadOK
  BY <1>1, <1>4 DEF ListedOK, IdleOK, SortedOK, LeadOK
<1>6. Holders = {} /\ Reserved = {} /\ overtaken = {}
  BY <1>4 DEF Init, Holders, Reserved, Sv
<1>7. HeldOK
  BY <1>6, NeedsNone DEF Init, HeldOK
<1>8. WakeOK /\ WokenIsServiced /\ OvertakenOK
  BY <1>6 DEF Init, WakeOK, WokenIsServiced, OvertakenOK
<1>9. NoOvercommit
  BY <1>6, NeedsNone, ZcoAssumption DEF Init, NoOvercommit
<1> QED BY <1>3, <1>5, <1>7, <1>8, <1>9 DEF IInv, PromptOK

(* The steps that leave the list and the account as they are.              *)
SameGroup(t) == /\ pc'[t] \in {"idle", "using"} => pc[t] \in {"idle", "using"}
                /\ pc'[t] \in {"created", "using"} <=> pc[t] \in {"created", "using"}
                /\ pc'[t] \in {"created", "dead"} <=> pc[t] \in {"created", "dead"}

LEMMA CalmStep ==
  ASSUME IInv, UNCHANGED <<requisitions, secondsUnclaimed, occupancy, overtaken>>, DataOK',
         \A t \in Task : SameGroup(t),
         WakeOK /\ WokenIsServiced => WakeOK' /\ WokenIsServiced'
  PROVE  IInv'
<1>1. Sv' = Sv /\ \A t \in Task : Serviced(t)' <=> Serviced(t)
  BY DEF Sv, Serviced
<1>2. Holders' = Holders /\ Reserved' = Reserved /\ Firm' = Firm
  BY <1>1 DEF Holders, Reserved, Firm, SameGroup
<1>3. ListedOK' /\ IdleOK' /\ SortedOK' /\ LeadOK'
  BY <1>1, <1>2 DEF IInv, ListedOK, IdleOK, SortedOK, LeadOK, SameGroup
<1>4. HeldOK' /\ (NoOvercommit => NoOvercommit')
  <2>1. Needs(Holders') = Needs(Holders) /\ Needs(Reserved') = Needs(Reserved)
        /\ Needs(overtaken') = Needs(overtaken) /\ occupancy' = occupancy
    BY <1>2
  <2> QED BY <2>1 DEF IInv, HeldOK, NoOvercommit
<1>5. OvertakenOK => OvertakenOK'
  <2> SUFFICES ASSUME OvertakenOK, NEW t \in overtaken
               PROVE  t \in Reserved' \/ pc'[t] \in {"created", "using", "dead"}
    BY DEF OvertakenOK
  <2>1. t \in Task
    BY DEF IInv, DataOK
  <2> QED BY <1>2, <2>1 DEF OvertakenOK, SameGroup
<1>6. Prompt => PromptOK'
  BY <1>4, <1>5 DEF IInv, PromptOK
<1> QED BY <1>3, <1>4, <1>6 DEF IInv

LEMMA LookKeeps == ASSUME IInv, NEW t \in Task, Look(t) PROVE IInv'
<1> USE DEF history, semaphores
<1>1. /\ pc \in [Task -> Places]
      /\ semaphore \in [Task -> {"taken", "given"}] /\ ended \in [Task -> BOOLEAN]
  BY DEF IInv, DataOK
<1>2. DataOK'
  BY <1>1 DEF Look, Goes, IInv, DataOK, Places
<1>3. \A u \in Task : SameGroup(u)
  BY <1>1 DEF Look, Goes, SameGroup
<1>4. WakeOK /\ WokenIsServiced => WakeOK' /\ WokenIsServiced'
  BY <1>1 DEF Look, Goes, WakeOK, WokenIsServiced, Serviced
<1>5. UNCHANGED <<requisitions, secondsUnclaimed, occupancy, overtaken>>
  BY DEF Look
<1> QED BY <1>2, <1>3, <1>4, <1>5, CalmStep

LEMMA ClearKeeps == ASSUME IInv, NEW t \in Task, Clear(t) PROVE IInv'
<1> USE DEF history, semaphores
<1>1. /\ pc \in [Task -> Places]
      /\ semaphore \in [Task -> {"taken", "given"}] /\ ended \in [Task -> BOOLEAN]
  BY DEF IInv, DataOK
<1>2. DataOK'
  BY <1>1 DEF Clear, Goes, SemTake, IInv, DataOK, Places
<1>3. \A u \in Task : SameGroup(u)
  BY <1>1 DEF Clear, Goes, SameGroup
<1>4. WakeOK /\ WokenIsServiced => WakeOK' /\ WokenIsServiced'
  BY <1>1 DEF Clear, Goes, SemTake, WakeOK, WokenIsServiced, Serviced
<1>5. UNCHANGED <<requisitions, secondsUnclaimed, occupancy, overtaken>>
  BY DEF Clear
<1> QED BY <1>2, <1>3, <1>4, <1>5, CalmStep

LEMMA SpaceAwardedKeeps == ASSUME IInv, NEW t \in Task, SpaceAwarded(t) PROVE IInv'
<1> USE DEF history, semaphores
<1>1. /\ pc \in [Task -> Places]
      /\ semaphore \in [Task -> {"taken", "given"}] /\ ended \in [Task -> BOOLEAN]
  BY DEF IInv, DataOK
<1>2. DataOK'
  BY <1>1 DEF SpaceAwarded, Goes, IInv, DataOK, Places
<1>3. \A u \in Task : SameGroup(u)
  BY <1>1 DEF SpaceAwarded, Goes, SameGroup
<1>4. WakeOK /\ WokenIsServiced => WakeOK' /\ WokenIsServiced'
  BY <1>1 DEF SpaceAwarded, Goes, WakeOK, WokenIsServiced, Serviced
<1>5. UNCHANGED <<requisitions, secondsUnclaimed, occupancy, overtaken>>
  BY DEF SpaceAwarded
<1> QED BY <1>2, <1>3, <1>4, <1>5, CalmStep

LEMMA WakeKeeps == ASSUME IInv, NEW t \in Task, Wake(t) PROVE IInv'
<1> USE DEF history, semaphores
<1>1. /\ pc \in [Task -> Places]
      /\ semaphore \in [Task -> {"taken", "given"}] /\ ended \in [Task -> BOOLEAN]
  BY DEF IInv, DataOK
<1>2. DataOK'
  BY <1>1 DEF Wake, Goes, SemTake, IInv, DataOK, Places
<1>3. \A u \in Task : SameGroup(u)
  BY <1>1 DEF Wake, Goes, SameGroup
<1>4. WakeOK /\ WokenIsServiced => WakeOK' /\ WokenIsServiced'
  BY <1>1 DEF Wake, Goes, SemTake, WakeOK, WokenIsServiced, Serviced
<1>5. UNCHANGED <<requisitions, secondsUnclaimed, occupancy, overtaken>>
  BY DEF Wake
<1> QED BY <1>2, <1>3, <1>4, <1>5, CalmStep

LEMMA PauseKeeps == ASSUME IInv, NEW t \in Task, Pause(t) PROVE IInv'
<1> USE DEF history, semaphores
<1>1. /\ pc \in [Task -> Places]
      /\ semaphore \in [Task -> {"taken", "given"}] /\ ended \in [Task -> BOOLEAN]
  BY DEF IInv, DataOK
<1>2. DataOK'
  BY <1>1 DEF Pause, SemEnd, SemGive, IInv, DataOK, Places
<1>3. \A u \in Task : SameGroup(u)
  BY <1>1 DEF Pause, Goes, SameGroup
<1>4. WakeOK /\ WokenIsServiced => WakeOK' /\ WokenIsServiced'
  BY <1>1 DEF Pause, SemEnd, SemGive, WakeOK, WokenIsServiced, Serviced
<1>5. UNCHANGED <<requisitions, secondsUnclaimed, occupancy, overtaken>>
  BY DEF Pause
<1> QED BY <1>2, <1>3, <1>4, <1>5, CalmStep

LEMMA ResumeKeeps == ASSUME IInv, NEW t \in Task, Resume(t) PROVE IInv'
<1> USE DEF history, semaphores
<1>1. /\ pc \in [Task -> Places]
      /\ semaphore \in [Task -> {"taken", "given"}] /\ ended \in [Task -> BOOLEAN]
  BY DEF IInv, DataOK
<1>2. DataOK'
  BY <1>1 DEF Resume, SemGive, IInv, DataOK, Places
<1>3. \A u \in Task : SameGroup(u)
  BY <1>1 DEF Resume, Goes, SameGroup
<1>4. WakeOK /\ WokenIsServiced => WakeOK' /\ WokenIsServiced'
  BY <1>1 DEF Resume, SemGive, WakeOK, WokenIsServiced, Serviced
<1>5. UNCHANGED <<requisitions, secondsUnclaimed, occupancy, overtaken>>
  BY DEF Resume
<1> QED BY <1>2, <1>3, <1>4, <1>5, CalmStep

(* A task that dies gives up its claim: what it occupies stays.            *)
LEMMA DieKeeps == ASSUME IInv, NEW t \in Task, Die(t) PROVE IInv'
<1>1. /\ pc \in [Task -> Places] /\ overtaken \in SUBSET Task /\ occupancy \in Nat
      /\ pc[t] # "dead" /\ pc' = [pc EXCEPT ![t] = "dead"]
      /\ overtaken' = IF t \in Holders THEN overtaken ELSE overtaken \ {t}
      /\ UNCHANGED <<requisitions, secondsUnclaimed, semaphore, ended, occupancy, unoffered>>
  BY DEF Die, semaphores, IInv, DataOK
<1>2. \A u \in Task : pc'[u] = IF u = t THEN "dead" ELSE pc[u]
  BY <1>1
<1>3. DataOK'
  <2>1. pc' \in [Task -> Places] /\ overtaken' \in SUBSET Task /\ faults' \in Nat
    BY <1>1 DEF Places, Die, IInv, DataOK
  <2> QED BY <1>1, <2>1 DEF IInv, DataOK
<1>4. Sv' = Sv /\ \A u \in Task : Serviced(u)' <=> Serviced(u)
  BY <1>1 DEF Sv, Serviced
<1>5. Reserved' = Reserved \ {t} /\ Holders' = Holders \ {t}
  BY <1>2, <1>4 DEF Reserved, Holders
<1>6. ListedOK' /\ SortedOK' /\ IdleOK'
  BY <1>1, <1>2, <1>4 DEF IInv, ListedOK, SortedOK, IdleOK
<1>7. LeadOK'
  <2>1. Firm' \subseteq Firm
    BY <1>1, <1>5 DEF Firm
  <2> QED BY <1>1, <1>4, <2>1 DEF IInv, LeadOK, Leading
<1>8. HeldOK'
  <2>1. Needs(Holders') <= Needs(Holders) /\ Needs(Holders') \in Nat /\ Needs(Holders) \in Nat
    BY <1>5, SumsNat, NeedsMonotone, NeedsNat
  <2>2. Needs(Holders) <= occupancy
    BY DEF IInv, HeldOK
  <2>3. Needs(Holders') <= occupancy'
    BY <1>1, <2>1, <2>2
  <2> QED BY <2>3 DEF HeldOK
<1>9. WakeOK /\ WokenIsServiced => WakeOK' /\ WokenIsServiced'
  BY <1>1, <1>2, <1>4 DEF WakeOK, WokenIsServiced
<1>10. OvertakenOK => OvertakenOK'
  <2> SUFFICES ASSUME OvertakenOK, NEW u \in overtaken'
               PROVE  u \in Reserved' \/ pc'[u] \in {"created", "using", "dead"}
    BY DEF OvertakenOK
  <2>1. u \in overtaken /\ u \in Task
    BY <1>1
  <2> QED BY <1>2, <1>5, <2>1 DEF OvertakenOK
<1>11. OvertakenOK /\ NoOvercommit => NoOvercommit'
  <2> SUFFICES ASSUME OvertakenOK, NoOvercommit PROVE NoOvercommit'
    OBVIOUS
  <2>1. /\ occupancy + Needs(Reserved) <= MaxOccupancy + Needs(overtaken)
        /\ Needs(Reserved) \in Nat /\ Needs(overtaken) \in Nat /\ MaxOccupancy \in Nat
        /\ Reserved \in SUBSET Task
    BY <1>1, SumsNat, ZcoAssumption DEF NoOvercommit
  <2>2. Needs(Reserved') <= Needs(Reserved) /\ Needs(Reserved') \in Nat
    BY <1>5, <2>1, NeedsMonotone, NeedsNat
  <2>3. occupancy + Needs(Reserved') <= MaxOccupancy + Needs(overtaken')
    <3>1. CASE overtaken' = overtaken
      BY <1>1, <2>1, <2>2, <3>1
    <3>2. CASE overtaken' # overtaken
      <4>1. t \in overtaken /\ t \notin Holders /\ overtaken' = overtaken \ {t}
        BY <1>1, <3>2
      <4>2. t \in Reserved
        BY <1>1, <4>1 DEF OvertakenOK, Holders
      <4>3. /\ Needs(overtaken) = Need[t] + Needs(overtaken')
            /\ Needs(Reserved) = Need[t] + Needs(Reserved')
            /\ Needs(overtaken') \in Nat /\ Need[t] \in Nat
        <5>1. overtaken \ {t} \in SUBSET Task /\ Reserved \ {t} \in SUBSET Task
          BY <1>1, <2>1
        <5> QED BY <1>1, <1>5, <2>1, <4>1, <4>2, <5>1, NeedsRemove, NeedsNat, NeedType
      <4> QED BY <1>1, <2>1, <2>2, <4>3
    <3> QED BY <3>1, <3>2
  <2> QED BY <1>1, <2>3 DEF NoOvercommit
<1>12. Prompt => PromptOK'
  BY <1>9, <1>10, <1>11 DEF IInv, PromptOK
<1> QED BY <1>3, <1>6, <1>7, <1>8, <1>12 DEF IInv

-----------------------------------------------------------------------------
(* ionProvideZcoSpace.                                                     *)
FirstOf(reqs, k) == {reqs[i] : i \in 1..k}

CanHave(reqs, occ, k) ==
  Serviced(reqs[k]) \/ Need[reqs[k]] <= MaxOccupancy - occ - Needs(FirstOf(reqs, k - 1))

(* Which requisitions it services.                                         *)
LEMMA ProvidedIs ==
  ASSUME NEW reqs, Listing(reqs), NEW occ
  PROVE  /\ Provided(reqs, occ) \subseteq In(reqs)
         /\ \A k \in 1..Len(reqs) : reqs[k] \in Provided(reqs, occ) <=>
              ~Serviced(reqs[k]) /\ \A i \in 1..k : CanHave(reqs, occ, i)
<1>1. DOMAIN reqs = 1..Len(reqs)
  BY ListingIs DEF Listing
<1> DEFINE K == {k \in DOMAIN reqs : ~Serviced(reqs[k]) /\ \A i \in 1..k : CanHave(reqs, occ, i)}
<1>2. Provided(reqs, occ) = {reqs[k] : k \in K}
  BY Zenon DEF Provided, CanHave, FirstOf
<1>3. \A k \in K : reqs[k] \in In(reqs)
  BY <1>1 DEF In
<1>4. \A k \in 1..Len(reqs) : reqs[k] \in Provided(reqs, occ) <=> k \in K
  <2>1. ASSUME NEW k \in 1..Len(reqs), reqs[k] \in Provided(reqs, occ) PROVE k \in K
    <3>1. PICK j \in K : reqs[k] = reqs[j]
      BY <1>2, <2>1
    <3>2. j \in 1..Len(reqs)
      BY <1>1
    <3>3. j = k
      BY <3>1, <3>2 DEF Listing
    <3> QED BY <3>3
  <2>2. ASSUME NEW k \in 1..Len(reqs), k \in K PROVE reqs[k] \in Provided(reqs, occ)
    BY <1>2, <2>2
  <2> QED BY <2>1, <2>2
<1>5. \A k \in 1..Len(reqs) : k \in K <=> ~Serviced(reqs[k]) /\ \A i \in 1..k : CanHave(reqs, occ, i)
  BY <1>1
<1> HIDE DEF K
<1> QED BY <1>2, <1>3, <1>4, <1>5

(* It awards what there is, from the front of the list, and no more.       *)
LEMMA ProvideStep ==
  ASSUME IInv, NEW occ \in Nat, ProvideZcoSpace(requisitions, occ),
         UNCHANGED <<requisitions, ended, faults>>, occupancy' = occ, unoffered' \in BOOLEAN,
         overtaken' \in SUBSET overtaken,
         \A t \in In(requisitions) : t \in overtaken => t \in overtaken',
         \A t \in overtaken' : pc[t] \in {"created", "using", "dead"} => pc'[t] \in {"created", "using", "dead"},
         occ + Needs(overtaken) <= occupancy + Needs(overtaken'),
         pc' \in [Task -> Places],
         \A t \in Task : /\ pc'[t] \in {"created", "dead"} <=> pc[t] \in {"created", "dead"}
                         /\ pc'[t] \in {"ready", "waiting"} => pc[t] = pc'[t]
                         /\ pc'[t] = "awarded" => pc[t] = "awarded"
                         /\ pc'[t] \in {"idle", "using"} => pc[t] \in {"idle", "using"},
         Needs(Holders') <= occ
  PROVE  IInv'
<1> DEFINE now == Provided(requisitions, occ)
<1>1. /\ secondsUnclaimed' = [t \in Task |-> IF t \in now THEN 0 ELSE secondsUnclaimed[t]]
      /\ semaphore' = [t \in Task |-> IF t \in now \cap Attended THEN "given" ELSE semaphore[t]]
  BY Zenon DEF ProvideZcoSpace, SemGive
<1>2. /\ Listing(requisitions) /\ requisitions \in Seq(Task) /\ Len(requisitions) \in Nat
      /\ In(requisitions) \in SUBSET Task
      /\ \A k \in 1..Len(requisitions) : requisitions[k] \in Task
  BY ListingIs DEF IInv, DataOK, Listing
<1>3. /\ now \subseteq In(requisitions)
      /\ \A k \in 1..Len(requisitions) : requisitions[k] \in now <=>
           ~Serviced(requisitions[k]) /\ \A i \in 1..k : CanHave(requisitions, occ, i)
  BY <1>2, ProvidedIs
<1> HIDE DEF now
<1>4. secondsUnclaimed \in [Task -> -1..MAX_SECONDS_UNCLAIMED]
      /\ semaphore \in [Task -> {"taken", "given"}]
      /\ overtaken \in SUBSET Task /\ occupancy \in Nat
  BY DEF IInv, DataOK
<1>5. /\ secondsUnclaimed' \in [Task -> -1..MAX_SECONDS_UNCLAIMED]
      /\ \A t \in Task : Serviced(t)' <=> Serviced(t) \/ t \in now
  BY <1>1, <1>4, ZcoAssumption DEF Serviced
<1>6. /\ semaphore' \in [Task -> {"taken", "given"}]
      /\ \A t \in Task : semaphore'[t] = "given" => semaphore[t] = "given" \/ t \in now
  BY <1>1, <1>4
<1>7. DataOK'
  BY <1>2, <1>4, <1>5, <1>6 DEF IInv, DataOK
<1>8. ListedOK' /\ IdleOK' /\ SortedOK'
  BY <1>2, <1>3, <1>5 DEF IInv, ListedOK, IdleOK, SortedOK, Sv
<1>9. HeldOK'
  BY DEF HeldOK
<1>10. WakeOK => WakeOK'
  BY <1>4, <1>5, <1>6 DEF WakeOK
<1>11. WokenIsServiced => WokenIsServiced'
  BY <1>5 DEF WokenIsServiced
<1>12. OvertakenOK => OvertakenOK'
  BY <1>4, <1>5 DEF OvertakenOK, Reserved
<1>13. ASSUME NEW j \in 1..Len(requisitions), requisitions[j] \in Firm'
       PROVE  requisitions[j] \in Firm \/ requisitions[j] \in now
  <2>1. requisitions[j] \in In(requisitions) /\ requisitions[j] \in Task
    BY <1>2 DEF In
  <2>2. requisitions[j] \in Reserved' /\ requisitions[j] \notin overtaken'
    BY <1>13 DEF Firm
  <2>3. requisitions[j] \notin overtaken
    BY <2>1, <2>2
  <2>4. /\ Serviced(requisitions[j]) \/ requisitions[j] \in now
        /\ pc[requisitions[j]] \notin {"created", "dead"}
    BY <1>5, <2>1, <2>2 DEF Reserved
  <2> QED BY <2>1, <2>3, <2>4 DEF Firm, Reserved
<1>14. LeadOK'
  <2> SUFFICES ASSUME NEW i \in 1..Len(requisitions), NEW j \in 1..Len(requisitions), i < j,
                      requisitions[j] \in Firm'
               PROVE  Serviced(requisitions[i])'
    BY <1>2 DEF LeadOK, Leading, Sv
  <2>1. CASE requisitions[j] \in Firm
    <3>1. Serviced(requisitions[i])
      BY <1>2, <2>1 DEF IInv, LeadOK, Leading, Sv
    <3> QED BY <1>2, <1>5, <3>1
  <2>2. CASE requisitions[j] \in now
    <3>1. \A k \in 1..i : k \in 1..j
      BY <1>2
    <3>2. \A k \in 1..i : CanHave(requisitions, occ, k)
      BY <1>3, <2>2, <3>1
    <3> QED BY <1>2, <1>3, <1>5, <3>2
  <2> QED BY <1>13, <2>1, <2>2
<1>15. ASSUME NoOvercommit PROVE NoOvercommit'
  <2>1. /\ Reserved \in SUBSET Task /\ Reserved' \in SUBSET Task /\ overtaken' \in SUBSET Task
        /\ Firm' \in SUBSET Task
        /\ Needs(Reserved) \in Nat /\ Needs(Reserved') \in Nat /\ Needs(Firm') \in Nat
        /\ Needs(overtaken) \in Nat /\ Needs(overtaken') \in Nat
    <3>1. Reserved \in SUBSET Task /\ Reserved' \in SUBSET Task /\ overtaken' \in SUBSET Task
          /\ Firm' \in SUBSET Task
      BY <1>4 DEF Reserved, Firm
    <3> QED BY <1>4, <3>1, NeedsNat
  <2>2. occ + Needs(Reserved') <= MaxOccupancy + Needs(overtaken')
    <3>1. CASE now = {}
      <4>1. Reserved' = Reserved
        BY <1>5, <3>1 DEF Reserved
      <4>2. occupancy + Needs(Reserved) <= MaxOccupancy + Needs(overtaken)
        BY <1>15 DEF NoOvercommit
      <4> QED BY <1>4, <2>1, <4>1, <4>2, ZcoAssumption
    <3>2. CASE now # {}
      <4> DEFINE Ks == {k \in 1..Len(requisitions) : requisitions[k] \in now}
      <4>1. PICK K \in Ks : \A k \in Ks : k <= K
        <5>1. Ks \in SUBSET Nat /\ Ks # {} /\ \A k \in Ks : k <= Len(requisitions)
          BY <1>2, <1>3, <3>2 DEF In
        <5> HIDE DEF Ks
        <5> QED BY <1>2, <5>1, GreatestExists
      <4>2. /\ K \in 1..Len(requisitions) /\ requisitions[K] \in now
            /\ ~Serviced(requisitions[K]) /\ CanHave(requisitions, occ, K)
            /\ requisitions[K] \in Task /\ K - 1 \in Nat
        BY <1>2, <1>3, <4>1
      <4> DEFINE F == FirstOf(requisitions, K - 1)
                 x == requisitions[K]
      <4>3. F \in SUBSET Task /\ x \notin F
        <5>1. \A i \in 1..(K - 1) : i \in 1..Len(requisitions) /\ i # K
          BY <1>2, <4>2
        <5> QED BY <1>2, <4>2, <5>1 DEF FirstOf, Listing
      <4>4. ASSUME NEW t \in Firm' PROVE t \in F \cup {x}
        <5>1. t \in Task /\ (Serviced(t) \/ t \in now)
          BY <1>5 DEF Firm, Reserved
        <5>2. PICK j \in 1..Len(requisitions) : requisitions[j] = t
          BY <1>3, <5>1 DEF IInv, ListedOK, Sv, In
        <5>3. j <= K
          <6>1. CASE t \in now
            BY <4>1, <5>2, <6>1
          <6>2. CASE t \in Firm
            <7>1. ~(K < j)
              BY <4>2, <5>1, <5>2, <6>2 DEF IInv, LeadOK, Leading, Sv
            <7> QED BY <1>2, <4>2, <7>1
          <6> QED BY <1>13, <5>2, <6>1, <6>2
        <5>4. j = K \/ j \in 1..(K - 1)
          BY <4>2, <5>3
        <5> QED BY <5>2, <5>4 DEF FirstOf
      <4>5. Need[x] <= MaxOccupancy - occ - Needs(F)
        BY <4>2 DEF CanHave
      <4> HIDE DEF F, x
      <4>6. x \in Task
        BY <4>2 DEF x
      <4>7. F \cup {x} \in SUBSET Task /\ Firm' \in SUBSET (F \cup {x})
        BY <4>3, <4>4, <4>6
      <4>8. Needs(Firm') <= Needs(F \cup {x})
        BY <4>7, NeedsMonotone
      <4>9. Needs(F \cup {x}) = Need[x] + Needs(F) /\ Needs(F) \in Nat /\ Need[x] \in Nat
        BY <4>3, <4>6, NeedsAdd, NeedsNat, NeedType
      <4>10. Needs(Reserved') <= Needs(Firm') + Needs(overtaken')
        BY <2>1, NeedsSplit DEF Firm
      <4>11. occ + Needs(Firm') <= MaxOccupancy
        BY <2>1, <4>5, <4>8, <4>9, ZcoAssumption
      <4> QED BY <2>1, <4>10, <4>11, ZcoAssumption
    <3> QED BY <3>1, <3>2
  <2> QED BY <2>2 DEF NoOvercommit
<1>16. Prompt => PromptOK'
  BY <1>10, <1>11, <1>12, <1>15 DEF IInv, PromptOK
<1> QED BY <1>7, <1>8, <1>9, <1>14, <1>16 DEF IInv

LEMMA ProvideKeeps == ASSUME IInv, NEW t \in Task, Provide(t) PROVE IInv'
<1>1. pc \in [Task -> Places] /\ occupancy \in Nat /\ overtaken \in SUBSET Task
      /\ Needs(overtaken) \in Nat
  BY SumsNat DEF IInv, DataOK
<1>2. /\ ProvideZcoSpace(requisitions, occupancy)
      /\ UNCHANGED <<requisitions, ended, faults, occupancy>> /\ unoffered' \in BOOLEAN
      /\ overtaken' = overtaken
      /\ pc[t] = "lodged" /\ pc' = [pc EXCEPT ![t] = "tried"]
  BY DEF Provide, Goes
<1>3. pc' \in [Task -> Places]
  BY <1>1, <1>2 DEF Places
<1>4. ASSUME NEW u \in Task
      PROVE  /\ pc'[u] \in {"created", "dead"} <=> pc[u] \in {"created", "dead"}
             /\ pc'[u] \in {"ready", "waiting"} => pc[u] = pc'[u]
             /\ pc'[u] = "awarded" => pc[u] = "awarded"
             /\ pc'[u] \in {"idle", "using"} => pc[u] \in {"idle", "using"}
             /\ pc'[u] \in {"created", "using"} <=> pc[u] \in {"created", "using"}
             /\ pc[u] \in {"created", "using", "dead"} => pc'[u] \in {"created", "using", "dead"}
  BY <1>1, <1>2
<1>5. Needs(Holders') <= occupancy
  <2>1. Holders' = Holders
    BY <1>4 DEF Holders
  <2> QED BY <2>1 DEF IInv, HeldOK
<1>6. /\ occupancy + Needs(overtaken) <= occupancy + Needs(overtaken')
      /\ overtaken' \in SUBSET overtaken
      /\ \A u \in In(requisitions) : u \in overtaken => u \in overtaken'
      /\ \A u \in overtaken' : pc[u] \in {"created", "using", "dead"}
                                 => pc'[u] \in {"created", "using", "dead"}
  BY <1>1, <1>2, <1>4
<1> QED BY <1>1, <1>2, <1>3, <1>4, <1>5, <1>6, ProvideStep

LEMMA DestroyKeeps == ASSUME IInv, NEW t \in Task, Destroy(t) PROVE IInv'
<1>1. pc \in [Task -> Places] /\ occupancy \in Nat /\ Need[t] \in Nat /\ overtaken \in SUBSET Task
      /\ Needs(overtaken) \in Nat
  BY NeedType, SumsNat DEF IInv, DataOK
<1>2. /\ ProvideZcoSpace(requisitions, occupancy')
      /\ UNCHANGED <<requisitions, ended, faults>> /\ unoffered' \in BOOLEAN
      /\ occupancy' = occupancy - Need[t]
      /\ overtaken' = overtaken \ {t}
      /\ pc[t] = "using" /\ pc' = [pc EXCEPT ![t] = "idle"]
  BY DEF Destroy, Goes
<1>3. pc' \in [Task -> Places]
  BY <1>1, <1>2 DEF Places
<1>4. ASSUME NEW u \in Task
      PROVE  /\ pc'[u] \in {"created", "dead"} <=> pc[u] \in {"created", "dead"}
             /\ pc'[u] \in {"ready", "waiting"} => pc[u] = pc'[u]
             /\ pc'[u] = "awarded" => pc[u] = "awarded"
             /\ pc'[u] \in {"idle", "using"} => pc[u] \in {"idle", "using"}
             /\ pc'[u] \in {"created", "using"} <=> u # t /\ pc[u] \in {"created", "using"}
             /\ u # t => pc'[u] = pc[u]
  BY <1>1, <1>2
<1>5. Needs(Holders') <= occupancy - Need[t] /\ occupancy - Need[t] \in Nat
  <2>1. Holders' = Holders \ {t} /\ t \in Holders /\ Holders \in SUBSET Task
    BY <1>2, <1>4 DEF Holders
  <2>2. Needs(Holders) = Need[t] + Needs(Holders') /\ Needs(Holders') \in Nat
    <3>1. Holders \ {t} \in SUBSET Task
      BY <2>1
    <3> QED BY <2>1, <3>1, NeedsRemove, NeedsNat
  <2>3. Needs(Holders) <= occupancy
    BY DEF IInv, HeldOK
  <2> QED BY <1>1, <2>2, <2>3
<1> DEFINE occ == occupancy'
<1>6. occ \in Nat /\ Needs(Holders') <= occ /\ occupancy' = occ
      /\ ProvideZcoSpace(requisitions, occ)
  BY <1>1, <1>2, <1>5
<1>7. occ + Needs(overtaken) <= occupancy + Needs(overtaken')
  <2>1. CASE t \in overtaken
    <3>1. Needs(overtaken) = Need[t] + Needs(overtaken') /\ Needs(overtaken') \in Nat
      <4>1. overtaken \ {t} \in SUBSET Task
        BY <1>1
      <4> QED BY <1>1, <1>2, <2>1, <4>1, NeedsRemove, NeedsNat
    <3>2. occ = occupancy - Need[t]
      BY <1>2
    <3> QED BY <1>1, <3>1, <3>2
  <2>2. CASE t \notin overtaken
    <3>1. overtaken' = overtaken
      BY <1>2, <2>2
    <3>2. Needs(overtaken') = Needs(overtaken)
      BY <3>1
    <3>3. occ = occupancy - Need[t]
      BY <1>2
    <3> HIDE DEF occ
    <3> QED BY <1>1, <3>2, <3>3
  <2> QED BY <2>1, <2>2
<1>8. /\ overtaken' \in SUBSET overtaken
      /\ \A u \in In(requisitions) : u \in overtaken => u \in overtaken'
      /\ \A u \in overtaken' : pc[u] \in {"created", "using", "dead"}
                                 => pc'[u] \in {"created", "using", "dead"}
  <2>1. t \notin In(requisitions)
    BY <1>2 DEF IInv, IdleOK
  <2> QED BY <1>1, <1>2, <1>4, <2>1
<1> HIDE DEF occ
<1> QED BY <1>1, <1>2, <1>3, <1>4, <1>6, <1>7, <1>8, ProvideStep

(* A new requisition goes behind the reservations it does not overtake.    *)
LEMMA RequestKeeps == ASSUME IInv, NEW t \in Task, Request(t) PROVE IInv'
<1>1. pc \in [Task -> Places] /\ Listing(requisitions) /\ Sorted(requisitions)
      /\ secondsUnclaimed \in [Task -> -1..MAX_SECONDS_UNCLAIMED]
      /\ requisitions \in Seq(Task) /\ In(requisitions) \in SUBSET Task
      /\ overtaken \in SUBSET Task /\ occupancy \in Nat
  BY ListingIs DEF IInv, DataOK, Listing, SortedOK
<1>2. /\ pc[t] = "idle" /\ pc' = [pc EXCEPT ![t] = "lodged"]
      /\ requisitions' = Inserted(requisitions, t)
      /\ secondsUnclaimed' = [secondsUnclaimed EXCEPT ![t] = -1]
      /\ overtaken' = overtaken \cup {u \in Reserved : Priority[u] < Priority[t]}
      /\ UNCHANGED <<semaphore, ended, occupancy, faults, unoffered>>
  BY DEF Request, Goes, semaphores
<1>3. t \notin In(requisitions) /\ t \notin Sv /\ t \notin Reserved
  BY <1>2 DEF IInv, IdleOK, ListedOK, Reserved, Sv
<1>4. /\ Listing(requisitions') /\ In(requisitions') = In(requisitions) \cup {t}
      /\ Sorted(requisitions')
      /\ \A P, Q : /\ Leading(requisitions, P, Q)
                   /\ \A u \in P : u # t /\ Priority[u] >= Priority[t]
                   => Leading(requisitions', P, Q)
  BY <1>1, <1>2, <1>3, InsertedListed
<1>5. Sv' = Sv /\ \A u \in Task : Serviced(u)' <=> Serviced(u)
  <2>1. ~Serviced(t)
    BY <1>3 DEF Sv
  <2>2. ASSUME NEW u \in Task PROVE Serviced(u)' <=> Serviced(u)
    BY <1>1, <1>2, <2>1 DEF Serviced
  <2> QED BY <2>2 DEF Sv
<1>6. Holders' = Holders /\ Reserved' = Reserved
  <2>1. \A u \in Task : /\ pc'[u] \in {"created", "using"} <=> pc[u] \in {"created", "using"}
                        /\ pc'[u] \in {"created", "dead"} <=> pc[u] \in {"created", "dead"}
    BY <1>1, <1>2
  <2> QED BY <1>5, <2>1 DEF Holders, Reserved
<1>7. DataOK'
  <2>1. -1 \in -1..MAX_SECONDS_UNCLAIMED
    BY ZcoAssumption
  <2>2. overtaken' \in SUBSET Task
    BY <1>1, <1>2 DEF Reserved
  <2> QED BY <1>1, <1>2, <1>4, <2>1, <2>2 DEF IInv, DataOK, Places
<1>8. ListedOK' /\ IdleOK' /\ SortedOK'
  BY <1>1, <1>2, <1>4, <1>5 DEF IInv, ListedOK, IdleOK, SortedOK
<1>9. LeadOK'
  <2>1. \A u \in Firm' : u \in Firm /\ u # t /\ Priority[u] >= Priority[t]
    <3>1. \A u \in Firm' : u \in Reserved /\ u \notin overtaken /\ ~(Priority[u] < Priority[t])
      BY <1>2, <1>6 DEF Firm
    <3>2. \A u \in Reserved : u \in Task /\ Priority[u] \in Nat /\ Priority[t] \in Nat
      BY ZcoAssumption DEF Reserved
    <3> QED BY <1>3, <3>1, <3>2 DEF Firm
  <2>2. Leading(requisitions, Firm', Sv)
    BY <2>1 DEF IInv, LeadOK, Leading
  <2> QED BY <1>4, <1>5, <2>1, <2>2 DEF LeadOK
<1>10. HeldOK'
  <2>1. Needs(Holders') = Needs(Holders) /\ occupancy' = occupancy
    BY <1>2, <1>6
  <2> QED BY <2>1 DEF IInv, HeldOK
<1>11. WakeOK /\ WokenIsServiced => WakeOK' /\ WokenIsServiced'
  BY <1>1, <1>2, <1>5 DEF WakeOK, WokenIsServiced
<1>12. OvertakenOK => OvertakenOK'
  <2>1. \A u \in Task : pc[u] \in {"created", "using", "dead"} => pc'[u] = pc[u]
    BY <1>1, <1>2
  <2> QED BY <1>1, <1>2, <1>6, <2>1 DEF OvertakenOK
<1>13. NoOvercommit => NoOvercommit'
  <2> SUFFICES ASSUME NoOvercommit PROVE NoOvercommit'
    OBVIOUS
  <2>1. overtaken' \in SUBSET Task /\ overtaken \in SUBSET overtaken'
    BY <1>1, <1>2 DEF Reserved
  <2>2. Needs(overtaken) <= Needs(overtaken') /\ Needs(overtaken') \in Nat
        /\ Needs(overtaken) \in Nat /\ Needs(Reserved) \in Nat
    BY <1>1, <2>1, NeedsMonotone, NeedsNat, SumsNat
  <2>3. occupancy' + Needs(Reserved') <= MaxOccupancy + Needs(overtaken')
    <3>1. Needs(Reserved') = Needs(Reserved) /\ occupancy' = occupancy
      BY <1>2, <1>6
    <3> QED BY <1>1, <2>2, <3>1, ZcoAssumption DEF NoOvercommit
  <2> QED BY <2>3 DEF NoOvercommit
<1>14. Prompt => PromptOK'
  BY <1>11, <1>12, <1>13 DEF IInv, PromptOK
<1> QED BY <1>7, <1>8, <1>9, <1>10, <1>14 DEF IInv

(* What was reserved for the task is what it occupies.                     *)
LEMMA CreateKeeps == ASSUME IInv, NEW t \in Task, Create(t) PROVE IInv'
<1>1. pc \in [Task -> Places] /\ occupancy \in Nat /\ Need[t] \in Nat /\ overtaken \in SUBSET Task
  BY NeedType DEF IInv, DataOK
<1>2. /\ pc[t] = "awarded" /\ pc' = [pc EXCEPT ![t] = "created"]
      /\ occupancy' = occupancy + Need[t]
      /\ UNCHANGED <<requisitions, secondsUnclaimed, semaphore, ended, faults, unoffered, overtaken>>
  BY DEF Create, Goes, history, semaphores
<1>3. DataOK'
  BY <1>1, <1>2 DEF IInv, DataOK, Places
<1>4. Sv' = Sv /\ \A u \in Task : Serviced(u)' <=> Serviced(u)
  BY <1>2 DEF Sv, Serviced
<1>5. /\ Holders' = Holders \cup {t} /\ t \notin Holders /\ Holders \in SUBSET Task
      /\ Reserved' = Reserved \ {t} /\ Reserved \in SUBSET Task
  <2>1. \A u \in Task : /\ pc'[u] \in {"created", "using"} <=> u = t \/ pc[u] \in {"created", "using"}
                        /\ pc'[u] \in {"created", "dead"} <=> u = t \/ pc[u] \in {"created", "dead"}
    BY <1>1, <1>2
  <2> QED BY <1>2, <1>4, <2>1 DEF Holders, Reserved
<1>6. ListedOK' /\ IdleOK' /\ SortedOK'
      /\ (WakeOK /\ WokenIsServiced => WakeOK' /\ WokenIsServiced')
  BY <1>1, <1>2, <1>4 DEF IInv, ListedOK, IdleOK, SortedOK, WakeOK, WokenIsServiced
<1>7. LeadOK'
  <2>1. Firm' \subseteq Firm
    BY <1>2, <1>5 DEF Firm
  <2> QED BY <1>2, <1>4, <2>1 DEF IInv, LeadOK, Leading
<1>8. HeldOK'
  <2>1. Needs(Holders') = Need[t] + Needs(Holders) /\ Needs(Holders) \in Nat
    BY <1>5, NeedsAdd, NeedsNat
  <2>2. Needs(Holders) <= occupancy
    BY DEF IInv, HeldOK
  <2>3. Needs(Holders') <= occupancy'
    BY <1>1, <1>2, <2>1, <2>2
  <2> QED BY <2>3 DEF HeldOK
<1>9. OvertakenOK => OvertakenOK'
  <2>1. \A u \in Task : u # t => pc'[u] = pc[u]
    BY <1>1, <1>2
  <2>2. pc'[t] = "created"
    BY <1>1, <1>2
  <2> QED BY <1>1, <1>2, <1>5, <2>1, <2>2 DEF OvertakenOK
<1>10. WokenIsServiced /\ NoOvercommit => NoOvercommit'
  <2> SUFFICES ASSUME WokenIsServiced, NoOvercommit PROVE NoOvercommit'
    OBVIOUS
  <2>1. t \in Reserved
    BY <1>2 DEF WokenIsServiced, Reserved
  <2>2. Needs(Reserved) = Need[t] + Needs(Reserved') /\ Needs(Reserved') \in Nat
    <3>1. Reserved \ {t} \in SUBSET Task
      BY <1>5
    <3> QED BY <1>5, <2>1, <3>1, NeedsRemove, NeedsNat
  <2>3. occupancy + Needs(Reserved) <= MaxOccupancy + Needs(overtaken)
        /\ Needs(overtaken) \in Nat /\ Needs(overtaken') = Needs(overtaken)
    BY <1>1, <1>2, SumsNat DEF NoOvercommit
  <2>4. occupancy' + Needs(Reserved') <= MaxOccupancy + Needs(overtaken')
    BY <1>1, <1>2, <2>2, <2>3, ZcoAssumption
  <2> QED BY <2>4 DEF NoOvercommit
<1>11. Prompt => PromptOK'
  BY <1>6, <1>9, <1>10 DEF IInv, PromptOK
<1> QED BY <1>3, <1>6, <1>7, <1>8, <1>11 DEF IInv

(* Requisitions are dropped, by their tasks or by the clock.               *)
LEMMA DropStep ==
  ASSUME IInv, NEW D \in SUBSET Task,
         requisitions' = Only(requisitions, Task \ D), occupancy' = occupancy,
         secondsUnclaimed' \in [Task -> -1..MAX_SECONDS_UNCLAIMED],
         semaphore' \in [Task -> {"taken", "given"}], ended' \in [Task -> BOOLEAN],
         faults' \in Nat, unoffered' \in BOOLEAN, overtaken' \in SUBSET overtaken,
         pc' \in [Task -> Places],
         \A u \in Task : Serviced(u)' <=> Serviced(u) /\ u \notin D,
         \A u \in overtaken : u \notin D => u \in overtaken',
         \A u \in Task :
           /\ pc'[u] \in {"idle", "using"} => pc[u] \in {"idle", "using"} \/ u \in D
           /\ pc'[u] \in {"created", "using"} => pc[u] \in {"created", "using"}
           /\ pc[u] \in {"created", "dead"} => u \in D \/ pc'[u] \in {"created", "dead"},
         Prompt => PromptOK'
  PROVE  IInv'
<1>1. Listing(requisitions) /\ In(requisitions) \in SUBSET Task /\ Task \ D \in SUBSET Task
      /\ Sorted(requisitions) /\ overtaken \in SUBSET Task
  BY ListingIs DEF IInv, DataOK, Listing, SortedOK
<1>2. /\ Listing(requisitions') /\ In(requisitions') = In(requisitions) \cap (Task \ D)
      /\ Sorted(requisitions')
      /\ \A P, Q, P2, Q2 :
           /\ Leading(requisitions, P, Q)
           /\ \A t \in In(requisitions) \cap (Task \ D) : (t \in P2 => t \in P) /\ (t \in Q => t \in Q2)
           => Leading(requisitions', P2, Q2)
  BY <1>1, OnlyListed
<1>3. DataOK'
  BY <1>1, <1>2 DEF IInv, DataOK
<1>4. ListedOK'
  BY <1>2 DEF IInv, ListedOK, Sv
<1>5. IdleOK' /\ SortedOK'
  BY <1>2 DEF IInv, IdleOK, SortedOK
<1>6. LeadOK'
  <2>1. ASSUME NEW t \in In(requisitions) \cap (Task \ D)
        PROVE  (t \in Firm' => t \in Firm) /\ (t \in Sv => t \in Sv')
    BY <1>1 DEF Sv, Firm, Reserved
  <2>2. Leading(requisitions, Firm, Sv)
    BY DEF IInv, LeadOK
  <2> QED BY <1>2, <2>1, <2>2 DEF LeadOK
<1>7. HeldOK'
  <2>1. Holders' \in SUBSET Holders /\ Holders' \in SUBSET Task /\ Holders \in SUBSET Task
    BY DEF Holders
  <2>2. Needs(Holders') <= Needs(Holders) /\ Needs(Holders) \in Nat
        /\ Needs(Holders') \in Nat /\ occupancy \in Nat
    BY <2>1, NeedsMonotone, NeedsNat DEF IInv, DataOK
  <2>3. Needs(Holders') <= occupancy
    BY <2>2 DEF IInv, HeldOK
  <2> QED BY <2>3 DEF HeldOK
<1> QED BY <1>3, <1>4, <1>5, <1>6, <1>7 DEF IInv

LEMMA ShredKeeps == ASSUME IInv, NEW t \in Task, Shred(t) PROVE IInv'
<1>1. /\ pc \in [Task -> Places] /\ secondsUnclaimed \in [Task -> -1..MAX_SECONDS_UNCLAIMED]
      /\ semaphore \in [Task -> {"taken", "given"}] /\ ended \in [Task -> BOOLEAN]
      /\ faults \in Nat /\ unoffered \in BOOLEAN /\ overtaken \in SUBSET Task /\ occupancy \in Nat
  BY DEF IInv, DataOK
<1>2. /\ \/ /\ pc[t] = "created" /\ pc' = [pc EXCEPT ![t] = "using"]
            /\ unoffered' = unoffered /\ overtaken' = overtaken
         \/ /\ pc[t] = "refused" /\ pc' = [pc EXCEPT ![t] = "idle"]
            /\ unoffered' = TRUE /\ overtaken' = overtaken \ {t}
      /\ requisitions' = Only(requisitions, Task \ {t})
      /\ secondsUnclaimed' = [secondsUnclaimed EXCEPT ![t] = -1]
      /\ UNCHANGED <<semaphore, ended, occupancy, faults>>
  BY DEF Shred, Goes, history, semaphores
<1>3. pc' \in [Task -> Places] /\ pc'[t] \in {"using", "idle"}
      /\ \A u \in Task : u # t => pc'[u] = pc[u]
  BY <1>1, <1>2 DEF Places
<1>4. secondsUnclaimed' \in [Task -> -1..MAX_SECONDS_UNCLAIMED]
      /\ \A u \in Task : secondsUnclaimed'[u] = IF u = t THEN -1 ELSE secondsUnclaimed[u]
  BY <1>1, <1>2, ZcoAssumption
<1>5. \A u \in Task : Serviced(u)' <=> Serviced(u) /\ u \notin {t}
  BY <1>1, <1>4 DEF Serviced
<1>6. WakeOK /\ WokenIsServiced => WakeOK' /\ WokenIsServiced'
  BY <1>2, <1>3, <1>5 DEF WakeOK, WokenIsServiced
<1>7. ASSUME NEW u \in Task
      PROVE  /\ pc'[u] \in {"idle", "using"} => pc[u] \in {"idle", "using"} \/ u \in {t}
             /\ pc'[u] \in {"created", "using"} => pc[u] \in {"created", "using"}
             /\ pc[u] \in {"created", "dead"} => u \in {t} \/ pc'[u] \in {"created", "dead"}
  BY <1>1, <1>2, <1>3
<1>8. Reserved' = Reserved \ {t}
  BY <1>3, <1>5 DEF Reserved
<1>9. OvertakenOK => OvertakenOK'
  <2> SUFFICES ASSUME OvertakenOK, NEW u \in overtaken'
               PROVE  u \in Reserved' \/ pc'[u] \in {"created", "using", "dead"}
    BY DEF OvertakenOK
  <2>1. u \in overtaken /\ u \in Task
    BY <1>1, <1>2
  <2>2. CASE u = t
    BY <1>1, <1>2, <2>2
  <2>3. CASE u # t
    BY <1>3, <1>8, <2>1, <2>3 DEF OvertakenOK
  <2> QED BY <2>2, <2>3
<1>10. OvertakenOK /\ NoOvercommit => NoOvercommit'
  <2> SUFFICES ASSUME OvertakenOK, NoOvercommit PROVE NoOvercommit'
    OBVIOUS
  <2>1. /\ occupancy + Needs(Reserved) <= MaxOccupancy + Needs(overtaken)
        /\ Needs(Reserved) \in Nat /\ Needs(overtaken) \in Nat /\ MaxOccupancy \in Nat
        /\ Reserved \in SUBSET Task
    BY <1>1, SumsNat, ZcoAssumption DEF NoOvercommit
  <2>2. Needs(Reserved') <= Needs(Reserved) /\ Needs(Reserved') \in Nat
    BY <1>8, <2>1, NeedsMonotone, NeedsNat
  <2>3. occupancy + Needs(Reserved') <= MaxOccupancy + Needs(overtaken')
    <3>1. CASE overtaken' = overtaken
      BY <1>1, <2>1, <2>2, <3>1
    <3>2. CASE overtaken' # overtaken
      <4>1. t \in overtaken /\ pc[t] = "refused" /\ overtaken' = overtaken \ {t}
        BY <1>2, <3>2
      <4>2. t \in Reserved
        BY <4>1 DEF OvertakenOK
      <4>3. /\ Needs(overtaken) = Need[t] + Needs(overtaken')
            /\ Needs(Reserved) = Need[t] + Needs(Reserved')
            /\ Needs(overtaken') \in Nat /\ Need[t] \in Nat
        <5>1. overtaken \ {t} \in SUBSET Task /\ Reserved \ {t} \in SUBSET Task
          BY <1>1, <2>1
        <5> QED BY <1>1, <1>8, <2>1, <4>1, <4>2, <5>1, NeedsRemove, NeedsNat, NeedType
      <4> QED BY <1>1, <2>1, <2>2, <4>3
    <3> QED BY <3>1, <3>2
  <2>4. occupancy' + Needs(Reserved') <= MaxOccupancy + Needs(overtaken')
    BY <1>2, <2>3
  <2> QED BY <2>4 DEF NoOvercommit
<1>11. Prompt => PromptOK'
  BY <1>6, <1>9, <1>10 DEF IInv, PromptOK
<1>12. /\ {t} \in SUBSET Task /\ unoffered' \in BOOLEAN /\ faults' \in Nat
       /\ semaphore' \in [Task -> {"taken", "given"}] /\ ended' \in [Task -> BOOLEAN]
       /\ overtaken' \in SUBSET overtaken
       /\ \A u \in overtaken : u \notin {t} => u \in overtaken'
       /\ requisitions' = Only(requisitions, Task \ {t}) /\ occupancy' = occupancy
  BY <1>1, <1>2
<1> QED BY <1>3, <1>4, <1>5, <1>7, <1>11, <1>12, DropStep

(* If live tasks claim their space in time, the clock takes it from the    *)
(* dead only.                                                              *)
LEMMA ClockKeeps == ASSUME IInv, Clock PROVE IInv'
<1>1. /\ pc \in [Task -> Places] /\ secondsUnclaimed \in [Task -> -1..MAX_SECONDS_UNCLAIMED]
      /\ semaphore \in [Task -> {"taken", "given"}] /\ ended \in [Task -> BOOLEAN]
      /\ faults \in Nat /\ unoffered \in BOOLEAN /\ requisitions \in Seq(Task)
      /\ overtaken \in SUBSET Task
  BY DEF IInv, DataOK, Listing
<1>2. /\ Prompt => \A t \in Expired : pc[t] = "dead"
      /\ requisitions' = Only(requisitions, Task \ Expired)
      /\ secondsUnclaimed' = [t \in Task |->
           IF t \in Expired THEN -1
           ELSE IF t \in Aged THEN secondsUnclaimed[t] + 1 ELSE secondsUnclaimed[t]]
      /\ semaphore' = [t \in Task |-> IF t \in Expired \cap Attended THEN "given"
                                      ELSE semaphore[t]]
      /\ ended' = [t \in Task |-> ended[t] \/ t \in Expired \cap Attended]
      /\ unoffered' = (unoffered \/ Expired # {})
      /\ UNCHANGED <<occupancy, pc, faults, overtaken>>
  BY DEF Clock, SemEnd, SemGive
<1>3. /\ Expired \in SUBSET Task
      /\ \A t \in Aged : t \in Task /\ Serviced(t)
      /\ \A t \in Aged : t \notin Expired => secondsUnclaimed[t] # MAX_SECONDS_UNCLAIMED
  <2>1. DOMAIN requisitions = 1..Len(requisitions)
        /\ \A k \in 1..Len(requisitions) : requisitions[k] \in Task /\ k \in 1..k
    BY <1>1, ListingIs
  <2>2. \A t \in Aged : t \in Task /\ Serviced(t)
    BY <2>1 DEF Aged
  <2> QED BY <2>2 DEF Expired
<1>4. ASSUME NEW u \in Task
      PROVE  /\ secondsUnclaimed'[u] \in -1..MAX_SECONDS_UNCLAIMED
             /\ secondsUnclaimed'[u] >= 0 <=> secondsUnclaimed[u] >= 0 /\ u \notin Expired
  <2>1. CASE u \in Expired
    BY <1>1, <1>2, <2>1, ZcoAssumption
  <2>2. CASE u \notin Expired /\ u \in Aged
    <3>1. /\ secondsUnclaimed'[u] = secondsUnclaimed[u] + 1
          /\ secondsUnclaimed[u] >= 0 /\ secondsUnclaimed[u] # MAX_SECONDS_UNCLAIMED
          /\ secondsUnclaimed[u] \in -1..MAX_SECONDS_UNCLAIMED
      BY <1>1, <1>2, <1>3, <2>2 DEF Serviced
    <3> QED BY <2>2, <3>1, ZcoAssumption
  <2>3. CASE u \notin Expired /\ u \notin Aged
    BY <1>1, <1>2, <2>3
  <2> QED BY <2>1, <2>2, <2>3
<1>5. secondsUnclaimed' \in [Task -> -1..MAX_SECONDS_UNCLAIMED]
      /\ \A u \in Task : Serviced(u)' <=> Serviced(u) /\ u \notin Expired
  <2>1. secondsUnclaimed' \in [Task -> -1..MAX_SECONDS_UNCLAIMED]
    BY <1>2, <1>4
  <2> QED BY <1>4, <2>1 DEF Serviced
<1>6. /\ semaphore' \in [Task -> {"taken", "given"}] /\ ended' \in [Task -> BOOLEAN]
      /\ \A u \in Task : u \notin Expired => semaphore'[u] = semaphore[u] /\ (ended'[u] <=> ended[u])
  BY <1>1, <1>2
<1>7. ASSUME Prompt PROVE PromptOK'
  <2>1. \A u \in Expired : pc[u] = "dead"
    BY <1>2, <1>7
  <2>2. pc' = pc /\ occupancy' = occupancy /\ overtaken' = overtaken
    BY <1>2
  <2>3. Reserved' = Reserved
    BY <1>5, <2>1, <2>2 DEF Reserved
  <2>4. WakeOK' /\ WokenIsServiced'
    BY <1>5, <1>6, <1>7, <2>1, <2>2 DEF IInv, PromptOK, WakeOK, WokenIsServiced
  <2>5. OvertakenOK'
    BY <1>7, <2>2, <2>3 DEF IInv, PromptOK, OvertakenOK
  <2>6. NoOvercommit'
    <3>1. Needs(Reserved') = Needs(Reserved) /\ Needs(overtaken') = Needs(overtaken)
      BY <2>2, <2>3
    <3> QED BY <1>7, <2>2, <3>1 DEF IInv, PromptOK, NoOvercommit
  <2> QED BY <2>4, <2>5, <2>6 DEF PromptOK
<1>8. ASSUME NEW u \in Task
      PROVE  /\ pc'[u] \in {"idle", "using"} => pc[u] \in {"idle", "using"} \/ u \in Expired
             /\ pc'[u] \in {"created", "using"} => pc[u] \in {"created", "using"}
             /\ pc[u] \in {"created", "dead"} => u \in Expired \/ pc'[u] \in {"created", "dead"}
  BY <1>2
<1>9. /\ unoffered' \in BOOLEAN /\ faults' \in Nat /\ pc' \in [Task -> Places]
      /\ overtaken' \in SUBSET overtaken /\ occupancy' = occupancy
      /\ \A u \in overtaken : u \notin Expired => u \in overtaken'
  BY <1>1, <1>2
<1> QED BY <1>2, <1>3, <1>5, <1>6, <1>7, <1>8, <1>9, DropStep

-----------------------------------------------------------------------------
LEMMA NextIInv == IInv /\ [Next]_vars => IInv'
<1> SUFFICES ASSUME IInv, [Next]_vars PROVE IInv'
  OBVIOUS
<1>1. CASE UNCHANGED vars
  <2>1. UNCHANGED <<requisitions, secondsUnclaimed, semaphore, ended, occupancy, pc, faults,
                    unoffered, overtaken>>
    BY <1>1 DEF vars, history, semaphores
  <2>2. DataOK' /\ \A t \in Task : SameGroup(t)
    BY <2>1 DEF IInv, DataOK, SameGroup
  <2>3. WakeOK /\ WokenIsServiced => WakeOK' /\ WokenIsServiced'
    BY <2>1 DEF WakeOK, WokenIsServiced, Serviced
  <2> QED BY <2>1, <2>2, <2>3, CalmStep
<1>2. ASSUME NEW t \in Task, Claims(t) PROVE IInv'
  BY <1>2, ProvideKeeps, LookKeeps, ClearKeeps, SpaceAwardedKeeps, WakeKeeps, CreateKeeps,
     ShredKeeps DEF Claims
<1>3. ASSUME NEW t \in Task, Request(t) \/ Destroy(t) \/ Pause(t) \/ Resume(t) \/ Die(t)
      PROVE  IInv'
  BY <1>3, RequestKeeps, DestroyKeeps, PauseKeeps, ResumeKeeps, DieKeeps
<1> QED BY <1>1, <1>2, <1>3, ClockKeeps DEF Next

LEMMA SpecIInv == Spec => []IInv
BY InitIInv, NextIInv, PTL DEF Spec

(* Every variable keeps its type: the account is never credited with more  *)
(* than it was charged, no task is listed twice and no reservation gets    *)
(* older than it may, however tasks are interrupted or die.                *)
THEOREM TypeCorrect == Spec => []TypeOK
BY IInvTypeOK, SpecIInv, PTL

(* A task that wakes up has the space it waited for, whatever signals,     *)
(* deaths and revocations happen between its looks and its wait, if those  *)
(* who live claim their space before the clock takes it back.              *)
THEOREM WokenHasSpace == Prompt => (Spec => []WokenIsServiced)
<1>1. Prompt => (IInv => WokenIsServiced)
  BY DEF IInv, PromptOK
<1>2. CASE Prompt
  <2>1. IInv => WokenIsServiced
    BY <1>1, <1>2
  <2> QED BY <2>1, SpecIInv, PTL
<1> QED BY <1>2

(* Space is not given away twice, for any number of tasks of any needs and *)
(* priorities, beyond what was reserved for those that a requisition of    *)
(* higher priority has overtaken, if those who live claim theirs in time.  *)
THEOREM NeverOvercommitted == Prompt => (Spec => []NoOvercommit)
<1>1. Prompt => (IInv => NoOvercommit)
  BY DEF IInv, PromptOK
<1>2. CASE Prompt
  <2>1. IInv => NoOvercommit
    BY <1>1, <1>2
  <2> QED BY <2>1, SpecIInv, PTL
<1> QED BY <1>2
===============================================================================
