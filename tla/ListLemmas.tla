------------------------------- MODULE ListLemmas ------------------------------
(***************************************************************************)
(* Facts about numbers and lists that the proofs of several components     *)
(* need.  Induction is over a set of numbers, the form in which the provers *)
(* can use it.                                                             *)
(***************************************************************************)
EXTENDS Lists, FiniteSets, TLAPS, SequenceTheorems, FiniteSetTheorems,
        WellFoundedInduction

(* A set of numbers that is not empty has a least element.                 *)
LEMMA LeastExists ==
  ASSUME NEW S \in SUBSET Nat, S # {}
  PROVE  \E x \in S : \A y \in S : x <= y
<1>1. PICK x \in S : \A y \in S : ~ (<<y, x>> \in OpToRel(<, Nat))
  BY NatLessThanWellFounded, WFMin
<1>2. \A y \in S : ~ (y < x)
  BY <1>1 DEF OpToRel
<1> QED BY <1>2

(* Induction over the numbers that a set holds.                            *)
LEMMA SetInduction ==
  ASSUME NEW S, 0 \in S, \A n \in Nat : n \in S => n + 1 \in S
  PROVE  \A n \in Nat : n \in S
<1> SUFFICES ASSUME {n \in Nat : n \notin S} # {} PROVE FALSE
  OBVIOUS
<1>1. PICK x \in {n \in Nat : n \notin S} : \A y \in {n \in Nat : n \notin S} : x <= y
  BY LeastExists
<1>2. x # 0 /\ x - 1 \in Nat /\ x - 1 < x
  BY <1>1
<1>3. x - 1 \in S
  BY <1>1, <1>2
<1>4. (x - 1) + 1 \in S
  BY <1>2, <1>3
<1> QED BY <1>1, <1>4

(* A set of numbers that is bounded has a greatest element.                *)
LEMMA GreatestExists ==
  ASSUME NEW S \in SUBSET Nat, S # {}, NEW m \in Nat, \A x \in S : x <= m
  PROVE  \E x \in S : \A y \in S : y <= x
<1> DEFINE U == {n \in Nat : \A x \in S : x <= n}
<1>1. U \in SUBSET Nat /\ m \in U
  OBVIOUS
<1>2. PICK n \in U : \A y \in U : n <= y
  <2> HIDE DEF U
  <2> QED BY <1>1, LeastExists
<1>3. n \in S
  <2> SUFFICES ASSUME n \notin S PROVE FALSE
    OBVIOUS
  <2>1. \A x \in S : x < n
    BY <1>2
  <2>2. n - 1 \in Nat /\ \A x \in S : x <= n - 1
    <3>1. PICK x \in S : x < n
      BY <2>1
    <3>2. n \in Nat /\ n - 1 \in Nat
      BY <1>2, <3>1
    <3> QED BY <2>1, <3>2
  <2>3. n <= n - 1
    BY <1>2, <2>2
  <2> QED BY <1>2, <2>3
<1> QED BY <1>2, <1>3

-----------------------------------------------------------------------------
(* The recursive function by which Only is defined exists.                 *)
LEMMA OnlyDefined ==
  ASSUME NEW s, Len(s) \in Nat, NEW S
  PROVE  \E f : /\ f = [i \in 0..Len(s) |->
                         IF i = 0 THEN <<>>
                         ELSE IF s[i] \in S THEN Append(f[i - 1], s[i]) ELSE f[i - 1]]
                /\ Only(s, S) = f[Len(s)]
<1> DEFINE Def(f, n) == f = [i \in 0..n |->
                          IF i = 0 THEN <<>>
                          ELSE IF s[i] \in S THEN Append(f[i - 1], s[i]) ELSE f[i - 1]]
           N == {n \in Nat : \E f : Def(f, n)}
<1>1. 0 \in N
  <2>1. Def([i \in 0..0 |-> <<>>], 0)
    OBVIOUS
  <2> QED BY <2>1
<1>2. ASSUME NEW n \in Nat, n \in N PROVE n + 1 \in N
  <2>1. PICK f : Def(f, n)
    BY <1>2
  <2> DEFINE h == [i \in 0..(n + 1) |->
                     IF i <= n THEN f[i]
                     ELSE IF s[i] \in S THEN Append(f[i - 1], s[i]) ELSE f[i - 1]]
             body(k) == IF k = 0 THEN <<>>
                        ELSE IF s[k] \in S THEN Append(h[k - 1], s[k]) ELSE h[k - 1]
  <2>2. ASSUME NEW i \in 0..(n + 1) PROVE h[i] = body(i)
    <3>1. CASE i = 0
      BY <2>1, <3>1
    <3>2. CASE i # 0 /\ i <= n
      <4>1. i - 1 \in 0..n /\ i - 1 \in 0..(n + 1) /\ i \in 0..n
        BY <3>2
      <4>2. h[i - 1] = f[i - 1] /\ h[i] = f[i]
        BY <4>1
      <4> QED BY <2>1, <3>2, <4>1, <4>2
    <3>3. CASE i = n + 1
      <4>1. i - 1 \in 0..n /\ i - 1 \in 0..(n + 1)
        BY <3>3
      <4>2. h[i - 1] = f[i - 1]
        BY <4>1
      <4> QED BY <3>3, <4>2
    <3> QED BY <3>1, <3>2, <3>3
  <2>3. Def(h, n + 1)
    <3> HIDE DEF body
    <3>1. h = [i \in 0..(n + 1) |-> h[i]]
      OBVIOUS
    <3> HIDE DEF h
    <3>2. h = [i \in 0..(n + 1) |-> body(i)]
      BY <2>2, <3>1
    <3> QED BY <3>2 DEF body
  <2> HIDE DEF h, Def
  <2> QED BY <2>3
<1>3. \E f : Def(f, Len(s))
  <2> HIDE DEF N
  <2>1. Len(s) \in N
    BY <1>1, <1>2, SetInduction
  <2> QED BY <2>1 DEF N
<1> DEFINE g == CHOOSE f : Def(f, Len(s))
<1>4. Def(g, Len(s))
  <2> HIDE DEF Def
  <2> QED BY <1>3
<1>5. Only(s, S) = g[Len(s)]
  BY Zenon DEF Only
<1> HIDE DEF g
<1> QED BY <1>4, <1>5

(* The positions in s of what Only(s, S) keeps.                            *)
Picks(g, r, s, S, n) ==
  /\ g \in [1..Len(r) -> 1..n]
  /\ \A j, k \in 1..Len(r) : j < k => g[j] < g[k]
  /\ \A k \in 1..Len(r) : r[k] = s[g[k]] /\ r[k] \in S
  /\ \A i \in 1..n : s[i] \in S => \E k \in 1..Len(r) : g[k] = i

(* Only keeps the elements that are in the set, all of them, in their      *)
(* order.                                                                  *)
LEMMA OnlyKeeps ==
  ASSUME NEW E, NEW s \in Seq(E), NEW S
  PROVE  /\ Only(s, S) \in Seq(E)
         /\ \E g : Picks(g, Only(s, S), s, S, Len(s))
<1>1. Len(s) \in Nat
  OBVIOUS
<1>2. PICK f : /\ f = [i \in 0..Len(s) |->
                         IF i = 0 THEN <<>>
                         ELSE IF s[i] \in S THEN Append(f[i - 1], s[i]) ELSE f[i - 1]]
               /\ Only(s, S) = f[Len(s)]
  BY <1>1, OnlyDefined
<1> DEFINE N == {n \in Nat : n <= Len(s) => /\ f[n] \in Seq(E)
                                            /\ \E g : Picks(g, f[n], s, S, n)}
<1>3. 0 \in N
  <2>1. 0 \in 0..Len(s) /\ f[0] = <<>>
    BY <1>1, <1>2
  <2>2. Picks(<<>>, <<>>, s, S, 0)
    BY EmptySeq DEF Picks
  <2>3. <<>> \in Seq(E)
    BY EmptySeq
  <2> QED BY <2>1, <2>2, <2>3
<1>4. ASSUME NEW n \in Nat, n \in N PROVE n + 1 \in N
  <2> SUFFICES ASSUME n + 1 <= Len(s)
               PROVE  f[n + 1] \in Seq(E) /\ \E g : Picks(g, f[n + 1], s, S, n + 1)
    OBVIOUS
  <2>1. /\ n + 1 \in 0..Len(s) /\ n + 1 # 0 /\ n + 1 \in 1..Len(s) /\ (n + 1) - 1 = n
        /\ n <= Len(s)
    BY <1>1
  <2>2. f[n + 1] = IF s[n + 1] \in S THEN Append(f[n], s[n + 1]) ELSE f[n]
    BY <1>2, <2>1
  <2>3. f[n] \in Seq(E)
    BY <1>4, <2>1
  <2>4. PICK g : Picks(g, f[n], s, S, n)
    BY <1>4, <2>1
  <2> DEFINE r == f[n]
             x == s[n + 1]
  <2>5. Len(r) \in Nat /\ x \in E
    BY <2>1, <2>3
  <2> HIDE DEF r, x
  <2>6. CASE x \in S
    <3> DEFINE r2 == Append(r, x)
               g2 == [k \in 1..Len(r2) |-> IF k <= Len(r) THEN g[k] ELSE n + 1]
    <3>1. /\ f[n + 1] = r2 /\ r2 \in Seq(E) /\ Len(r2) = Len(r) + 1
          /\ \A k \in 1..Len(r) : r2[k] = r[k]
          /\ r2[Len(r) + 1] = x
      BY <2>2, <2>3, <2>5, <2>6 DEF r, x
    <3> HIDE DEF r2
    <3>2. \A k \in 1..Len(r2) : IF k <= Len(r) THEN k \in 1..Len(r) /\ g2[k] = g[k]
                                ELSE k = Len(r) + 1 /\ g2[k] = n + 1
      BY <2>5, <3>1
    <3>3. \A k \in 1..Len(r) : g[k] \in 1..n
      BY <2>4 DEF Picks, r
    <3>4. g2 \in [1..Len(r2) -> 1..(n + 1)]
      BY <2>5, <3>1, <3>2, <3>3
    <3>5. ASSUME NEW j \in 1..Len(r2), NEW k \in 1..Len(r2), j < k PROVE g2[j] < g2[k]
      <4>1. j <= Len(r) /\ j \in 1..Len(r) /\ g2[j] = g[j]
        BY <2>5, <3>1, <3>2, <3>5
      <4>2. CASE k <= Len(r)
        BY <2>4, <3>2, <3>5, <4>1, <4>2 DEF Picks, r
      <4>3. CASE ~(k <= Len(r))
        BY <3>2, <3>3, <4>1, <4>3
      <4> QED BY <4>2, <4>3
    <3>6. ASSUME NEW k \in 1..Len(r2) PROVE r2[k] = s[g2[k]] /\ r2[k] \in S
      <4>1. CASE k <= Len(r)
        BY <2>4, <3>1, <3>2, <4>1 DEF Picks, r
      <4>2. CASE ~(k <= Len(r))
        BY <2>6, <3>1, <3>2, <4>2 DEF x
      <4> QED BY <4>1, <4>2
    <3>7. ASSUME NEW i \in 1..(n + 1), s[i] \in S PROVE \E k \in 1..Len(r2) : g2[k] = i
      <4>1. CASE i \in 1..n
        <5>1. PICK k \in 1..Len(r) : g[k] = i
          BY <2>4, <3>7, <4>1 DEF Picks, r
        <5>2. k \in 1..Len(r2) /\ k <= Len(r)
          BY <2>5, <3>1
        <5> QED BY <3>2, <5>1, <5>2
      <4>2. CASE i = n + 1
        <5>1. Len(r) + 1 \in 1..Len(r2) /\ ~(Len(r) + 1 <= Len(r))
          BY <2>5, <3>1
        <5> QED BY <3>2, <4>2, <5>1
      <4> QED BY <4>1, <4>2
    <3> HIDE DEF g2
    <3>8. Picks(g2, r2, s, S, n + 1)
      BY <3>4, <3>5, <3>6, <3>7 DEF Picks
    <3> QED BY <3>1, <3>8
  <2>7. CASE x \notin S
    <3>1. f[n + 1] = r
      BY <2>2, <2>7 DEF r, x
    <3>2. Picks(g, r, s, S, n + 1)
      BY <2>4, <2>7 DEF Picks, r, x
    <3> QED BY <2>3, <3>1, <3>2 DEF r
  <2> QED BY <2>6, <2>7
<1>5. Len(s) \in N
  <2> HIDE DEF N
  <2> QED BY <1>1, <1>3, <1>4, SetInduction
<1> QED BY <1>1, <1>2, <1>5

-----------------------------------------------------------------------------
(* Lists that hold each element of a set once.                             *)

(* The list s holds the elements of S, each once.                          *)
Enumerates(s, S) ==
  /\ s \in Seq(S)
  /\ \A i, j \in 1..Len(s) : s[i] = s[j] => i = j
  /\ \A x \in S : \E i \in 1..Len(s) : s[i] = x

(* The empty list.                                                         *)
LEMMA NoneEnumerated == Enumerates(<<>>, {})
BY EmptySeq DEF Enumerates

(* How the list of a set looks.                                            *)
LEMMA EnumerationType ==
  ASSUME NEW s, NEW S, Enumerates(s, S)
  PROVE  /\ Len(s) \in Nat /\ DOMAIN s = 1..Len(s) /\ s \in Seq(S)
         /\ \A i \in 1..Len(s) : s[i] \in S
         /\ S = {s[i] : i \in 1..Len(s)}
         /\ s # <<>> => Len(s) > 0 /\ Head(s) = s[1] /\ Head(s) \in S
         /\ s = <<>> => S = {}
<1>1. s \in Seq(S) /\ \A x \in S : \E i \in 1..Len(s) : s[i] = x
  BY DEF Enumerates
<1>2. Len(s) \in Nat /\ DOMAIN s = 1..Len(s) /\ \A i \in 1..Len(s) : s[i] \in S
  BY <1>1, LenProperties, ElementOfSeq
<1>3. S = {s[i] : i \in 1..Len(s)}
  BY <1>1, <1>2
<1>4. s # <<>> => Len(s) > 0 /\ Head(s) = s[1]
  BY <1>1
<1>5. s = <<>> => S = {}
  BY <1>1
<1> QED BY <1>1, <1>2, <1>3, <1>4, <1>5

(* A set grows at the end of its list.                                     *)
LEMMA EnumerationGrows ==
  ASSUME NEW s, NEW S, Enumerates(s, S), NEW x, x \notin S
  PROVE  Enumerates(Append(s, x), S \union {x})
<1> DEFINE T == S \union {x}
<1>1. /\ Len(s) \in Nat /\ s \in Seq(S) /\ S = {s[i] : i \in 1..Len(s)}
      /\ \A i \in 1..Len(s) : s[i] \in S
  BY EnumerationType
<1>2. s \in Seq(T)
  BY <1>1, SeqMonotonic
<1> DEFINE r == Append(s, x)
<1>3. /\ r \in Seq(T) /\ Len(r) = Len(s) + 1 /\ r[Len(s) + 1] = x
      /\ \A i \in 1..Len(s) : r[i] = s[i]
  BY <1>2, AppendProperties
<1> HIDE DEF r
<1>4. \A i \in 1..Len(r) : i \in 1..Len(s) \/ i = Len(s) + 1
  BY <1>1, <1>3
<1>5. 1..Len(s) \subseteq 1..Len(r) /\ Len(s) + 1 \in 1..Len(r)
  BY <1>1, <1>3
<1>6. ASSUME NEW i \in 1..Len(r), NEW j \in 1..Len(r), r[i] = r[j] PROVE i = j
  BY <1>1, <1>3, <1>4, <1>6 DEF Enumerates
<1>7. ASSUME NEW y \in T PROVE \E i \in 1..Len(r) : r[i] = y
  <2>1. CASE y = x
    BY <1>3, <1>5, <2>1
  <2>2. CASE y \in S
    <3>1. PICK i \in 1..Len(s) : s[i] = y
      BY <1>1, <2>2
    <3> QED BY <1>3, <1>5, <3>1
  <2> QED BY <1>7, <2>1, <2>2
<1> HIDE DEF T
<1>8. Enumerates(r, T)
  BY <1>3, <1>6, <1>7 DEF Enumerates
<1> QED BY <1>8 DEF r, T

(* What is left is in the order it was in.                                 *)
LEMMA EnumerationShrinks ==
  ASSUME NEW s, NEW S, Enumerates(s, S), NEW x
  PROVE  /\ Enumerates(Removed(s, x), S \ {x})
         /\ \E g : Picks(g, Removed(s, x), s, S \ {x}, Len(s))
<1>1. /\ Len(s) \in Nat /\ s \in Seq(S) /\ S = {s[i] : i \in 1..Len(s)}
      /\ \A i \in 1..Len(s) : s[i] \in S
      /\ DOMAIN s = 1..Len(s)
  BY EnumerationType
<1> DEFINE T == S \ {x}
           r == Only(s, T)
<1>2. Removed(s, x) = r
  BY <1>1 DEF Removed
<1>3. r \in Seq(S) /\ \E g : Picks(g, r, s, T, Len(s))
  BY <1>1, OnlyKeeps
<1> HIDE DEF r
<1>4. PICK g : Picks(g, r, s, T, Len(s))
  BY <1>3
<1>5. /\ Len(r) \in Nat /\ DOMAIN r = 1..Len(r) /\ r \in [1..Len(r) -> S]
  BY <1>3, LenProperties
<1> HIDE DEF T
<1>6. \A k \in 1..Len(r) : r[k] = s[g[k]] /\ r[k] \in T /\ g[k] \in 1..Len(s)
  BY <1>4 DEF Picks
<1>7. r \in Seq(T)
  <2>1. r \in [1..Len(r) -> T]
    BY <1>5, <1>6
  <2> QED BY <1>5, <2>1, SeqDef
<1>8. ASSUME NEW i \in 1..Len(r), NEW j \in 1..Len(r), r[i] = r[j] PROVE i = j
  <2>1. s[g[i]] = s[g[j]] /\ g[i] \in 1..Len(s) /\ g[j] \in 1..Len(s)
    BY <1>6, <1>8
  <2>3. g[i] = g[j]
    BY <2>1 DEF Enumerates
  <2>4. Len(s) \in Nat
    BY <1>1
  <2>5. g[i] \in Int /\ ~(g[i] < g[j]) /\ ~(g[j] < g[i])
    BY <2>1, <2>3, <2>4
  <2>2. ~(i < j) /\ ~(j < i)
    BY <1>4, <2>5 DEF Picks
  <2> QED BY <2>2
<1>9. ASSUME NEW y \in T PROVE \E i \in 1..Len(r) : r[i] = y
  <2>1. PICK i \in 1..Len(s) : s[i] = y
    BY <1>1 DEF T
  <2>2. PICK k \in 1..Len(r) : g[k] = i
    BY <1>4, <2>1 DEF Picks
  <2> QED BY <1>6, <2>1, <2>2
<1>10. Enumerates(r, T)
  BY <1>7, <1>8, <1>9 DEF Enumerates
<1> QED BY <1>2, <1>4, <1>10 DEF T

(* A set shrinks at the head of its list.                                  *)
LEMMA EnumerationTail ==
  ASSUME NEW s, NEW S, Enumerates(s, S), s # <<>>
  PROVE  Enumerates(Tail(s), S \ {Head(s)})
<1>1. /\ Len(s) \in Nat /\ s \in Seq(S) /\ S = {s[i] : i \in 1..Len(s)}
      /\ \A i \in 1..Len(s) : s[i] \in S
      /\ Len(s) > 0 /\ Head(s) = s[1]
  BY EnumerationType
<1> DEFINE r == Tail(s)
           T == S \ {Head(s)}
<1>2. r \in Seq(S) /\ Len(r) = Len(s) - 1 /\ \A i \in 1..Len(r) : r[i] = s[i + 1]
  BY <1>1, HeadTailProperties
<1> HIDE DEF r
<1>3. ASSUME NEW i \in 1..Len(r)
      PROVE  i + 1 \in 1..Len(s) /\ i + 1 # 1 /\ 1 \in 1..Len(s)
  <2>1. Len(s) \in Nat /\ Len(r) = Len(s) - 1
    BY <1>1, <1>2
  <2> QED BY <2>1
<1>4. ASSUME NEW i \in 1..Len(r) PROVE r[i] \in T
  <2>1. r[i] = s[i + 1] /\ i + 1 \in 1..Len(s) /\ i + 1 # 1 /\ 1 \in 1..Len(s)
    BY <1>2, <1>3
  <2>2. s[i + 1] # s[1] /\ s[i + 1] \in S
    BY <1>1, <2>1 DEF Enumerates
  <2> QED BY <1>1, <2>1, <2>2
<1>5. r \in Seq(T)
  <2>1. r \in [1..Len(r) -> T] /\ Len(r) \in Nat
    BY <1>1, <1>2, <1>4, LenProperties
  <2> QED BY <2>1, SeqDef
<1>6. ASSUME NEW i \in 1..Len(r), NEW j \in 1..Len(r), r[i] = r[j] PROVE i = j
  <2>1. s[i + 1] = s[j + 1] /\ i + 1 \in 1..Len(s) /\ j + 1 \in 1..Len(s)
    BY <1>2, <1>3, <1>6
  <2>2. i + 1 = j + 1
    BY <2>1 DEF Enumerates
  <2> QED BY <2>2
<1>7. ASSUME NEW y \in T PROVE \E i \in 1..Len(r) : r[i] = y
  <2>1. PICK i \in 1..Len(s) : s[i] = y
    BY <1>1
  <2>3. i # 1
    BY <1>1, <2>1
  <2>4. Len(s) \in Nat /\ Len(r) = Len(s) - 1
    BY <1>1, <1>2
  <2>2. i - 1 \in 1..Len(r) /\ (i - 1) + 1 = i
    BY <2>3, <2>4
  <2> QED BY <1>2, <2>1, <2>2
<1> HIDE DEF T
<1>8. Enumerates(r, T)
  BY <1>5, <1>6, <1>7 DEF Enumerates
<1> QED BY <1>8 DEF r, T

(* A set is as large as its list is long.                                  *)
LEMMA EnumerationCounts ==
  ASSUME NEW s, NEW S, Enumerates(s, S)
  PROVE  IsFiniteSet(S) /\ Cardinality(S) = Len(s)
<1>1. /\ Len(s) \in Nat /\ DOMAIN s = 1..Len(s) /\ S = {s[i] : i \in 1..Len(s)}
      /\ s \in [1..Len(s) -> S]
  BY EnumerationType, LenProperties
<1>2. s \in Bijection(1..Len(s), S)
  BY <1>1 DEF Enumerates, Bijection, Injection, Surjection, IsInjective
<1>3. ExistsBijection(1..Len(s), S)
  BY <1>2 DEF ExistsBijection
<1> DEFINE n == Len(s)
<1>4. IsFiniteSet(1..n)
  <2>1. n \in Int /\ 1 \in Int
    BY <1>1
  <2> HIDE DEF n
  <2> QED BY <2>1, FS_Interval
<1> QED BY <1>1, <1>3, <1>4, FS_Bijection, FS_CountingElements
===============================================================================
