----------------------------- MODULE UartCl_proofs -----------------------------
(***************************************************************************)
(* Proofs about UartCl for every value of its constants: its types, that   *)
(* bundles come out of the line in order and once, and that stewardship is *)
(* resolved.                                                               *)
(*                                                                         *)
(* The argument for the order: the bytes that have been received but not   *)
(* acquired, followed by those on the line, are a thinned-out copy of what *)
(* has been written.  Whatever is lost or mangled, a bundle whose bytes are *)
(* there is not about to be sent once more, and what has been delivered was *)
(* written before what is still to come.                                   *)
(***************************************************************************)
EXTENDS UartCl, ListLemmas

Stream == received \o line

-----------------------------------------------------------------------------
(* What bpEndAcq finds in a chunk: whole bundles, in the order of their    *)
(* last bytes.                                                             *)
Ends(g, found, chunk) ==
  /\ g \in [1..Len(found) -> 1..Len(chunk)]
  /\ \A j, k \in 1..Len(found) : j < k => g[j] < g[k]
  /\ \A k \in 1..Len(found) : chunk[g[k]] = <<found[k], Length[found[k]]>>

(* The part of the chunk that consists of whole bundles has an end.        *)
LEMMA WholePartExists ==
  ASSUME NEW chunk, Len(chunk) \in Nat
  PROVE  \E k \in 0..Len(chunk) :
           WholeTo(chunk, k) /\ (k < Len(chunk) => ~WholeTo(chunk, k + 1))
<1> DEFINE T == {k \in Nat : k < Len(chunk) => ~WholeTo(chunk, k + 1)}
<1>1. T \in SUBSET Nat /\ Len(chunk) \in T
  OBVIOUS
<1>2. PICK n \in T : \A y \in T : n <= y
  <2> HIDE DEF T
  <2> QED BY <1>1, LeastExists
<1>3. n \in 0..Len(chunk)
  BY <1>1, <1>2
<1>4. WholeTo(chunk, n)
  <2>1. CASE n = 0
    BY <2>1 DEF WholeTo
  <2>2. CASE n # 0
    <3>1. n - 1 \in Nat /\ n - 1 < n /\ n - 1 < Len(chunk)
      BY <1>3, <2>2
    <3>2. n - 1 \notin T
      BY <1>2, <3>1
    <3>3. WholeTo(chunk, (n - 1) + 1)
      BY <3>1, <3>2
    <3> QED BY <1>3, <3>3
  <2> QED BY <2>1, <2>2
<1> QED BY <1>2, <1>3, <1>4

(* What is acquired is in the chunk.                                       *)
LEMMA AcquirableOK ==
  ASSUME NEW chunk \in Seq(Byte)
  PROVE  /\ Acquirable(chunk) \in Seq(Bundle)
         /\ \E g : Ends(g, Acquirable(chunk), chunk)
<1> DEFINE Last == {<<b, Length[b]>> : b \in Bundle}
           n == CHOOSE k \in 0..Len(chunk) :
                  WholeTo(chunk, k) /\ (k < Len(chunk) => ~WholeTo(chunk, k + 1))
           part == SubSeq(chunk, 1, n)
           ends == Only(part, Last)
           found == [i \in DOMAIN ends |-> ends[i][1]]
<1>1. Len(chunk) \in Nat
  OBVIOUS
<1>2. n \in 0..Len(chunk)
  BY <1>1, WholePartExists, Zenon
<1>3. Acquirable(chunk) = found
  BY Zenon DEF Acquirable
<1> HIDE DEF n
<1>4. part \in Seq(Byte) /\ Len(part) = n /\ \A i \in 1..n : part[i] = chunk[i]
  <2>1. \A i \in 1..n : chunk[i] \in Byte
    BY <1>1, <1>2, ElementOfSeq
  <2> QED BY <1>1, <1>2, <2>1, SubSeqProperties
<1> HIDE DEF part, Last
<1>5. ends \in Seq(Byte) /\ \E g : Picks(g, ends, part, Last, Len(part))
  BY <1>4, OnlyKeeps
<1>6. PICK g : Picks(g, ends, part, Last, n)
  BY <1>4, <1>5
<1> HIDE DEF ends
<1>7. Len(ends) \in Nat /\ DOMAIN ends = 1..Len(ends)
  BY <1>5, LenProperties
<1>8. ASSUME NEW k \in 1..Len(ends)
      PROVE  /\ ends[k][1] \in Bundle /\ ends[k] = <<ends[k][1], Length[ends[k][1]]>>
             /\ g[k] \in 1..n /\ chunk[g[k]] = ends[k]
  <2>1. ends[k] \in Last
    BY <1>6 DEF Picks
  <2>2. PICK b \in Bundle : ends[k] = <<b, Length[b]>>
    BY <2>1 DEF Last
  <2>3. g[k] \in 1..n /\ ends[k] = part[g[k]]
    BY <1>6 DEF Picks
  <2> QED BY <1>4, <2>2, <2>3
<1>9. found \in Seq(Bundle) /\ Len(found) = Len(ends)
      /\ \A k \in 1..Len(ends) : found[k] = ends[k][1]
  <2>1. found \in [1..Len(ends) -> Bundle]
    BY <1>7, <1>8
  <2> QED BY <1>7, <2>1
<1>10. g \in [1..Len(found) -> 1..Len(chunk)]
  <2>1. g \in [1..Len(ends) -> 1..n]
    BY <1>6 DEF Picks
  <2>2. \A i \in 1..n : i \in 1..Len(chunk)
    BY <1>1, <1>2
  <2> QED BY <1>9, <2>1, <2>2
<1>11. Ends(g, found, chunk)
  BY <1>6, <1>8, <1>9, <1>10 DEF Ends, Picks
<1> QED BY <1>3, <1>9, <1>11

-----------------------------------------------------------------------------
(* The order of the line.  st is what has been written and not acquired,   *)
(* dl what has been delivered, wr what has been given to write().          *)
Before(wr, b, c) ==
  \E m, n \in 1..Len(wr) : m < n /\ wr[m] = b /\ wr[n] = c

Real(x) == x # Mangled

(* No byte of bundle b is there.                                           *)
Absent(b, st) == \A q \in 1..Len(st) : st[q][1] # b
Undelivered(b, dl) == \A i \in 1..Len(dl) : dl[i] # b

StreamWritten(st, wr) ==
  \A q \in 1..Len(st) : Real(st[q]) => \E n \in 1..Len(wr) : wr[n] = st[q][1]
StreamInside(st) ==
  \A q \in 1..Len(st) : Real(st[q]) => st[q][2] <= Length[st[q][1]]
StreamOrder(st, wr) ==
  \A p, q \in 1..Len(st) : p < q /\ Real(st[p]) /\ Real(st[q]) =>
    IF st[p][1] = st[q][1] THEN st[p][2] < st[q][2] ELSE Before(wr, st[p][1], st[q][1])
DeliveredWritten(dl, wr) ==
  \A i \in 1..Len(dl) : \E n \in 1..Len(wr) : wr[n] = dl[i]
DeliveredFirst(st, dl, wr) ==
  \A i \in 1..Len(dl), q \in 1..Len(st) :
    Real(st[q]) => dl[i] # st[q][1] /\ Before(wr, dl[i], st[q][1])
DeliveredOrder(dl, wr) ==
  \A i, j \in 1..Len(dl) : i < j => dl[i] # dl[j] /\ Before(wr, dl[i], dl[j])

Ordered(st, dl, wr) ==
  /\ StreamWritten(st, wr) /\ StreamInside(st) /\ StreamOrder(st, wr)
  /\ DeliveredWritten(dl, wr) /\ DeliveredFirst(st, dl, wr)
  /\ DeliveredOrder(dl, wr)

(* A byte that is not mangled names a bundle.                              *)
LEMMA RealByte ==
  ASSUME NEW x \in Byte
  PROVE  /\ Real(x) => x[1] \in Bundle /\ x[2] \in Nat
         /\ ~Real(x) => x[1] = 0
         /\ 0 \notin Bundle
<1>1. 0 \notin Bundle
  BY UartAssumption
<1>2. ~Real(x) => x[1] = 0
  BY DEF Mangled, Real
<1>3. Real(x) => x[1] \in Bundle /\ x[2] \in Nat
  <2> SUFFICES ASSUME Real(x) PROVE x[1] \in Bundle /\ x[2] \in Nat
    OBVIOUS
  <2>1. x \in Bundle \X Nat
    BY DEF Byte, Real
  <2> QED BY <2>1
<1> QED BY <1>1, <1>2, <1>3

(* st2 is what is left of st when bytes at its front are lost and others   *)
(* are mangled.                                                            *)
Thinned(st2, st, d) ==
  /\ Len(st2) + d <= Len(st)
  /\ \A q \in 1..Len(st2) : Real(st2[q]) => st2[q] = st[q + d]

(* Loss and mangling keep the order.                                       *)
LEMMA ThinnedOrdered ==
  ASSUME NEW st \in Seq(Byte), NEW st2 \in Seq(Byte), NEW d \in Nat,
         NEW dl, NEW wr, Thinned(st2, st, d), Ordered(st, dl, wr)
  PROVE  Ordered(st2, dl, wr)
<1>1. ASSUME NEW q \in 1..Len(st2), Real(st2[q])
      PROVE  q + d \in 1..Len(st) /\ st2[q] = st[q + d]
  BY <1>1 DEF Thinned
<1>2. StreamWritten(st2, wr)
  BY <1>1 DEF Ordered, StreamWritten
<1>0. StreamInside(st2)
  BY <1>1 DEF Ordered, StreamInside
<1>3. StreamOrder(st2, wr)
  <2> SUFFICES ASSUME NEW p \in 1..Len(st2), NEW q \in 1..Len(st2),
                      p < q, Real(st2[p]), Real(st2[q])
               PROVE  IF st2[p][1] = st2[q][1] THEN st2[p][2] < st2[q][2]
                      ELSE Before(wr, st2[p][1], st2[q][1])
    BY DEF StreamOrder
  <2>1. p + d \in 1..Len(st) /\ st2[p] = st[p + d] /\ q + d \in 1..Len(st)
        /\ st2[q] = st[q + d] /\ p + d < q + d
    BY <1>1
  <2> QED BY <2>1 DEF Ordered, StreamOrder
<1>4. DeliveredFirst(st2, dl, wr)
  <2> SUFFICES ASSUME NEW i \in 1..Len(dl), NEW q \in 1..Len(st2), Real(st2[q])
               PROVE  dl[i] # st2[q][1] /\ Before(wr, dl[i], st2[q][1])
    BY DEF DeliveredFirst
  <2>1. q + d \in 1..Len(st) /\ st2[q] = st[q + d]
    BY <1>1
  <2> QED BY <2>1 DEF Ordered, DeliveredFirst
<1> QED BY <1>0, <1>2, <1>3, <1>4 DEF Ordered

LEMMA ThinnedAbsent ==
  ASSUME NEW st \in Seq(Byte), NEW st2 \in Seq(Byte), NEW d \in Nat,
         Thinned(st2, st, d), NEW b \in Bundle, Absent(b, st)
  PROVE  Absent(b, st2)
<1> SUFFICES ASSUME NEW q \in 1..Len(st2) PROVE st2[q][1] # b
  BY DEF Absent
<1>1. st2[q] \in Byte
  BY ElementOfSeq
<1>2. CASE Real(st2[q])
  <2>1. q + d \in 1..Len(st) /\ st2[q] = st[q + d]
    BY <1>2 DEF Thinned
  <2> QED BY <2>1 DEF Absent
<1>3. CASE ~Real(st2[q])
  BY <1>1, <1>3, RealByte
<1> QED BY <1>2, <1>3

(* One more write keeps what came before what.                             *)
LEMMA BeforeAppend ==
  ASSUME NEW wr \in Seq(Bundle), NEW b \in Bundle
  PROVE  /\ Append(wr, b) \in Seq(Bundle)
         /\ Len(Append(wr, b)) = Len(wr) + 1
         /\ Append(wr, b)[Len(wr) + 1] = b
         /\ \A c, e : Before(wr, c, e) => Before(Append(wr, b), c, e)
         /\ \A c : (\E n \in 1..Len(wr) : wr[n] = c) =>
                   \E n \in 1..Len(Append(wr, b)) : Append(wr, b)[n] = c
         /\ \A c : (\E n \in 1..Len(wr) : wr[n] = c) => Before(Append(wr, b), c, b)
<1> DEFINE w2 == Append(wr, b)
<1>1. w2 \in Seq(Bundle) /\ Len(w2) = Len(wr) + 1 /\ w2[Len(wr) + 1] = b
      /\ \A n \in 1..Len(wr) : w2[n] = wr[n]
  BY AppendProperties
<1>2. Len(wr) \in Nat
  OBVIOUS
<1> HIDE DEF w2
<1>3. (\A n \in 1..Len(wr) : n \in 1..Len(w2) /\ n < Len(wr) + 1) /\ Len(wr) + 1 \in 1..Len(w2)
  BY <1>1, <1>2
<1>4. \A c, e : Before(wr, c, e) => Before(w2, c, e)
  BY <1>1, <1>3 DEF Before
<1>5. \A c : (\E n \in 1..Len(wr) : wr[n] = c) => Before(w2, c, b)
  BY <1>1, <1>3 DEF Before
<1> QED BY <1>1, <1>3, <1>4, <1>5 DEF w2

(* What a write puts on the line keeps the order, if the bundle was not    *)
(* there before.                                                           *)
LEMMA WriteOrdered ==
  ASSUME NEW st \in Seq(Byte), NEW dl \in Seq(Bundle), NEW wr \in Seq(Bundle),
         NEW b \in Bundle, NEW k \in Int, k <= Length[b], NEW ps,
         ps = SubSeq(Bytes(b), 1, k),
         Ordered(st, dl, wr), Absent(b, st), Undelivered(b, dl)
  PROVE  /\ ps \in Seq(Byte)
         /\ Ordered(st \o ps, dl, Append(wr, b))
         /\ \A c \in Bundle : (c # b \/ k <= 0) /\ Absent(c, st) => Absent(c, st \o ps)
<1> DEFINE w2 == Append(wr, b)
           s2 == st \o ps
<1>1. Length[b] \in Nat
  BY UartAssumption
<1>2. ps \in Seq(Byte) /\ Len(ps) = (IF 1 <= k THEN k ELSE 0)
      /\ \A i \in 1..Len(ps) : ps[i] = <<b, i>> /\ i \in Nat
  <2>1. \A i \in 1..k : Bytes(b)[i] = <<b, i>> /\ i \in Nat
    BY <1>1 DEF Bytes
  <2>2. ASSUME NEW i \in 1..k PROVE Bytes(b)[i] \in Byte
    <3>1. <<b, i>> \in Bundle \X Nat
      BY <2>1
    <3> QED BY <2>1, <3>1 DEF Byte
  <2> QED BY <2>1, <2>2, SubSeqProperties
<1> HIDE DEF w2, s2
<1>3. /\ \A c, e : Before(wr, c, e) => Before(w2, c, e)
      /\ \A c : (\E n \in 1..Len(wr) : wr[n] = c) => \E n \in 1..Len(w2) : w2[n] = c
      /\ \A c : (\E n \in 1..Len(wr) : wr[n] = c) => Before(w2, c, b)
      /\ Len(wr) + 1 \in 1..Len(w2) /\ w2[Len(wr) + 1] = b
  BY BeforeAppend, Len(wr) \in Nat DEF w2
<1>4. s2 \in Seq(Byte) /\ Len(s2) = Len(st) + Len(ps)
      /\ \A q \in 1..Len(s2) : s2[q] = IF q <= Len(st) THEN st[q] ELSE ps[q - Len(st)]
  BY <1>2, ConcatProperties DEF s2
<1>5. ASSUME NEW q \in 1..Len(s2)
      PROVE  \/ q \in 1..Len(st) /\ s2[q] = st[q]
             \/ q > Len(st) /\ q - Len(st) \in 1..Len(ps) /\ s2[q] = <<b, q - Len(st)>>
  <2>1. Len(st) \in Nat /\ Len(ps) \in Nat
    BY <1>2
  <2>2. CASE q <= Len(st)
    BY <1>4, <2>1, <2>2
  <2>3. CASE ~(q <= Len(st))
    <3>1. q - Len(st) \in 1..Len(ps) /\ q > Len(st)
      BY <1>4, <2>1, <2>3
    <3> QED BY <1>2, <1>4, <2>3, <3>1
  <2> QED BY <2>2, <2>3
<1>6. StreamWritten(s2, w2)
  <2> SUFFICES ASSUME NEW q \in 1..Len(s2), Real(s2[q])
               PROVE  \E n \in 1..Len(w2) : w2[n] = s2[q][1]
    BY DEF StreamWritten
  <2>1. CASE q \in 1..Len(st) /\ s2[q] = st[q]
    BY <1>3, <2>1, ZenonT(30) DEF Ordered, StreamWritten
  <2>2. CASE s2[q] = <<b, q - Len(st)>>
    BY <1>3, <2>2
  <2> QED BY <1>5, <2>1, <2>2
<1>0. StreamInside(s2)
  <2> SUFFICES ASSUME NEW q \in 1..Len(s2), Real(s2[q])
               PROVE  s2[q][2] <= Length[s2[q][1]]
    BY DEF StreamInside
  <2>1. CASE q \in 1..Len(st) /\ s2[q] = st[q]
    BY <2>1 DEF Ordered, StreamInside
  <2>2. CASE q - Len(st) \in 1..Len(ps) /\ s2[q] = <<b, q - Len(st)>>
    <3>1. q - Len(st) <= k
      BY <1>2, <2>2
    <3> QED BY <1>1, <2>2, <3>1
  <2> QED BY <1>5, <2>1, <2>2
<1>7. StreamOrder(s2, w2)
  <2> SUFFICES ASSUME NEW p \in 1..Len(s2), NEW q \in 1..Len(s2),
                      p < q, Real(s2[p]), Real(s2[q])
               PROVE  IF s2[p][1] = s2[q][1] THEN s2[p][2] < s2[q][2]
                      ELSE Before(w2, s2[p][1], s2[q][1])
    BY DEF StreamOrder
  <2>0. Len(st) \in Nat
    OBVIOUS
  <2>1. CASE q \in 1..Len(st) /\ s2[q] = st[q]
    <3>1. p \in 1..Len(st) /\ s2[p] = st[p]
      <4>1. ~(p > Len(st))
        BY <2>0, <2>1
      <4> QED BY <1>5, <4>1, Zenon
    <3> QED BY <1>3, <2>1, <3>1 DEF Ordered, StreamOrder
  <2>2. CASE q > Len(st) /\ s2[q] = <<b, q - Len(st)>>
    <3>1. CASE p \in 1..Len(st) /\ s2[p] = st[p]
      <4>1. s2[p][1] # b /\ s2[q][1] = b
        BY <2>2, <3>1 DEF Absent
      <4>2. \E n \in 1..Len(wr) : wr[n] = st[p][1]
        BY <3>1 DEF Ordered, StreamWritten
      <4> QED BY <1>3, <3>1, <4>1, <4>2
    <3>2. CASE s2[p] = <<b, p - Len(st)>>
      <4>1. s2[p][1] = s2[q][1] /\ s2[p][2] = p - Len(st) /\ s2[q][2] = q - Len(st)
        BY <2>2, <3>2
      <4> QED BY <2>0, <4>1
    <3> QED BY <1>5, <3>1, <3>2
  <2> QED BY <1>5, <2>1, <2>2
<1>8. DeliveredWritten(dl, w2)
  BY <1>3 DEF Ordered, DeliveredWritten
<1>9. DeliveredFirst(s2, dl, w2)
  <2> SUFFICES ASSUME NEW i \in 1..Len(dl), NEW q \in 1..Len(s2), Real(s2[q])
               PROVE  dl[i] # s2[q][1] /\ Before(w2, dl[i], s2[q][1])
    BY DEF DeliveredFirst
  <2>1. CASE q \in 1..Len(st) /\ s2[q] = st[q]
    BY <1>3, <2>1 DEF Ordered, DeliveredFirst
  <2>2. CASE s2[q] = <<b, q - Len(st)>>
    <3>1. s2[q][1] = b
      BY <2>2
    <3>2. \E n \in 1..Len(wr) : wr[n] = dl[i]
      BY DEF Ordered, DeliveredWritten
    <3> QED BY <1>3, <3>1, <3>2 DEF Undelivered
  <2> QED BY <1>5, <2>1, <2>2
<1>10. DeliveredOrder(dl, w2)
  BY <1>3 DEF Ordered, DeliveredOrder
<1>11. \A c \in Bundle : (c # b \/ k <= 0) /\ Absent(c, st) => Absent(c, s2)
  <2> SUFFICES ASSUME NEW c \in Bundle, c # b \/ k <= 0, Absent(c, st), NEW q \in 1..Len(s2)
               PROVE  s2[q][1] # c
    BY DEF Absent
  <2>1. CASE q \in 1..Len(st) /\ s2[q] = st[q]
    BY <2>1 DEF Absent
  <2>2. CASE q - Len(st) \in 1..Len(ps) /\ s2[q] = <<b, q - Len(st)>>
    <3>1. Len(ps) \in Nat /\ Len(ps) # 0 /\ s2[q][1] = b
      BY <1>2, <2>2
    <3>2. c # b
      BY <1>2, <3>1
    <3> QED BY <3>1, <3>2
  <2> QED BY <1>5, <2>1, <2>2
<1> QED BY <1>0, <1>2, <1>6, <1>7, <1>8, <1>9, <1>10, <1>11 DEF Ordered, w2, s2

(* Acquiring a chunk keeps the order: what is acquired comes after what    *)
(* was delivered before and ahead of what is still on the line.            *)
LEMMA AcquireOrdered ==
  ASSUME NEW rc \in Seq(Byte), NEW ln \in Seq(Byte), NEW dl \in Seq(Bundle),
         NEW wr \in Seq(Bundle), Ordered(rc \o ln, dl, wr)
  PROVE  /\ Ordered(ln, dl \o Acquirable(rc), wr)
         /\ \A c \in Bundle : Absent(c, rc \o ln) /\ Undelivered(c, dl) =>
                                Absent(c, ln) /\ Undelivered(c, dl \o Acquirable(rc))
<1> DEFINE st == rc \o ln
           ac == Acquirable(rc)
           d2 == dl \o ac
<1>1. st \in Seq(Byte) /\ Len(st) = Len(rc) + Len(ln)
      /\ (\A q \in 1..Len(rc) : q \in 1..Len(st) /\ st[q] = rc[q])
      /\ \A q \in 1..Len(ln) : q + Len(rc) \in 1..Len(st) /\ st[q + Len(rc)] = ln[q]
  <2>1. Len(rc) \in Nat /\ Len(ln) \in Nat
    OBVIOUS
  <2>2. st \in Seq(Byte) /\ Len(st) = Len(rc) + Len(ln)
        /\ \A i \in 1..Len(rc) + Len(ln) : st[i] = IF i <= Len(rc) THEN rc[i] ELSE ln[i - Len(rc)]
    BY ConcatProperties
  <2> HIDE DEF st
  <2>3. ASSUME NEW q \in 1..Len(rc) PROVE q \in 1..Len(st) /\ st[q] = rc[q]
    BY <2>1, <2>2
  <2>4. ASSUME NEW q \in 1..Len(ln) PROVE q + Len(rc) \in 1..Len(st) /\ st[q + Len(rc)] = ln[q]
    <3>1. q + Len(rc) \in 1..Len(st) /\ ~(q + Len(rc) <= Len(rc)) /\ (q + Len(rc)) - Len(rc) = q
      BY <2>1, <2>2
    <3> QED BY <2>2, <3>1
  <2> QED BY <2>2, <2>3, <2>4
<1>2. ac \in Seq(Bundle) /\ \E g : Ends(g, ac, rc)
  BY AcquirableOK
<1>3. PICK g : Ends(g, ac, rc)
  BY <1>2
<1> HIDE DEF st, ac
<1>4. Ordered(st, dl, wr)
  BY DEF st
<1>5. ASSUME NEW k \in 1..Len(ac)
      PROVE  /\ g[k] \in 1..Len(st) /\ Real(st[g[k]]) /\ g[k] <= Len(rc)
             /\ st[g[k]][1] = ac[k] /\ st[g[k]][2] = Length[ac[k]] /\ ac[k] \in Bundle
  <2>1. g[k] \in 1..Len(rc) /\ rc[g[k]] = <<ac[k], Length[ac[k]]>>
    BY <1>3 DEF Ends
  <2>2. ac[k] \in Bundle
    BY <1>2, ElementOfSeq
  <2>3. ac[k] # 0
    BY <2>2, UartAssumption
  <2>4. Real(st[g[k]])
    BY <1>1, <2>1, <2>3 DEF Real, Mangled
  <2> QED BY <1>1, <2>1, <2>2, <2>4
<1>6. d2 \in Seq(Bundle) /\ Len(d2) = Len(dl) + Len(ac)
      /\ \A i \in 1..Len(d2) : \/ i \in 1..Len(dl) /\ d2[i] = dl[i]
                               \/ i > Len(dl) /\ i - Len(dl) \in 1..Len(ac) /\ d2[i] = ac[i - Len(dl)]
  <2>1. Len(dl) \in Nat /\ Len(ac) \in Nat
    BY <1>2
  <2>2. d2 \in Seq(Bundle) /\ Len(d2) = Len(dl) + Len(ac)
        /\ \A i \in 1..Len(dl) + Len(ac) : d2[i] = IF i <= Len(dl) THEN dl[i] ELSE ac[i - Len(dl)]
    BY <1>2, ConcatProperties
  <2> HIDE DEF d2
  <2>3. ASSUME NEW i \in 1..Len(d2)
        PROVE  \/ i \in 1..Len(dl) /\ d2[i] = dl[i]
               \/ i > Len(dl) /\ i - Len(dl) \in 1..Len(ac) /\ d2[i] = ac[i - Len(dl)]
    BY <2>1, <2>2
  <2> QED BY <2>2, <2>3
<1> HIDE DEF d2
<1>7. Thinned(ln, st, Len(rc))
  <2>1. Len(ln) + Len(rc) <= Len(st)
    BY <1>1, Len(rc) \in Nat, Len(ln) \in Nat
  <2> QED BY <1>1, <2>1 DEF Thinned
<1>8. Ordered(ln, dl, wr)
  BY <1>1, <1>4, <1>7, ThinnedOrdered, Len(rc) \in Nat
<1>9. DeliveredWritten(d2, wr)
  <2> SUFFICES ASSUME NEW i \in 1..Len(d2) PROVE \E n \in 1..Len(wr) : wr[n] = d2[i]
    BY DEF DeliveredWritten
  <2>1. CASE i \in 1..Len(dl) /\ d2[i] = dl[i]
    BY <1>4, <2>1 DEF Ordered, DeliveredWritten
  <2>2. CASE i - Len(dl) \in 1..Len(ac) /\ d2[i] = ac[i - Len(dl)]
    BY <1>4, <1>5, <2>2, ZenonT(30) DEF Ordered, StreamWritten
  <2> QED BY <1>6, <2>1, <2>2
<1>10. DeliveredFirst(ln, d2, wr)
  <2> SUFFICES ASSUME NEW i \in 1..Len(d2), NEW q \in 1..Len(ln), Real(ln[q])
               PROVE  d2[i] # ln[q][1] /\ Before(wr, d2[i], ln[q][1])
    BY DEF DeliveredFirst
  <2>1. CASE i \in 1..Len(dl) /\ d2[i] = dl[i]
    BY <1>8, <2>1 DEF Ordered, DeliveredFirst
  <2>2. CASE i - Len(dl) \in 1..Len(ac) /\ d2[i] = ac[i - Len(dl)]
    <3> DEFINE k == i - Len(dl)
               e == q + Len(rc)
    <3>1. e \in 1..Len(st) /\ st[e] = ln[q] /\ e > Len(rc)
      BY <1>1, Len(rc) \in Nat
    <3>2. /\ g[k] \in 1..Len(st) /\ Real(st[g[k]]) /\ g[k] <= Len(rc)
          /\ st[g[k]][1] = ac[k] /\ st[g[k]][2] = Length[ac[k]]
      BY <1>5, <2>2
    <3> HIDE DEF k, e
    <3>3. g[k] < e
      BY <3>1, <3>2, Len(rc) \in Nat
    <3>4. IF st[g[k]][1] = st[e][1] THEN st[g[k]][2] < st[e][2]
          ELSE Before(wr, st[g[k]][1], st[e][1])
      BY <1>4, <3>1, <3>2, <3>3 DEF Ordered, StreamOrder
    <3>5. st[e][2] <= Length[st[e][1]] /\ st[e][2] \in Nat /\ Length[st[e][1]] \in Nat
      <4>1. st[e] \in Byte
        BY <1>1, <3>1, ElementOfSeq
      <4>2. st[e][1] \in Bundle /\ st[e][2] \in Nat
        BY <3>1, <4>1, RealByte
      <4> QED BY <1>4, <3>1, <4>2, UartAssumption DEF Ordered, StreamInside
    <3>6. st[g[k]][1] # st[e][1]
      BY <3>2, <3>4, <3>5, SMTT(30)
    <3> QED BY <2>2, <3>1, <3>2, <3>4, <3>6 DEF k
  <2> QED BY <1>6, <2>1, <2>2
<1>11. DeliveredOrder(d2, wr)
  <2> SUFFICES ASSUME NEW i \in 1..Len(d2), NEW j \in 1..Len(d2), i < j
               PROVE  d2[i] # d2[j] /\ Before(wr, d2[i], d2[j])
    BY DEF DeliveredOrder
  <2>0. Len(dl) \in Nat
    OBVIOUS
  <2>1. CASE j \in 1..Len(dl) /\ d2[j] = dl[j]
    <3>1. ~(i > Len(dl))
      BY <2>0, <2>1
    <3>2. i \in 1..Len(dl) /\ d2[i] = dl[i]
      BY <1>6, <3>1, Zenon
    <3> QED BY <1>4, <2>1, <3>2 DEF Ordered, DeliveredOrder
  <2>2. CASE j - Len(dl) \in 1..Len(ac) /\ d2[j] = ac[j - Len(dl)]
    <3> DEFINE k == j - Len(dl)
    <3>1. /\ g[k] \in 1..Len(st) /\ Real(st[g[k]])
          /\ st[g[k]][1] = ac[k] /\ st[g[k]][2] = Length[ac[k]] /\ ac[k] \in Bundle
      BY <1>5, <2>2
    <3>2. CASE i \in 1..Len(dl) /\ d2[i] = dl[i]
      BY <1>4, <2>2, <3>1, <3>2 DEF Ordered, DeliveredFirst
    <3>3. CASE i - Len(dl) \in 1..Len(ac) /\ d2[i] = ac[i - Len(dl)]
      <4> DEFINE h == i - Len(dl)
      <4>1. /\ g[h] \in 1..Len(st) /\ Real(st[g[h]])
            /\ st[g[h]][1] = ac[h] /\ st[g[h]][2] = Length[ac[h]] /\ ac[h] \in Bundle
        BY <1>5, <3>3
      <4>2. h < k
        BY <2>0
      <4>3. g[h] < g[k]
        BY <1>3, <2>2, <3>3, <4>2 DEF Ends
      <4> HIDE DEF h, k
      <4>4. IF st[g[h]][1] = st[g[k]][1] THEN st[g[h]][2] < st[g[k]][2]
            ELSE Before(wr, st[g[h]][1], st[g[k]][1])
        BY <1>4, <3>1, <4>1, <4>3 DEF Ordered, StreamOrder
      <4>5. ac[h] # ac[k] /\ Before(wr, ac[h], ac[k])
        BY <3>1, <4>1, <4>4, UartAssumption
      <4> QED BY <2>2, <3>3, <4>5 DEF h, k
    <3> QED BY <1>6, <3>2, <3>3
  <2> QED BY <1>6, <2>1, <2>2
<1>12. \A c \in Bundle : Absent(c, st) /\ Undelivered(c, dl) => Absent(c, ln) /\ Undelivered(c, d2)
  <2> SUFFICES ASSUME NEW c \in Bundle, Absent(c, st), Undelivered(c, dl)
               PROVE  Absent(c, ln) /\ Undelivered(c, d2)
    OBVIOUS
  <2>1. Absent(c, ln)
    BY <1>1 DEF Absent
  <2>2. ASSUME NEW i \in 1..Len(d2) PROVE d2[i] # c
    <3>1. CASE i \in 1..Len(dl) /\ d2[i] = dl[i]
      BY <3>1 DEF Undelivered
    <3>2. CASE i - Len(dl) \in 1..Len(ac) /\ d2[i] = ac[i - Len(dl)]
      BY <1>5, <3>2 DEF Absent
    <3> QED BY <1>6, <3>1, <3>2
  <2> QED BY <2>1, <2>2 DEF Undelivered
<1> QED BY <1>8, <1>9, <1>10, <1>11, <1>12 DEF Ordered, st, d2, ac

-----------------------------------------------------------------------------
(* The inductive invariant.                                                *)
Busy == clo \in {"send", "handle"}

(* A bundle whose bytes have yet to be written, for the first time or      *)
(* again.                                                                  *)
Unsent(b) ==
  \/ fate[b] \in {"forward", "queued"}
  \/ clo = "send" /\ bundle = b
  \/ clo = "handle" /\ bundle = b /\ bytesSent = -1

(* The buffer holds the queued bundles, none twice, and the one that is    *)
(* being sent is not among them.                                           *)
QueueOK ==
  /\ \A i \in 1..Len(xmitBuffer) : fate[xmitBuffer[i]] = "queued"
  /\ \A i, j \in 1..Len(xmitBuffer) : i < j => xmitBuffer[i] # xmitBuffer[j]
  /\ Busy => bundle \in Bundle /\ fate[bundle] \in {"steward", "destroyed"}

(* What is to be written is nowhere on the way and has not arrived.        *)
FreshOK ==
  \A b \in Bundle : Unsent(b) => Absent(b, Stream) /\ Undelivered(b, delivered)

StewardOK ==
  \A b \in Bundle : fate[b] = "steward" =>
    openFailed \/ Length[b] > UARTCLA_BUFSZ \/ (Busy /\ bundle = b)

OrderOK == Ordered(Stream, delivered, written)

IInv == TypeOK /\ QueueOK /\ FreshOK /\ OrderOK /\ StewardOK

(* The steps that neither write to the line nor read from it.              *)
LEMMA QuietStep ==
  ASSUME IInv, UNCHANGED <<line, received, delivered, written>>,
         TypeOK', QueueOK', StewardOK',
         \A b \in Bundle : Unsent(b)' => Unsent(b)
  PROVE  IInv'
<1>1. Stream' = Stream /\ delivered' = delivered /\ written' = written
  BY DEF Stream
<1>2. OrderOK'
  BY <1>1 DEF IInv, OrderOK
<1>3. FreshOK'
  <2> SUFFICES ASSUME NEW b \in Bundle, Unsent(b)'
               PROVE  Absent(b, Stream') /\ Undelivered(b, delivered')
    BY DEF FreshOK
  <2>1. Unsent(b)
    OBVIOUS
  <2> QED BY <1>1, <2>1 DEF IInv, FreshOK
<1> QED BY <1>2, <1>3 DEF IInv

LEMMA InitIInv == Init => IInv
<1> SUFFICES ASSUME Init PROVE IInv
  OBVIOUS
<1>1. <<>> \in Seq(Bundle) /\ <<>> \in Seq(Byte) /\ <<>> \o <<>> = <<>> /\ Len(<<>>) = 0
  OBVIOUS
<1>2. TypeOK
  <2>1. fate \in [Bundle -> Fates]
    BY DEF Init, Fates
  <2>2. Len(received) <= UARTCLA_BUFSZ
    BY <1>1, UartAssumption DEF Init
  <2>3. xmitBuffer \in Seq(Bundle) /\ delivered \in Seq(Bundle) /\ written \in Seq(Bundle)
        /\ line \in Seq(Byte) /\ received \in Seq(Byte)
    BY <1>1 DEF Init
  <2> QED BY <2>1, <2>2, <2>3 DEF Init, TypeOK
<1>3. QueueOK
  BY <1>1 DEF Init, QueueOK, Busy
<1>4. FreshOK
  BY <1>1 DEF Init, FreshOK, Absent, Undelivered, Stream
<1>5. OrderOK
  BY <1>1 DEF Init, OrderOK, Ordered, StreamWritten, StreamInside, StreamOrder,
              DeliveredWritten, DeliveredFirst, DeliveredOrder, Stream
<1>6. StewardOK
  BY DEF Init, StewardOK
<1> QED BY <1>2, <1>3, <1>4, <1>5, <1>6 DEF IInv

LEMMA BpclmKeeps ==
  ASSUME IInv, Bpclm
  PROVE  IInv'
<1> USE DEF sending, cloVars, cliVars, struck, bounds
<1>1. PICK b \in Bundle : /\ fate[b] = "forward"
                          /\ fate' = [fate EXCEPT ![b] = "queued"]
                          /\ xmitBuffer' = Append(xmitBuffer, b)
  BY DEF Bpclm
<1>2. fate \in [Bundle -> Fates] /\ xmitBuffer \in Seq(Bundle)
  BY DEF IInv, TypeOK
<1>3. xmitBuffer' \in Seq(Bundle) /\ Len(xmitBuffer') = Len(xmitBuffer) + 1
      /\ (\A i \in 1..Len(xmitBuffer) : xmitBuffer'[i] = xmitBuffer[i])
      /\ xmitBuffer'[Len(xmitBuffer) + 1] = b
  BY <1>1, <1>2, AppendProperties
<1>4. fate' \in [Bundle -> Fates] /\ \A c \in Bundle : fate'[c] = IF c = b THEN "queued" ELSE fate[c]
  BY <1>1, <1>2 DEF Fates
<1>5. TypeOK'
  BY <1>3, <1>4 DEF Bpclm, IInv, TypeOK
<1>6. QueueOK'
  <2>1. ASSUME NEW i \in 1..Len(xmitBuffer')
        PROVE  \/ i \in 1..Len(xmitBuffer) /\ xmitBuffer'[i] = xmitBuffer[i]
                  /\ xmitBuffer[i] \in Bundle /\ fate[xmitBuffer[i]] = "queued"
               \/ i = Len(xmitBuffer) + 1 /\ xmitBuffer'[i] = b
    BY <1>2, <1>3, ElementOfSeq, Len(xmitBuffer) \in Nat DEF IInv, QueueOK
  <2>2. \A i \in 1..Len(xmitBuffer') : fate'[xmitBuffer'[i]] = "queued"
    BY <1>4, <2>1
  <2>3. ASSUME NEW i \in 1..Len(xmitBuffer'), NEW j \in 1..Len(xmitBuffer'), i < j
        PROVE  xmitBuffer'[i] # xmitBuffer'[j]
    <3>1. i \in 1..Len(xmitBuffer) /\ xmitBuffer'[i] = xmitBuffer[i]
          /\ fate[xmitBuffer[i]] = "queued"
      BY <1>2, <1>3, <2>1, <2>3
    <3> QED BY <1>1, <2>1, <2>3, <3>1 DEF IInv, QueueOK
  <2>4. Busy' => bundle' \in Bundle /\ fate'[bundle'] \in {"steward", "destroyed"}
    BY <1>1, <1>4 DEF Bpclm, IInv, QueueOK, Busy
  <2> QED BY <2>2, <2>3, <2>4 DEF QueueOK
<1>7. StewardOK'
  BY <1>4 DEF Bpclm, IInv, StewardOK, Busy
<1>8. \A c \in Bundle : Unsent(c)' => Unsent(c)
  BY <1>1, <1>4 DEF Bpclm, Unsent
<1>9. UNCHANGED <<line, received, delivered, written>>
  BY DEF Bpclm
<1> QED BY <1>5, <1>6, <1>7, <1>8, <1>9, QuietStep

(* What a fault leaves behind.                                             *)
LEMMA StrikesOK ==
  ASSUME TypeOK, NEW f, Strikes(f)
  PROVE  /\ openFailed' <=> openFailed \/ f = "openFails"
         /\ openFailed' \in BOOLEAN /\ spaced' = spaced
<1>1. openFailed' = (openFailed \/ f = "openFails") /\ spaced' = spaced
  BY DEF Strikes
<1>2. openFailed \in BOOLEAN
  BY DEF TypeOK
<1> QED BY <1>1, <1>2, Zenon

(* Steps of the operator, the receiver's port and the parts of uartclo     *)
(* that touch no bundle.                                                   *)
LEMMA IdleKeeps ==
  ASSUME IInv, TypeOK',
         UNCHANGED <<fate, xmitBuffer, line, received, delivered, written>>,
         UNCHANGED <<bundle, bytesSent>> \/ ~Busy',
         clo' # clo => ~Busy',
         Busy /\ ~Busy' => openFailed' \/ Length[bundle] > UARTCLA_BUFSZ,
         openFailed => openFailed'
  PROVE  IInv'
<1>1. Busy' => Busy /\ clo' = clo /\ bundle' = bundle /\ bytesSent' = bytesSent
  BY DEF Busy
<1>2. QueueOK'
  BY <1>1 DEF IInv, QueueOK
<1>3. StewardOK'
  BY <1>1 DEF IInv, StewardOK
<1>4. \A c \in Bundle : Unsent(c)' => Unsent(c)
  BY <1>1 DEF Unsent, Busy
<1> QED BY <1>2, <1>3, <1>4, QuietStep

LEMMA ShutDownCloKeeps == ASSUME IInv, ShutDownClo PROVE IInv'
<1> USE DEF sending, cloVars, cliVars, struck, bounds
<1>1. TypeOK'
  BY DEF ShutDownClo, SemEnd, IInv, TypeOK
<1>2. (Busy /\ ~Busy' => openFailed' \/ Length[bundle] > UARTCLA_BUFSZ) /\ (openFailed => openFailed')
  BY DEF ShutDownClo, SemEnd, Busy
<1>3. UNCHANGED <<fate, xmitBuffer, line, received, delivered, written>>
  BY DEF ShutDownClo, SemEnd
<1>4. (UNCHANGED <<bundle, bytesSent>> \/ ~Busy') /\ (clo' # clo => ~Busy')
  BY DEF ShutDownClo, SemEnd, Busy
<1> QED BY <1>1, <1>2, <1>3, <1>4, IdleKeeps

LEMMA StopOutductKeeps == ASSUME IInv, StopOutduct PROVE IInv'
<1> USE DEF sending, cloVars, cliVars, struck, bounds
<1>1. TypeOK'
  BY DEF StopOutduct, SemEnd, IInv, TypeOK
<1>2. (Busy /\ ~Busy' => openFailed' \/ Length[bundle] > UARTCLA_BUFSZ) /\ (openFailed => openFailed')
  BY DEF StopOutduct, SemEnd, Busy
<1>3. UNCHANGED <<fate, xmitBuffer, line, received, delivered, written>>
  BY DEF StopOutduct, SemEnd
<1>4. (UNCHANGED <<bundle, bytesSent>> \/ ~Busy') /\ (clo' # clo => ~Busy')
  BY DEF StopOutduct, SemEnd, Busy
<1> QED BY <1>1, <1>2, <1>3, <1>4, IdleKeeps

LEMMA ResetOutductKeeps == ASSUME IInv, ResetOutduct PROVE IInv'
<1> USE DEF sending, cloVars, cliVars, struck, bounds
<1>1. TypeOK'
  BY DEF ResetOutduct, IInv, TypeOK
<1>2. (Busy /\ ~Busy' => openFailed' \/ Length[bundle] > UARTCLA_BUFSZ) /\ (openFailed => openFailed')
  BY DEF ResetOutduct, Busy
<1>3. UNCHANGED <<fate, xmitBuffer, line, received, delivered, written>>
  BY DEF ResetOutduct
<1>4. (UNCHANGED <<bundle, bytesSent>> \/ ~Busy') /\ (clo' # clo => ~Busy')
  BY DEF ResetOutduct, Busy
<1> QED BY <1>1, <1>2, <1>3, <1>4, IdleKeeps

LEMMA StartOutductKeeps == ASSUME IInv, StartOutduct PROVE IInv'
<1> USE DEF sending, cloVars, cliVars, struck, bounds
<1>1. TypeOK'
  BY DEF StartOutduct, IInv, TypeOK
<1>2. (Busy /\ ~Busy' => openFailed' \/ Length[bundle] > UARTCLA_BUFSZ) /\ (openFailed => openFailed')
  BY DEF StartOutduct, Busy
<1>3. UNCHANGED <<fate, xmitBuffer, line, received, delivered, written>>
  BY DEF StartOutduct
<1>4. (UNCHANGED <<bundle, bytesSent>> \/ ~Busy') /\ (clo' # clo => ~Busy')
  BY DEF StartOutduct, Busy
<1> QED BY <1>1, <1>2, <1>3, <1>4, IdleKeeps

LEMMA CloLoopKeeps == ASSUME IInv, CloLoop PROVE IInv'
<1> USE DEF sending, cloVars, cliVars, struck, bounds
<1>1. TypeOK'
  BY DEF CloLoop, IInv, TypeOK
<1>2. (Busy /\ ~Busy' => openFailed' \/ Length[bundle] > UARTCLA_BUFSZ) /\ (openFailed => openFailed')
  BY DEF CloLoop, Busy
<1>3. UNCHANGED <<fate, xmitBuffer, line, received, delivered, written>>
  BY DEF CloLoop
<1>4. (UNCHANGED <<bundle, bytesSent>> \/ ~Busy') /\ (clo' # clo => ~Busy')
  BY DEF CloLoop, Busy
<1> QED BY <1>1, <1>2, <1>3, <1>4, IdleKeeps

LEMMA CloNoBundleKeeps == ASSUME IInv, CloNoBundle PROVE IInv'
<1> USE DEF sending, cloVars, cliVars, struck, bounds
<1>1. TypeOK'
  BY DEF CloNoBundle, IInv, TypeOK
<1>2. (Busy /\ ~Busy' => openFailed' \/ Length[bundle] > UARTCLA_BUFSZ) /\ (openFailed => openFailed')
  BY DEF CloNoBundle, Busy
<1>3. UNCHANGED <<fate, xmitBuffer, line, received, delivered, written>>
  BY DEF CloNoBundle
<1>4. (UNCHANGED <<bundle, bytesSent>> \/ ~Busy') /\ (clo' # clo => ~Busy')
  BY DEF CloNoBundle, Busy
<1> QED BY <1>1, <1>2, <1>3, <1>4, IdleKeeps

LEMMA CloTakeSemaphoreKeeps == ASSUME IInv, CloTakeSemaphore PROVE IInv'
<1> USE DEF sending, cloVars, cliVars, struck, bounds
<1>1. TypeOK'
  BY ZenonT(30) DEF CloTakeSemaphore, IInv, TypeOK
<1>2. (Busy /\ ~Busy' => openFailed' \/ Length[bundle] > UARTCLA_BUFSZ) /\ (openFailed => openFailed')
  BY DEF CloTakeSemaphore, Busy
<1>3. UNCHANGED <<fate, xmitBuffer, line, received, delivered, written>>
  BY DEF CloTakeSemaphore
<1>4. (UNCHANGED <<bundle, bytesSent>> \/ ~Busy') /\ (clo' # clo => ~Busy')
  BY DEF CloTakeSemaphore, Busy
<1> QED BY <1>1, <1>2, <1>3, <1>4, IdleKeeps

LEMMA CloTooBigKeeps == ASSUME IInv, CloTooBig PROVE IInv'
<1> USE DEF sending, cloVars, cliVars, struck, bounds
<1>1. TypeOK'
  BY DEF CloTooBig, IInv, TypeOK
<1>2. (Busy /\ ~Busy' => openFailed' \/ Length[bundle] > UARTCLA_BUFSZ) /\ (openFailed => openFailed')
  BY DEF CloTooBig, Busy
<1>3. UNCHANGED <<fate, xmitBuffer, line, received, delivered, written>>
  BY DEF CloTooBig
<1>4. (UNCHANGED <<bundle, bytesSent>> \/ ~Busy') /\ (clo' # clo => ~Busy')
  BY DEF CloTooBig, Busy
<1> QED BY <1>1, <1>2, <1>3, <1>4, IdleKeeps

LEMMA CloOpenKeeps == ASSUME IInv, CloOpen PROVE IInv'
<1> USE DEF sending, cloVars, cliVars, struck, bounds
<1>1. TypeOK'
  BY ZenonT(30) DEF CloOpen, SemEnd, Strikes, Fits, IInv, TypeOK
<1>2. (Busy /\ ~Busy' => openFailed' \/ Length[bundle] > UARTCLA_BUFSZ) /\ (openFailed => openFailed')
  BY StrikesOK DEF CloOpen, Busy, IInv, SemEnd, Fits
<1>3. UNCHANGED <<fate, xmitBuffer, line, received, delivered, written>>
  BY DEF CloOpen, SemEnd, Strikes, Fits
<1>4. (UNCHANGED <<bundle, bytesSent>> \/ ~Busy') /\ (clo' # clo => ~Busy')
  BY DEF CloOpen, SemEnd, Strikes, Fits, Busy
<1> QED BY <1>1, <1>2, <1>3, <1>4, IdleKeeps

LEMMA CliOpenKeeps == ASSUME IInv, CliOpen PROVE IInv'
<1> USE DEF sending, cloVars, cliVars, struck, bounds
<1>1. TypeOK'
  BY DEF CliOpen, Strikes, IInv, TypeOK
<1>2. (Busy /\ ~Busy' => openFailed' \/ Length[bundle] > UARTCLA_BUFSZ) /\ (openFailed => openFailed')
  BY StrikesOK DEF CliOpen, Busy, IInv
<1>3. UNCHANGED <<fate, xmitBuffer, line, received, delivered, written>>
  BY DEF CliOpen, Strikes
<1>4. (UNCHANGED <<bundle, bytesSent>> \/ ~Busy') /\ (clo' # clo => ~Busy')
  BY DEF CliOpen, Strikes, Busy
<1> QED BY <1>1, <1>2, <1>3, <1>4, IdleKeeps

LEMMA CliTimeoutKeeps == ASSUME IInv, CliTimeout PROVE IInv'
<1> USE DEF sending, cloVars, cliVars, struck, bounds
<1>1. TypeOK'
  BY DEF CliTimeout, IInv, TypeOK
<1>2. (Busy /\ ~Busy' => openFailed' \/ Length[bundle] > UARTCLA_BUFSZ) /\ (openFailed => openFailed')
  BY DEF CliTimeout, Busy
<1>3. UNCHANGED <<fate, xmitBuffer, line, received, delivered, written>>
  BY DEF CliTimeout
<1>4. (UNCHANGED <<bundle, bytesSent>> \/ ~Busy') /\ (clo' # clo => ~Busy')
  BY DEF CliTimeout, Busy
<1> QED BY <1>1, <1>2, <1>3, <1>4, IdleKeeps

LEMMA StartInductKeeps == ASSUME IInv, StartInduct PROVE IInv'
<1> USE DEF sending, cloVars, cliVars, struck, bounds
<1>1. TypeOK'
  BY DEF StartInduct, IInv, TypeOK
<1>2. (Busy /\ ~Busy' => openFailed' \/ Length[bundle] > UARTCLA_BUFSZ) /\ (openFailed => openFailed')
  BY DEF StartInduct, Busy
<1>3. UNCHANGED <<fate, xmitBuffer, line, received, delivered, written>>
  BY DEF StartInduct
<1>4. (UNCHANGED <<bundle, bytesSent>> \/ ~Busy') /\ (clo' # clo => ~Busy')
  BY DEF StartInduct, Busy
<1> QED BY <1>1, <1>2, <1>3, <1>4, IdleKeeps

(* The bundle at the head of the buffer leaves it.                         *)
LEMMA CloDequeueKeeps == ASSUME IInv, CloDequeue PROVE IInv'
<1> USE DEF sending, cloVars, cliVars, struck, bounds
<1> DEFINE b == Head(xmitBuffer)
<1>1. fate \in [Bundle -> Fates] /\ xmitBuffer \in Seq(Bundle) /\ xmitBuffer # <<>>
      /\ xmitBuffer' = Tail(xmitBuffer) /\ clo = "dequeue"
  BY DEF CloDequeue, IInv, TypeOK
<1>2. b \in Bundle /\ fate[b] = "queued"
      /\ xmitBuffer' \in Seq(Bundle) /\ Len(xmitBuffer') = Len(xmitBuffer) - 1
      /\ (\A i \in 1..Len(xmitBuffer') : xmitBuffer'[i] = xmitBuffer[i + 1])
      /\ b = xmitBuffer[1] /\ 1 \in 1..Len(xmitBuffer) /\ Len(xmitBuffer) \in Nat
  <2>1. b \in Bundle /\ b = xmitBuffer[1]
        /\ xmitBuffer' \in Seq(Bundle) /\ Len(xmitBuffer') = Len(xmitBuffer) - 1
        /\ (\A i \in 1..Len(xmitBuffer') : xmitBuffer'[i] = xmitBuffer[i + 1])
    BY <1>1, HeadTailProperties
  <2>2. 1 \in 1..Len(xmitBuffer) /\ Len(xmitBuffer) \in Nat
    BY <1>1, EmptySeq
  <2> QED BY <2>1, <2>2 DEF IInv, QueueOK
<1>3. PICK x \in {"steward", "destroyed"} : fate' = [fate EXCEPT ![b] = x]
  BY DEF CloDequeue
<1>4. \/ bundle' = b /\ clo' = "send" /\ UNCHANGED struck
      \/ fate' = [fate EXCEPT ![b] = "destroyed"] /\ clo' = "loop" /\ UNCHANGED bundle
         /\ Strikes("corrupt")
  BY DEF CloDequeue
<1> HIDE DEF b
<1>5. fate' \in [Bundle -> Fates] /\ (\A c \in Bundle : fate'[c] = IF c = b THEN x ELSE fate[c])
  BY <1>1, <1>3 DEF Fates
<1>6. (openFailed => openFailed') /\ openFailed' \in BOOLEAN /\ spaced' = spaced
  BY <1>4, StrikesOK DEF IInv, TypeOK
<1>7. TypeOK'
  BY <1>2, <1>4, <1>5, <1>6 DEF CloDequeue, IInv, TypeOK
<1>8. QueueOK'
  <2>1. ASSUME NEW i \in 1..Len(xmitBuffer')
        PROVE  /\ i + 1 \in 1..Len(xmitBuffer) /\ xmitBuffer'[i] = xmitBuffer[i + 1]
               /\ xmitBuffer[i + 1] \in Bundle /\ xmitBuffer[i + 1] # b
    <3>1. i + 1 \in 1..Len(xmitBuffer) /\ 1 < i + 1
      BY <1>2
    <3>2. xmitBuffer[1] # xmitBuffer[i + 1]
      BY <1>2, <3>1 DEF IInv, QueueOK
    <3> QED BY <1>1, <1>2, <3>1, <3>2, ElementOfSeq
  <2>2. \A i \in 1..Len(xmitBuffer') : fate'[xmitBuffer'[i]] = "queued"
    BY <1>5, <2>1 DEF IInv, QueueOK
  <2>3. ASSUME NEW i \in 1..Len(xmitBuffer'), NEW j \in 1..Len(xmitBuffer'), i < j
        PROVE  xmitBuffer'[i] # xmitBuffer'[j]
    <3>1. i + 1 < j + 1
      BY <2>3
    <3> QED BY <2>1, <3>1 DEF IInv, QueueOK
  <2>4. Busy' => bundle' \in Bundle /\ fate'[bundle'] \in {"steward", "destroyed"}
    BY <1>2, <1>4, <1>5 DEF Busy
  <2> QED BY <2>2, <2>3, <2>4 DEF QueueOK
<1>9. StewardOK'
  <2> SUFFICES ASSUME NEW c \in Bundle, fate'[c] = "steward"
               PROVE  openFailed' \/ Length[c] > UARTCLA_BUFSZ \/ (Busy' /\ bundle' = c)
    BY DEF StewardOK
  <2>1. CASE c = b
    BY <1>2, <1>4, <1>5, <2>1, <1>1 DEF Busy
  <2>2. CASE c # b
    BY <1>1, <1>5, <1>6, <2>2 DEF IInv, StewardOK, Busy
  <2> QED BY <2>1, <2>2
<1>10. ASSUME NEW c \in Bundle, Unsent(c)' PROVE Unsent(c)
  BY <1>2, <1>4, <1>5, <1>10 DEF Unsent
<1>11. UNCHANGED <<line, received, delivered, written>>
  BY DEF CloDequeue
<1> QED BY <1>7, <1>8, <1>9, <1>10, <1>11, QuietStep

(* A bundle that nothing of was written may go back to be sent again.      *)
LEMMA CloHandleKeeps == ASSUME IInv, CloHandle PROVE IInv'
<1> USE DEF sending, cloVars, cliVars, struck, bounds
<1>1. fate \in [Bundle -> Fates] /\ bundle \in Bundle /\ clo = "handle"
      /\ fate[bundle] \in {"steward", "destroyed"} /\ bytesSent \in Nat \cup {-1}
  BY DEF CloHandle, IInv, TypeOK, QueueOK, Busy
<1>2. /\ fate' \in [Bundle -> Fates]
      /\ \A c \in Bundle : c # bundle => fate'[c] = fate[c]
      /\ fate'[bundle] = "forward" => bytesSent = -1
      /\ fate'[bundle] \in {"destroyed", "sent", "forward"}
  <2>1. CASE fate[bundle] # "steward"
    BY <1>1, <2>1 DEF CloHandle
  <2>2. CASE fate[bundle] = "steward"
    <3> DEFINE y == IF bytesSent >= 0 THEN "sent" ELSE "forward"
    <3>1. y \in {"sent", "forward"} /\ (y = "forward" => bytesSent = -1)
      BY <1>1
    <3>2. fate' = [fate EXCEPT ![bundle] = y]
      BY <2>2 DEF CloHandle
    <3> HIDE DEF y
    <3> QED BY <1>1, <3>1, <3>2 DEF Fates
  <2> QED BY <2>1, <2>2
<1>3. TypeOK'
  BY <1>2, ZenonT(30) DEF CloHandle, SemEnd, IInv, TypeOK
<1>4. QueueOK'
  <2>1. ASSUME NEW i \in 1..Len(xmitBuffer)
        PROVE  xmitBuffer[i] # bundle /\ xmitBuffer[i] \in Bundle
    BY <1>1, ElementOfSeq DEF IInv, TypeOK, QueueOK
  <2> QED BY <1>2, <2>1 DEF CloHandle, IInv, QueueOK, Busy
<1>5. StewardOK'
  BY <1>1, <1>2 DEF CloHandle, IInv, StewardOK
<1>6. ASSUME NEW c \in Bundle, Unsent(c)' PROVE Unsent(c)
  BY <1>1, <1>2, <1>6 DEF CloHandle, Unsent
<1>7. UNCHANGED <<line, received, delivered, written>>
  BY DEF CloHandle
<1> QED BY <1>3, <1>4, <1>5, <1>6, <1>7, QuietStep

(* The bundle was nowhere on the way, and is not to be sent again unless   *)
(* the write failed.                                                       *)
LEMMA CloWriteKeeps == ASSUME IInv, CloWrite PROVE IInv'
<1> USE DEF sending, cloVars, cliVars, struck, bounds
<1> DEFINE ps == SubSeq(Bytes(bundle), 1, bytesSent')
<1>1. bundle \in Bundle /\ fate[bundle] \in {"steward", "destroyed"} /\ clo = "send"
  BY DEF CloWrite, Fits, IInv, QueueOK, Busy
<1>2. Length[bundle] \in Nat /\ Length[bundle] > 0
  BY <1>1, UartAssumption
<1>3. bytesSent' \in Nat \cup {-1} /\ bytesSent' <= Length[bundle] /\ bytesSent' \in Int
  <2>1. \/ bytesSent' = Length[bundle] \/ bytesSent' \in 0..(Length[bundle] - 1)
        \/ bytesSent' = -1
    BY DEF CloWrite
  <2> QED BY <1>2, <2>1
<1>4. Ordered(Stream, delivered, written) /\ Absent(bundle, Stream) /\ Undelivered(bundle, delivered)
  BY <1>1 DEF IInv, OrderOK, FreshOK, Unsent
<1>5. line \in Seq(Byte) /\ received \in Seq(Byte) /\ delivered \in Seq(Bundle)
      /\ written \in Seq(Bundle) /\ Stream \in Seq(Byte)
  BY ConcatProperties DEF IInv, TypeOK, Stream
<1>6. line' = line \o ps /\ written' = Append(written, bundle)
      /\ received' = received /\ delivered' = delivered /\ clo' = "handle" /\ bundle' = bundle
      /\ fate' = fate /\ xmitBuffer' = xmitBuffer
  BY DEF CloWrite
<1>7. /\ ps \in Seq(Byte)
      /\ Ordered(Stream \o ps, delivered, Append(written, bundle))
      /\ \A c \in Bundle : (c # bundle \/ bytesSent' <= 0) /\ Absent(c, Stream)
                              => Absent(c, Stream \o ps)
  BY <1>1, <1>3, <1>4, <1>5, WriteOrdered
<1> HIDE DEF ps
<1>8. Stream' = Stream \o ps /\ line' \in Seq(Byte) /\ written' \in Seq(Bundle)
  <2>1. received \o (line \o ps) = (received \o line) \o ps
    <3>1. \A x, y, z \in Seq(Byte) : x \o (y \o z) = (x \o y) \o z
      BY ConcatAssociative
    <3> QED BY <1>5, <1>7, <3>1, Zenon
  <2>2. Stream' = Stream \o ps
    BY <1>6, <2>1, Zenon DEF Stream
  <2>3. line \o ps \in Seq(Byte)
    BY <1>5, <1>7, ConcatProperties
  <2>4. Append(written, bundle) \in Seq(Bundle)
    BY <1>1, <1>5, AppendProperties
  <2> QED BY <1>6, <2>2, <2>3, <2>4
<1>9. (openFailed => openFailed') /\ openFailed' \in BOOLEAN /\ spaced' = spaced
  <2>1. UNCHANGED struck \/ Strikes("shortWrite") \/ Strikes("writeFails")
    BY DEF CloWrite
  <2>2. TypeOK /\ openFailed \in BOOLEAN
    BY DEF IInv, TypeOK
  <2> QED BY <2>1, <2>2, StrikesOK
<1>10. TypeOK'
  BY <1>3, <1>6, <1>8, <1>9 DEF CloWrite, IInv, TypeOK
<1>11. QueueOK'
  BY <1>1, <1>6 DEF IInv, QueueOK, Busy
<1>12. FreshOK'
  <2> SUFFICES ASSUME NEW c \in Bundle, Unsent(c)'
               PROVE  Absent(c, Stream') /\ Undelivered(c, delivered')
    BY DEF FreshOK
  <2>1. Unsent(c) /\ (c # bundle \/ bytesSent' <= 0)
    BY <1>1, <1>3, <1>6 DEF Unsent
  <2> QED BY <1>6, <1>7, <1>8, <2>1 DEF IInv, FreshOK
<1>13. OrderOK'
  BY <1>6, <1>7, <1>8 DEF OrderOK
<1>14. StewardOK'
  BY <1>1, <1>6, <1>9 DEF IInv, StewardOK, Busy
<1> QED BY <1>10, <1>11, <1>12, <1>13, <1>14 DEF IInv

-----------------------------------------------------------------------------
(* The receiver.                                                           *)

(* Bytes that are lost or mangled on the way disturb nothing.              *)
LEMMA LossyStep ==
  ASSUME IInv, TypeOK',
         UNCHANGED <<fate, xmitBuffer, clo, bundle, bytesSent, delivered, written>>,
         openFailed => openFailed',
         NEW d \in Nat, Thinned(Stream', Stream, d)
  PROVE  IInv'
<1>1. Stream \in Seq(Byte) /\ Stream' \in Seq(Byte)
  BY ConcatProperties DEF IInv, TypeOK, Stream
<1>2. OrderOK'
  <2>1. Ordered(Stream', delivered, written)
    BY <1>1, ThinnedOrdered DEF IInv, OrderOK
  <2> QED BY <2>1 DEF OrderOK
<1>3. FreshOK'
  <2> SUFFICES ASSUME NEW b \in Bundle, Unsent(b)'
               PROVE  Absent(b, Stream') /\ Undelivered(b, delivered')
    BY DEF FreshOK
  <2>1. Absent(b, Stream) /\ Undelivered(b, delivered)
    BY DEF IInv, FreshOK, Unsent
  <2> QED BY <1>1, <2>1, ThinnedAbsent
<1>4. QueueOK' /\ StewardOK'
  BY DEF IInv, QueueOK, StewardOK, Busy
<1> QED BY <1>2, <1>3, <1>4 DEF IInv

(* What was received and not acquired is dropped.                          *)
LEMMA DropStep ==
  ASSUME IInv, TypeOK',
         UNCHANGED <<fate, xmitBuffer, clo, bundle, bytesSent, delivered, written, line>>,
         openFailed => openFailed', received' = <<>>
  PROVE  IInv'
<1>1. line \in Seq(Byte) /\ received \in Seq(Byte)
  BY DEF IInv, TypeOK
<1>2. Stream' = line
  BY <1>1 DEF Stream
<1>3. Thinned(line, Stream, Len(received))
  <2>1. Len(Stream) = Len(received) + Len(line)
        /\ \A q \in 1..Len(received) + Len(line) :
             Stream[q] = IF q <= Len(received) THEN received[q] ELSE line[q - Len(received)]
    BY <1>1, ConcatProperties DEF Stream
  <2>2. Len(received) \in Nat /\ Len(line) \in Nat
    BY <1>1
  <2>3. ASSUME NEW q \in 1..Len(line) PROVE line[q] = Stream[q + Len(received)]
    <3>1. q + Len(received) \in 1..Len(received) + Len(line)
          /\ ~(q + Len(received) <= Len(received)) /\ (q + Len(received)) - Len(received) = q
      BY <2>2
    <3> QED BY <2>1, <3>1
  <2> QED BY <2>1, <2>2, <2>3 DEF Thinned
<1> QED BY <1>1, <1>2, <1>3, LossyStep, Len(received) \in Nat

LEMMA CliReadFailsKeeps == ASSUME IInv, CliReadFails PROVE IInv'
<1> USE DEF sending, cloVars, cliVars, struck, bounds
<1>1. openFailed' \in BOOLEAN /\ (openFailed => openFailed') /\ spaced' = spaced
  BY StrikesOK DEF CliReadFails, IInv, TypeOK
<1>2. TypeOK'
  BY <1>1, EmptySeq, UartAssumption DEF CliReadFails, IInv, TypeOK
<1>3. UNCHANGED <<fate, xmitBuffer, clo, bundle, bytesSent, delivered, written, line>>
      /\ received' = <<>>
  BY DEF CliReadFails
<1> QED BY <1>1, <1>2, <1>3, DropStep

LEMMA StopInductKeeps == ASSUME IInv, StopInduct PROVE IInv'
<1> USE DEF sending, cloVars, cliVars, struck, bounds
<1>1. TypeOK'
  BY EmptySeq, UartAssumption DEF StopInduct, IInv, TypeOK
<1>2. UNCHANGED <<fate, xmitBuffer, clo, bundle, bytesSent, delivered, written, line, openFailed>>
      /\ received' = <<>>
  BY DEF StopInduct
<1> QED BY <1>1, <1>2, DropStep

(* Bytes move from the line to the buffer.                                 *)
LEMMA CliReadKeeps == ASSUME IInv, CliRead PROVE IInv'
<1> USE DEF sending, cloVars, cliVars, struck, bounds
<1>1. line \in Seq(Byte) /\ received \in Seq(Byte) /\ Len(line) \in Nat /\ Len(received) \in Nat
  BY DEF IInv, TypeOK
<1>2. PICK k \in 1..Len(line) :
        /\ Len(received) + k <= UARTCLA_BUFSZ
        /\ \/ received' = received \o SubSeq(line, 1, k)
           \/ received' = received \o [i \in 1..k |-> Mangled]
        /\ line' = SubSeq(line, k + 1, Len(line))
  BY DEF CliRead
<1>3. k \in Nat /\ k <= Len(line)
  BY <1>1
<1>4. PICK ps : /\ received' = received \o ps /\ ps \in Seq(Byte) /\ Len(ps) = k
                /\ \A q \in 1..k : ps[q] = line[q] \/ ps[q] = Mangled
  <2>1. CASE received' = received \o SubSeq(line, 1, k)
    <3>1. \A q \in 1..k : line[q] \in Byte
      BY <1>1, <1>3, ElementOfSeq
    <3>2. /\ SubSeq(line, 1, k) \in Seq(Byte) /\ Len(SubSeq(line, 1, k)) = k
          /\ \A q \in 1..k : SubSeq(line, 1, k)[q] = line[q]
      BY <1>3, <3>1, SubSeqProperties
    <3> QED BY <2>1, <3>2
  <2>2. CASE received' = received \o [i \in 1..k |-> Mangled]
    <3> DEFINE m == [i \in 1..k |-> Mangled]
    <3>1. m \in Seq(Byte) /\ Len(m) = k /\ \A q \in 1..k : m[q] = Mangled
      BY <1>3 DEF Byte
    <3> QED BY <2>2, <3>1
  <2> QED BY <1>2, <2>1, <2>2
<1>5. line' \in Seq(Byte) /\ Len(line') = Len(line) - k
      /\ \A q \in 1..Len(line) - k : line'[q] = line[k + q]
  <2>1. \A q \in (k + 1)..Len(line) : line[q] \in Byte
    BY <1>1, <1>3, ElementOfSeq
  <2>2. /\ SubSeq(line, k + 1, Len(line)) \in Seq(Byte)
        /\ Len(SubSeq(line, k + 1, Len(line)))
             = IF k + 1 <= Len(line) THEN Len(line) - (k + 1) + 1 ELSE 0
        /\ \A q \in 1..Len(line) - (k + 1) + 1 :
             SubSeq(line, k + 1, Len(line))[q] = line[(k + 1) + q - 1]
    BY <1>1, <1>3, <2>1, SubSeqProperties
  <2> QED BY <1>1, <1>2, <1>3, <2>2
<1>6. received' \in Seq(Byte) /\ Len(received') = Len(received) + k
      /\ \A q \in 1..Len(received) + k :
           received'[q] = IF q <= Len(received) THEN received[q] ELSE ps[q - Len(received)]
  BY <1>1, <1>4, ConcatProperties
<1>7. Len(Stream) = Len(received) + Len(line)
      /\ \A q \in 1..Len(received) + Len(line) :
           Stream[q] = IF q <= Len(received) THEN received[q] ELSE line[q - Len(received)]
  BY <1>1, ConcatProperties DEF Stream
<1>8. Len(Stream') = Len(received') + Len(line')
      /\ \A q \in 1..Len(received') + Len(line') :
           Stream'[q] = IF q <= Len(received') THEN received'[q] ELSE line'[q - Len(received')]
  BY <1>5, <1>6, ConcatProperties DEF Stream
<1>9. Len(Stream') = Len(Stream)
  BY <1>1, <1>3, <1>5, <1>6, <1>7, <1>8
<1>10. ASSUME NEW q \in 1..Len(Stream) PROVE Stream'[q] = Stream[q] \/ Stream'[q] = Mangled
  <2>1. q \in 1..Len(received) + Len(line) /\ q \in 1..Len(received') + Len(line')
    BY <1>7, <1>8, <1>9
  <2>2. CASE q <= Len(received)
    <3>1. q \in 1..Len(received) + k /\ q <= Len(received')
      BY <1>1, <1>3, <1>6, <2>2
    <3> QED BY <1>6, <1>7, <1>8, <2>1, <2>2, <3>1
  <2>3. CASE ~(q <= Len(received)) /\ q <= Len(received) + k
    <3>1. q \in 1..Len(received) + k /\ q <= Len(received') /\ q - Len(received) \in 1..k
      BY <1>1, <1>3, <1>6, <2>3
    <3>2. Stream'[q] = ps[q - Len(received)] /\ Stream[q] = line[q - Len(received)]
      BY <1>6, <1>7, <1>8, <2>1, <2>3, <3>1
    <3> QED BY <1>4, <3>1, <3>2
  <2>4. CASE ~(q <= Len(received) + k)
    <3>1. ~(q <= Len(received')) /\ ~(q <= Len(received))
          /\ q - Len(received') \in 1..Len(line) - k
          /\ k + (q - Len(received')) = q - Len(received)
      BY <1>1, <1>3, <1>6, <2>1, <2>4
    <3>2. Stream'[q] = line'[q - Len(received')] /\ Stream[q] = line[q - Len(received)]
      BY <1>7, <1>8, <2>1, <3>1
    <3> QED BY <1>5, <3>1, <3>2
  <2> QED BY <2>2, <2>3, <2>4
<1>11. Thinned(Stream', Stream, 0)
  <2>1. Len(Stream) \in Nat
    BY <1>1, <1>7
  <2>2. Len(Stream') + 0 <= Len(Stream) /\ \A q \in 1..Len(Stream') : q + 0 = q /\ q \in 1..Len(Stream)
    BY <1>9, <2>1
  <2> QED BY <1>10, <2>2 DEF Thinned, Real
<1>12. TypeOK'
  <2>1. Len(received') <= UARTCLA_BUFSZ
    BY <1>2, <1>6
  <2> QED BY <1>5, <1>6, <2>1, SMTT(30) DEF CliRead, IInv, TypeOK
<1>13. UNCHANGED <<fate, xmitBuffer, clo, bundle, bytesSent, delivered, written, openFailed>>
  BY DEF CliRead
<1> QED BY <1>11, <1>12, <1>13, LossyStep

(* What is acquired was ahead of everything that is still to come.         *)
LEMMA CliAcquireKeeps == ASSUME IInv, CliAcquire PROVE IInv'
<1> USE DEF sending, cloVars, cliVars, struck, bounds
<1>1. line \in Seq(Byte) /\ received \in Seq(Byte) /\ delivered \in Seq(Bundle)
      /\ written \in Seq(Bundle)
  BY DEF IInv, TypeOK
<1>2. delivered' = delivered \/ delivered' = delivered \o Acquirable(received)
  BY DEF CliAcquire
<1>3. openFailed' \in BOOLEAN /\ (openFailed => openFailed') /\ spaced' = spaced
  <2>1. UNCHANGED struck \/ Strikes("congestion")
    BY DEF CliAcquire
  <2>2. TypeOK /\ openFailed \in BOOLEAN
    BY DEF IInv, TypeOK
  <2> QED BY <2>1, <2>2, StrikesOK
<1>4. UNCHANGED <<fate, xmitBuffer, clo, bundle, bytesSent, written, line>> /\ received' = <<>>
  BY DEF CliAcquire
<1>5. delivered' \in Seq(Bundle)
  BY <1>1, <1>2, AcquirableOK, ConcatProperties
<1>6. TypeOK'
  <2>1. Len(received') <= UARTCLA_BUFSZ /\ received' \in Seq(Byte)
    BY <1>4, EmptySeq, UartAssumption
  <2> QED BY <1>3, <1>5, <2>1 DEF CliAcquire, IInv, TypeOK
<1>7. CASE delivered' = delivered
  BY <1>3, <1>4, <1>6, <1>7, DropStep
<1>8. CASE delivered' = delivered \o Acquirable(received)
  <2>1. Stream' = line
    BY <1>1, <1>4 DEF Stream
  <2>2. Ordered(received \o line, delivered, written)
    BY DEF IInv, OrderOK, Stream
  <2>3. /\ Ordered(line, delivered', written)
        /\ \A c \in Bundle : Absent(c, Stream) /\ Undelivered(c, delivered) =>
                               Absent(c, line) /\ Undelivered(c, delivered')
    BY <1>1, <1>8, <2>2, AcquireOrdered DEF Stream
  <2>4. OrderOK'
    BY <1>4, <2>1, <2>3 DEF OrderOK
  <2>5. FreshOK'
    <3> SUFFICES ASSUME NEW b \in Bundle, Unsent(b)'
                 PROVE  Absent(b, Stream') /\ Undelivered(b, delivered')
      BY DEF FreshOK
    <3>1. Unsent(b)
      BY <1>4 DEF Unsent
    <3> QED BY <2>1, <2>3, <3>1 DEF IInv, FreshOK
  <2>6. QueueOK' /\ StewardOK'
    BY <1>3, <1>4 DEF IInv, QueueOK, StewardOK, Busy
  <2> QED BY <1>6, <2>4, <2>5, <2>6 DEF IInv
<1> QED BY <1>2, <1>7, <1>8

-----------------------------------------------------------------------------
LEMMA NextIInv == IInv /\ [Next]_vars => IInv'
<1> SUFFICES ASSUME IInv, [Next]_vars PROVE IInv'
  OBVIOUS
<1>1. CASE UNCHANGED vars
  BY <1>1 DEF vars, sending, cloVars, cliVars, struck, bounds, IInv, TypeOK, QueueOK, FreshOK,
              OrderOK, StewardOK, Unsent, Busy, Stream
<1>2. CASE Clo
  BY <1>2, CloLoopKeeps, CloDequeueKeeps, CloNoBundleKeeps, CloTakeSemaphoreKeeps,
     CloTooBigKeeps, CloOpenKeeps, CloWriteKeeps, CloHandleKeeps DEF Clo
<1>3. CASE Cli
  BY <1>3, CliOpenKeeps, CliReadKeeps, CliTimeoutKeeps, CliAcquireKeeps DEF Cli
<1>4. CASE Operator
  BY <1>4, ShutDownCloKeeps, StopOutductKeeps, StartOutductKeeps, StopInductKeeps,
     StartInductKeeps DEF Operator
<1>5. CASE Bpclm \/ CliReadFails \/ ResetOutduct
  BY <1>5, BpclmKeeps, CliReadFailsKeeps, ResetOutductKeeps
<1> QED BY <1>1, <1>2, <1>3, <1>4, <1>5 DEF Next

LEMMA SpecIInv == Spec => []IInv
BY InitIInv, NextIInv, PTL DEF Spec

(* Every variable keeps its type; in particular the receiver never gathers *)
(* more than its buffer holds.                                             *)
THEOREM TypeCorrect == Spec => []TypeOK
<1>1. IInv => TypeOK
  BY DEF IInv
<1> QED BY <1>1, SpecIInv, PTL

(* Bundles come out of the line in the order in which they were written,   *)
(* none invented and none twice, for any number of bundles of any lengths, *)
(* any size of the buffer, any faults, stops and restarts, and wherever the *)
(* chunks begin and end.                                                   *)
THEOREM DeliveredInOrderOnce == Spec => []InOrderOnce
<1>1. ASSUME IInv PROVE InOrderOnce
  <2>1. DOMAIN delivered = 1..Len(delivered) /\ DOMAIN written = 1..Len(written)
    BY <1>1 DEF IInv, TypeOK
  <2>2. DeliveredOrder(delivered, written)
    BY <1>1 DEF IInv, OrderOK, Ordered
  <2> SUFFICES ASSUME NEW i \in DOMAIN delivered, NEW j \in DOMAIN delivered, i < j
               PROVE  /\ delivered[i] # delivered[j]
                      /\ \E m, n \in DOMAIN written :
                           m < n /\ written[m] = delivered[i] /\ written[n] = delivered[j]
    BY DEF InOrderOnce
  <2>3. delivered[i] # delivered[j] /\ Before(written, delivered[i], delivered[j])
    BY <2>1, <2>2 DEF DeliveredOrder
  <2>4. PICK m \in 1..Len(written), n \in 1..Len(written) :
          m < n /\ written[m] = delivered[i] /\ written[n] = delivered[j]
    BY <2>3 DEF Before
  <2>5. m \in DOMAIN written /\ n \in DOMAIN written
    BY <2>1
  <2> QED BY <2>3, <2>4, <2>5
<1> QED BY <1>1, SpecIInv, PTL

(* uartclo keeps no bundle of which it is steward when it goes for the     *)
(* next one or ends, if the bundle fits and no attempt to open the port    *)
(* has failed.                                                             *)
THEOREM StewardshipIsResolved == Spec => []StewardshipResolved
<1>1. IInv => StewardshipResolved
  BY DEF IInv, StewardOK, StewardshipResolved, Busy
<1> QED BY <1>1, SpecIInv, PTL
=============================================================================
