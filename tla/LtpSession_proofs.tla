--------------------------- MODULE LtpSession_proofs ---------------------------
(***************************************************************************)
(* Proofs about LtpSession for every value of its constants: its types,    *)
(* that the queue never holds data of a session that is over, that closed  *)
(* sessions stay closed, and, while no session ends under ltpdeliv's hands, *)
(* that no import buffer is lost or shared and that what the client is told *)
(* is true (LtpBlock).                                                     *)
(***************************************************************************)
EXTENDS LtpSession, ListLemmas, FiniteSetTheorems

-----------------------------------------------------------------------------
(* Queues of segments: what is in them, whatever the order.                *)

LEMMA InQueue ==
  ASSUME NEW E, NEW q \in Seq(E)
  PROVE  /\ Len(q) \in Nat /\ DOMAIN q = 1..Len(q)
         /\ ToSet(q) \in SUBSET E
         /\ \A i \in 1..Len(q) : q[i] \in ToSet(q)
         /\ \A x \in ToSet(q) : \E i \in 1..Len(q) : q[i] = x
BY LenProperties, ElementOfSeq DEF ToSet

LEMMA Appended ==
  ASSUME NEW E, NEW q \in Seq(E), NEW e \in E
  PROVE  Append(q, e) \in Seq(E) /\ ToSet(Append(q, e)) = ToSet(q) \cup {e}
<1>1. /\ Append(q, e) \in Seq(E) /\ Len(q) \in Nat /\ DOMAIN q = 1..Len(q)
      /\ DOMAIN Append(q, e) = 1..(Len(q) + 1)
      /\ \A i \in 1..Len(q) : Append(q, e)[i] = q[i]
      /\ Append(q, e)[Len(q) + 1] = e
  BY AppendProperties, LenProperties
<1>2. \A i \in 1..(Len(q) + 1) : i \in 1..Len(q) \/ i = Len(q) + 1
  BY <1>1
<1>3. \A i \in 1..Len(q) : i \in 1..(Len(q) + 1)
  BY <1>1
<1>4. Len(q) + 1 \in 1..(Len(q) + 1)
  BY <1>1
<1> QED BY Zenon, <1>1, <1>2, <1>3, <1>4 DEF ToSet

LEMMA Concatenated ==
  ASSUME NEW E, NEW p \in Seq(E), NEW q \in Seq(E)
  PROVE  p \o q \in Seq(E) /\ ToSet(p \o q) \subseteq ToSet(p) \cup ToSet(q)
<1>1. /\ p \o q \in Seq(E) /\ Len(p \o q) = Len(p) + Len(q)
      /\ \A i \in 1..Len(p) + Len(q) :
           (p \o q)[i] = IF i <= Len(p) THEN p[i] ELSE q[i - Len(p)]
  BY ConcatProperties
<1>2. Len(p) \in Nat /\ Len(q) \in Nat
  OBVIOUS
<1>3. ASSUME NEW x \in ToSet(p \o q) PROVE x \in ToSet(p) \cup ToSet(q)
  <2>1. PICK i \in 1..Len(p) + Len(q) : (p \o q)[i] = x
    BY <1>1, InQueue
  <2>2. CASE i <= Len(p)
    <3>1. i \in 1..Len(p) /\ x = p[i]
      BY <1>1, <1>2, <2>1, <2>2
    <3> QED BY <3>1, InQueue
  <2>3. CASE ~(i <= Len(p))
    <3>1. i - Len(p) \in 1..Len(q) /\ x = q[i - Len(p)]
      BY <1>1, <1>2, <2>1, <2>3
    <3> QED BY <3>1, InQueue
  <2> QED BY <2>2, <2>3
<1> QED BY <1>1, <1>3

LEMMA Dequeued ==
  ASSUME NEW E, NEW q \in Seq(E), q # <<>>
  PROVE  /\ Head(q) \in ToSet(q) /\ Tail(q) \in Seq(E)
         /\ ToSet(Tail(q)) \subseteq ToSet(q)
<1>1. /\ Len(q) \in Nat /\ Len(q) # 0 /\ Head(q) = q[1] /\ Tail(q) \in Seq(E)
      /\ Len(Tail(q)) = Len(q) - 1
      /\ \A i \in 1..Len(Tail(q)) : Tail(q)[i] = q[i + 1]
  BY HeadTailProperties, EmptySeq
<1>2. 1 \in 1..Len(q) /\ \A i \in 1..Len(Tail(q)) : i + 1 \in 1..Len(q)
  BY <1>1
<1>3. \A x \in ToSet(Tail(q)) : x \in ToSet(q)
  <2> SUFFICES ASSUME NEW x \in ToSet(Tail(q)) PROVE x \in ToSet(q)
    OBVIOUS
  <2>1. PICK i \in 1..Len(Tail(q)) : Tail(q)[i] = x
    BY <1>1, InQueue
  <2> QED BY <1>1, <1>2, <2>1, InQueue
<1> QED BY <1>1, <1>2, <1>3, InQueue

LEMMA Kept ==
  ASSUME NEW E, NEW q \in Seq(E), NEW S
  PROVE  /\ Only(q, S) \in Seq(E)
         /\ ToSet(Only(q, S)) \subseteq {x \in ToSet(q) : x \in S}
<1> DEFINE r == Only(q, S)
<1>1. r \in Seq(E) /\ \E g : Picks(g, r, q, S, Len(q))
  BY OnlyKeeps
<1> HIDE DEF r
<1>2. PICK g : Picks(g, r, q, S, Len(q))
  BY <1>1
<1>3. ASSUME NEW x \in ToSet(r) PROVE x \in ToSet(q) /\ x \in S
  <2>1. PICK k \in 1..Len(r) : r[k] = x
    BY <1>1, InQueue
  <2>2. g[k] \in 1..Len(q) /\ x = q[g[k]] /\ x \in S
    BY <1>2, <2>1 DEF Picks
  <2> QED BY <2>2, InQueue
<1> QED BY <1>1, <1>3 DEF r

(* A segment that goes before those that are no acknowledgments.           *)
LEMMA Enqueued ==
  ASSUME NEW E, NEW q \in Seq(E), NEW e \in E
  PROVE  /\ EnqueueAck(q, e) \in Seq(E)
         /\ ToSet(EnqueueAck(q, e)) \subseteq ToSet(q) \cup {e}
<1> DEFINE I == {i \in 1..Len(q) : NotAck(q[i])}
           n == SelectInSeq(q, NotAck)
<1>1. n = IF I # {} THEN Min(I) ELSE 0
  BY DEF SelectInSeq
<1>2. EnqueueAck(q, e) = IF n = 0 THEN Append(q, e) ELSE InsertAt(q, n, e)
  BY DEF EnqueueAck
<1>3. n = 0 \/ n \in 1..Len(q)
  <2>1. CASE I # {}
    <3>1. I \in SUBSET Nat
      OBVIOUS
    <3>2. \E x \in I : \A y \in I : x <= y
      <4> HIDE DEF I
      <4> QED BY <2>1, <3>1, LeastExists
    <3>3. Min(I) \in I
      <4> HIDE DEF I
      <4> QED BY <3>2 DEF Min
    <3> QED BY <1>1, <2>1, <3>3
  <2> QED BY <1>1, <2>1
<1> HIDE DEF n
<1>4. CASE n = 0
  BY <1>2, <1>4, Appended
<1>5. CASE n # 0
  <2> DEFINE front == SubSeq(q, 1, n - 1)
             back == SubSeq(q, n, Len(q))
  <2>1. EnqueueAck(q, e) = (front \o <<e>>) \o back
    BY <1>2, <1>5 DEF InsertAt
  <2>2. n \in 1..Len(q) /\ Len(q) \in Nat /\ \A i \in 1..Len(q) : q[i] \in E
    BY <1>3, <1>5, LenProperties, ElementOfSeq
  <2>3. front \in Seq(E) /\ ToSet(front) \subseteq ToSet(q)
    <3>1. \A i \in 1..(n - 1) : i \in 1..Len(q)
      BY <2>2
    <3>2. /\ front \in Seq(E) /\ Len(front) = (IF 1 <= n - 1 THEN (n - 1) - 1 + 1 ELSE 0)
          /\ \A i \in 1..(n - 1) - 1 + 1 : front[i] = q[1 + i - 1]
      BY <2>2, <3>1, SubSeqProperties
    <3> HIDE DEF front
    <3>3. \A i \in 1..Len(front) : i \in 1..Len(q) /\ front[i] = q[i]
      BY <2>2, <3>2
    <3> QED BY <3>2, <3>3, InQueue
  <2>4. back \in Seq(E) /\ ToSet(back) \subseteq ToSet(q)
    <3>1. \A i \in n..Len(q) : i \in 1..Len(q)
      BY <2>2
    <3>2. /\ back \in Seq(E) /\ Len(back) = (IF n <= Len(q) THEN Len(q) - n + 1 ELSE 0)
          /\ \A i \in 1..Len(q) - n + 1 : back[i] = q[n + i - 1]
      BY <2>2, <3>1, SubSeqProperties
    <3> HIDE DEF back
    <3>3. \A i \in 1..Len(back) : n + i - 1 \in 1..Len(q) /\ back[i] = q[n + i - 1]
      BY <2>2, <3>2
    <3> QED BY <3>2, <3>3, InQueue
  <2>5. <<e>> \in Seq(E) /\ ToSet(<<e>>) = {e}
    BY DEF ToSet
  <2> HIDE DEF front, back
  <2>6. front \o <<e>> \in Seq(E) /\ ToSet(front \o <<e>>) \subseteq ToSet(q) \cup {e}
    BY <2>3, <2>5, Concatenated
  <2> QED BY <2>1, <2>4, <2>6, Concatenated
<1> QED BY <1>4, <1>5
-----------------------------------------------------------------------------
(* Segments.                                                               *)

LEMMA SegmentIs ==
  ASSUME NEW m \in Segments
  PROVE  /\ m.session \in Session
         /\ m.type \in {"DS", "RS", "RA", "CS", "CAS", "CR", "CAR"}
         /\ m.type = "DS" => m.seg \in Segment /\ m.ckpt \in Nat /\ m.rpt \in Serial
         /\ m.type = "RS" => /\ m.serial \in Serial /\ m.ckpt \in Nat
                             /\ m.lower \in Nat /\ m.upper \in Nat
                             /\ m.claims \in SUBSET Segment
         /\ m.type = "RA" => m.serial \in Serial
BY DEF Segments

LEMMA DsIs ==
  ASSUME NEW s \in Session, NEW i \in Segment, NEW c \in Nat, NEW r \in Serial
  PROVE  /\ Ds(s, i, c, r) \in Segments
         /\ Ds(s, i, c, r).type = "DS" /\ Ds(s, i, c, r).session = s
         /\ Ds(s, i, c, r).seg = i /\ Ds(s, i, c, r).ckpt = c
BY DEF Ds, Segments

LEMMA RsIs ==
  ASSUME NEW s \in Session, NEW r \in Serial, NEW c \in Nat, NEW l \in Nat,
         NEW u \in Nat, NEW C \in SUBSET Segment
  PROVE  /\ Rs(s, r, c, l, u, C) \in Segments
         /\ Rs(s, r, c, l, u, C).type = "RS" /\ Rs(s, r, c, l, u, C).session = s
         /\ Rs(s, r, c, l, u, C).claims = C
BY DEF Rs, Segments

LEMMA RaIs ==
  ASSUME NEW s \in Session, NEW r \in Serial
  PROVE  Ra(s, r) \in Segments /\ Ra(s, r).type = "RA"
BY DEF Ra, Segments

LEMMA CancelIs ==
  ASSUME NEW s \in Session
  PROVE  /\ Cs(s) \in Segments /\ Cs(s).type = "CS" /\ Cas(s) \in Segments /\ Cas(s).type = "CAS"
         /\ Cr(s) \in Segments /\ Cr(s).type = "CR" /\ Car(s) \in Segments /\ Car(s).type = "CAR"
BY DEF Cs, Cas, Cr, Car, Segments

LEMMA NoReportIs == NoReport \in Serial
BY DEF NoReport, Serial

(* What a session that ends leaves in its queue.                           *)
LEMMA Stopped ==
  ASSUME NEW q \in Seq(Segments), NEW s
  PROVE  /\ StopExport(q, s) \in Seq(Segments)
         /\ \A m \in ToSet(StopExport(q, s)) : m \in ToSet(q) /\ (m.type # "DS" \/ m.session # s)
         /\ StopImport(q, s) \in Seq(Segments)
         /\ \A m \in ToSet(StopImport(q, s)) : m \in ToSet(q) /\ (m.type # "RS" \/ m.session # s)
<1> DEFINE D == {m \in ToSet(q) : m.type # "DS" \/ m.session # s}
           R == {m \in ToSet(q) : m.type # "RS" \/ m.session # s}
<1>1. StopExport(q, s) = Only(q, D) /\ StopImport(q, s) = Only(q, R)
  BY DEF StopExport, StopImport
<1>2. /\ Only(q, D) \in Seq(Segments) /\ ToSet(Only(q, D)) \subseteq {m \in ToSet(q) : m \in D}
      /\ Only(q, R) \in Seq(Segments) /\ ToSet(Only(q, R)) \subseteq {m \in ToSet(q) : m \in R}
  <2> HIDE DEF D, R
  <2> QED BY Kept
<1> QED BY <1>1, <1>2

(* The numbers of a set of segments or sessions, in order.                 *)
LEMMA Numbers ==
  ASSUME NEW n \in Nat, NEW S \in SUBSET (1..n)
  PROVE  /\ Only([i \in 1..n |-> i], S) \in Seq(1..n)
         /\ ToSet(Only([i \in 1..n |-> i], S)) \subseteq S
<1>1. [i \in 1..n |-> i] \in Seq(1..n)
  OBVIOUS
<1> QED BY <1>1, Kept

(* The segments that a report causes to be sent again.                     *)
LEMMA RetransmissionIs ==
  ASSUME NEW m \in Segments, m.type = "RS", NEW C \in SUBSET Segment, NEW c \in Nat
  PROVE  /\ Retransmission(m, C, c) \in Seq(Segments)
         /\ \A d \in ToSet(Retransmission(m, C, c)) :
              d.type = "DS" /\ d.session = m.session /\ d.ckpt \in {0, c}
         /\ Retransmission(m, C, c) # <<>> =>
              Last(Retransmission(m, C, c)).seg \in Segment
<1> DEFINE missing == Only([i \in Segment |-> i], Gaps(m, C))
           n == Len(missing)
           again == [k \in 1..n |-> Ds(m.session, missing[k], IF k = n THEN c ELSE 0, m.serial)]
<1>1. Retransmission(m, C, c) = again
  BY Zenon DEF Retransmission
<1>2. missing \in Seq(Segment) /\ n \in Nat
  <2>1. Gaps(m, C) \in SUBSET Segment
    BY DEF Gaps
  <2> HIDE DEF missing
  <2>2. missing \in Seq(Segment)
    BY <2>1, LtpAssumption, Numbers DEF Segment, missing
  <2> QED BY <2>2
<1> HIDE DEF missing, n
<1>3. m.session \in Session /\ m.serial \in Serial
  BY SegmentIs
<1>4. ASSUME NEW k \in 1..n
      PROVE  /\ again[k] \in Segments /\ again[k].type = "DS" /\ again[k].session = m.session
             /\ again[k].ckpt \in {0, c} /\ again[k].seg \in Segment
  <2>1. missing[k] \in Segment
    BY <1>2, ElementOfSeq DEF n
  <2>2. (IF k = n THEN c ELSE 0) \in Nat
    OBVIOUS
  <2>3. again[k] = Ds(m.session, missing[k], IF k = n THEN c ELSE 0, m.serial)
    OBVIOUS
  <2> QED BY <1>3, <2>1, <2>2, <2>3, DsIs
<1> DEFINE e(k) == Ds(m.session, missing[k], IF k = n THEN c ELSE 0, m.serial)
<1>5. again \in Seq(Segments) /\ Len(again) = n /\ DOMAIN again = 1..n
  <2>1. \A k \in 1..n : again[k] \in Segments
    BY <1>4
  <2>2. again \in [1..n -> Segments]
    <3>1. again = [k \in 1..n |-> again[k]]
      OBVIOUS
    <3> HIDE DEF again
    <3> QED BY <2>1, <3>1
  <2>3. DOMAIN again = 1..n
    OBVIOUS
  <2> HIDE DEF again
  <2> QED BY <1>2, <2>2, <2>3
<1> HIDE DEF again
<1>6. again # <<>> => Last(again).seg \in Segment
  <2> SUFFICES ASSUME again # <<>> PROVE Last(again).seg \in Segment
    OBVIOUS
  <2>1. n \in 1..n
    BY <1>2, <1>5
  <2> QED BY <1>4, <1>5, <2>1 DEF Last
<1> QED BY <1>1, <1>4, <1>5, <1>6, InQueue

-----------------------------------------------------------------------------
(* The invariant.  First what each engine and the medium keep by           *)
(* themselves.                                                             *)

Over(s) == export[s].state \in {"dead", "closed"}

(* The client has its data back if, and only if, the session is over.      *)
SdusOK ==
  \A s \in Session :
    /\ export[s].state \in {"none", "open"} <=> export[s].sdus = "none"
    /\ export[s].state \in {"buffered", "live"} <=> export[s].sdus = "held"

QueueOK ==
  \A m \in ToSet(xmitQueue) :
    /\ m.type # "RS"
    /\ m.type = "DS" => /\ export[m.session].state = "live"
                        /\ m.ckpt # 0 => m.ckpt \in DOMAIN export[m.session].ckpts

SenderOK ==
  /\ export \in [Session -> Exports]
  /\ meter \in {"idle", "starting"}
  /\ client \in {"ready", "waiting"}
  /\ bufOpen \in BOOLEAN
  /\ xmitQueue \in Seq(Segments)
  /\ SdusOK /\ QueueOK

MediumOK == net \in SUBSET Segments /\ dups \in Nat

(* What a step of the sending engine may do to what the client knows.      *)
Told(f) == \A s \in Session : export'[s].sdus = f[s]
Sdus == [s \in Session |-> export[s].sdus]
Claim(s, i) == \E m \in net : m.type = "RS" /\ m.session = s /\ i \in m.claims

TellsComplete(s) ==
  /\ export[s].state = "live"
  /\ Told([Sdus EXCEPT ![s] = "complete"])
  /\ \A i \in Segment : i \in export[s].claims \/ Claim(s, i)

Tells ==
  \/ Told(Sdus)
  \/ \E s \in Session : Sdus[s] = "none" /\ Told([Sdus EXCEPT ![s] = "held"])
  \/ \E s \in Session : TellsComplete(s)
  \/ \E S \in SUBSET Session :
       /\ \A s \in S : Sdus[s] = "held"
       /\ Told([s \in Session |-> IF s \in S THEN "canceled" ELSE Sdus[s]])

(* And to its sessions.                                                    *)
Moves ==
  \A s \in Session :
    /\ Over(s) => Over(s)'
    /\ export[s].state = "live" => export'[s].state = "live" \/ Over(s)'
    /\ ~Over(s)' => \A i \in export'[s].claims : i \in export[s].claims \/ Claim(s, i)

(* And to the medium.                                                      *)
Feeds ==
  \A m \in net' :
    \/ m \in net
    \/ m.type # "RS" /\ (m.type = "DS" => export[m.session].state = "live")

SenderStep == SenderOK' /\ MediumOK' /\ Moves /\ Feeds /\ Tells

(* The fields of an export session.                                        *)
States == {"none", "open", "buffered", "live", "dead", "closed"}
Returns == {"none", "held", "complete", "canceled"}
Ckpt == [seg : Segment, rpt : Serial, tries : Nat, timer : BOOLEAN]
Ckpts == Seq(Ckpt)
ExportType ==
  [state : States, sdus : Returns, ckpts : Ckpts, claims : SUBSET Segment,
   rsSerials : SUBSET Serial, tries : Nat, timer : BOOLEAN]

LEMMA ExportsAre == Exports = ExportType
BY Zenon DEF Exports, ExportType, States, Returns, Ckpts, Ckpt

LEMMA ExportTyped ==
  ASSUME SenderOK, NEW s \in Session
  PROVE  /\ export[s] \in ExportType
         /\ export[s].state \in States /\ export[s].sdus \in Returns
         /\ export[s].ckpts \in Ckpts /\ export[s].claims \in SUBSET Segment
         /\ export[s].rsSerials \in SUBSET Serial
         /\ export[s].tries \in Nat /\ export[s].timer \in BOOLEAN
<1>1. export[s] \in ExportType
  BY ExportsAre DEF SenderOK
<1> QED BY <1>1 DEF ExportType

LEMMA EndedIs ==
  ASSUME NEW n \in Returns, NEW x \in States
  PROVE  /\ Ended(n, x) \in ExportType /\ Ended(n, x).state = x /\ Ended(n, x).sdus = n
         /\ Ended(n, x).claims = {}
<1>1. <<>> \in Ckpts
  BY DEF Ckpts
<1>2. NoExport \in ExportType /\ NoExport.claims = {}
  <2> DEFINE c == <<>>
  <2>1. NoExport = [state |-> "none", sdus |-> "none", ckpts |-> c, claims |-> {},
                    rsSerials |-> {}, tries |-> 0, timer |-> FALSE]
    BY Zenon DEF NoExport
  <2>2. c \in Ckpts
    BY <1>1
  <2> HIDE DEF c
  <2> QED BY <2>1, <2>2 DEF ExportType, States, Returns
<1> QED BY <1>2 DEF Ended, ExportType

(* The next session.                                                       *)
LEMMA StartExportIs ==
  ASSUME NEW f \in [Session -> ExportType]
  PROVE  /\ StartExport(f) \in [Session -> ExportType]
         /\ \A s \in Session :
              /\ StartExport(f)[s].sdus = f[s].sdus /\ StartExport(f)[s].claims = f[s].claims
              /\ StartExport(f)[s].ckpts = f[s].ckpts
              /\ \/ StartExport(f)[s].state = f[s].state
                 \/ f[s].state = "none" /\ StartExport(f)[s].state = "open"
<1> DEFINE g == StartExport(f)
<1>1. \A s \in Session : g[s] = f[s] \/ (f[s].state = "none" /\ g[s] = [f[s] EXCEPT !.state = "open"])
  BY DEF StartExport
<1>2. g = [s \in Session |-> g[s]]
  BY DEF StartExport
<1> HIDE DEF g
<1>3. ASSUME NEW e \in ExportType
      PROVE  /\ [e EXCEPT !.state = "open"] \in ExportType
             /\ [e EXCEPT !.state = "open"].state = "open"
             /\ [e EXCEPT !.state = "open"].sdus = e.sdus
             /\ [e EXCEPT !.state = "open"].claims = e.claims
             /\ [e EXCEPT !.state = "open"].ckpts = e.ckpts
  BY DEF ExportType, States
<1>4. ASSUME NEW s \in Session
      PROVE  /\ g[s] \in ExportType /\ g[s].sdus = f[s].sdus /\ g[s].claims = f[s].claims
             /\ g[s].ckpts = f[s].ckpts
             /\ g[s].state = f[s].state \/ (f[s].state = "none" /\ g[s].state = "open")
  <2>1. f[s] \in ExportType
    OBVIOUS
  <2> QED BY <1>1, <1>3, <2>1
<1> QED BY <1>2, <1>4 DEF g

(* A segment arrives.                                                      *)
LEMMA Arrives ==
  ASSUME MediumOK, NEW m, Receives(m)
  PROVE  /\ MediumOK' /\ m \in net /\ m \in Segments
         /\ net' \subseteq net
BY DEF MediumOK, Receives

(* One session changes.                                                    *)
LEMMA OneMoves ==
  ASSUME SenderOK, NEW s \in Session, NEW e \in ExportType,
         export' = [export EXCEPT ![s] = e],
         e.state \in {"none", "open"} <=> e.sdus = "none",
         e.state \in {"buffered", "live"} <=> e.sdus = "held",
         Over(s) => e.state \in {"dead", "closed"},
         export[s].state = "live" => e.state \in {"live", "dead", "closed"},
         \/ e.state \in {"dead", "closed"}
         \/ \A i \in e.claims : i \in export[s].claims \/ Claim(s, i)
  PROVE  /\ export' \in [Session -> Exports] /\ SdusOK' /\ Moves
         /\ export'[s] = e /\ \A t \in Session : t # s => export'[t] = export[t]
         /\ Told([Sdus EXCEPT ![s] = e.sdus])
<1>1. export \in [Session -> Exports] /\ SdusOK
  BY DEF SenderOK
<1>2. export'[s] = e /\ \A t \in Session : t # s => export'[t] = export[t]
  BY <1>1
<1>3. export' \in [Session -> Exports]
  BY <1>1, ExportsAre
<1>4. SdusOK'
  BY <1>1, <1>2 DEF SdusOK
<1>5. Moves
  BY <1>2 DEF Moves, Over
<1>6. Told([Sdus EXCEPT ![s] = e.sdus])
  BY <1>2 DEF Told, Sdus
<1> QED BY <1>2, <1>3, <1>4, <1>5, <1>6

LEMMA NoneMoves ==
  ASSUME SenderOK, export' = export
  PROVE  SdusOK' /\ Moves /\ Told(Sdus)
BY DEF SenderOK, SdusOK, Moves, Told, Sdus, Over

(* Data that stays in the queue while one session changes.                 *)
LEMMA QueueStays ==
  ASSUME SenderOK, NEW s \in Session,
         \A t \in Session : t # s => export'[t] = export[t],
         NEW m \in ToSet(xmitQueue),
         \/ m.type # "DS" \/ m.session # s \/ export[s].state # "live"
         \/ export'[s].state = "live" /\ DOMAIN export[s].ckpts \subseteq DOMAIN export'[s].ckpts
  PROVE  /\ m \in Segments /\ m.type # "RS"
         /\ m.type = "DS" => /\ export'[m.session].state = "live"
                             /\ m.ckpt # 0 => m.ckpt \in DOMAIN export'[m.session].ckpts
<1>1. m \in Segments
  BY InQueue DEF SenderOK
<1>2. m.session \in Session
  BY <1>1, SegmentIs
<1> QED BY <1>1, <1>2 DEF SenderOK, QueueOK

-----------------------------------------------------------------------------
(* The steps of the sending engine.                                        *)

LEMMA ClientKeeps ==
  ASSUME SenderOK, MediumOK, Client
  PROVE  SenderStep /\ UNCHANGED receiver
<1>1. MediumOK' /\ Feeds /\ UNCHANGED receiver /\ xmitQueue' = xmitQueue /\ meter' = meter
  BY DEF Client, ClientSends, ClientBlocks, ClientWakes, MediumOK, Feeds
<1>2. CASE ClientSends
  <2>1. PICK s \in Session : /\ Appendable(s)
          /\ export' = [export EXCEPT ![s].state = "buffered", ![s].sdus = "held"]
    BY <1>2 DEF ClientSends
  <2> DEFINE e == [export[s] EXCEPT !.state = "buffered", !.sdus = "held"]
  <2>2. export[s].state = "open" /\ export[s] \in ExportType /\ export[s].sdus = "none"
    BY <2>1, ExportTyped DEF Appendable, SenderOK, SdusOK
  <2>3. /\ export' = [export EXCEPT ![s] = e] /\ e \in ExportType
        /\ e.state = "buffered" /\ e.sdus = "held" /\ e.claims = export[s].claims
    BY <2>1, <2>2 DEF ExportType, States, Returns
  <2> HIDE DEF e
  <2>4. /\ export' \in [Session -> Exports] /\ SdusOK' /\ Moves
        /\ \A t \in Session : t # s => export'[t] = export[t]
        /\ Told([Sdus EXCEPT ![s] = e.sdus])
    <3>1. ~Over(s)
      BY <2>2 DEF Over
    <3> QED BY <2>2, <2>3, <3>1, OneMoves
  <2>5. QueueOK'
    <3>1. export[s].state # "live"
      BY <2>2
    <3> QED BY <1>1, <2>4, <3>1, QueueStays DEF QueueOK
  <2>6. Tells
    BY <2>2, <2>3, <2>4 DEF Tells, Sdus
  <2>7. bufOpen' = bufOpen /\ client' = client
    BY <1>2 DEF ClientSends
  <2>8. SenderOK'
    BY <1>1, <2>4, <2>5, <2>7 DEF SenderOK
  <2> QED BY <1>1, <2>4, <2>6, <2>8 DEF SenderStep
<1>3. CASE ClientBlocks \/ ClientWakes
  <2>1. /\ export' = export /\ client' \in {"ready", "waiting"} /\ bufOpen' \in BOOLEAN
    BY <1>3 DEF ClientBlocks, ClientWakes, SenderOK
  <2>2. SdusOK' /\ Moves /\ Told(Sdus)
    BY <2>1, NoneMoves
  <2>3. SenderOK'
    BY <1>1, <2>1, <2>2 DEF SenderOK, QueueOK
  <2> QED BY <1>1, <2>2, <2>3 DEF SenderStep, Tells
<1> QED BY <1>2, <1>3 DEF Client

LEMMA MeterKeeps ==
  ASSUME SenderOK, MediumOK, Meter
  PROVE  SenderStep /\ UNCHANGED receiver
<1>1. MediumOK' /\ Feeds /\ UNCHANGED receiver /\ client' = client
  BY DEF Meter, MeterIssues, MeterStarts, MediumOK, Feeds
<1>2. CASE MeterIssues
  <2>1. PICK s \in Session :
          /\ export[s].state = "buffered"
          /\ export' = [export EXCEPT ![s].state = "live",
                          ![s].ckpts = <<Checkpoint(RedPart, NoReport)>>]
          /\ xmitQueue' = xmitQueue \o
               [i \in Segment |-> Ds(s, i, IF i = RedPart THEN 1 ELSE 0, NoReport)]
    BY <1>2 DEF MeterIssues
  <2> DEFINE ckpt == Checkpoint(RedPart, NoReport)
             e == [export[s] EXCEPT !.state = "live", !.ckpts = <<ckpt>>]
             new == [i \in Segment |-> Ds(s, i, IF i = RedPart THEN 1 ELSE 0, NoReport)]
  <2>2. /\ export[s].state = "buffered" /\ export[s] \in ExportType /\ export[s].sdus = "held"
        /\ xmitQueue \in Seq(Segments)
    BY <2>1, ExportTyped DEF SenderOK, SdusOK
  <2>3. ckpt \in Ckpt
    BY NoReportIs, LtpAssumption DEF Checkpoint, Ckpt, Segment
  <2>4. /\ <<ckpt>> \in Ckpts
        /\ DOMAIN <<ckpt>> = 1..1
    <3> HIDE DEF ckpt
    <3> QED BY <2>3 DEF Ckpts
  <2>5. /\ export' = [export EXCEPT ![s] = e] /\ e \in ExportType
        /\ e.state = "live" /\ e.sdus = "held" /\ e.claims = export[s].claims
        /\ e.ckpts = <<ckpt>>
    <3> DEFINE c == <<ckpt>>
    <3>1. c \in Ckpts
      BY <2>4
    <3>2. /\ export' = [export EXCEPT ![s].state = "live", ![s].ckpts = c]
          /\ e = [export[s] EXCEPT !.state = "live", !.ckpts = c]
      BY <2>1
    <3> HIDE DEF c, e
    <3>3. /\ export' = [export EXCEPT ![s] = e] /\ e \in ExportType
          /\ e.state = "live" /\ e.sdus = "held" /\ e.claims = export[s].claims
          /\ e.ckpts = c
      BY <2>2, <3>1, <3>2 DEF ExportType, States, Returns
    <3> QED BY <3>3 DEF c
  <2>6. ASSUME NEW i \in Segment
        PROVE  /\ new[i] \in Segments /\ new[i].type = "DS" /\ new[i].session = s
               /\ new[i].ckpt \in {0, 1}
    <3>1. new[i] = Ds(s, i, IF i = RedPart THEN 1 ELSE 0, NoReport)
      OBVIOUS
    <3>2. (IF i = RedPart THEN 1 ELSE 0) \in {0, 1} /\ {0, 1} \in SUBSET Nat
      OBVIOUS
    <3> QED BY <3>1, <3>2, NoReportIs, DsIs
  <2>7. new \in Seq(Segments) /\ \A m \in ToSet(new) : \E i \in Segment : m = new[i]
    <3>1. new \in [1..RedPart -> Segments] /\ DOMAIN new = Segment
      <4>1. new = [i \in Segment |-> new[i]]
        OBVIOUS
      <4> HIDE DEF new
      <4> QED BY <2>6, <4>1 DEF Segment
    <3> HIDE DEF new
    <3> QED BY <3>1, LtpAssumption DEF ToSet
  <2> HIDE DEF new, e, ckpt
  <2>8. /\ export' \in [Session -> Exports] /\ SdusOK' /\ Moves /\ export'[s] = e
        /\ \A t \in Session : t # s => export'[t] = export[t]
        /\ Told([Sdus EXCEPT ![s] = e.sdus])
    <3>1. ~Over(s)
      BY <2>2 DEF Over
    <3> QED BY <2>2, <2>5, <3>1, OneMoves
  <2>9. xmitQueue' \in Seq(Segments) /\ ToSet(xmitQueue') \subseteq ToSet(xmitQueue) \cup ToSet(new)
    BY <2>1, <2>2, <2>7, Concatenated DEF new
  <2>10. QueueOK'
    <3>1. export[s].state # "live"
      BY <2>2
    <3>2. ASSUME NEW m \in ToSet(new)
          PROVE  /\ m.type # "RS" /\ export'[m.session].state = "live"
                 /\ m.ckpt # 0 => m.ckpt \in DOMAIN export'[m.session].ckpts
      <4>1. m.type = "DS" /\ m.session = s /\ m.ckpt \in {0, 1}
        BY <2>6, <2>7
      <4> QED BY <2>4, <2>5, <2>8, <4>1
    <3> QED BY <2>8, <2>9, <3>1, <3>2, QueueStays DEF QueueOK
  <2>11. Tells
    <3>1. Told(Sdus)
      BY <2>2, <2>5, <2>8 DEF Told, Sdus
    <3> QED BY <3>1 DEF Tells
  <2>12. SenderOK'
    BY <1>1, <1>2, <2>8, <2>9, <2>10 DEF SenderOK, MeterIssues
  <2> QED BY <1>1, <2>8, <2>11, <2>12 DEF SenderStep
<1>3. CASE MeterStarts
  <2>1. export' = StartExport(export) /\ meter' = "idle" /\ bufOpen' = TRUE /\ xmitQueue' = xmitQueue
    BY <1>3 DEF MeterStarts
  <2>2. export \in [Session -> ExportType]
    BY ExportsAre DEF SenderOK
  <2>3. \A s \in Session :
           /\ export'[s].sdus = export[s].sdus
           /\ export'[s].claims = export[s].claims /\ export'[s].ckpts = export[s].ckpts
           /\ \/ export'[s].state = export[s].state
              \/ export[s].state = "none" /\ export'[s].state = "open"
    BY <2>1, <2>2, StartExportIs
  <2>4. export' \in [Session -> Exports]
    BY <2>1, <2>2, StartExportIs, ExportsAre
  <2>5. SdusOK' /\ Moves /\ Told(Sdus)
    BY <2>3 DEF SenderOK, SdusOK, Moves, Over, Told, Sdus
  <2>6. QueueOK'
    <3>1. \A m \in ToSet(xmitQueue) : m.session \in Session
      BY InQueue, SegmentIs DEF SenderOK
    <3> QED BY <2>1, <2>3, <3>1 DEF SenderOK, QueueOK
  <2>7. SenderOK'
    BY <1>1, <2>1, <2>4, <2>5, <2>6 DEF SenderOK
  <2> QED BY <1>1, <2>5, <2>7 DEF SenderStep, Tells
<1> QED BY <1>2, <1>3 DEF Meter

(* A checkpoint changes.                                                   *)
LEMMA CkptChanges ==
  ASSUME NEW ks \in Ckpts, NEW c \in DOMAIN ks, NEW k \in Ckpt
  PROVE  /\ [ks EXCEPT ![c] = k] \in Ckpts
         /\ DOMAIN [ks EXCEPT ![c] = k] = DOMAIN ks
<1>1. DOMAIN ks = 1..Len(ks)
  BY DEF Ckpts
<1> QED BY <1>1, ExceptSeq DEF Ckpts

LEMMA CkptsChange ==
  ASSUME NEW e \in ExportType, NEW ks \in Ckpts
  PROVE  /\ [e EXCEPT !.ckpts = ks] \in ExportType /\ [e EXCEPT !.ckpts = ks].ckpts = ks
         /\ [e EXCEPT !.ckpts = ks].state = e.state /\ [e EXCEPT !.ckpts = ks].sdus = e.sdus
         /\ [e EXCEPT !.ckpts = ks].claims = e.claims
BY DEF ExportType

(* A session changes that keeps its state and what the client knows.       *)
LEMMA StaysKeeps ==
  ASSUME SenderOK, NEW s \in Session, NEW e \in ExportType,
         export' = [export EXCEPT ![s] = e],
         e.state = export[s].state, e.sdus = export[s].sdus, e.claims \subseteq export[s].claims
  PROVE  /\ export' \in [Session -> Exports] /\ SdusOK' /\ Moves /\ Tells
         /\ export'[s] = e /\ \A t \in Session : t # s => export'[t] = export[t]
<1>1. /\ export[s].state \in {"none", "open"} <=> export[s].sdus = "none"
      /\ export[s].state \in {"buffered", "live"} <=> export[s].sdus = "held"
  BY DEF SenderOK, SdusOK
<1>2. \A i \in e.claims : i \in export[s].claims \/ Claim(s, i)
  OBVIOUS
<1>3. Over(s) => e.state \in {"dead", "closed"}
  BY DEF Over
<1>4. /\ export' \in [Session -> Exports] /\ SdusOK' /\ Moves
      /\ export'[s] = e /\ \A t \in Session : t # s => export'[t] = export[t]
      /\ Told([Sdus EXCEPT ![s] = e.sdus])
  BY <1>1, <1>2, <1>3, OneMoves
<1>5. Told(Sdus)
  BY <1>4 DEF Told, Sdus
<1> QED BY <1>4, <1>5 DEF Tells

LEMMA LsoKeeps ==
  ASSUME SenderOK, MediumOK, LsoSends
  PROVE  SenderStep /\ UNCHANGED receiver
<1> DEFINE m == Head(xmitQueue)
           s == m.session
<1>1. /\ xmitQueue # <<>> /\ xmitQueue' = Tail(xmitQueue) /\ Sends(m)
      /\ export' = SetTimer(m) /\ UNCHANGED <<meter, client, bufOpen, dups, receiver>>
  BY DEF LsoSends
<1>2. /\ m \in ToSet(xmitQueue) /\ xmitQueue' \in Seq(Segments)
      /\ ToSet(xmitQueue') \subseteq ToSet(xmitQueue)
  BY <1>1, Dequeued DEF SenderOK
<1> HIDE DEF m
<1>3. m \in Segments /\ s \in Session /\ (m.type = "DS" => m.ckpt \in Nat)
  <2>1. m \in Segments
    BY <1>2, InQueue DEF SenderOK
  <2> QED BY <2>1, SegmentIs
<1>4. /\ m.type # "RS"
      /\ m.type = "DS" => export[s].state = "live"
      /\ m.type = "DS" /\ m.ckpt # 0 => m.ckpt \in DOMAIN export[s].ckpts
  BY <1>2 DEF SenderOK, QueueOK
<1>5. MediumOK' /\ Feeds
  BY <1>1, <1>3, <1>4 DEF MediumOK, Feeds, Sends
<1> HIDE DEF s
<1>6. /\ export[s] \in ExportType /\ export[s].ckpts \in Ckpts
  BY <1>3, ExportTyped
<1>7. \/ export' = export
      \/ \E e \in ExportType :
           /\ export' = [export EXCEPT ![s] = e] /\ e.state = export[s].state
           /\ e.sdus = export[s].sdus /\ e.claims = export[s].claims
           /\ DOMAIN e.ckpts = DOMAIN export[s].ckpts
  <2>1. CASE m.type = "DS" /\ m.ckpt # 0
    <3> DEFINE c == m.ckpt
               k == [export[s].ckpts[c] EXCEPT !.timer = TRUE]
               ks == [export[s].ckpts EXCEPT ![c] = k]
               e == [export[s] EXCEPT !.ckpts = ks]
    <3>1. export' = [export EXCEPT ![s] = e]
      BY <1>1, <2>1 DEF SetTimer, s
    <3>2. c \in DOMAIN export[s].ckpts /\ export[s].ckpts[c] \in Ckpt
      <4>1. \A j \in DOMAIN export[s].ckpts : export[s].ckpts[j] \in Ckpt
        BY <1>6 DEF Ckpts
      <4> QED BY <1>4, <2>1, <4>1
    <3>3. k \in Ckpt
      BY <3>2 DEF Ckpt
    <3> HIDE DEF k
    <3>4. ks \in Ckpts /\ DOMAIN ks = DOMAIN export[s].ckpts
      BY <1>6, <3>2, <3>3, CkptChanges
    <3> HIDE DEF ks
    <3>5. /\ e \in ExportType /\ e.ckpts = ks /\ e.state = export[s].state
          /\ e.sdus = export[s].sdus /\ e.claims = export[s].claims
      BY <1>6, <3>4, CkptsChange
    <3> QED BY <3>1, <3>4, <3>5
  <2>2. CASE m.type = "CS" /\ export[s].state = "dead"
    <3> DEFINE e == [export[s] EXCEPT !.timer = TRUE]
    <3>1. export' = [export EXCEPT ![s] = e]
      BY <1>1, <2>2 DEF SetTimer, s
    <3>2. /\ e \in ExportType /\ e.ckpts = export[s].ckpts /\ e.state = export[s].state
          /\ e.sdus = export[s].sdus /\ e.claims = export[s].claims
      BY <1>6 DEF ExportType
    <3> QED BY <3>1, <3>2
  <2>3. CASE ~(m.type = "DS" /\ m.ckpt # 0) /\ ~(m.type = "CS" /\ export[s].state = "dead")
    BY <1>1, <2>3 DEF SetTimer, s
  <2> QED BY <2>1, <2>2, <2>3
<1>8. export' \in [Session -> Exports] /\ SdusOK' /\ Moves /\ Tells /\ QueueOK'
  <2>1. CASE export' = export
    <3>1. SdusOK' /\ Moves /\ Told(Sdus)
      BY <2>1, NoneMoves
    <3> QED BY <1>2, <2>1, <3>1 DEF SenderOK, QueueOK, Tells
  <2>2. ASSUME NEW e \in ExportType,
               export' = [export EXCEPT ![s] = e], e.state = export[s].state,
               e.sdus = export[s].sdus, e.claims = export[s].claims,
               DOMAIN e.ckpts = DOMAIN export[s].ckpts
        PROVE  export' \in [Session -> Exports] /\ SdusOK' /\ Moves /\ Tells /\ QueueOK'
    <3>1. /\ export' \in [Session -> Exports] /\ SdusOK' /\ Moves /\ Tells
          /\ export'[s] = e /\ \A t \in Session : t # s => export'[t] = export[t]
      BY <1>3, <2>2, StaysKeeps DEF s
    <3>2. QueueOK'
      <4>1. \/ export[s].state # "live"
            \/ export'[s].state = "live" /\ DOMAIN export[s].ckpts \subseteq DOMAIN export'[s].ckpts
        BY <2>2, <3>1
      <4> QED BY <1>2, <1>3, <3>1, <4>1, QueueStays DEF QueueOK, s
    <3> QED BY <3>1, <3>2
  <2> QED BY <1>7, <2>1, <2>2
<1>9. SenderOK'
  BY <1>1, <1>2, <1>8 DEF SenderOK
<1> QED BY <1>1, <1>5, <1>8, <1>9 DEF SenderStep

(* A live session ends; what else comes into the queue is no data.         *)
LEMMA EndKeeps ==
  ASSUME SenderOK, NEW s \in Session, export[s].state = "live",
         NEW n \in {"complete", "canceled"}, NEW x \in {"dead", "closed"},
         export' = [export EXCEPT ![s] = Ended(n, x)],
         xmitQueue' \in Seq(Segments),
         \A m \in ToSet(xmitQueue') :
            \/ m \in ToSet(xmitQueue) /\ (m.type # "DS" \/ m.session # s)
            \/ m.type # "DS" /\ m.type # "RS",
         bufOpen' = TRUE, UNCHANGED <<meter, client>>
  PROVE  SenderOK' /\ Moves /\ Told([Sdus EXCEPT ![s] = n])
<1> DEFINE e == Ended(n, x)
<1>1. e \in ExportType /\ e.state = x /\ e.sdus = n /\ e.claims = {}
  BY EndedIs DEF Returns, States
<1> HIDE DEF e
<1>2. /\ export' \in [Session -> Exports] /\ SdusOK' /\ Moves
      /\ \A t \in Session : t # s => export'[t] = export[t]
      /\ Told([Sdus EXCEPT ![s] = e.sdus])
  <2>1. export' = [export EXCEPT ![s] = e]
    BY DEF e
  <2>2. Over(s) => e.state \in {"dead", "closed"}
    BY <1>1
  <2> QED BY <1>1, <2>1, <2>2, OneMoves
<1>3. QueueOK'
  BY <1>2, QueueStays DEF QueueOK
<1>4. SenderOK'
  BY <1>2, <1>3 DEF SenderOK
<1> QED BY <1>1, <1>2, <1>4

LEMMA TellsCanceled ==
  ASSUME SenderOK, NEW s \in Session, export[s].state = "live",
         Told([Sdus EXCEPT ![s] = "canceled"])
  PROVE  Tells
<1>1. Sdus[s] = "held"
  BY DEF SenderOK, SdusOK, Sdus
<1>2. \A t \in {s} : Sdus[t] = "held"
  BY <1>1
<1>3. Told([t \in Session |-> IF t \in {s} THEN "canceled" ELSE Sdus[t]])
  BY DEF Told, Sdus
<1>4. {s} \in SUBSET Session
  OBVIOUS
<1> QED BY <1>2, <1>3, <1>4, Zenon DEF Tells

LEMMA CancelKeeps ==
  ASSUME SenderOK, NEW s \in Session, export[s].state = "live",
         NEW queue \in Seq(Segments),
         \A m \in ToSet(queue) :
            m \in ToSet(xmitQueue) \/ (m.type # "DS" /\ m.type # "RS"),
         CancelBySender(s, queue), UNCHANGED <<meter, client>>
  PROVE  SenderOK' /\ Moves /\ Tells
<1>1. /\ export' = [export EXCEPT ![s] = Ended("canceled", "dead")]
      /\ xmitQueue' = Append(StopExport(queue, s), Cs(s)) /\ bufOpen' = TRUE
  BY DEF CancelBySender
<1>2. /\ StopExport(queue, s) \in Seq(Segments)
      /\ \A m \in ToSet(StopExport(queue, s)) : m \in ToSet(queue) /\ (m.type # "DS" \/ m.session # s)
      /\ Cs(s) \in Segments /\ Cs(s).type = "CS"
  BY Stopped, CancelIs
<1>3. /\ xmitQueue' \in Seq(Segments)
      /\ ToSet(xmitQueue') = ToSet(StopExport(queue, s)) \cup {Cs(s)}
  BY <1>1, <1>2, Appended
<1>4. \A m \in ToSet(xmitQueue') :
        \/ m \in ToSet(xmitQueue) /\ (m.type # "DS" \/ m.session # s)
        \/ m.type # "DS" /\ m.type # "RS"
  BY <1>2, <1>3
<1>5. SenderOK' /\ Moves /\ Told([Sdus EXCEPT ![s] = "canceled"])
  BY <1>1, <1>3, <1>4, EndKeeps
<1> QED BY <1>5, TellsCanceled

LEMMA StopKeeps ==
  ASSUME SenderOK, MediumOK, StopXmit
  PROVE  SenderStep /\ UNCHANGED receiver
<1> DEFINE doomed == {s \in Session : export[s].state \in {"buffered", "live"}}
           kept == {m \in ToSet(xmitQueue) : m.type # "DS" \/ m.session \notin doomed}
           ended == [s \in Session |-> IF s \in doomed THEN Ended("canceled", "dead")
                                      ELSE export[s]]
           numbers == Only([s \in Session |-> s], doomed)
           cancels == [i \in DOMAIN numbers |-> Cs(numbers[i])]
<1>1. /\ \/ export' = StartExport(ended)
         \/ export' = ended
      /\ xmitQueue' = Only(xmitQueue, kept) \o cancels
      /\ bufOpen' = TRUE
      /\ UNCHANGED <<meter, client, net, dups, receiver>>
  BY Zenon DEF StopXmit
<1>2. MediumOK' /\ Feeds
  BY <1>1 DEF MediumOK, Feeds
<1>3. /\ ended \in [Session -> ExportType]
      /\ \A s \in Session :
           IF s \in doomed
           THEN ended[s].state = "dead" /\ ended[s].sdus = "canceled" /\ ended[s].claims = {}
           ELSE ended[s] = export[s]
  <2>1. /\ Ended("canceled", "dead") \in ExportType /\ Ended("canceled", "dead").state = "dead"
        /\ Ended("canceled", "dead").sdus = "canceled" /\ Ended("canceled", "dead").claims = {}
    BY EndedIs DEF Returns, States
  <2>2. \A s \in Session : export[s] \in ExportType
    BY ExportTyped
  <2> HIDE DEF doomed
  <2> QED BY <2>1, <2>2
<1>4. /\ export' \in [Session -> ExportType]
      /\ \A s \in Session :
           /\ export'[s].sdus = ended[s].sdus /\ export'[s].claims = ended[s].claims
           /\ export'[s].ckpts = ended[s].ckpts
           /\ \/ export'[s].state = ended[s].state
              \/ ended[s].state = "none" /\ export'[s].state = "open"
  <2> HIDE DEF ended
  <2> QED BY <1>1, <1>3, StartExportIs
<1>5. \A s \in Session :
         IF s \in doomed
         THEN export'[s].state = "dead" /\ export'[s].sdus = "canceled" /\ export'[s].claims = {}
         ELSE /\ export'[s].sdus = export[s].sdus /\ export'[s].claims = export[s].claims
              /\ export'[s].ckpts = export[s].ckpts
              /\ \/ export'[s].state = export[s].state
                 \/ export[s].state = "none" /\ export'[s].state = "open"
  <2> HIDE DEF doomed, ended
  <2> QED BY <1>3, <1>4
<1>6. \A s \in doomed : Over(s)' /\ Sdus[s] = "held"
  BY <1>5 DEF Over, Sdus, SenderOK, SdusOK
<1>7. SdusOK'
  <2> HIDE DEF doomed
  <2> QED BY <1>5 DEF SdusOK, SenderOK
<1>8. Moves
  BY <1>5 DEF Moves, Over
<1>9. Tells
  <2>1. Told([s \in Session |-> IF s \in doomed THEN "canceled" ELSE Sdus[s]])
    <3> HIDE DEF doomed
    <3> QED BY <1>5 DEF Told, Sdus
  <2>2. doomed \in SUBSET Session
    OBVIOUS
  <2> HIDE DEF doomed
  <2> QED BY <1>6, <2>1, <2>2, Zenon DEF Tells
<1>10. /\ Only(xmitQueue, kept) \in Seq(Segments)
       /\ ToSet(Only(xmitQueue, kept)) \subseteq {m \in ToSet(xmitQueue) : m \in kept}
  <2> HIDE DEF kept
  <2> QED BY Kept DEF SenderOK
<1>11. numbers \in Seq(Session)
  <2>1. doomed \in SUBSET (1..LastSession) /\ LastSession \in Nat
    BY LtpAssumption DEF Session
  <2> HIDE DEF doomed
  <2> QED BY <2>1, Numbers DEF Session
<1>12. cancels \in Seq(Segments) /\ \A m \in ToSet(cancels) : m.type = "CS"
  <2> HIDE DEF numbers
  <2>1. \A i \in DOMAIN numbers : numbers[i] \in Session
    BY <1>11
  <2>2. \A i \in DOMAIN numbers : cancels[i] \in Segments /\ cancels[i].type = "CS"
    BY <2>1, CancelIs
  <2>3. cancels = [i \in DOMAIN numbers |-> cancels[i]]
    OBVIOUS
  <2>4. DOMAIN numbers = 1..Len(numbers) /\ Len(numbers) \in Nat
    BY <1>11
  <2> HIDE DEF cancels
  <2>5. cancels \in [1..Len(numbers) -> Segments] /\ DOMAIN cancels = DOMAIN numbers
    BY <2>2, <2>3, <2>4
  <2> QED BY <2>2, <2>4, <2>5 DEF ToSet
<1>13. /\ xmitQueue' \in Seq(Segments)
       /\ \A m \in ToSet(xmitQueue') : m.type = "CS" \/ (m \in ToSet(xmitQueue) /\ m \in kept)
  <2>1. /\ xmitQueue' \in Seq(Segments)
        /\ ToSet(xmitQueue') \subseteq ToSet(Only(xmitQueue, kept)) \cup ToSet(cancels)
    <3> HIDE DEF kept, cancels
    <3> QED BY <1>1, <1>10, <1>12, Concatenated
  <2> HIDE DEF kept, cancels
  <2> QED BY <1>10, <1>12, <2>1
<1>14. QueueOK'
  <2> SUFFICES ASSUME NEW m \in ToSet(xmitQueue')
               PROVE  /\ m.type # "RS"
                      /\ m.type = "DS" => /\ export'[m.session].state = "live"
                                          /\ m.ckpt # 0 => m.ckpt \in DOMAIN export'[m.session].ckpts
    BY DEF QueueOK
  <2>1. CASE m.type = "CS"
    BY <2>1
  <2>2. CASE m \in ToSet(xmitQueue) /\ m \in kept
    <3>1. m.session \in Session
      BY <2>2, InQueue, SegmentIs DEF SenderOK
    <3>2. /\ m.type # "RS"
          /\ m.type = "DS" => /\ export[m.session].state = "live" /\ m.session \notin doomed
                              /\ m.ckpt # 0 => m.ckpt \in DOMAIN export[m.session].ckpts
      <4> HIDE DEF doomed
      <4> QED BY <2>2 DEF SenderOK, QueueOK
    <3>3. m.type = "DS" => m.session \in doomed
      BY <3>1, <3>2
    <3> HIDE DEF doomed
    <3> QED BY <3>2, <3>3
  <2> HIDE DEF kept
  <2> QED BY <1>13, <2>1, <2>2
<1>15. SenderOK'
  <2> HIDE DEF doomed, kept, ended, cancels
  <2> QED BY <1>1, <1>4, <1>7, <1>13, <1>14, ExportsAre DEF SenderOK
<1> QED BY <1>1, <1>2, <1>8, <1>9, <1>15 DEF SenderStep

LEMMA ClockKeeps ==
  ASSUME SenderOK, MediumOK, Clock
  PROVE  SenderStep /\ UNCHANGED receiver
<1>1. MediumOK' /\ Feeds /\ UNCHANGED receiver /\ UNCHANGED <<meter, client>>
  BY DEF Clock, CheckpointExpires, XmitCancelExpires, MediumOK, Feeds
<1>2. CASE CheckpointExpires
  <2>0. PICK s \in Session : \E c \in DOMAIN export[s].ckpts :
          /\ export[s].state = "live"
          /\ \/ CancelBySender(s, xmitQueue)
             \/ /\ export' = [export EXCEPT ![s].ckpts[c].tries = @ + 1,
                                            ![s].ckpts[c].timer = FALSE]
                /\ xmitQueue' = Append(xmitQueue,
                      Ds(s, export[s].ckpts[c].seg, c, export[s].ckpts[c].rpt))
                /\ UNCHANGED bufOpen
    BY <1>2, ZenonT(30) DEF CheckpointExpires
  <2>1. PICK c \in DOMAIN export[s].ckpts :
          /\ export[s].state = "live"
          /\ \/ CancelBySender(s, xmitQueue)
             \/ /\ export' = [export EXCEPT ![s].ckpts[c].tries = @ + 1,
                                            ![s].ckpts[c].timer = FALSE]
                /\ xmitQueue' = Append(xmitQueue,
                      Ds(s, export[s].ckpts[c].seg, c, export[s].ckpts[c].rpt))
                /\ UNCHANGED bufOpen
    BY <2>0
  <2>2. CASE CancelBySender(s, xmitQueue)
    <3>1. SenderOK' /\ Moves /\ Tells
      BY <1>1, <2>1, <2>2, CancelKeeps DEF SenderOK, QueueOK
    <3> QED BY <1>1, <3>1 DEF SenderStep
  <2>3. CASE /\ export' = [export EXCEPT ![s].ckpts[c].tries = @ + 1,
                                        ![s].ckpts[c].timer = FALSE]
             /\ xmitQueue' = Append(xmitQueue,
                   Ds(s, export[s].ckpts[c].seg, c, export[s].ckpts[c].rpt))
             /\ UNCHANGED bufOpen
    <3> DEFINE k == [export[s].ckpts[c] EXCEPT !.tries = @ + 1, !.timer = FALSE]
               ks == [export[s].ckpts EXCEPT ![c] = k]
               e == [export[s] EXCEPT !.ckpts = ks]
               d == Ds(s, export[s].ckpts[c].seg, c, export[s].ckpts[c].rpt)
    <3>1. /\ export[s] \in ExportType /\ export[s].ckpts \in Ckpts
          /\ export \in [Session -> Exports]
      BY ExportTyped DEF SenderOK
    <3>2. c \in Nat /\ c \in 1..Len(export[s].ckpts) /\ export[s].ckpts[c] \in Ckpt
      BY <3>1 DEF Ckpts
    <3>3. k \in Ckpt
      <4> DEFINE n == export[s].ckpts[c].tries + 1
      <4>1. n \in Nat /\ k = [export[s].ckpts[c] EXCEPT !.tries = n, !.timer = FALSE]
        BY <3>2 DEF Ckpt
      <4> HIDE DEF n, k
      <4> QED BY <3>2, <4>1 DEF Ckpt
    <3>4. export' = [export EXCEPT ![s] = e]
      BY <2>3, <3>1, <3>2
    <3> HIDE DEF k
    <3>5. ks \in Ckpts /\ DOMAIN ks = DOMAIN export[s].ckpts
      BY <3>1, <3>3, CkptChanges
    <3> HIDE DEF ks
    <3>6. /\ e \in ExportType /\ e.ckpts = ks /\ e.state = export[s].state
          /\ e.sdus = export[s].sdus /\ e.claims = export[s].claims
      BY <3>1, <3>5, CkptsChange
    <3> HIDE DEF e
    <3>7. /\ export' \in [Session -> Exports] /\ SdusOK' /\ Moves /\ Tells
          /\ export'[s] = e /\ \A t \in Session : t # s => export'[t] = export[t]
      BY <3>4, <3>6, StaysKeeps
    <3>8. d \in Segments /\ d.type = "DS" /\ d.session = s /\ d.ckpt = c
      BY <3>2, DsIs DEF Ckpt
    <3> HIDE DEF d
    <3>9. xmitQueue' \in Seq(Segments) /\ ToSet(xmitQueue') = ToSet(xmitQueue) \cup {d}
      BY <2>3, <3>8, Appended DEF SenderOK, d
    <3>10. QueueOK'
      <4>1. /\ export'[s].state = "live" /\ DOMAIN export[s].ckpts \subseteq DOMAIN export'[s].ckpts
            /\ c \in DOMAIN export'[s].ckpts
        BY <2>1, <3>5, <3>6, <3>7
      <4> QED BY <3>7, <3>8, <3>9, <4>1, QueueStays DEF QueueOK
    <3>11. SenderOK'
      BY <1>1, <2>3, <3>7, <3>9, <3>10 DEF SenderOK
    <3> QED BY <1>1, <3>7, <3>11 DEF SenderStep
  <2> QED BY <2>1, <2>2, <2>3
<1>3. CASE XmitCancelExpires
  <2>1. PICK s \in Session :
          /\ export[s].state = "dead" /\ UNCHANGED bufOpen
          /\ \/ /\ export' = [export EXCEPT ![s] = Ended(@.sdus, "closed")]
                /\ UNCHANGED xmitQueue
             \/ /\ export' = [export EXCEPT ![s].tries = @ + 1, ![s].timer = FALSE]
                /\ xmitQueue' = Append(xmitQueue, Cs(s))
    BY <1>3 DEF XmitCancelExpires
  <2>2. /\ export[s] \in ExportType /\ export[s].sdus \in Returns /\ export[s].tries \in Nat
        /\ export[s].sdus \notin {"none", "held"} /\ export \in [Session -> Exports]
    BY <2>1, ExportTyped DEF SenderOK, SdusOK
  <2>3. \E e \in ExportType :
          /\ export' = [export EXCEPT ![s] = e] /\ e.state \in {"dead", "closed"}
          /\ e.sdus = export[s].sdus
    <3>1. CASE export' = [export EXCEPT ![s] = Ended(@.sdus, "closed")]
      <4>1. /\ Ended(export[s].sdus, "closed") \in ExportType
            /\ Ended(export[s].sdus, "closed").state = "closed"
            /\ Ended(export[s].sdus, "closed").sdus = export[s].sdus
        BY <2>2, EndedIs DEF States
      <4>2. export' = [export EXCEPT ![s] = Ended(export[s].sdus, "closed")]
        BY <3>1
      <4> QED BY <4>1, <4>2
    <3>2. CASE export' = [export EXCEPT ![s].tries = @ + 1, ![s].timer = FALSE]
      <4> DEFINE e == [export[s] EXCEPT !.tries = @ + 1, !.timer = FALSE]
      <4>1. export' = [export EXCEPT ![s] = e]
        BY <3>2
      <4>2. e \in ExportType /\ e.state = export[s].state /\ e.sdus = export[s].sdus
        <5> DEFINE n == export[s].tries + 1
        <5>1. n \in Nat /\ e = [export[s] EXCEPT !.tries = n, !.timer = FALSE]
          BY <2>2
        <5> HIDE DEF n, e
        <5> QED BY <2>2, <5>1 DEF ExportType
      <4> QED BY <2>1, <4>1, <4>2
    <3> QED BY <2>1, <3>1, <3>2
  <2>4. PICK e \in ExportType :
          /\ export' = [export EXCEPT ![s] = e] /\ e.state \in {"dead", "closed"}
          /\ e.sdus = export[s].sdus
    BY <2>3
  <2>5. /\ export' \in [Session -> Exports] /\ SdusOK' /\ Moves
        /\ \A t \in Session : t # s => export'[t] = export[t]
        /\ Told([Sdus EXCEPT ![s] = e.sdus])
    BY <2>1, <2>2, <2>4, OneMoves
  <2>6. Tells
    <3>1. Told(Sdus)
      BY <2>4, <2>5 DEF Told, Sdus
    <3> QED BY <3>1 DEF Tells
  <2>7. /\ xmitQueue' \in Seq(Segments)
        /\ \A m \in ToSet(xmitQueue') : m \in ToSet(xmitQueue) \/ m.type = "CS"
    <3>1. xmitQueue \in Seq(Segments) /\ Cs(s) \in Segments /\ Cs(s).type = "CS"
      BY CancelIs DEF SenderOK
    <3>2. CASE xmitQueue' = xmitQueue
      BY <3>1, <3>2
    <3>3. CASE xmitQueue' = Append(xmitQueue, Cs(s))
      BY <3>1, <3>3, Appended
    <3> QED BY <2>1, <3>2, <3>3
  <2>8. QueueOK'
    <3>1. export[s].state # "live"
      BY <2>1
    <3> QED BY <2>5, <2>7, <3>1, QueueStays DEF QueueOK
  <2>9. SenderOK'
    BY <1>1, <2>1, <2>5, <2>7, <2>8 DEF SenderOK
  <2> QED BY <1>1, <2>5, <2>6, <2>9 DEF SenderStep
<1> QED BY <1>2, <1>3 DEF Clock

LEMMA HandleRsKeeps ==
  ASSUME SenderOK, MediumOK, NEW m \in net, HandleRs(m)
  PROVE  SenderStep /\ UNCHANGED receiver
<1> DEFINE s == m.session
           e == export[s]
           queue == EnqueueAck(xmitQueue, Ra(s, m.serial))
           claims == Claimed(e, m)
           next == Len(e.ckpts) + 1
           acked == [c \in DOMAIN e.ckpts |->
                       IF c = m.ckpt THEN [e.ckpts[c] EXCEPT !.timer = FALSE] ELSE e.ckpts[c]]
           again == Retransmission(m, claims, next)
           ks == IF again = <<>> THEN acked
                 ELSE Append(acked, Checkpoint(Last(again).seg, m.serial))
           Goes == /\ export' = [export EXCEPT
                         ![s].rsSerials = @ \cup {m.serial}, ![s].claims = claims,
                         ![s].ckpts = ks]
                   /\ xmitQueue' = queue \o again /\ UNCHANGED bufOpen
<1>1. /\ m.type = "RS" /\ Receives(m)
      /\ UNCHANGED <<meter, client, receiver>>
      /\ \/ UNCHANGED <<export, xmitQueue, bufOpen>>
         \/ xmitQueue' = queue /\ UNCHANGED <<export, bufOpen>>
         \/ /\ e.state = "live" /\ claims = Segment
            /\ export' = [export EXCEPT ![s] = Ended("complete", "closed")]
            /\ xmitQueue' = StopExport(queue, s) /\ bufOpen' = TRUE
         \/ e.state = "live" /\ CancelBySender(s, queue)
         \/ e.state = "live" /\ Goes
  BY Zenon DEF HandleRs
<1>2. /\ MediumOK' /\ Feeds /\ m \in Segments /\ s \in Session
      /\ m.serial \in Serial /\ m.claims \in SUBSET Segment
  BY <1>1, Arrives, SegmentIs DEF Feeds
<1>3. /\ queue \in Seq(Segments)
      /\ \A x \in ToSet(queue) : x \in ToSet(xmitQueue) \/ (x.type # "DS" /\ x.type # "RS")
  <2>1. Ra(s, m.serial) \in Segments /\ Ra(s, m.serial).type = "RA" /\ xmitQueue \in Seq(Segments)
    BY <1>2, RaIs DEF SenderOK
  <2>2. /\ queue \in Seq(Segments) /\ ToSet(queue) \subseteq ToSet(xmitQueue) \cup {Ra(s, m.serial)}
    BY <2>1, Enqueued
  <2> QED BY <2>1, <2>2
<1>4. /\ e \in ExportType /\ e.ckpts \in Ckpts /\ e.claims \in SUBSET Segment
      /\ e.rsSerials \in SUBSET Serial
  BY <1>2, ExportTyped
<1>5. /\ claims \in SUBSET Segment
      /\ \A i \in claims : i \in e.claims \/ Claim(s, i)
  BY <1>1, <1>2, <1>4 DEF Claimed, Claim
<1>6. SenderOK' /\ Moves /\ Tells
  <2>1. CASE UNCHANGED <<export, xmitQueue, bufOpen>> \/ (xmitQueue' = queue /\ UNCHANGED <<export, bufOpen>>)
    <3>1. SdusOK' /\ Moves /\ Told(Sdus)
      BY <2>1, NoneMoves
    <3>2. /\ xmitQueue' \in Seq(Segments)
          /\ \A x \in ToSet(xmitQueue') : x \in ToSet(xmitQueue) \/ (x.type # "DS" /\ x.type # "RS")
      BY <1>3, <2>1 DEF SenderOK
    <3>3. QueueOK'
      BY <2>1, <3>2 DEF SenderOK, QueueOK
    <3>4. SenderOK'
      BY <1>1, <2>1, <3>1, <3>2, <3>3 DEF SenderOK
    <3> QED BY <3>1, <3>4 DEF Tells
  <2>2. CASE /\ e.state = "live" /\ claims = Segment
             /\ export' = [export EXCEPT ![s] = Ended("complete", "closed")]
             /\ xmitQueue' = StopExport(queue, s) /\ bufOpen' = TRUE
    <3>1. /\ xmitQueue' \in Seq(Segments)
          /\ \A x \in ToSet(xmitQueue') :
                \/ x \in ToSet(xmitQueue) /\ (x.type # "DS" \/ x.session # s)
                \/ x.type # "DS" /\ x.type # "RS"
      <4> HIDE DEF queue
      <4> QED BY <1>3, <2>2, Stopped
    <3>2. SenderOK' /\ Moves /\ Told([Sdus EXCEPT ![s] = "complete"])
      BY <1>1, <1>2, <2>2, <3>1, EndKeeps
    <3>3. TellsComplete(s)
      BY <1>5, <2>2, <3>2 DEF TellsComplete
    <3> QED BY <1>2, <3>2, <3>3 DEF Tells
  <2>3. CASE e.state = "live" /\ CancelBySender(s, queue)
    <3> HIDE DEF queue, s
    <3> QED BY <1>1, <1>2, <1>3, <2>3, CancelKeeps
  <2>4. CASE e.state = "live" /\ Goes
    <3>1. Len(e.ckpts) \in Nat /\ DOMAIN e.ckpts = 1..Len(e.ckpts) /\ next \in Nat
          /\ \A c \in DOMAIN e.ckpts : e.ckpts[c] \in Ckpt
      BY <1>4 DEF Ckpts
    <3>2. acked \in Ckpts /\ DOMAIN acked = DOMAIN e.ckpts /\ Len(acked) = Len(e.ckpts)
      <4>1. \A k \in Ckpt : [k EXCEPT !.timer = FALSE] \in Ckpt
        BY DEF Ckpt
      <4>2. \A c \in DOMAIN e.ckpts : acked[c] \in Ckpt
        BY <3>1, <4>1
      <4>3. acked = [c \in DOMAIN e.ckpts |-> acked[c]]
        OBVIOUS
      <4> HIDE DEF acked
      <4>4. acked \in [1..Len(e.ckpts) -> Ckpt]
        BY <3>1, <4>2, <4>3
      <4> QED BY <3>1, <4>4 DEF Ckpts
    <3>3. /\ again \in Seq(Segments)
          /\ \A d \in ToSet(again) : d.type = "DS" /\ d.session = s /\ d.ckpt \in {0, next}
          /\ again # <<>> => Last(again).seg \in Segment
      <4> HIDE DEF claims, next
      <4> QED BY <1>1, <1>2, <1>5, <3>1, RetransmissionIs
    <3>4. ks \in Ckpts /\ DOMAIN e.ckpts \subseteq DOMAIN ks /\ (again # <<>> => next \in DOMAIN ks)
      <4>1. CASE again = <<>>
        BY <3>2, <4>1
      <4>2. CASE again # <<>>
        <5> DEFINE k == Checkpoint(Last(again).seg, m.serial)
        <5> HIDE DEF again, acked
        <5>1. k \in Ckpt
          BY <1>2, <3>3, <4>2 DEF Checkpoint, Ckpt
        <5>2. ks = Append(acked, k)
          BY <4>2
        <5> HIDE DEF k, ks
        <5>3. ks \in Seq(Ckpt) /\ Len(ks) = Len(acked) + 1 /\ DOMAIN ks = 1..Len(ks)
          BY <3>2, <5>1, <5>2, AppendProperties DEF Ckpts
        <5> QED BY <3>1, <3>2, <5>3 DEF Ckpts
      <4> QED BY <4>1, <4>2
    <3> DEFINE serials == e.rsSerials \cup {m.serial}
               f == [e EXCEPT !.rsSerials = serials, !.claims = claims, !.ckpts = ks]
    <3>5. export' = [export EXCEPT ![s] = f] /\ serials \in SUBSET Serial
      <4> HIDE DEF ks, claims
      <4> QED BY <1>2, <1>4, <2>4 DEF SenderOK
    <3> HIDE DEF ks, claims, serials, again, acked, queue, next
    <3>6. /\ f \in ExportType /\ f.ckpts = ks /\ f.claims = claims /\ f.state = e.state
          /\ f.sdus = e.sdus
      BY <1>4, <1>5, <3>4, <3>5 DEF ExportType
    <3> HIDE DEF f
    <3>7. /\ export' \in [Session -> Exports] /\ SdusOK' /\ Moves
          /\ export'[s] = f /\ \A t \in Session : t # s => export'[t] = export[t]
          /\ Told([Sdus EXCEPT ![s] = f.sdus])
      <4>1. /\ e.state \in {"none", "open"} <=> e.sdus = "none"
            /\ e.state \in {"buffered", "live"} <=> e.sdus = "held"
        BY <1>2 DEF SenderOK, SdusOK
      <4>2. ~Over(s)
        BY <2>4 DEF Over
      <4>3. /\ f.state \in {"none", "open"} <=> f.sdus = "none"
            /\ f.state \in {"buffered", "live"} <=> f.sdus = "held"
            /\ f.state = "live"
            /\ \A i \in f.claims : i \in export[s].claims \/ Claim(s, i)
            /\ f \in ExportType /\ s \in Session
        BY <1>2, <1>5, <2>4, <3>6, <4>1
      <4> HIDE DEF s
      <4> QED BY <3>5, <4>2, <4>3, OneMoves
    <3>8. Tells
      <4>1. Told(Sdus)
        BY <1>2, <3>6, <3>7 DEF Told, Sdus
      <4> QED BY <4>1 DEF Tells
    <3>9. xmitQueue' \in Seq(Segments) /\ ToSet(xmitQueue') \subseteq ToSet(queue) \cup ToSet(again)
      BY <1>3, <2>4, <3>3, Concatenated
    <3>10. QueueOK'
      <4>1. export'[s].state = "live" /\ DOMAIN export[s].ckpts \subseteq DOMAIN export'[s].ckpts
        BY <2>4, <3>4, <3>6, <3>7
      <4>2. ASSUME NEW d \in ToSet(again)
            PROVE  /\ d.type # "RS" /\ export'[d.session].state = "live"
                   /\ d.ckpt # 0 => d.ckpt \in DOMAIN export'[d.session].ckpts
        <5>1. again # <<>>
          BY DEF ToSet
        <5> QED BY <3>3, <3>4, <3>6, <3>7, <4>1, <5>1
      <4> QED BY <1>2, <1>3, <3>7, <3>9, <4>1, <4>2, QueueStays, SMTT(30) DEF QueueOK
    <3>11. SenderOK'
      BY <1>1, <2>4, <3>7, <3>9, <3>10 DEF SenderOK
    <3> QED BY <3>7, <3>8, <3>11
  <2> HIDE DEF queue, claims, ks
  <2> QED BY <1>1, <2>1, <2>2, <2>3, <2>4
<1> QED BY <1>1, <1>2, <1>6 DEF SenderStep

LEMMA LsiKeeps ==
  ASSUME SenderOK, MediumOK, Lsi
  PROVE  SenderStep /\ UNCHANGED receiver
<1>1. PICK m \in net : HandleRs(m) \/ HandleCr(m) \/ HandleCas(m)
  BY DEF Lsi
<1>2. CASE HandleRs(m)
  BY <1>2, HandleRsKeeps
<1>3. CASE HandleCr(m)
  <2> DEFINE s == m.session
             queue == EnqueueAck(xmitQueue, Car(s))
  <2>1. /\ Receives(m) /\ UNCHANGED <<meter, client, receiver>>
        /\ \/ UNCHANGED <<export, xmitQueue, bufOpen>>
           \/ /\ export[s].state = "live"
              /\ export' = [export EXCEPT ![s] = Ended("canceled", "closed")]
              /\ xmitQueue' = StopExport(queue, s) /\ bufOpen' = TRUE
    BY <1>3 DEF HandleCr
  <2>2. MediumOK' /\ Feeds /\ s \in Session
    BY <2>1, Arrives, SegmentIs DEF Feeds
  <2>3. CASE UNCHANGED <<export, xmitQueue, bufOpen>>
    <3>1. SdusOK' /\ Moves /\ Told(Sdus)
      BY <2>3, NoneMoves
    <3>2. SenderOK'
      BY <2>1, <2>3, <3>1 DEF SenderOK, QueueOK
    <3> QED BY <2>1, <2>2, <3>1, <3>2 DEF SenderStep, Tells
  <2>4. CASE /\ export[s].state = "live"
             /\ export' = [export EXCEPT ![s] = Ended("canceled", "closed")]
             /\ xmitQueue' = StopExport(queue, s) /\ bufOpen' = TRUE
    <3>1. /\ queue \in Seq(Segments)
          /\ \A x \in ToSet(queue) : x \in ToSet(xmitQueue) \/ (x.type # "DS" /\ x.type # "RS")
      <4>1. Car(s) \in Segments /\ Car(s).type = "CAR" /\ xmitQueue \in Seq(Segments)
        BY <2>2, CancelIs DEF SenderOK
      <4>2. queue \in Seq(Segments) /\ ToSet(queue) \subseteq ToSet(xmitQueue) \cup {Car(s)}
        BY <4>1, Enqueued
      <4> QED BY <4>1, <4>2
    <3>2. /\ xmitQueue' \in Seq(Segments)
          /\ \A x \in ToSet(xmitQueue') :
                \/ x \in ToSet(xmitQueue) /\ (x.type # "DS" \/ x.session # s)
                \/ x.type # "DS" /\ x.type # "RS"
      <4> HIDE DEF queue
      <4> QED BY <2>4, <3>1, Stopped
    <3>3. SenderOK' /\ Moves /\ Told([Sdus EXCEPT ![s] = "canceled"])
      BY <2>1, <2>2, <2>4, <3>2, EndKeeps
    <3>4. Tells
      BY <2>2, <2>4, <3>3, TellsCanceled
    <3> QED BY <2>1, <2>2, <3>3, <3>4 DEF SenderStep
  <2> HIDE DEF queue
  <2> QED BY <2>1, <2>3, <2>4
<1>4. CASE HandleCas(m)
  <2> DEFINE s == m.session
  <2>1. /\ Receives(m) /\ UNCHANGED <<meter, client, bufOpen, xmitQueue, receiver>>
        /\ \/ export' = export
           \/ /\ export[s].state = "dead"
              /\ export' = [export EXCEPT ![s] = Ended(export[s].sdus, "closed")]
    BY <1>4 DEF HandleCas
  <2>2. MediumOK' /\ Feeds /\ s \in Session
    BY <2>1, Arrives, SegmentIs DEF Feeds
  <2>3. CASE export' = export
    <3>1. SdusOK' /\ Moves /\ Told(Sdus)
      BY <2>3, NoneMoves
    <3>2. SenderOK'
      BY <2>1, <2>3, <3>1 DEF SenderOK, QueueOK
    <3> QED BY <2>1, <2>2, <3>1, <3>2 DEF SenderStep, Tells
  <2>4. CASE /\ export[s].state = "dead"
             /\ export' = [export EXCEPT ![s] = Ended(export[s].sdus, "closed")]
    <3> DEFINE e == Ended(export[s].sdus, "closed")
    <3>1. export[s].sdus \in Returns /\ export[s].sdus \notin {"none", "held"}
      BY <2>2, <2>4, ExportTyped DEF SenderOK, SdusOK
    <3>2. e \in ExportType /\ e.state = "closed" /\ e.sdus = export[s].sdus
      BY <3>1, EndedIs DEF States
    <3> HIDE DEF e
    <3>3. /\ export' \in [Session -> Exports] /\ SdusOK' /\ Moves
          /\ \A t \in Session : t # s => export'[t] = export[t]
          /\ Told([Sdus EXCEPT ![s] = e.sdus])
      <4>1. export' = [export EXCEPT ![s] = e]
        BY <2>4 DEF e
      <4> QED BY <2>2, <2>4, <3>1, <3>2, <4>1, OneMoves
    <3>4. Tells
      <4>1. Told(Sdus)
        BY <2>2, <3>2, <3>3 DEF Told, Sdus
      <4> QED BY <4>1 DEF Tells
    <3>5. QueueOK'
      <4>1. export[s].state # "live"
        BY <2>4
      <4> QED BY <2>1, <2>2, <3>3, <4>1, QueueStays DEF QueueOK
    <3>6. SenderOK'
      BY <2>1, <3>3, <3>5 DEF SenderOK
    <3> QED BY <2>1, <2>2, <3>3, <3>4, <3>6 DEF SenderStep
  <2> QED BY <2>1, <2>3, <2>4
<1> QED BY <1>1, <1>2, <1>3, <1>4

-----------------------------------------------------------------------------
(* The buffers of import sessions: each is free, once, or one session has  *)
(* it.                                                                     *)
BuffersFit(free, count, own) ==
  /\ count <= MaxImports
  /\ \A k \in DOMAIN free : free[k] \in 1..count
  /\ \A j, k \in DOMAIN free : free[j] = free[k] => j = k
  /\ \A s \in Session : own[s] \in 0..count
  /\ \A s \in Session : own[s] # 0 => \A k \in DOMAIN free : free[k] # own[s]
  /\ \A s, t \in Session : own[s] = own[t] /\ own[s] # 0 => s = t
  /\ \A b \in 1..count :
       (\E k \in DOMAIN free : free[k] = b) \/ (\E s \in Session : own[s] = b)

Given(free, b) == IF b = 0 THEN free ELSE Append(free, b)

LEMMA BufferGiven ==
  ASSUME NEW free \in Seq(Nat), NEW count \in Nat, NEW own \in [Session -> Nat],
         BuffersFit(free, count, own), NEW s \in Session
  PROVE  /\ Given(free, own[s]) \in Seq(Nat)
         /\ BuffersFit(Given(free, own[s]), count, [own EXCEPT ![s] = 0])
<1> DEFINE own2 == [own EXCEPT ![s] = 0]
<1>1. own2[s] = 0 /\ \A t \in Session : t # s => own2[t] = own[t]
  OBVIOUS
<1>2. CASE own[s] = 0
  <2>1. own2 = own
    BY <1>2
  <2> QED BY <1>2, <2>1 DEF Given
<1>3. CASE own[s] # 0
  <2> DEFINE b == own[s]
             f == Append(free, b)
  <2>1. /\ f \in Seq(Nat) /\ Len(free) \in Nat /\ DOMAIN free = 1..Len(free)
        /\ DOMAIN f = 1..(Len(free) + 1) /\ f[Len(free) + 1] = b
        /\ \A k \in 1..Len(free) : f[k] = free[k]
    BY AppendProperties
  <2> HIDE DEF own2, f
  <2>2. \A k \in DOMAIN f : k \in DOMAIN free \/ (k = Len(free) + 1 /\ f[k] = b)
    BY <2>1
  <2>3. \A k \in DOMAIN free : k \in DOMAIN f /\ f[k] = free[k] /\ f[k] # b
    BY <1>3, <2>1 DEF BuffersFit
  <2>4. Len(free) + 1 \in DOMAIN f /\ f[Len(free) + 1] = b /\ b \in 1..count /\ b # 0
    BY <1>3, <2>1 DEF BuffersFit
  <2>5. \A k \in DOMAIN f : f[k] \in 1..count
    BY <2>2, <2>3, <2>4 DEF BuffersFit
  <2>6. \A j, k \in DOMAIN f : f[j] = f[k] => j = k
    BY <2>2, <2>3, <2>4 DEF BuffersFit
  <2>7. \A t \in Session : own2[t] \in 0..count
    BY <1>1, SMTT(30) DEF BuffersFit
  <2>8. \A t \in Session : own2[t] # 0 => \A k \in DOMAIN f : f[k] # own2[t]
    BY <1>1, <1>3, <2>2, <2>3 DEF BuffersFit
  <2>9. \A t, u \in Session : own2[t] = own2[u] /\ own2[t] # 0 => t = u
    BY <1>1 DEF BuffersFit
  <2>10. ASSUME NEW x \in 1..count
         PROVE  (\E k \in DOMAIN f : f[k] = x) \/ (\E t \in Session : own2[t] = x)
    <3>1. CASE \E k \in DOMAIN free : free[k] = x
      BY <2>3, <3>1
    <3>2. CASE \E t \in Session : own[t] = x
      BY <1>1, <2>4, <3>2
    <3> QED BY <3>1, <3>2 DEF BuffersFit
  <2>11. BuffersFit(f, count, own2)
    BY <2>5, <2>6, <2>7, <2>8, <2>9, <2>10 DEF BuffersFit
  <2> QED BY <1>3, <2>1, <2>11 DEF Given, f, own2
<1> QED BY <1>2, <1>3

LEMMA BufferTaken ==
  ASSUME NEW free \in Seq(Nat), NEW count \in Nat, NEW own \in [Session -> Nat],
         BuffersFit(free, count, own), NEW s \in Session, own[s] = 0,
         ~(free = <<>> /\ count >= MaxImports)
  PROVE  BuffersFit(IF free # <<>> THEN Tail(free) ELSE free,
                    IF free = <<>> THEN count + 1 ELSE count,
                    [own EXCEPT ![s] = IF free = <<>> THEN count + 1 ELSE Head(free)])
<1>1. CASE free = <<>>
  <2> DEFINE own2 == [own EXCEPT ![s] = count + 1]
  <2>1. own2[s] = count + 1 /\ \A t \in Session : t # s => own2[t] = own[t]
    OBVIOUS
  <2> HIDE DEF own2
  <2>2. count + 1 <= MaxImports /\ DOMAIN free = {} /\ \A t \in Session : own[t] \in 0..count
    BY <1>1, LtpAssumption DEF BuffersFit
  <2>3. \A t \in Session : own2[t] \in 0..(count + 1)
    BY <2>1, <2>2
  <2>4. \A t, u \in Session : own2[t] = own2[u] /\ own2[t] # 0 => t = u
    <3>1. \A t \in Session : t # s => own2[t] # count + 1
      BY <2>1, <2>2
    <3> QED BY <2>1, <3>1 DEF BuffersFit
  <2>5. \A x \in 1..(count + 1) : \E t \in Session : own2[t] = x
    <3>1. \A x \in 1..count : \E t \in Session : own[t] = x /\ x # 0
      BY <2>2 DEF BuffersFit
    <3>2. \A x \in 1..(count + 1) : x \in 1..count \/ x = count + 1
      OBVIOUS
    <3> QED BY <2>1, <3>1, <3>2
  <2>6. BuffersFit(free, count + 1, own2)
    BY <2>2, <2>3, <2>4, <2>5 DEF BuffersFit
  <2> QED BY <1>1, <2>6 DEF own2
<1>2. CASE free # <<>>
  <2> DEFINE own2 == [own EXCEPT ![s] = Head(free)]
             f == Tail(free)
  <2>1. own2[s] = Head(free) /\ \A t \in Session : t # s => own2[t] = own[t]
    OBVIOUS
  <2>2. /\ Head(free) = free[1] /\ Len(free) \in Nat /\ DOMAIN free = 1..Len(free) /\ 1 \in DOMAIN free
        /\ DOMAIN f = 1..(Len(free) - 1) /\ \A k \in DOMAIN f : f[k] = free[k + 1]
    BY <1>2, HeadTailProperties, EmptySeq
  <2> HIDE DEF own2, f
  <2>3. \A k \in DOMAIN f : k + 1 \in DOMAIN free /\ k + 1 # 1 /\ k \in Nat
    BY <2>2
  <2>4. \A k \in DOMAIN free : k # 1 => k - 1 \in DOMAIN f /\ f[k - 1] = free[k]
    BY <2>2, SMTT(30)
  <2>5. \A k \in DOMAIN f : f[k] \in 1..count
    BY <2>2, <2>3 DEF BuffersFit
  <2>6. \A j, k \in DOMAIN f : f[j] = f[k] => j = k
    <3>1. \A j, k \in DOMAIN f : f[j] = f[k] => j + 1 = k + 1
      BY <2>2, <2>3 DEF BuffersFit
    <3> QED BY <2>3, <3>1
  <2>7. \A t \in Session : own2[t] \in 0..count
    BY <2>1, <2>2 DEF BuffersFit
  <2>8. \A t \in Session : own2[t] # 0 => \A k \in DOMAIN f : f[k] # own2[t]
    <3>1. \A k \in DOMAIN f : f[k] # Head(free)
      BY <2>2, <2>3 DEF BuffersFit
    <3> QED BY <2>1, <2>2, <2>3, <3>1, SMTT(30) DEF BuffersFit
  <2>9. \A t, u \in Session : own2[t] = own2[u] /\ own2[t] # 0 => t = u
    <3>1. \A t \in Session : t # s /\ own2[t] # 0 => own2[t] # Head(free)
      BY <2>1, <2>2 DEF BuffersFit
    <3> QED BY <2>1, <3>1 DEF BuffersFit
  <2>10. ASSUME NEW x \in 1..count
         PROVE  (\E k \in DOMAIN f : f[k] = x) \/ (\E t \in Session : own2[t] = x)
    <3>1. CASE \E k \in DOMAIN free : free[k] = x
      BY <2>1, <2>2, <2>4, <3>1
    <3>2. CASE \E t \in Session : own[t] = x
      BY <2>1, <3>2
    <3> QED BY <3>1, <3>2 DEF BuffersFit
  <2>11. BuffersFit(f, count, own2)
    BY <2>5, <2>6, <2>7, <2>8, <2>9, <2>10 DEF BuffersFit
  <2> QED BY <1>2, <2>11 DEF own2, f
<1> QED BY <1>1, <1>2

-----------------------------------------------------------------------------
(* The receiving engine.                                                   *)

ImportsOK ==
  /\ import \in [Session -> Imports]
  /\ rcvQueue \in Seq(Segments) /\ \A m \in ToSet(rcvQueue) : m.type # "DS"
  /\ closedImports \in SUBSET Session
  /\ importBuffers \in Seq(Nat) /\ importBufferCount \in Nat
  /\ ClosedStaysClosed

DeliveryOK ==
  /\ deliverables \in Seq(Session) /\ ToSet(deliverables) \subseteq whole
  /\ whole \in SUBSET Session
  /\ deliv \in [session : Session \cup {0}, obj : Nat, buffer : Nat]
  /\ deliv.session # 0 => deliverables # <<>> /\ Head(deliverables) = deliv.session
  /\ received \in [Session -> Nat]

ReceiverOK == ImportsOK /\ DeliveryOK

(* What ltpdeliv has found is still there.                                 *)
HeldOK ==
  deliv.session # 0 => /\ import[deliv.session].state = "live"
                       /\ import[deliv.session].obj = deliv.obj

Owned == [s \in Session |-> import[s].buffer]
BuffersOK ==
  /\ BuffersFit(importBuffers, importBufferCount, Owned)
  /\ \A s \in Session :
       import[s].buffer # 0 => import[s].state = "live" /\ ~import[s].delivered

(* A segment that a report shows to have arrived.                          *)
Shown(s, i) ==
  \/ i \in export[s].claims
  \/ \E r \in import[s].reports : i \in r.claims
  \/ \E m \in net : m.type = "RS" /\ m.session = s /\ i \in m.claims
  \/ \E m \in ToSet(rcvQueue) : m.type = "RS" /\ m.session = s /\ i \in m.claims

(* What the steps of the receiving engine have in common that accept no    *)
(* data.                                                                   *)
Settles ==
  /\ \A s \in Session : \A i \in Segment : Shown(s, i)' => Shown(s, i)
  /\ \A s \in Session :
       /\ import'[s].state = "live" => import[s].state = "live" /\ import'[s].red = import[s].red
       /\ import'[s].state = "none" /\ s \notin closedImports' =>
            \/ import[s].state = "none" /\ s \notin closedImports
            \/ Over(s) /\ \A m \in net' : m.type = "DS" => m.session # s
       /\ received[s] > 0 => received'[s] > 0
       /\ received'[s] > 0 => received[s] > 0 \/ s \in whole
       /\ import'[s].delivered => import[s].delivered \/ received'[s] > 0
  /\ whole' = whole
  /\ \A m \in net' : m \in net \/ m.type # "DS"
  /\ \E t \in Session :
       /\ \A s \in Session : s # t => import'[s].state = import[s].state /\ received'[s] = received[s]
       /\ HeldOK /\ received'[t] # received[t] => import[t].state = "live"

KeepsBuffers == ~Interrupted /\ HeldOK /\ BuffersOK => HeldOK' /\ BuffersOK'
LEMMA ImportTyped ==
  ASSUME ReceiverOK, NEW s \in Session
  PROVE  /\ import[s] \in Imports /\ import[s].state \in {"none", "live", "dead"}
         /\ import[s].obj \in Nat /\ import[s].red \in SUBSET Segment
         /\ import[s].cleared \in BOOLEAN /\ import[s].reports \in SUBSET Reports
         /\ import[s].reportsCount \in Nat /\ import[s].next \in Nat
         /\ import[s].finalRpt \in Serial /\ import[s].buffer \in Nat
         /\ import[s].tries \in Nat
BY DEF ReceiverOK, ImportsOK, Imports

LEMMA NoImportIs ==
  /\ NoImport \in Imports /\ NoImport.state = "none" /\ NoImport.red = {}
  /\ NoImport.reports = {} /\ NoImport.delivered = FALSE /\ NoImport.buffer = 0
  /\ NoImport.obj = 0 /\ NoImport.cleared = FALSE
<1>1. NoReport \in Serial
  BY NoReportIs
<1>2. {} \in SUBSET Reports /\ {} \in SUBSET Segment
  OBVIOUS
<1> QED BY <1>1, <1>2 DEF NoImport, Imports

(* The sessions that are left when one is closed or cancelled.             *)
LEMMA ClosedIs ==
  ASSUME NEW n \in Nat
  PROVE  LET i == [NoImport EXCEPT !.obj = n] IN
         /\ i \in Imports /\ i.state = "none" /\ i.red = {} /\ i.reports = {}
         /\ i.delivered = FALSE /\ i.buffer = 0 /\ i.obj = n
BY NoImportIs DEF Imports

LEMMA DeadIs ==
  ASSUME NEW n \in Nat
  PROVE  LET i == [NoImport EXCEPT !.state = "dead", !.obj = n, !.cleared = TRUE] IN
         /\ i \in Imports /\ i.state = "dead" /\ i.red = {} /\ i.reports = {}
         /\ i.delivered = FALSE /\ i.buffer = 0 /\ i.obj = n
BY NoImportIs DEF Imports

LEMMA OneImport ==
  ASSUME ReceiverOK, NEW s \in Session, NEW i \in Imports, import' = [import EXCEPT ![s] = i]
  PROVE  /\ import' \in [Session -> Imports] /\ import'[s] = i
         /\ \A t \in Session : t # s => import'[t] = import[t]
         /\ Owned \in [Session -> Nat]
         /\ Owned' = [Owned EXCEPT ![s] = i.buffer]
<1>1. import \in [Session -> Imports]
  BY DEF ReceiverOK, ImportsOK
<1>2. /\ import' \in [Session -> Imports] /\ import'[s] = i
      /\ \A t \in Session : t # s => import'[t] = import[t]
  BY <1>1
<1>3. \A t \in Session : import[t].buffer \in Nat
  BY ImportTyped
<1> QED BY <1>2, <1>3 DEF Owned

(* The buffer of a session goes back to the free ones.                     *)
LEMMA RecycleKeeps ==
  ASSUME ReceiverOK, BuffersOK, NEW s \in Session, NEW i \in Imports, i.buffer = 0,
         import' = [import EXCEPT ![s] = i],
         importBuffers' = Recycled(importBuffers, import[s]),
         importBufferCount' = importBufferCount
  PROVE  BuffersOK'
<1>1. /\ Owned \in [Session -> Nat] /\ Owned' = [Owned EXCEPT ![s] = 0]
      /\ import'[s] = i /\ \A t \in Session : t # s => import'[t] = import[t]
  BY OneImport
<1>2. importBuffers' = Given(importBuffers, Owned[s])
  BY DEF Recycled, Given, Owned
<1>3. BuffersFit(importBuffers, importBufferCount, Owned)
  BY DEF BuffersOK
<1>4. BuffersFit(importBuffers', importBufferCount, Owned')
  <2>1. importBuffers \in Seq(Nat) /\ importBufferCount \in Nat
    BY DEF ReceiverOK, ImportsOK
  <2>2. BuffersFit(Given(importBuffers, Owned[s]), importBufferCount, [Owned EXCEPT ![s] = 0])
    BY <1>1, <1>3, <2>1, BufferGiven
  <2> QED BY <1>1, <1>2, <2>2, Zenon
<1> QED BY <1>1, <1>4 DEF BuffersOK

LEMMA RecycledTyped ==
  ASSUME NEW free \in Seq(Nat), NEW i, i.buffer \in Nat
  PROVE  Recycled(free, i) \in Seq(Nat)
BY Appended DEF Recycled

(* No buffer changes hands.                                                *)
LEMMA BuffersStay ==
  ASSUME BuffersOK, UNCHANGED buffers,
         \A s \in Session :
           /\ import'[s].buffer = import[s].buffer
           /\ import[s].buffer # 0 => /\ import'[s].state = import[s].state
                                      /\ import'[s].delivered => import[s].delivered
  PROVE  BuffersOK'
<1>1. Owned' = Owned
  BY DEF Owned
<1> QED BY <1>1 DEF BuffersOK, buffers

(* What is shown does not grow when the reports and the queue do not.      *)
LEMMA ShownStays ==
  ASSUME UNCHANGED export,
         \A s \in Session : \A r \in import'[s].reports :
           \E q \in import[s].reports : r.claims = q.claims,
         \A m \in net' \cup ToSet(rcvQueue') : m.type = "RS" =>
           \/ m \in net \cup ToSet(rcvQueue)
           \/ m.session \in Session /\ \E q \in import[m.session].reports : m.claims = q.claims
  PROVE  \A s \in Session : \A i \in Segment : Shown(s, i)' => Shown(s, i)
<1> SUFFICES ASSUME NEW s \in Session, NEW i \in Segment, Shown(s, i)' PROVE Shown(s, i)
  OBVIOUS
<1>1. CASE i \in export'[s].claims
  BY <1>1 DEF Shown
<1>2. CASE \E r \in import'[s].reports : i \in r.claims
  BY <1>2 DEF Shown
<1>3. ASSUME NEW m \in net' \cup ToSet(rcvQueue'), m.type = "RS", m.session = s, i \in m.claims
      PROVE  Shown(s, i)
  BY <1>3 DEF Shown
<1> QED BY <1>1, <1>2, <1>3 DEF Shown

LEMMA HeldStays ==
  ASSUME ReceiverOK, HeldOK, UNCHANGED deliv, NEW s \in Session, NEW i \in Imports,
         import' = [import EXCEPT ![s] = i],
         deliv.session # s \/ (i.state = import[s].state /\ i.obj = import[s].obj)
  PROVE  HeldOK'
<1>1. deliv.session \in Session \cup {0}
  BY DEF ReceiverOK, DeliveryOK
<1>2. import'[s] = i /\ \A t \in Session : t # s => import'[t] = import[t]
  BY OneImport
<1> QED BY <1>1, <1>2 DEF HeldOK

(* One session changes that does not take data.                            *)
LEMMA OneSettles ==
  ASSUME ReceiverOK, NEW s \in Session, NEW i \in Imports, import' = [import EXCEPT ![s] = i],
         UNCHANGED <<export, whole, received>>,
         \A m \in net' : m \in net \/ (m.type # "DS" /\ m \in ToSet(rcvQueue)),
         \A m \in ToSet(rcvQueue') : m.type = "RS" =>
            \/ m \in ToSet(rcvQueue)
            \/ m.session = s /\ \E q \in import[s].reports : m.claims = q.claims,
         \A r \in i.reports : \E q \in import[s].reports : r.claims = q.claims,
         i.state = "live" => import[s].state = "live" /\ i.red = import[s].red,
         closedImports \subseteq closedImports',
         i.state = "none" => s \in closedImports' \/ import[s].state = "none",
         i.delivered => import[s].delivered
  PROVE  Settles
<1>1. import'[s] = i /\ \A t \in Session : t # s => import'[t] = import[t]
  BY OneImport
<1>2. \A t \in Session : \A x \in Segment : Shown(t, x)' => Shown(t, x)
  <2>1. \A t \in Session : \A r \in import'[t].reports : \E q \in import[t].reports : r.claims = q.claims
    BY <1>1
  <2>2. \A m \in net' \cup ToSet(rcvQueue') : m.type = "RS" =>
           \/ m \in net \cup ToSet(rcvQueue)
           \/ m.session \in Session /\ \E q \in import[m.session].reports : m.claims = q.claims
    OBVIOUS
  <2> QED BY <2>1, <2>2, ShownStays
<1>3. \A t \in Session :
       /\ import'[t].state = "live" => import[t].state = "live" /\ import'[t].red = import[t].red
       /\ import'[t].state = "none" /\ t \notin closedImports' =>
            import[t].state = "none" /\ t \notin closedImports
       /\ import'[t].delivered => import[t].delivered
  BY <1>1
<1>4. \A t \in Session : t # s => import'[t].state = import[t].state /\ received'[t] = received[t]
  BY <1>1
<1> QED BY <1>2, <1>3, <1>4 DEF Settles

(* A session is closed.                                                    *)
LEMMA CloseDoes ==
  ASSUME ReceiverOK, NEW s \in Session, NEW queue \in Seq(Segments), CloseImport(s, queue),
         \A m \in ToSet(queue) : m \in ToSet(rcvQueue) \/ (m.type # "DS" /\ m.type # "RS"),
         importBuffers' \in Seq(Nat), UNCHANGED importBufferCount
  PROVE  /\ ImportsOK'
         /\ closedImports' = closedImports \cup {s}
         /\ \A m \in ToSet(rcvQueue') : m.type = "RS" => m \in ToSet(rcvQueue)
         /\ \E i \in Imports :
              /\ import' = [import EXCEPT ![s] = i]
              /\ i.state = "none" /\ i.red = {} /\ i.reports = {} /\ i.delivered = FALSE
              /\ i.buffer = 0
<1> DEFINE i == [NoImport EXCEPT !.obj = import[s].obj]
<1>1. /\ import' = [import EXCEPT ![s] = i] /\ closedImports' = closedImports \cup {s}
      /\ rcvQueue' = StopImport(queue, s)
  BY DEF CloseImport
<1>2. /\ i \in Imports /\ i.state = "none" /\ i.red = {} /\ i.reports = {}
      /\ i.delivered = FALSE /\ i.buffer = 0
  BY ImportTyped, ClosedIs
<1> HIDE DEF i
<1>3. /\ import' \in [Session -> Imports] /\ import'[s] = i
      /\ \A t \in Session : t # s => import'[t] = import[t]
  BY <1>1, <1>2, OneImport
<1>4. rcvQueue' \in Seq(Segments) /\ \A m \in ToSet(rcvQueue') : m \in ToSet(queue)
  BY <1>1, Stopped
<1>5. ClosedStaysClosed'
  BY <1>1, <1>2, <1>3 DEF ReceiverOK, ImportsOK, ClosedStaysClosed
<1>6. ImportsOK'
  BY <1>1, <1>3, <1>4, <1>5 DEF ReceiverOK, ImportsOK
<1> QED BY <1>1, <1>2, <1>4, <1>6

(* And its buffer given back, while nobody holds it.                       *)
LEMMA CloseKeeps ==
  ASSUME ReceiverOK, NEW s \in Session, NEW queue \in Seq(Segments), CloseImport(s, queue),
         \A m \in ToSet(queue) : m \in ToSet(rcvQueue) \/ (m.type # "DS" /\ m.type # "RS"),
         \/ importBuffers' = Recycled(importBuffers, import[s])
         \/ importBuffers' = importBuffers /\ (BuffersOK => import[s].buffer = 0),
         UNCHANGED <<importBufferCount, delivery, whole, export>>,
         \A m \in net' : m \in net,
         Undisturbed(s) \/ import[s].state # "live"
  PROVE  ReceiverOK' /\ Settles /\ KeepsBuffers
<1>1. importBuffers \in Seq(Nat) /\ import[s].buffer \in Nat
  BY ImportTyped DEF ReceiverOK, ImportsOK
<1>2. importBuffers' \in Seq(Nat)
  BY <1>1, RecycledTyped
<1>3. /\ ImportsOK'
      /\ closedImports' = closedImports \cup {s}
      /\ \A m \in ToSet(rcvQueue') : m.type = "RS" => m \in ToSet(rcvQueue)
  BY <1>2, CloseDoes
<1>4. PICK i \in Imports :
        /\ import' = [import EXCEPT ![s] = i]
        /\ i.state = "none" /\ i.red = {} /\ i.reports = {} /\ i.delivered = FALSE
        /\ i.buffer = 0
  BY <1>2, CloseDoes
<1>5. ReceiverOK'
  BY <1>3 DEF ReceiverOK, DeliveryOK, delivery
<1>6. Settles
  <2>1. /\ UNCHANGED <<export, whole, received>>
        /\ \A m \in net' : m \in net \/ (m.type # "DS" /\ m \in ToSet(rcvQueue))
    BY DEF delivery
  <2>2. /\ \A r \in i.reports : \E q \in import[s].reports : r.claims = q.claims
        /\ i.state = "live" => import[s].state = "live" /\ i.red = import[s].red
        /\ closedImports \subseteq closedImports'
        /\ i.state = "none" => s \in closedImports' \/ import[s].state = "none"
        /\ i.delivered => import[s].delivered
    BY <1>3, <1>4
  <2>3. \A m \in ToSet(rcvQueue') : m.type = "RS" =>
            \/ m \in ToSet(rcvQueue)
            \/ m.session = s /\ \E q \in import[s].reports : m.claims = q.claims
    BY <1>3
  <2>4. import' = [import EXCEPT ![s] = i]
    BY <1>4
  <2> QED BY <2>1, <2>2, <2>3, <2>4, OneSettles
<1>7. ASSUME ~Interrupted, HeldOK, BuffersOK PROVE HeldOK' /\ BuffersOK'
  <2>1. deliv.session # s
    <3>1. s # 0
      BY DEF Session
    <3> QED BY <1>7, <3>1 DEF HeldOK, Undisturbed
  <2>2. HeldOK'
    BY <1>4, <1>7, <2>1, HeldStays DEF delivery
  <2>3. importBuffers' = Recycled(importBuffers, import[s])
    BY <1>7 DEF Recycled
  <2> QED BY <1>4, <1>7, <2>2, <2>3, RecycleKeeps
<1> QED BY <1>5, <1>6, <1>7 DEF KeepsBuffers

(* A session changes that keeps its state, its data and its buffer.        *)
LEMMA StaysSettled ==
  ASSUME ReceiverOK, NEW s \in Session, NEW i \in Imports, import' = [import EXCEPT ![s] = i],
         i.state = import[s].state, i.obj = import[s].obj, i.red = import[s].red,
         i.delivered <=> import[s].delivered, i.buffer = import[s].buffer,
         \A r \in i.reports : \E q \in import[s].reports : r.claims = q.claims,
         UNCHANGED <<export, closedImports, buffers, delivery, whole>>,
         \A m \in net' : m \in net \/ (m.type # "DS" /\ m \in ToSet(rcvQueue)),
         rcvQueue' \in Seq(Segments),
         \A m \in ToSet(rcvQueue') :
            \/ m \in ToSet(rcvQueue)
            \/ m.type # "DS" /\ m.type # "RS"
            \/ m.type = "RS" /\ m.session = s /\ \E q \in import[s].reports : m.claims = q.claims
  PROVE  ReceiverOK' /\ Settles /\ KeepsBuffers
<1>1. /\ import' \in [Session -> Imports] /\ import'[s] = i
      /\ \A t \in Session : t # s => import'[t] = import[t]
  BY OneImport
<1>2. ImportsOK'
  <2>1. ClosedStaysClosed'
    BY <1>1 DEF ReceiverOK, ImportsOK, ClosedStaysClosed
  <2> QED BY <1>1, <2>1 DEF ReceiverOK, ImportsOK, buffers
<1>3. ReceiverOK'
  BY <1>2 DEF ReceiverOK, DeliveryOK, delivery
<1>4. Settles
  <2>1. UNCHANGED <<export, whole, received>> /\ closedImports \subseteq closedImports'
    BY DEF delivery
  <2>2. \A m \in ToSet(rcvQueue') : m.type = "RS" =>
            \/ m \in ToSet(rcvQueue)
            \/ m.session = s /\ \E q \in import[s].reports : m.claims = q.claims
    OBVIOUS
  <2>3. /\ i.state = "live" => import[s].state = "live" /\ i.red = import[s].red
        /\ i.state = "none" => s \in closedImports' \/ import[s].state = "none"
        /\ i.delivered => import[s].delivered
    OBVIOUS
  <2> QED BY <2>1, <2>2, <2>3, OneSettles
<1>5. ASSUME ~Interrupted, HeldOK, BuffersOK PROVE HeldOK' /\ BuffersOK'
  <2>1. HeldOK'
    BY <1>5, HeldStays DEF delivery
  <2>2. \A t \in Session :
           /\ import'[t].buffer = import[t].buffer
           /\ import[t].buffer # 0 => /\ import'[t].state = import[t].state
                                      /\ import'[t].delivered => import[t].delivered
    BY <1>1
  <2> QED BY <1>5, <2>1, <2>2, BuffersStay
<1> QED BY <1>3, <1>4, <1>5 DEF KeepsBuffers

ReceiverStep == ReceiverOK' /\ MediumOK' /\ Settles /\ KeepsBuffers

LEMMA TimerChanges ==
  ASSUME NEW r \in Reports, NEW b \in BOOLEAN, NEW n \in Nat
  PROVE  /\ [r EXCEPT !.timer = b] \in Reports
         /\ [r EXCEPT !.timer = b].claims = r.claims
         /\ [r EXCEPT !.tries = n, !.timer = b] \in Reports
         /\ [r EXCEPT !.tries = n, !.timer = b].claims = r.claims
BY DEF Reports

LEMMA RcvLsoKeeps ==
  ASSUME ReceiverOK, MediumOK, RcvLsoSends
  PROVE  ReceiverStep /\ UNCHANGED sender
<1> DEFINE m == Head(rcvQueue)
           s == m.session
           Started(r) == IF r.serial = m.serial THEN [r EXCEPT !.timer = TRUE] ELSE r
           R == {Started(r) : r \in import[s].reports}
<1>1. /\ rcvQueue # <<>> /\ rcvQueue' = Tail(rcvQueue) /\ Sends(m)
      /\ \/ import' = [import EXCEPT ![s].reports = R]
         \/ import[s].state = "dead" /\ import' = [import EXCEPT ![s].timer = TRUE]
         \/ import' = import
      /\ UNCHANGED <<sender, dups, closedImports, buffers, delivery, whole>>
  BY Zenon DEF RcvLsoSends
<1>2. /\ m \in ToSet(rcvQueue) /\ rcvQueue' \in Seq(Segments)
      /\ ToSet(rcvQueue') \subseteq ToSet(rcvQueue)
  BY <1>1, Dequeued DEF ReceiverOK, ImportsOK
<1>3. m \in Segments /\ s \in Session /\ m.type # "DS"
  BY <1>2, InQueue, SegmentIs DEF ReceiverOK, ImportsOK
<1>4. MediumOK' /\ \A x \in net' : x \in net \/ (x.type # "DS" /\ x \in ToSet(rcvQueue))
  <2> HIDE DEF m, R
  <2> QED BY <1>1, <1>2, <1>3 DEF MediumOK, Sends
<1>5. import[s] \in Imports /\ import[s].reports \in SUBSET Reports /\ import \in [Session -> Imports]
  BY <1>3, ImportTyped DEF ReceiverOK, ImportsOK
<1>6. R \in SUBSET Reports /\ \A r \in R : \E q \in import[s].reports : r.claims = q.claims
  <2> SUFFICES ASSUME NEW r \in import[s].reports
               PROVE  Started(r) \in Reports /\ Started(r).claims = r.claims
    OBVIOUS
  <2>1. r \in Reports
    BY <1>5
  <2> QED BY <2>1, TimerChanges
<1> HIDE DEF R, m
<1>7. \E i \in Imports :
        /\ import' = [import EXCEPT ![s] = i]
        /\ i.state = import[s].state /\ i.obj = import[s].obj /\ i.red = import[s].red
        /\ i.delivered = import[s].delivered /\ i.buffer = import[s].buffer
        /\ \A r \in i.reports : \E q \in import[s].reports : r.claims = q.claims
  <2> HIDE DEF s
  <2>1. CASE import' = [import EXCEPT ![s].reports = R]
    <3> DEFINE i == [import[s] EXCEPT !.reports = R]
    <3>1. import' = [import EXCEPT ![s] = i]
      BY <2>1
    <3>2. /\ i \in Imports /\ i.state = import[s].state /\ i.obj = import[s].obj /\ i.red = import[s].red
          /\ i.delivered = import[s].delivered /\ i.buffer = import[s].buffer /\ i.reports = R
      <4>1. import[s] \in Imports /\ R \in SUBSET Reports /\ TRUE \in BOOLEAN
        BY <1>5, <1>6
      <4> QED BY <4>1 DEF Imports
    <3> QED BY <1>6, <3>1, <3>2
  <2>2. CASE import' = [import EXCEPT ![s].timer = TRUE]
    <3> DEFINE i == [import[s] EXCEPT !.timer = TRUE]
    <3>1. import' = [import EXCEPT ![s] = i]
      BY <2>2
    <3>2. /\ i \in Imports /\ i.state = import[s].state /\ i.obj = import[s].obj /\ i.red = import[s].red
          /\ i.delivered = import[s].delivered /\ i.buffer = import[s].buffer
          /\ i.reports = import[s].reports
      BY <1>5 DEF Imports
    <3> QED BY <3>1, <3>2
  <2>3. CASE import' = import
    <3>1. import' = [import EXCEPT ![s] = import[s]]
      BY <1>5, <2>3
    <3> QED BY <1>5, <3>1
  <2> QED BY <1>1, <2>1, <2>2, <2>3 DEF s
<1>8. PICK i \in Imports :
        /\ import' = [import EXCEPT ![s] = i]
        /\ i.state = import[s].state /\ i.obj = import[s].obj /\ i.red = import[s].red
        /\ i.delivered = import[s].delivered /\ i.buffer = import[s].buffer
        /\ \A r \in i.reports : \E q \in import[s].reports : r.claims = q.claims
  BY <1>7
<1> HIDE DEF s
<1>9. UNCHANGED export
  BY <1>1 DEF sender
<1>10. ReceiverOK' /\ Settles /\ KeepsBuffers
  BY <1>1, <1>2, <1>3, <1>4, <1>8, <1>9, StaysSettled, ZenonT(30)
<1> QED BY <1>1, <1>4, <1>10 DEF ReceiverStep

(* A session is cancelled.                                                 *)
LEMMA CancelDoes ==
  ASSUME ReceiverOK, NEW s \in Session, NEW i \in Imports, NEW free \in Seq(Nat),
         CancelByReceiver(s, i, free), s \notin closedImports,
         UNCHANGED closedImports, importBufferCount' \in Nat
  PROVE  /\ ImportsOK' /\ Undisturbed(s)
         /\ importBuffers' = Recycled(free, i)
         /\ \A m \in ToSet(rcvQueue') : m.type = "RS" => m \in ToSet(rcvQueue)
         /\ \E j \in Imports :
              /\ import' = [import EXCEPT ![s] = j]
              /\ j.state = "dead" /\ j.red = {} /\ j.reports = {} /\ j.delivered = FALSE
              /\ j.buffer = 0
<1> DEFINE j == [NoImport EXCEPT !.state = "dead", !.obj = i.obj, !.cleared = TRUE]
<1>1. /\ Undisturbed(s) /\ import' = [import EXCEPT ![s] = j]
      /\ importBuffers' = Recycled(free, i)
      /\ rcvQueue' = Append(StopImport(rcvQueue, s), Cr(s))
  BY DEF CancelByReceiver
<1>2. /\ j \in Imports /\ j.state = "dead" /\ j.red = {} /\ j.reports = {}
      /\ j.delivered = FALSE /\ j.buffer = 0
  <2>1. i.obj \in Nat
    BY DEF Imports
  <2> QED BY <2>1, DeadIs
<1> HIDE DEF j
<1>3. /\ import' \in [Session -> Imports] /\ import'[s] = j
      /\ \A t \in Session : t # s => import'[t] = import[t]
  BY <1>1, <1>2, OneImport
<1>4. /\ rcvQueue' \in Seq(Segments)
      /\ \A m \in ToSet(rcvQueue') :
           m \in ToSet(rcvQueue) \/ (m.type # "DS" /\ m.type # "RS")
  <2>1. /\ StopImport(rcvQueue, s) \in Seq(Segments)
        /\ \A m \in ToSet(StopImport(rcvQueue, s)) : m \in ToSet(rcvQueue)
    BY Stopped DEF ReceiverOK, ImportsOK
  <2>2. Cr(s) \in Segments /\ Cr(s).type = "CR"
    BY CancelIs
  <2> QED BY <1>1, <2>1, <2>2, Appended
<1>5. ClosedStaysClosed'
  BY <1>2, <1>3 DEF ReceiverOK, ImportsOK, ClosedStaysClosed
<1>6. importBuffers' \in Seq(Nat)
  <2>1. i.buffer \in Nat
    BY DEF Imports
  <2> QED BY <1>1, <2>1, RecycledTyped
<1>7. ImportsOK'
  BY <1>3, <1>4, <1>5, <1>6 DEF ReceiverOK, ImportsOK
<1> QED BY <1>1, <1>2, <1>4, <1>7

LEMMA RcvClockKeeps ==
  ASSUME ReceiverOK, MediumOK, RcvClock
  PROVE  ReceiverStep /\ UNCHANGED sender
<1>1. CASE ReportExpires
  <2> DEFINE Expires(s, r) ==
            /\ import[s].state = "live" /\ r.timer
            /\ \/ CancelByReceiver(s, import[s], importBuffers)
               \/ /\ import' = [import EXCEPT ![s].reports =
                       (@ \ {r}) \cup {[r EXCEPT !.tries = @ + 1, !.timer = FALSE]}]
                  /\ rcvQueue' = Append(rcvQueue,
                       Rs(s, r.serial, r.ckpt, r.lower, r.upper, r.claims))
                  /\ UNCHANGED importBuffers
            /\ UNCHANGED <<sender, net, dups, closedImports, importBufferCount, delivery, whole>>
  <2>0. PICK s \in Session : \E r \in import[s].reports : Expires(s, r)
    BY <1>1, Zenon DEF ReportExpires
  <2>01. PICK r \in import[s].reports : Expires(s, r)
    BY <2>0
  <2>1. Expires(s, r)
    BY <2>01
  <2>2. /\ import[s] \in Imports /\ import[s].reports \in SUBSET Reports /\ r \in Reports
        /\ s \notin closedImports /\ importBuffers \in Seq(Nat) /\ importBufferCount \in Nat
        /\ rcvQueue \in Seq(Segments)
    BY <2>1, ImportTyped DEF ReceiverOK, ImportsOK, ClosedStaysClosed
  <2>3. MediumOK' /\ UNCHANGED <<net, export, whole, received, deliv>>
    BY <2>1 DEF MediumOK, delivery, sender
  <2>4. CASE CancelByReceiver(s, import[s], importBuffers)
    <3>1. UNCHANGED closedImports /\ importBufferCount' \in Nat
      BY <2>1, <2>2
    <3>2. /\ ImportsOK' /\ Undisturbed(s)
          /\ importBuffers' = Recycled(importBuffers, import[s])
          /\ \A m \in ToSet(rcvQueue') : m.type = "RS" => m \in ToSet(rcvQueue)
      BY <2>2, <2>4, <3>1, CancelDoes
    <3>3. PICK j \in Imports :
            /\ import' = [import EXCEPT ![s] = j]
            /\ j.state = "dead" /\ j.red = {} /\ j.reports = {} /\ j.delivered = FALSE
            /\ j.buffer = 0
      BY <2>2, <2>4, <3>1, CancelDoes
    <3>4. ReceiverOK'
      BY <2>1, <3>2 DEF ReceiverOK, DeliveryOK, delivery
    <3>5. Settles
      <4>1. /\ \A m \in net' : m \in net \/ (m.type # "DS" /\ m \in ToSet(rcvQueue))
            /\ \A m \in ToSet(rcvQueue') : m.type = "RS" =>
                  \/ m \in ToSet(rcvQueue)
                  \/ m.session = s /\ \E q \in import[s].reports : m.claims = q.claims
            /\ \A x \in j.reports : \E q \in import[s].reports : x.claims = q.claims
            /\ j.state = "live" => import[s].state = "live" /\ j.red = import[s].red
            /\ closedImports \subseteq closedImports'
            /\ j.state = "none" => s \in closedImports' \/ import[s].state = "none"
            /\ j.delivered => import[s].delivered
        BY <2>1, <2>3, <3>2, <3>3
      <4>2. UNCHANGED <<export, whole, received>>
        BY <2>3
      <4>3. import' = [import EXCEPT ![s] = j]
        BY <3>3
      <4> QED BY <4>1, <4>2, <4>3, OneSettles
    <3>6. ASSUME ~Interrupted, HeldOK, BuffersOK PROVE HeldOK' /\ BuffersOK'
      <4>1. deliv.session # s
        <5>1. s # 0
          BY DEF Session
        <5> QED BY <3>2, <3>6, <5>1 DEF HeldOK, Undisturbed
      <4>2. HeldOK'
        BY <2>3, <3>3, <3>6, <4>1, HeldStays
      <4> QED BY <2>1, <3>2, <3>3, <3>6, <4>2, RecycleKeeps
    <3> QED BY <2>1, <2>3, <3>4, <3>5, <3>6 DEF ReceiverStep, KeepsBuffers
  <2>5. CASE /\ import' = [import EXCEPT ![s].reports =
                     (@ \ {r}) \cup {[r EXCEPT !.tries = @ + 1, !.timer = FALSE]}]
             /\ rcvQueue' = Append(rcvQueue,
                     Rs(s, r.serial, r.ckpt, r.lower, r.upper, r.claims))
             /\ UNCHANGED importBuffers
    <3> DEFINE n == r.tries + 1
               r2 == [r EXCEPT !.tries = n, !.timer = FALSE]
               R == (import[s].reports \ {r}) \cup {r2}
               i == [import[s] EXCEPT !.reports = R]
               m == Rs(s, r.serial, r.ckpt, r.lower, r.upper, r.claims)
    <3>1. import' = [import EXCEPT ![s] = i]
      BY <2>5
    <3>2. n \in Nat
      BY <2>2 DEF Reports
    <3> HIDE DEF n
    <3>3. r2 \in Reports /\ r2.claims = r.claims
      BY <2>2, <3>2, TimerChanges
    <3> HIDE DEF r2
    <3>4. R \in SUBSET Reports /\ \A x \in R : \E q \in import[s].reports : x.claims = q.claims
      BY <2>1, <2>2, <3>3
    <3> HIDE DEF R
    <3>5. /\ i \in Imports /\ i.state = import[s].state /\ i.obj = import[s].obj /\ i.red = import[s].red
          /\ i.delivered = import[s].delivered /\ i.buffer = import[s].buffer /\ i.reports = R
      BY <2>2, <3>4 DEF Imports
    <3> HIDE DEF i
    <3>6. m \in Segments /\ m.type = "RS" /\ m.session = s /\ m.claims = r.claims
      <4>1. /\ r.serial \in Serial /\ r.ckpt \in Nat /\ r.lower \in Nat /\ r.upper \in Nat
            /\ r.claims \in SUBSET Segment
        BY <2>2 DEF Reports
      <4> QED BY <4>1, RsIs
    <3> HIDE DEF m
    <3>7. rcvQueue' \in Seq(Segments) /\ ToSet(rcvQueue') = ToSet(rcvQueue) \cup {m}
      <4>1. rcvQueue' = Append(rcvQueue, m)
        BY <2>5 DEF m
      <4> QED BY <2>2, <3>6, <4>1, Appended
    <3>8. /\ UNCHANGED <<export, closedImports, buffers, delivery, whole>>
          /\ \A x \in net' : x \in net \/ (x.type # "DS" /\ x \in ToSet(rcvQueue))
      BY <2>1, <2>3, <2>5 DEF buffers
    <3>9. \A x \in ToSet(rcvQueue') :
            \/ x \in ToSet(rcvQueue)
            \/ x.type # "DS" /\ x.type # "RS"
            \/ x.type = "RS" /\ x.session = s /\ \E q \in import[s].reports : x.claims = q.claims
      BY <2>1, <3>6, <3>7
    <3>10. \A x \in i.reports : \E q \in import[s].reports : x.claims = q.claims
      BY <3>4, <3>5
    <3>11. ReceiverOK' /\ Settles /\ KeepsBuffers
      BY <3>1, <3>5, <3>7, <3>8, <3>9, <3>10, StaysSettled, ZenonT(30)
    <3> QED BY <2>1, <2>3, <3>11 DEF ReceiverStep
  <2> QED BY <2>1, <2>4, <2>5
<1>2. CASE RecvCancelExpires
  <2>1. PICK s \in Session :
          /\ import[s].state = "dead"
          /\ \/ CloseImport(s, rcvQueue)
             \/ /\ import' = [import EXCEPT ![s].tries = @ + 1, ![s].timer = FALSE]
                /\ rcvQueue' = Append(rcvQueue, Cr(s))
                /\ UNCHANGED closedImports
          /\ UNCHANGED <<sender, net, dups, buffers, delivery, whole>>
    BY <1>2, Zenon DEF RecvCancelExpires
  <2>2. /\ import[s] \in Imports /\ import[s].tries \in Nat /\ rcvQueue \in Seq(Segments)
        /\ importBuffers \in Seq(Nat) /\ importBufferCount \in Nat
    BY ImportTyped DEF ReceiverOK, ImportsOK
  <2>3. /\ MediumOK' /\ UNCHANGED <<net, export, whole, importBuffers, importBufferCount>>
        /\ (BuffersOK => import[s].buffer = 0)
    BY <2>1 DEF MediumOK, sender, buffers, BuffersOK
  <2>4. CASE CloseImport(s, rcvQueue)
    <3>1. /\ \A m \in ToSet(rcvQueue) : m \in ToSet(rcvQueue) \/ (m.type # "DS" /\ m.type # "RS")
          /\ \A m \in net' : m \in net
          /\ UNCHANGED <<importBufferCount, delivery, whole, export>>
          /\ Undisturbed(s) \/ import[s].state # "live"
          /\ \/ importBuffers' = Recycled(importBuffers, import[s])
             \/ importBuffers' = importBuffers /\ (BuffersOK => import[s].buffer = 0)
      BY <2>1, <2>3
    <3>2. ReceiverOK' /\ Settles /\ KeepsBuffers
      BY <2>2, <2>4, <3>1, CloseKeeps
    <3> QED BY <2>1, <2>3, <3>2 DEF ReceiverStep
  <2>5. CASE /\ import' = [import EXCEPT ![s].tries = @ + 1, ![s].timer = FALSE]
             /\ rcvQueue' = Append(rcvQueue, Cr(s))
             /\ UNCHANGED closedImports
    <3> DEFINE n == import[s].tries + 1
               i == [import[s] EXCEPT !.tries = n, !.timer = FALSE]
    <3>1. import' = [import EXCEPT ![s] = i]
      BY <2>2, <2>5 DEF ReceiverOK, ImportsOK
    <3>2. n \in Nat
      BY <2>2
    <3> HIDE DEF n
    <3>3. /\ i \in Imports /\ i.state = import[s].state /\ i.obj = import[s].obj /\ i.red = import[s].red
          /\ i.delivered = import[s].delivered /\ i.buffer = import[s].buffer
          /\ i.reports = import[s].reports
      BY <2>2, <3>2 DEF Imports
    <3> HIDE DEF i
    <3>4. rcvQueue' \in Seq(Segments) /\ ToSet(rcvQueue') = ToSet(rcvQueue) \cup {Cr(s)}
          /\ Cr(s).type = "CR"
      BY <2>2, <2>5, CancelIs, Appended
    <3>5. /\ UNCHANGED <<export, closedImports, buffers, delivery, whole>>
          /\ \A x \in net' : x \in net \/ (x.type # "DS" /\ x \in ToSet(rcvQueue))
      BY <2>1, <2>3, <2>5
    <3>6. \A x \in ToSet(rcvQueue') :
            \/ x \in ToSet(rcvQueue)
            \/ x.type # "DS" /\ x.type # "RS"
            \/ x.type = "RS" /\ x.session = s /\ \E q \in import[s].reports : x.claims = q.claims
      BY <3>4
    <3>7. \A x \in i.reports : \E q \in import[s].reports : x.claims = q.claims
      BY <3>3
    <3>8. ReceiverOK' /\ Settles /\ KeepsBuffers
      BY <3>1, <3>3, <3>4, <3>5, <3>6, <3>7, StaysSettled
    <3> QED BY <2>1, <2>3, <3>8 DEF ReceiverStep
  <2> QED BY <2>1, <2>4, <2>5
<1> QED BY <1>1, <1>2 DEF RcvClock

(* The import sessions are left alone.                                     *)
LEMMA ImportsAlone ==
  ASSUME ReceiverOK, UNCHANGED <<export, import, closedImports, rcvQueue, whole, received>>,
         \A m \in net' : m \in net
  PROVE  Settles
<1>1. \A s \in Session : \A i \in Segment : Shown(s, i)' => Shown(s, i)
  BY ShownStays
<1>2. 1 \in Session
  BY LtpAssumption DEF Session
<1> QED BY <1>1, <1>2 DEF Settles

LEMMA HandleRaKeeps ==
  ASSUME ReceiverOK, MediumOK, NEW m \in net, HandleRa(m)
  PROVE  ReceiverStep /\ UNCHANGED sender
<1> DEFINE s == m.session
           i == import[s]
           final == m.serial = i.finalRpt
           Acked(r) == IF r.serial = m.serial THEN [r EXCEPT !.timer = FALSE] ELSE r
           R == {Acked(r) : r \in i.reports}
<1>1. /\ m.type = "RA" /\ Receives(m)
      /\ \/ UNCHANGED <<import, closedImports, rcvQueue>>
         \/ i.delivered /\ Undisturbed(s) /\ CloseImport(s, rcvQueue)
         \/ /\ import' = [import EXCEPT ![s].reports = R, ![s].finalRptAcked = @ \/ final]
            /\ UNCHANGED <<closedImports, rcvQueue>>
      /\ UNCHANGED <<sender, buffers, delivery, whole>>
  BY Zenon DEF HandleRa
<1>2. /\ MediumOK' /\ m \in Segments /\ s \in Session /\ \A x \in net' : x \in net
  BY <1>1, Arrives, SegmentIs
<1>3. /\ i \in Imports /\ i.reports \in SUBSET Reports /\ rcvQueue \in Seq(Segments)
      /\ import \in [Session -> Imports]
  BY <1>2, ImportTyped DEF ReceiverOK, ImportsOK
<1>4. UNCHANGED <<export, importBuffers, importBufferCount, received, deliv>>
  BY <1>1 DEF sender, buffers, delivery
<1>5. CASE UNCHANGED <<import, closedImports, rcvQueue>>
  <2>1. Settles
    BY <1>1, <1>2, <1>4, <1>5, ImportsAlone
  <2>2. ReceiverOK'
    BY <1>1, <1>5 DEF ReceiverOK, ImportsOK, DeliveryOK, delivery, buffers, ClosedStaysClosed
  <2>3. ASSUME HeldOK, BuffersOK PROVE HeldOK' /\ BuffersOK'
    BY <1>1, <1>4, <1>5, <2>3 DEF HeldOK, BuffersOK, Owned
  <2> QED BY <1>1, <1>2, <2>1, <2>2, <2>3 DEF ReceiverStep, KeepsBuffers
<1>6. CASE i.delivered /\ Undisturbed(s) /\ CloseImport(s, rcvQueue)
  <2>1. /\ \A x \in ToSet(rcvQueue) : x \in ToSet(rcvQueue) \/ (x.type # "DS" /\ x.type # "RS")
        /\ UNCHANGED <<importBufferCount, delivery, whole, export>>
        /\ Undisturbed(s) \/ import[s].state # "live"
    BY <1>1, <1>4, <1>6
  <2>2. importBuffers' = importBuffers /\ (BuffersOK => import[s].buffer = 0)
    BY <1>2, <1>4, <1>6 DEF BuffersOK
  <2>3. CloseImport(s, rcvQueue)
    BY <1>6
  <2> HIDE DEF s, i
  <2>4. ReceiverOK' /\ Settles /\ KeepsBuffers
    BY <1>2, <1>3, <2>1, <2>2, <2>3, CloseKeeps
  <2> QED BY <1>1, <1>2, <2>4 DEF ReceiverStep
<1>7. CASE /\ import' = [import EXCEPT ![s].reports = R, ![s].finalRptAcked = @ \/ final]
           /\ UNCHANGED <<closedImports, rcvQueue>>
  <2> DEFINE b == i.finalRptAcked \/ final
             j == [i EXCEPT !.reports = R, !.finalRptAcked = b]
  <2>1. import' = [import EXCEPT ![s] = j]
    BY <1>7
  <2>2. b \in BOOLEAN
    OBVIOUS
  <2> HIDE DEF b
  <2>3. R \in SUBSET Reports /\ \A r \in R : \E q \in i.reports : r.claims = q.claims
    <3> SUFFICES ASSUME NEW r \in i.reports
                 PROVE  Acked(r) \in Reports /\ Acked(r).claims = r.claims
      OBVIOUS
    <3>1. r \in Reports
      BY <1>3
    <3> QED BY <3>1 DEF Reports
  <2> HIDE DEF R
  <2>4. /\ j \in Imports /\ j.state = i.state /\ j.obj = i.obj /\ j.red = i.red
        /\ j.delivered = i.delivered /\ j.buffer = i.buffer /\ j.reports = R
    BY <1>3, <2>2, <2>3 DEF Imports
  <2> HIDE DEF j
  <2>5. \A r \in j.reports : \E q \in import[s].reports : r.claims = q.claims
    BY <2>3, <2>4
  <2>6. /\ UNCHANGED <<export, closedImports, buffers, delivery, whole>>
        /\ \A x \in net' : x \in net \/ (x.type # "DS" /\ x \in ToSet(rcvQueue))
        /\ rcvQueue' \in Seq(Segments)
        /\ \A x \in ToSet(rcvQueue') : x \in ToSet(rcvQueue)
    BY <1>1, <1>2, <1>3, <1>4, <1>7
  <2>7. /\ j \in Imports /\ j.state = import[s].state /\ j.obj = import[s].obj /\ j.red = import[s].red
        /\ (j.delivered <=> import[s].delivered) /\ j.buffer = import[s].buffer
    BY <2>4
  <2> HIDE DEF s, i
  <2>8. ReceiverOK' /\ Settles /\ KeepsBuffers
    BY <1>2, <2>1, <2>5, <2>6, <2>7, StaysSettled
  <2> QED BY <1>1, <1>2, <2>8 DEF ReceiverStep
<1> HIDE DEF i, final, R
<1> QED BY <1>1, <1>5, <1>6, <1>7

LEMMA HandleCsKeeps ==
  ASSUME ReceiverOK, MediumOK, NEW m \in net, HandleCs(m)
  PROVE  ReceiverStep /\ UNCHANGED sender
<1> DEFINE s == m.session
           queue == EnqueueAck(rcvQueue, Cas(s))
<1>1. /\ Receives(m)
      /\ \/ rcvQueue' = queue /\ UNCHANGED <<import, closedImports, importBuffers>>
         \/ /\ Undisturbed(s) /\ CloseImport(s, queue)
            /\ importBuffers' = Recycled(importBuffers, import[s])
      /\ UNCHANGED <<sender, importBufferCount, delivery, whole>>
  BY DEF HandleCs
<1>2. /\ MediumOK' /\ m \in Segments /\ s \in Session /\ \A x \in net' : x \in net
  BY <1>1, Arrives, SegmentIs
<1>3. /\ queue \in Seq(Segments)
      /\ \A x \in ToSet(queue) : x \in ToSet(rcvQueue) \/ (x.type # "DS" /\ x.type # "RS")
  <2>1. Cas(s) \in Segments /\ Cas(s).type = "CAS" /\ rcvQueue \in Seq(Segments)
    BY <1>2, CancelIs DEF ReceiverOK, ImportsOK
  <2>2. queue \in Seq(Segments) /\ ToSet(queue) \subseteq ToSet(rcvQueue) \cup {Cas(s)}
    BY <2>1, Enqueued
  <2> QED BY <2>1, <2>2
<1> HIDE DEF queue
<1>4. UNCHANGED <<export, received, deliv>> /\ import[s] \in Imports /\ import \in [Session -> Imports]
  BY <1>1, <1>2, ImportTyped DEF sender, delivery, ReceiverOK, ImportsOK
<1>5. CASE rcvQueue' = queue /\ UNCHANGED <<import, closedImports, importBuffers>>
  <2> DEFINE i == import[s]
  <2>1. import' = [import EXCEPT ![s] = i] /\ i \in Imports
    BY <1>4, <1>5
  <2>2. /\ \A r \in i.reports : \E q \in import[s].reports : r.claims = q.claims
        /\ i.state = import[s].state /\ i.obj = import[s].obj /\ i.red = import[s].red
        /\ (i.delivered <=> import[s].delivered) /\ i.buffer = import[s].buffer
    OBVIOUS
  <2>3. /\ UNCHANGED <<export, closedImports, buffers, delivery, whole>>
        /\ \A x \in net' : x \in net \/ (x.type # "DS" /\ x \in ToSet(rcvQueue))
    BY <1>1, <1>2, <1>4, <1>5 DEF buffers
  <2>4. /\ rcvQueue' \in Seq(Segments)
        /\ \A x \in ToSet(rcvQueue') : x \in ToSet(rcvQueue) \/ (x.type # "DS" /\ x.type # "RS")
    BY <1>3, <1>5
  <2> HIDE DEF s, i
  <2>5. ReceiverOK' /\ Settles /\ KeepsBuffers
    BY <1>2, <2>1, <2>2, <2>3, <2>4, StaysSettled
  <2> QED BY <1>1, <1>2, <2>5 DEF ReceiverStep
<1>6. CASE /\ Undisturbed(s) /\ CloseImport(s, queue)
           /\ importBuffers' = Recycled(importBuffers, import[s])
  <2>1. /\ UNCHANGED <<importBufferCount, delivery, whole, export>>
        /\ Undisturbed(s) \/ import[s].state # "live"
    BY <1>1, <1>4, <1>6
  <2>2. CloseImport(s, queue) /\ importBuffers' = Recycled(importBuffers, import[s])
    BY <1>6
  <2> HIDE DEF s
  <2>3. ReceiverOK' /\ Settles /\ KeepsBuffers
    BY <1>2, <1>3, <2>1, <2>2, CloseKeeps
  <2> QED BY <1>1, <1>2, <2>3 DEF ReceiverStep
<1> QED BY <1>1, <1>5, <1>6

LEMMA HandleCarKeeps ==
  ASSUME ReceiverOK, MediumOK, NEW m \in net, HandleCar(m)
  PROVE  ReceiverStep /\ UNCHANGED sender
<1> DEFINE s == m.session
<1>1. /\ Receives(m)
      /\ \/ import[s].state = "dead" /\ CloseImport(s, rcvQueue)
         \/ UNCHANGED <<import, closedImports, rcvQueue>>
      /\ UNCHANGED <<sender, buffers, delivery, whole>>
  BY DEF HandleCar
<1>2. /\ MediumOK' /\ m \in Segments /\ s \in Session /\ \A x \in net' : x \in net
  BY <1>1, Arrives, SegmentIs
<1>3. UNCHANGED <<export, importBuffers, importBufferCount, received, deliv>> /\ rcvQueue \in Seq(Segments)
  BY <1>1 DEF sender, buffers, delivery, ReceiverOK, ImportsOK
<1>4. CASE UNCHANGED <<import, closedImports, rcvQueue>>
  <2>1. Settles
    BY <1>1, <1>2, <1>3, <1>4, ImportsAlone
  <2>2. ReceiverOK'
    BY <1>1, <1>4 DEF ReceiverOK, ImportsOK, DeliveryOK, delivery, buffers, ClosedStaysClosed
  <2>3. ASSUME HeldOK, BuffersOK PROVE HeldOK' /\ BuffersOK'
    BY <1>1, <1>3, <1>4, <2>3 DEF HeldOK, BuffersOK, Owned
  <2> QED BY <1>1, <1>2, <2>1, <2>2, <2>3 DEF ReceiverStep, KeepsBuffers
<1>5. CASE import[s].state = "dead" /\ CloseImport(s, rcvQueue)
  <2>1. /\ UNCHANGED <<importBufferCount, delivery, whole, export>>
        /\ import[s].state # "live"
        /\ \A x \in ToSet(rcvQueue) : x \in ToSet(rcvQueue) \/ (x.type # "DS" /\ x.type # "RS")
    BY <1>1, <1>3, <1>5
  <2>2. importBuffers' = importBuffers /\ (BuffersOK => import[s].buffer = 0)
    BY <1>2, <1>3, <1>5 DEF BuffersOK
  <2>3. CloseImport(s, rcvQueue)
    BY <1>5
  <2> HIDE DEF s
  <2>4. ReceiverOK' /\ Settles /\ KeepsBuffers
    BY <1>2, <1>3, <2>1, <2>2, <2>3, CloseKeeps
  <2> QED BY <1>1, <1>2, <2>4 DEF ReceiverStep
<1> QED BY <1>1, <1>4, <1>5

LEMMA ForgetKeeps ==
  ASSUME ReceiverOK, MediumOK, ForgetImport
  PROVE  ReceiverStep /\ UNCHANGED sender
<1>1. PICK s \in closedImports :
        /\ Over(s) /\ \A m \in net : m.type = "DS" => m.session # s
        /\ closedImports' = closedImports \ {s}
        /\ UNCHANGED <<sender, net, dups, import, buffers, delivery, rcvQueue, whole>>
  BY DEF ForgetImport, Over
<1>2. UNCHANGED <<export, importBuffers, importBufferCount, received, deliv>> /\ s \in Session
  BY <1>1 DEF sender, buffers, delivery, ReceiverOK, ImportsOK
<1>3. Settles
  <2>1. \A t \in Session : \A i \in Segment : Shown(t, i)' => Shown(t, i)
    BY <1>1, <1>2, ShownStays
  <2>2. \A t \in Session : t \notin closedImports' => t \notin closedImports \/ t = s
    BY <1>1
  <2> QED BY <1>1, <1>2, <2>1, <2>2 DEF Settles
<1>4. ReceiverOK' /\ MediumOK'
  BY <1>1 DEF ReceiverOK, ImportsOK, DeliveryOK, delivery, buffers, ClosedStaysClosed, MediumOK
<1>5. ASSUME HeldOK, BuffersOK PROVE HeldOK' /\ BuffersOK'
  BY <1>1, <1>2, <1>5 DEF HeldOK, BuffersOK, Owned
<1> QED BY <1>1, <1>3, <1>4, <1>5 DEF ReceiverStep, KeepsBuffers

(* A block is delivered.                                                   *)
LEMMA DeliveredSettles ==
  ASSUME ReceiverOK, NEW s \in Session, NEW i \in Imports, import' = [import EXCEPT ![s] = i],
         received' = [received EXCEPT ![s] = @ + 1], s \in whole,
         HeldOK => import[s].state = "live",
         UNCHANGED <<export, whole, net>>,
         \A m \in ToSet(rcvQueue') : m.type = "RS" => m \in ToSet(rcvQueue),
         \A r \in i.reports : \E q \in import[s].reports : r.claims = q.claims,
         i.state = "live" => import[s].state = "live" /\ i.red = import[s].red,
         closedImports \subseteq closedImports',
         i.state = "none" => s \in closedImports' \/ import[s].state = "none"
  PROVE  Settles /\ received' \in [Session -> Nat]
<1>1. import'[s] = i /\ \A t \in Session : t # s => import'[t] = import[t]
  BY OneImport
<1>2. /\ received' \in [Session -> Nat] /\ received'[s] > 0
      /\ \A t \in Session : t # s => received'[t] = received[t]
  BY DEF ReceiverOK, DeliveryOK
<1>3. \A t \in Session : \A x \in Segment : Shown(t, x)' => Shown(t, x)
  <2>1. \A t \in Session : \A r \in import'[t].reports : \E q \in import[t].reports : r.claims = q.claims
    BY <1>1
  <2>2. \A m \in net' \cup ToSet(rcvQueue') : m.type = "RS" =>
           \/ m \in net \cup ToSet(rcvQueue)
           \/ m.session \in Session /\ \E q \in import[m.session].reports : m.claims = q.claims
    OBVIOUS
  <2> QED BY <2>1, <2>2, ShownStays
<1>4. \A t \in Session :
       /\ import'[t].state = "live" => import[t].state = "live" /\ import'[t].red = import[t].red
       /\ import'[t].state = "none" /\ t \notin closedImports' =>
            import[t].state = "none" /\ t \notin closedImports
       /\ import'[t].delivered => import[t].delivered \/ received'[t] > 0
       /\ received[t] > 0 => received'[t] > 0
       /\ received'[t] > 0 => received[t] > 0 \/ t \in whole
  BY <1>1, <1>2
<1>5. /\ \A t \in Session : t # s => import'[t].state = import[t].state /\ received'[t] = received[t]
      /\ HeldOK /\ received'[s] # received[s] => import[s].state = "live"
  BY <1>1, <1>2
<1> QED BY <1>2, <1>3, <1>4, <1>5 DEF Settles

LEMMA FoundIs ==
  ASSUME ReceiverOK, deliv.session # 0
  PROVE  /\ deliv.session \in Session /\ deliv.session \in whole
         /\ Tail(deliverables) \in Seq(Session) /\ ToSet(Tail(deliverables)) \subseteq whole
<1>1. /\ deliverables \in Seq(Session) /\ deliverables # <<>> /\ Head(deliverables) = deliv.session
      /\ ToSet(deliverables) \subseteq whole /\ deliv.session \in Session
  BY DEF ReceiverOK, DeliveryOK
<1> QED BY <1>1, Dequeued

LEMMA NothingHeld ==
  ASSUME deliv' = NoDeliverable
  PROVE  /\ HeldOK' /\ deliv'.session = 0
         /\ deliv' \in [session : Session \cup {0}, obj : Nat, buffer : Nat]
BY DEF NoDeliverable, HeldOK

LEMMA DelivFindsKeeps ==
  ASSUME ReceiverOK, MediumOK, DelivFinds
  PROVE  ReceiverStep /\ UNCHANGED sender
<1> DEFINE s == Head(deliverables)
<1>1. /\ deliv = NoDeliverable /\ deliverables # <<>>
      /\ \/ deliverables' = Tail(deliverables) /\ UNCHANGED deliv
         \/ /\ import[s].state = "live" /\ UNCHANGED deliverables
            /\ deliv' = [session |-> s, obj |-> import[s].obj, buffer |-> import[s].buffer]
      /\ UNCHANGED <<sender, net, dups, import, closedImports, buffers, received, rcvQueue, whole>>
  BY Zenon DEF DelivFinds
<1>2. UNCHANGED <<export, importBuffers, importBufferCount>> /\ MediumOK'
  BY <1>1 DEF sender, buffers, MediumOK
<1>3. /\ s \in Session /\ Tail(deliverables) \in Seq(Session)
      /\ ToSet(Tail(deliverables)) \subseteq ToSet(deliverables)
      /\ import[s].obj \in Nat /\ import[s].buffer \in Nat
  <2>1. /\ s \in Session /\ Tail(deliverables) \in Seq(Session)
        /\ ToSet(Tail(deliverables)) \subseteq ToSet(deliverables)
    BY <1>1, Dequeued, InQueue DEF ReceiverOK, DeliveryOK
  <2> HIDE DEF s
  <2> QED BY <2>1, ImportTyped
<1>4. Settles
  <2>1. /\ UNCHANGED <<export, import, closedImports, rcvQueue, whole, received>>
        /\ \A m \in net' : m \in net
    BY <1>1, <1>2
  <2> QED BY <2>1, ImportsAlone
<1>5. ImportsOK' /\ received' \in [Session -> Nat] /\ whole' \in SUBSET Session
  BY <1>1, <1>2 DEF ReceiverOK, ImportsOK, DeliveryOK, ClosedStaysClosed
<1>6. BuffersOK => BuffersOK'
  BY <1>1, <1>2 DEF BuffersOK, Owned
<1>7. CASE deliverables' = Tail(deliverables) /\ UNCHANGED deliv
  <2>1. HeldOK' /\ DeliveryOK'
    BY <1>1, <1>3, <1>5, <1>7, NothingHeld DEF ReceiverOK, DeliveryOK
  <2> QED BY <1>1, <1>2, <1>4, <1>5, <1>6, <2>1 DEF ReceiverStep, ReceiverOK, KeepsBuffers
<1>8. CASE /\ import[s].state = "live" /\ UNCHANGED deliverables
           /\ deliv' = [session |-> s, obj |-> import[s].obj, buffer |-> import[s].buffer]
  <2>1. /\ deliv' \in [session : Session \cup {0}, obj : Nat, buffer : Nat]
        /\ deliv'.session = s /\ deliv'.obj = import[s].obj
    BY <1>3, <1>8
  <2>2. HeldOK'
    BY <1>1, <1>8, <2>1 DEF HeldOK
  <2>3. DeliveryOK'
    BY <1>1, <1>5, <1>8, <2>1 DEF ReceiverOK, DeliveryOK
  <2> QED BY <1>1, <1>2, <1>4, <1>5, <1>6, <2>2, <2>3 DEF ReceiverStep, ReceiverOK, KeepsBuffers
<1> HIDE DEF s
<1> QED BY <1>1, <1>7, <1>8

LEMMA DelivDeliversKeeps ==
  ASSUME ReceiverOK, MediumOK, DelivDelivers
  PROVE  ReceiverStep /\ UNCHANGED sender
<1> DEFINE s == deliv.session
           i == [import[s] EXCEPT !.cleared = TRUE, !.delivered = TRUE, !.buffer = 0]
<1>1. /\ s # 0 /\ import[s].state = "live"
      /\ importBuffers' = Recycled(importBuffers, import[s])
      /\ \/ CloseImport(s, rcvQueue)
         \/ import' = [import EXCEPT ![s] = i] /\ UNCHANGED <<closedImports, rcvQueue>>
      /\ received' = [received EXCEPT ![s] = @ + 1]
      /\ deliverables' = Tail(deliverables) /\ deliv' = NoDeliverable
      /\ UNCHANGED <<sender, net, dups, importBufferCount, whole>>
  BY DEF DelivDelivers
<1>2. /\ s \in Session /\ s \in whole
      /\ Tail(deliverables) \in Seq(Session) /\ ToSet(Tail(deliverables)) \subseteq whole
  BY <1>1, FoundIs
<1>3. UNCHANGED export /\ MediumOK'
  BY <1>1 DEF sender, MediumOK
<1>4. /\ import[s] \in Imports /\ importBuffers \in Seq(Nat) /\ import[s].buffer \in Nat
      /\ importBuffers' \in Seq(Nat) /\ rcvQueue \in Seq(Segments)
  <2>1. /\ import[s] \in Imports /\ importBuffers \in Seq(Nat) /\ import[s].buffer \in Nat
        /\ rcvQueue \in Seq(Segments)
    BY <1>2, ImportTyped DEF ReceiverOK, ImportsOK
  <2> HIDE DEF s
  <2> QED BY <1>1, <2>1, RecycledTyped
<1> DEFINE Becomes(j) ==
             /\ j \in Imports /\ import' = [import EXCEPT ![s] = j] /\ j.buffer = 0
             /\ \A r \in j.reports : \E q \in import[s].reports : r.claims = q.claims
             /\ j.state = "live" => j.red = import[s].red
             /\ j.state = "none" => s \in closedImports'
<1>5. /\ ImportsOK' /\ closedImports \subseteq closedImports'
      /\ \A m \in ToSet(rcvQueue') : m.type = "RS" => m \in ToSet(rcvQueue)
      /\ \E j : Becomes(j)
  <2>1. CASE CloseImport(s, rcvQueue)
    <3> HIDE DEF s
    <3>1. /\ UNCHANGED importBufferCount
          /\ \A m \in ToSet(rcvQueue) : m \in ToSet(rcvQueue) \/ (m.type # "DS" /\ m.type # "RS")
      BY <1>1
    <3>2. /\ ImportsOK' /\ closedImports' = closedImports \cup {s}
          /\ \A m \in ToSet(rcvQueue') : m.type = "RS" => m \in ToSet(rcvQueue)
          /\ \E j \in Imports :
               /\ import' = [import EXCEPT ![s] = j]
               /\ j.state = "none" /\ j.red = {} /\ j.reports = {} /\ j.delivered = FALSE
               /\ j.buffer = 0
      BY <1>2, <1>4, <2>1, <3>1, CloseDoes
    <3>3. PICK j \in Imports :
               /\ import' = [import EXCEPT ![s] = j]
               /\ j.state = "none" /\ j.red = {} /\ j.reports = {} /\ j.delivered = FALSE
               /\ j.buffer = 0
      BY <3>2
    <3>4. Becomes(j)
      BY <3>2, <3>3
    <3> QED BY <3>2, <3>4
  <2>2. CASE import' = [import EXCEPT ![s] = i] /\ UNCHANGED <<closedImports, rcvQueue>>
    <3>1. /\ i \in Imports /\ i.buffer = 0 /\ i.reports = import[s].reports /\ i.red = import[s].red
          /\ i.state = "live"
      BY <1>1, <1>4 DEF Imports
    <3> HIDE DEF i, s
    <3>2. Becomes(i)
      BY <2>2, <3>1
    <3>3. import' \in [Session -> Imports] /\ ClosedStaysClosed'
      BY <1>1, <1>2, <2>2, <3>1, OneImport DEF ReceiverOK, ImportsOK, ClosedStaysClosed
    <3>4. ImportsOK'
      BY <1>1, <1>4, <2>2, <3>3 DEF ReceiverOK, ImportsOK
    <3> QED BY <2>2, <3>2, <3>4
  <2> HIDE DEF i
  <2> QED BY <1>1, <2>1, <2>2
<1>6. PICK j : Becomes(j)
  BY <1>5
<1> HIDE DEF s, i
<1>7. Settles /\ received' \in [Session -> Nat]
  <2>1. /\ UNCHANGED <<export, whole, net>> /\ received' = [received EXCEPT ![s] = @ + 1]
        /\ HeldOK => import[s].state = "live"
        /\ j.state = "live" => import[s].state = "live" /\ j.red = import[s].red
        /\ j.state = "none" => s \in closedImports' \/ import[s].state = "none"
        /\ j \in Imports /\ import' = [import EXCEPT ![s] = j]
        /\ \A r \in j.reports : \E q \in import[s].reports : r.claims = q.claims
    BY <1>1, <1>3, <1>6
  <2> QED BY <1>2, <1>5, <2>1, DeliveredSettles
<1>8. HeldOK' /\ DeliveryOK'
  BY <1>1, <1>2, <1>7, NothingHeld DEF ReceiverOK, DeliveryOK
<1>9. BuffersOK => BuffersOK'
  BY <1>1, <1>2, <1>6, RecycleKeeps
<1> QED BY <1>1, <1>3, <1>5, <1>7, <1>8, <1>9 DEF ReceiverStep, ReceiverOK, KeepsBuffers

LEMMA DelivStaleKeeps ==
  ASSUME ReceiverOK, MediumOK, DelivDeliversStale
  PROVE  ReceiverStep /\ UNCHANGED sender
<1> DEFINE s == deliv.session
<1>1. /\ s # 0 /\ ~(import[s].state = "live" /\ import[s].obj = deliv.obj)
      /\ importBuffers' \in {importBuffers, Recycled(importBuffers, deliv)}
      /\ received' = [received EXCEPT ![s] = @ + 1]
      /\ deliverables' = Tail(deliverables) /\ deliv' = NoDeliverable
      /\ UNCHANGED <<sender, net, dups, import, closedImports, importBufferCount, rcvQueue, whole>>
  BY DEF DelivDeliversStale
<1>2. /\ s \in Session /\ s \in whole
      /\ Tail(deliverables) \in Seq(Session) /\ ToSet(Tail(deliverables)) \subseteq whole
  BY <1>1, FoundIs
<1>3. UNCHANGED export /\ MediumOK' /\ ~HeldOK
  BY <1>1 DEF sender, MediumOK, HeldOK
<1>4. /\ importBuffers' \in Seq(Nat) /\ import[s] \in Imports /\ import \in [Session -> Imports]
  <2>1. importBuffers \in Seq(Nat) /\ deliv.buffer \in Nat
    BY DEF ReceiverOK, ImportsOK, DeliveryOK
  <2>2. Recycled(importBuffers, deliv) \in Seq(Nat)
    BY <2>1, RecycledTyped
  <2> QED BY <1>1, <1>2, <2>1, <2>2, ImportTyped DEF ReceiverOK, ImportsOK
<1>5. Settles /\ received' \in [Session -> Nat]
  <2> DEFINE j == import[s]
  <2>1. /\ j \in Imports /\ import' = [import EXCEPT ![s] = j]
        /\ \A r \in j.reports : \E q \in import[s].reports : r.claims = q.claims
        /\ j.state = "live" => import[s].state = "live" /\ j.red = import[s].red
        /\ j.state = "none" => s \in closedImports' \/ import[s].state = "none"
    BY <1>1, <1>4
  <2>2. /\ UNCHANGED <<export, whole, net>> /\ received' = [received EXCEPT ![s] = @ + 1]
        /\ HeldOK => import[s].state = "live"
        /\ closedImports \subseteq closedImports'
        /\ \A m \in ToSet(rcvQueue') : m.type = "RS" => m \in ToSet(rcvQueue)
    BY <1>1, <1>3
  <2> HIDE DEF j, s
  <2> QED BY <1>2, <2>1, <2>2, DeliveredSettles
<1>6. ImportsOK'
  BY <1>1, <1>4 DEF ReceiverOK, ImportsOK, ClosedStaysClosed
<1>7. DeliveryOK'
  BY <1>1, <1>2, <1>5, NothingHeld DEF ReceiverOK, DeliveryOK
<1> QED BY <1>1, <1>3, <1>5, <1>6, <1>7 DEF ReceiverStep, ReceiverOK, KeepsBuffers

(* The step that accepts data of session s, of which it has R then.        *)
Has(s) == IF import[s].state = "live" THEN import[s].red ELSE {}
AcceptsData(s, R) ==
  /\ import[s].state \in {"none", "live"} /\ s \notin closedImports
  /\ \E m \in net : m.type = "DS" /\ m.session = s
  /\ R \in SUBSET Segment /\ Has(s) \subseteq R
  /\ import'[s].state \in {"live", "dead"}
  /\ import'[s].state = "live" => import'[s].red = R
  /\ import'[s].state = "dead" => R # Segment
  /\ import'[s].delivered => import[s].delivered
  /\ whole' = IF R = Segment THEN whole \cup {s} ELSE whole
  /\ \A t \in Session : \A i \in Segment : Shown(t, i)' => Shown(t, i) \/ (t = s /\ i \in R)
  /\ \A t \in Session : t # s => import'[t] = import[t]
  /\ UNCHANGED <<sender, closedImports, deliv, received>>
  /\ \A m \in net' : m \in net

(* What becomes of a session i that has accepted data, free being the      *)
(* buffers left.                                                           *)
Takes(s, i, free) ==
  /\ ImportsOK'
  /\ \E j \in Imports :
       /\ import' = [import EXCEPT ![s] = j]
       /\ \/ /\ j.state = "live" /\ j.obj = i.obj /\ j.red = i.red
             /\ (j.delivered <=> i.delivered) /\ j.buffer = i.buffer
             /\ importBuffers' = free
             /\ \A r \in j.reports : r \in i.reports \/ r.claims \subseteq i.red
          \/ /\ j.state = "dead" /\ i.red # Segment /\ j.reports = {}
             /\ j.delivered = FALSE /\ j.buffer = 0
             /\ importBuffers' = Recycled(free, i) /\ Undisturbed(s)
  /\ \A x \in ToSet(rcvQueue') : x.type = "RS" =>
       x \in ToSet(rcvQueue) \/ (x.session = s /\ x.claims \subseteq i.red)

LEMMA StaysOpen ==
  ASSUME ReceiverOK, NEW s \in Session, NEW j \in Imports, NEW free \in Seq(Nat),
         import' = [import EXCEPT ![s] = j], importBuffers' = free,
         s \notin closedImports, UNCHANGED closedImports, importBufferCount' \in Nat,
         rcvQueue' \in Seq(Segments), \A x \in ToSet(rcvQueue') : x.type # "DS"
  PROVE  ImportsOK'
<1>1. /\ import' \in [Session -> Imports]
      /\ \A t \in Session : t # s => import'[t] = import[t]
  BY OneImport
<1>2. ClosedStaysClosed'
  BY <1>1 DEF ReceiverOK, ImportsOK, ClosedStaysClosed
<1> QED BY <1>1, <1>2 DEF ReceiverOK, ImportsOK

LEMMA SendReportTakes ==
  ASSUME ReceiverOK, NEW s \in Session, NEW i \in Imports, NEW m \in Segments, m.type = "DS",
         NEW upper \in Nat, NEW free \in Seq(Nat), i.state = "live",
         SendReport(s, i, m, upper, free),
         s \notin closedImports, UNCHANGED closedImports, importBufferCount' \in Nat
  PROVE  Takes(s, i, free)
<1> DEFINE n == i.next + 1
           cited == {r \in i.reports : r.serial = m.rpt}
           lower == IF cited = {} THEN 0 ELSE (CHOOSE r \in cited : TRUE).lower
           complete == i.red = Segment
           claims == IF complete THEN Segment ELSE {k \in i.red : lower < k /\ k <= upper}
           rs == IF complete THEN Rs(s, <<i.obj, n>>, m.ckpt, 0, RedPart, claims)
                 ELSE Rs(s, <<i.obj, n>>, m.ckpt, lower, upper, claims)
           report == [serial |-> rs.serial, ckpt |-> rs.ckpt, lower |-> rs.lower,
                      upper |-> rs.upper, claims |-> claims, tries |-> 0, timer |-> FALSE]
           counted == [i EXCEPT !.next = n, !.reportsCount = @ + 1]
           final == IF complete THEN rs.serial ELSE NoReport
           R == counted.reports \cup {report}
           j == [counted EXCEPT !.reports = R, !.finalRpt = final]
<1>1. \/ /\ import' = [import EXCEPT ![s] = i] /\ importBuffers' = free /\ UNCHANGED rcvQueue
      \/ ~complete /\ CancelByReceiver(s, i, free)
      \/ /\ import' = [import EXCEPT ![s] = IF claims = {} THEN counted ELSE j]
         /\ importBuffers' = free
         /\ rcvQueue' = IF claims = {} THEN rcvQueue ELSE EnqueueAck(rcvQueue, rs)
  BY Zenon DEF SendReport
<1>2. /\ i.next \in Nat /\ i.reportsCount \in Nat /\ i.obj \in Nat /\ i.reports \in SUBSET Reports
      /\ i.red \in SUBSET Segment /\ i.buffer \in Nat
  BY DEF Imports
<1>3. /\ rcvQueue \in Seq(Segments) /\ \A x \in ToSet(rcvQueue) : x.type # "DS"
  BY DEF ReceiverOK, ImportsOK
<1>4. CASE import' = [import EXCEPT ![s] = i] /\ importBuffers' = free /\ UNCHANGED rcvQueue
  <2>1. ImportsOK'
    BY <1>3, <1>4, StaysOpen
  <2> QED BY <1>4, <2>1 DEF Takes
<1>5. CASE ~complete /\ CancelByReceiver(s, i, free)
  <2>1. /\ ImportsOK' /\ Undisturbed(s)
        /\ importBuffers' = Recycled(free, i)
        /\ \A x \in ToSet(rcvQueue') : x.type = "RS" => x \in ToSet(rcvQueue)
        /\ \E k \in Imports :
             /\ import' = [import EXCEPT ![s] = k]
             /\ k.state = "dead" /\ k.red = {} /\ k.reports = {} /\ k.delivered = FALSE
             /\ k.buffer = 0
    BY <1>5, CancelDoes
  <2>2. PICK k \in Imports :
             /\ import' = [import EXCEPT ![s] = k]
             /\ k.state = "dead" /\ k.red = {} /\ k.reports = {} /\ k.delivered = FALSE
             /\ k.buffer = 0
    BY <2>1
  <2> QED BY <1>5, <2>1, <2>2 DEF Takes
<1>6. CASE /\ import' = [import EXCEPT ![s] = j] /\ importBuffers' = free
           /\ rcvQueue' = EnqueueAck(rcvQueue, rs)
  <2>1. n \in Nat /\ m.ckpt \in Nat
    BY <1>2, SegmentIs
  <2> HIDE DEF n
  <2>2. lower \in Nat
    <3>1. CASE cited = {}
      BY <3>1
    <3>2. CASE cited # {}
      <4>1. (CHOOSE r \in cited : TRUE) \in cited
        BY <3>2
      <4> DEFINE c == CHOOSE r \in cited : TRUE
      <4>2. c \in Reports
        BY <1>2, <4>1
      <4>3. lower = c.lower
        BY <3>2
      <4> HIDE DEF c, lower
      <4> QED BY <4>2, <4>3 DEF Reports
    <3> QED BY <3>1, <3>2
  <2> HIDE DEF lower
  <2>3. claims \in SUBSET Segment /\ claims \subseteq i.red
    BY <1>2
  <2> HIDE DEF claims
  <2>4. <<i.obj, n>> \in Serial
    BY <1>2, <2>1 DEF Serial
  <2> DEFINE serial == <<i.obj, n>>
  <2>5. RedPart \in Nat
    BY LtpAssumption
  <2>6. /\ rs \in Segments /\ rs.type = "RS" /\ rs.session = s /\ rs.claims = claims
        /\ rs.serial \in Serial /\ rs.ckpt \in Nat /\ rs.lower \in Nat /\ rs.upper \in Nat
    <3>1. serial \in Serial /\ rs = IF complete THEN Rs(s, serial, m.ckpt, 0, RedPart, claims)
                 ELSE Rs(s, serial, m.ckpt, lower, upper, claims)
      BY <2>4
    <3> HIDE DEF serial, complete
    <3>2. rs \in Segments /\ rs.type = "RS" /\ rs.session = s /\ rs.claims = claims
      <4> HIDE DEF rs
      <4> QED BY <2>1, <2>2, <2>3, <2>5, <3>1, RsIs
    <3> HIDE DEF rs
    <3> QED BY <3>2, SegmentIs
  <2> HIDE DEF rs
  <2>7. report \in Reports /\ report.claims = claims
    BY <2>3, <2>6 DEF Reports
  <2> HIDE DEF report
  <2> DEFINE k == i.reportsCount + 1
             c == [i EXCEPT !.next = n, !.reportsCount = k]
  <2>8. counted = c /\ k \in Nat
    BY <1>2
  <2> HIDE DEF k, counted
  <2>9. /\ c \in Imports /\ c.state = i.state /\ c.obj = i.obj /\ c.red = i.red
         /\ c.delivered = i.delivered /\ c.buffer = i.buffer
         /\ c.reports = i.reports
    BY <2>1, <2>8 DEF Imports
  <2> HIDE DEF c
  <2>10. R \in SUBSET Reports /\ \A r \in R : r \in i.reports \/ r.claims \subseteq i.red
    BY <1>2, <2>3, <2>7, <2>8, <2>9
  <2> HIDE DEF R
  <2>11. final \in Serial
    BY <2>6, NoReportIs
  <2> HIDE DEF final
  <2>12. /\ j \in Imports /\ j.state = i.state /\ j.obj = i.obj /\ j.red = i.red
         /\ (j.delivered <=> i.delivered) /\ j.buffer = i.buffer /\ j.reports = R
    BY <2>10, <2>11, <2>8, <2>9 DEF Imports
  <2> HIDE DEF j
  <2>13. rcvQueue' \in Seq(Segments) /\ ToSet(rcvQueue') \subseteq ToSet(rcvQueue) \cup {rs}
    BY <1>3, <1>6, <2>6, Enqueued
  <2>14. ImportsOK'
    <3>1. \A x \in ToSet(rcvQueue') : x.type # "DS"
      BY <1>3, <2>6, <2>13
    <3> QED BY <1>6, <2>12, <2>13, <3>1, StaysOpen
  <2>15. \A x \in ToSet(rcvQueue') : x.type = "RS" =>
            x \in ToSet(rcvQueue) \/ (x.session = s /\ x.claims \subseteq i.red)
    BY <2>3, <2>6, <2>13
  <2>16. /\ j \in Imports /\ import' = [import EXCEPT ![s] = j]
         /\ j.state = "live" /\ j.obj = i.obj /\ j.red = i.red
         /\ (j.delivered <=> i.delivered) /\ j.buffer = i.buffer
         /\ importBuffers' = free
         /\ \A r \in j.reports : r \in i.reports \/ r.claims \subseteq i.red
    BY <1>6, <2>10, <2>12
  <2> QED BY <2>14, <2>15, <2>16 DEF Takes
<1>7. CASE /\ import' = [import EXCEPT ![s] = counted] /\ importBuffers' = free
           /\ UNCHANGED rcvQueue
  <2> DEFINE k == i.reportsCount + 1
             c == [i EXCEPT !.next = n, !.reportsCount = k]
  <2>1. counted = c /\ k \in Nat /\ n \in Nat
    BY <1>2
  <2> HIDE DEF k, n, counted
  <2>2. /\ c \in Imports /\ c.state = i.state /\ c.obj = i.obj /\ c.red = i.red
        /\ c.delivered = i.delivered /\ c.buffer = i.buffer
        /\ c.reports = i.reports
    BY <2>1 DEF Imports
  <2>3. ImportsOK'
    BY <1>3, <1>7, <2>1, <2>2, StaysOpen
  <2> QED BY <1>7, <2>1, <2>2, <2>3 DEF Takes
<1> HIDE DEF j, rs, complete, claims, counted
<1> QED BY <1>1, <1>4, <1>5, <1>6, <1>7

(* The session that takes the data: a new one takes a buffer as well.      *)
Before(s) == IF import[s].state = "none" THEN StartedImport(s) ELSE import[s]
FreeAfter(s) ==
  IF import[s].state = "none" /\ importBuffers # <<>> THEN Tail(importBuffers) ELSE importBuffers
CountAfter(s) ==
  IF import[s].state = "none" /\ importBuffers = <<>> THEN importBufferCount + 1
  ELSE importBufferCount

LEMMA StartedIs ==
  ASSUME ReceiverOK, NEW s \in Session
  PROVE  LET i == StartedImport(s) IN
         /\ i \in Imports /\ i.state = "live" /\ i.red = {} /\ i.reports = {} /\ i.delivered = FALSE
         /\ i.buffer = IF importBuffers = <<>> THEN importBufferCount + 1 ELSE Head(importBuffers)
<1> DEFINE b == IF importBuffers = <<>> THEN importBufferCount + 1 ELSE Head(importBuffers)
           n == import[s].obj + 1
<1>1. b \in Nat
  <2>1. importBuffers \in Seq(Nat) /\ importBufferCount \in Nat
    BY DEF ReceiverOK, ImportsOK
  <2>2. CASE importBuffers # <<>>
    BY <2>1, <2>2, Dequeued, InQueue
  <2> QED BY <2>1, <2>2
<1>2. n \in Nat
  BY ImportTyped
<1>3. StartedImport(s) = [NoImport EXCEPT !.state = "live", !.obj = n, !.buffer = b]
  BY DEF StartedImport
<1> HIDE DEF b, n
<1>4. LET i == [NoImport EXCEPT !.state = "live", !.obj = n, !.buffer = b] IN
      /\ i \in Imports /\ i.state = "live" /\ i.red = {} /\ i.reports = {} /\ i.delivered = FALSE
      /\ i.buffer = b
  BY <1>1, <1>2, NoImportIs DEF Imports
<1> QED BY <1>3, <1>4 DEF b

LEMMA BeforeIs ==
  ASSUME ReceiverOK, NEW s \in Session, import[s].state \in {"none", "live"}
  PROVE  /\ Before(s) \in Imports /\ Before(s).state = "live"
         /\ Before(s).red = Has(s)
         /\ \A r \in Before(s).reports : r \in import[s].reports
         /\ Before(s).delivered => import[s].delivered
         /\ Before(s).buffer \in Nat
         /\ FreeAfter(s) \in Seq(Nat) /\ CountAfter(s) \in Nat
         /\ import[s].state = "live" => Before(s) = import[s]
<1>1. importBuffers \in Seq(Nat) /\ importBufferCount \in Nat
  BY DEF ReceiverOK, ImportsOK
<1>2. FreeAfter(s) \in Seq(Nat) /\ CountAfter(s) \in Nat
  BY <1>1, Dequeued DEF FreeAfter, CountAfter
<1>3. import[s] \in Imports
  BY ImportTyped
<1>4. CASE import[s].state = "live"
  <2>1. Before(s) = import[s] /\ Has(s) = import[s].red /\ import[s].buffer \in Nat
    BY <1>4, ImportTyped DEF Before, Has
  <2> QED BY <1>2, <1>3, <1>4, <2>1
<1>5. CASE import[s].state = "none"
  <2>1. Before(s) = StartedImport(s) /\ Has(s) = {}
    BY <1>5 DEF Before, Has
  <2>2. /\ StartedImport(s) \in Imports /\ StartedImport(s).state = "live"
        /\ StartedImport(s).red = {} /\ StartedImport(s).reports = {}
        /\ StartedImport(s).delivered = FALSE
    BY StartedIs
  <2>3. StartedImport(s).buffer \in Nat
    BY <2>2 DEF Imports
  <2> QED BY <1>2, <1>5, <2>1, <2>2, <2>3
<1> QED BY <1>4, <1>5

LEMMA BufferAfter ==
  ASSUME ReceiverOK, BuffersOK, NEW s \in Session, import[s].state \in {"none", "live"},
         ~(import[s].state = "none" /\ NoBuffer)
  PROVE  /\ BuffersFit(FreeAfter(s), CountAfter(s), [Owned EXCEPT ![s] = Before(s).buffer])
         /\ Before(s).buffer # 0 => ~Before(s).delivered
         /\ Owned \in [Session -> Nat]
<1>1. /\ importBuffers \in Seq(Nat) /\ importBufferCount \in Nat
      /\ BuffersFit(importBuffers, importBufferCount, Owned)
  BY DEF ReceiverOK, ImportsOK, BuffersOK
<1>2. Owned \in [Session -> Nat] /\ Owned[s] = import[s].buffer
  <2>1. \A t \in Session : import[t].buffer \in Nat
    BY ImportTyped
  <2> QED BY <2>1 DEF Owned
<1>3. CASE import[s].state = "live"
  <2>1. /\ Before(s) = import[s] /\ FreeAfter(s) = importBuffers
        /\ CountAfter(s) = importBufferCount
    BY <1>3 DEF Before, FreeAfter, CountAfter
  <2>2. [Owned EXCEPT ![s] = Before(s).buffer] = Owned
    BY <1>2, <2>1
  <2> QED BY <1>1, <1>2, <2>1, <2>2 DEF BuffersOK
<1>4. CASE import[s].state = "none"
  <2> DEFINE b == IF importBuffers = <<>> THEN importBufferCount + 1 ELSE Head(importBuffers)
             f == IF importBuffers # <<>> THEN Tail(importBuffers) ELSE importBuffers
             n == IF importBuffers = <<>> THEN importBufferCount + 1 ELSE importBufferCount
  <2>1. Owned[s] = 0 /\ ~(importBuffers = <<>> /\ importBufferCount >= MaxImports)
    BY <1>2, <1>4 DEF BuffersOK, NoBuffer
  <2>2. BuffersFit(f, n, [Owned EXCEPT ![s] = b])
    BY <1>1, <1>2, <2>1, BufferTaken
  <2>3. FreeAfter(s) = f /\ CountAfter(s) = n
    BY <1>4 DEF FreeAfter, CountAfter
  <2>4. Before(s).buffer = b /\ Before(s).delivered = FALSE
    BY <1>4, StartedIs DEF Before
  <2> HIDE DEF f, n, b
  <2> QED BY <1>2, <2>2, <2>3, <2>4
<1> QED BY <1>3, <1>4

LEMMA TakesKeepsBuffers ==
  ASSUME ReceiverOK, NEW s \in Session, import[s].state \in {"none", "live"},
         ~(import[s].state = "none" /\ NoBuffer),
         NEW i \in Imports, i.buffer = Before(s).buffer, i.obj = Before(s).obj,
         i.delivered <=> Before(s).delivered,
         Takes(s, i, FreeAfter(s)), importBufferCount' = CountAfter(s), UNCHANGED deliv
  PROVE  KeepsBuffers
<1> SUFFICES ASSUME ~Interrupted, HeldOK, BuffersOK PROVE HeldOK' /\ BuffersOK'
  BY DEF KeepsBuffers
<1> DEFINE own2 == [Owned EXCEPT ![s] = Before(s).buffer]
<1>1. /\ BuffersFit(FreeAfter(s), CountAfter(s), own2)
      /\ Before(s).buffer # 0 => ~Before(s).delivered
      /\ Owned \in [Session -> Nat]
  BY BufferAfter
<1>2. /\ Before(s).buffer \in Nat /\ FreeAfter(s) \in Seq(Nat) /\ CountAfter(s) \in Nat
      /\ import[s].state = "live" => Before(s) = import[s]
  BY BeforeIs
<1>3. own2 \in [Session -> Nat] /\ own2[s] = Before(s).buffer
  BY <1>1, <1>2
<1>4. PICK j \in Imports :
       /\ import' = [import EXCEPT ![s] = j]
       /\ \/ /\ j.state = "live" /\ j.obj = i.obj
             /\ (j.delivered <=> i.delivered) /\ j.buffer = i.buffer
             /\ importBuffers' = FreeAfter(s)
          \/ /\ j.state = "dead" /\ j.buffer = 0
             /\ importBuffers' = Recycled(FreeAfter(s), i) /\ Undisturbed(s)
  BY DEF Takes
<1>5. /\ import'[s] = j /\ \A t \in Session : t # s => import'[t] = import[t]
      /\ Owned' = [Owned EXCEPT ![s] = j.buffer]
  BY <1>4, OneImport
<1>6. HeldOK'
  <2>1. s # 0
    BY DEF Session
  <2>2. import[s].state = "none" => deliv.session # s
    BY <2>1 DEF HeldOK
  <2>3. j.state = "dead" => deliv.session # s
    BY <1>4 DEF Undisturbed
  <2>4. deliv.session # s \/ (j.state = import[s].state /\ j.obj = import[s].obj)
    BY <1>2, <1>4, <2>2, <2>3
  <2> QED BY <1>4, <2>4, HeldStays
<1>7. \A t \in Session : import'[t].buffer # 0 => import'[t].state = "live" /\ ~import'[t].delivered
  BY <1>1, <1>4, <1>5 DEF BuffersOK
<1>8. BuffersFit(importBuffers', importBufferCount', Owned')
  <2>1. CASE j.buffer = i.buffer /\ importBuffers' = FreeAfter(s)
    <3>1. Owned' = own2
      BY <1>5, <2>1
    <3> HIDE DEF own2
    <3> QED BY <1>1, <2>1, <3>1
  <2>2. CASE j.buffer = 0 /\ importBuffers' = Recycled(FreeAfter(s), i)
    <3>1. importBuffers' = Given(FreeAfter(s), own2[s])
      BY <1>3, <2>2 DEF Recycled, Given
    <3>2. Owned' = [own2 EXCEPT ![s] = 0]
      BY <1>1, <1>5, <2>2
    <3> HIDE DEF own2
    <3>3. BuffersFit(Given(FreeAfter(s), own2[s]), CountAfter(s), [own2 EXCEPT ![s] = 0])
      BY <1>1, <1>2, <1>3, BufferGiven
    <3> QED BY <3>1, <3>2, <3>3
  <2> QED BY <1>4, <2>1, <2>2
<1> QED BY <1>6, <1>7, <1>8 DEF BuffersOK

(* What ltpdeliv has found stays the first of the deliverables.            *)
LEMMA HeadAppended ==
  ASSUME NEW E, NEW q \in Seq(E), NEW e \in E, q # <<>>
  PROVE  Append(q, e) # <<>> /\ Head(Append(q, e)) = Head(q)
<1>1. /\ Append(q, e) \in Seq(E) /\ Len(Append(q, e)) = Len(q) + 1 /\ Len(q) \in Nat /\ Len(q) # 0
      /\ \A k \in 1..Len(q) : Append(q, e)[k] = q[k]
  BY AppendProperties, EmptySeq
<1>2. Append(q, e) # <<>>
  BY <1>1, EmptySeq
<1>3. Head(q) = q[1] /\ Head(Append(q, e)) = Append(q, e)[1] /\ 1 \in 1..Len(q)
  BY <1>1, <1>2, HeadTailProperties
<1> QED BY <1>1, <1>2, <1>3

LEMMA HandleDsKeeps ==
  ASSUME ReceiverOK, MediumOK, NEW m \in net, HandleDs(m)
  PROVE  /\ ReceiverOK' /\ MediumOK' /\ KeepsBuffers /\ UNCHANGED sender
         /\ Settles \/ \E s \in Session : \E R \in SUBSET Segment : AcceptsData(s, R)
<1> DEFINE s == m.session
           i == [Before(s) EXCEPT !.red = @ \cup {m.seg}]
           fresh == m.seg \notin Before(s).red
           complete == i.red = Segment
           acts == (m.ckpt # 0 \/ complete) /\ (fresh \/ RedPart \in i.red)
           upper == IF fresh THEN m.seg ELSE RedPart
<1>1. /\ m.type = "DS" /\ Receives(m)
      /\ UNCHANGED <<sender, closedImports, deliv, received>>
      /\ \/ UNCHANGED <<import, buffers, rcvQueue, deliverables, whole>>
         \/ /\ ~Discards(m)
            /\ importBufferCount' = CountAfter(s)
            /\ \/ import' = [import EXCEPT ![s] = i] /\ importBuffers' = FreeAfter(s) /\ UNCHANGED rcvQueue
               \/ SendReport(s, i, m, upper, FreeAfter(s))
            /\ deliverables' = IF acts /\ complete THEN Append(deliverables, s) ELSE deliverables
            /\ whole' = IF acts /\ complete THEN whole \cup {s} ELSE whole
  BY Zenon DEF HandleDs, Before, FreeAfter, CountAfter
<1>2. /\ MediumOK' /\ m \in Segments /\ s \in Session /\ m.seg \in Segment
      /\ \A x \in net' : x \in net
  BY <1>1, Arrives, SegmentIs
<1>3. UNCHANGED export
  BY <1>1 DEF sender
<1>4. CASE UNCHANGED <<import, buffers, rcvQueue, deliverables, whole>>
  <2>1. Settles
    BY <1>1, <1>2, <1>3, <1>4, ImportsAlone
  <2>2. ReceiverOK'
    BY <1>1, <1>4 DEF ReceiverOK, ImportsOK, DeliveryOK, buffers, ClosedStaysClosed
  <2>3. ASSUME HeldOK, BuffersOK PROVE HeldOK' /\ BuffersOK'
    BY <1>1, <1>4, <2>3 DEF HeldOK, BuffersOK, Owned, buffers
  <2> QED BY <1>1, <1>2, <2>1, <2>2, <2>3 DEF KeepsBuffers
<1>5. CASE /\ ~Discards(m)
           /\ importBufferCount' = CountAfter(s)
           /\ \/ import' = [import EXCEPT ![s] = i] /\ importBuffers' = FreeAfter(s) /\ UNCHANGED rcvQueue
              \/ SendReport(s, i, m, upper, FreeAfter(s))
           /\ deliverables' = IF acts /\ complete THEN Append(deliverables, s) ELSE deliverables
           /\ whole' = IF acts /\ complete THEN whole \cup {s} ELSE whole
  <2>1. /\ s \notin closedImports /\ import[s].state \in {"none", "live"}
        /\ ~(import[s].state = "none" /\ NoBuffer)
    BY <1>2, <1>5, ImportTyped DEF Discards
  <2>2. /\ Before(s) \in Imports /\ Before(s).state = "live"
        /\ Before(s).red = Has(s)
        /\ \A r \in Before(s).reports : r \in import[s].reports
        /\ Before(s).delivered => import[s].delivered
        /\ FreeAfter(s) \in Seq(Nat) /\ CountAfter(s) \in Nat
    BY <1>2, <2>1, BeforeIs
  <2> DEFINE R == Before(s).red \cup {m.seg}
  <2>3. R \in SUBSET Segment /\ Has(s) \subseteq R
    BY <1>2, <2>2 DEF Imports
  <2>4. i = [Before(s) EXCEPT !.red = R]
    OBVIOUS
  <2> HIDE DEF R
  <2>5. /\ i \in Imports /\ i.state = "live" /\ i.red = R /\ i.obj = Before(s).obj
        /\ i.reports = Before(s).reports /\ (i.delivered <=> Before(s).delivered)
        /\ i.buffer = Before(s).buffer
    BY <2>2, <2>3, <2>4 DEF Imports
  <2>6. /\ deliverables' = IF R = Segment THEN Append(deliverables, s) ELSE deliverables
        /\ whole' = IF R = Segment THEN whole \cup {s} ELSE whole
    <3>1. RedPart \in Segment
      BY LtpAssumption DEF Segment
    <3>2. (acts /\ complete) <=> R = Segment
      BY <2>5, <3>1
    <3> HIDE DEF acts, complete
    <3> QED BY <1>5, <3>2
  <2>7. upper \in Nat
    BY <1>2, LtpAssumption DEF Segment
  <2> HIDE DEF i, upper, s
  <2>8. Takes(s, i, FreeAfter(s))
    <3>1. CASE import' = [import EXCEPT ![s] = i] /\ importBuffers' = FreeAfter(s) /\ UNCHANGED rcvQueue
      <4>1. rcvQueue' \in Seq(Segments) /\ \A x \in ToSet(rcvQueue') : x.type # "DS"
        BY <3>1 DEF ReceiverOK, ImportsOK
      <4>2. ImportsOK'
        BY <1>1, <1>2, <1>5, <2>1, <2>2, <2>5, <3>1, <4>1, StaysOpen
      <4> QED BY <2>5, <3>1, <4>2 DEF Takes
    <3>2. CASE SendReport(s, i, m, upper, FreeAfter(s))
      <4>1. UNCHANGED closedImports /\ importBufferCount' \in Nat
        BY <1>1, <1>5, <2>2
      <4> QED BY <1>1, <1>2, <2>1, <2>2, <2>5, <2>7, <3>2, <4>1, SendReportTakes
    <3> QED BY <1>5, <3>1, <3>2
  <2>9. KeepsBuffers
    <3>1. importBufferCount' = CountAfter(s) /\ UNCHANGED deliv
      BY <1>1, <1>5
    <3> QED BY <1>2, <2>1, <2>5, <2>8, <3>1, TakesKeepsBuffers
  <2>10. DeliveryOK'
    <3>1. whole' \in SUBSET Session /\ whole \subseteq whole'
      BY <1>2, <2>6 DEF ReceiverOK, DeliveryOK
    <3>2. CASE R = Segment
      <4>1. /\ deliverables \in Seq(Session) /\ deliverables' = Append(deliverables, s)
            /\ whole' = whole \cup {s} /\ ToSet(deliverables) \subseteq whole
        BY <2>6, <3>2 DEF ReceiverOK, DeliveryOK
      <4>2. deliverables' \in Seq(Session) /\ ToSet(deliverables') = ToSet(deliverables) \cup {s}
        BY <1>2, <4>1, Appended
      <4>3. deliv.session # 0 => deliverables' # <<>> /\ Head(deliverables') = deliv.session
        BY <1>2, <4>1, HeadAppended DEF ReceiverOK, DeliveryOK
      <4> QED BY <1>1, <3>1, <4>1, <4>2, <4>3 DEF ReceiverOK, DeliveryOK
    <3>3. CASE R # Segment
      BY <1>1, <2>6, <3>1, <3>3 DEF ReceiverOK, DeliveryOK
    <3> QED BY <3>2, <3>3
  <2>11. AcceptsData(s, R)
    <3>1. PICK j \in Imports :
            /\ import' = [import EXCEPT ![s] = j]
            /\ \/ /\ j.state = "live" /\ j.red = R /\ (j.delivered <=> i.delivered)
                  /\ \A r \in j.reports : r \in i.reports \/ r.claims \subseteq R
               \/ /\ j.state = "dead" /\ R # Segment /\ j.reports = {} /\ j.delivered = FALSE
      BY <2>5, <2>8 DEF Takes
    <3>2. import'[s] = j /\ \A t \in Session : t # s => import'[t] = import[t]
      BY <1>2, <3>1, OneImport
    <3>3. \A x \in ToSet(rcvQueue') : x.type = "RS" =>
             x \in ToSet(rcvQueue) \/ (x.session = s /\ x.claims \subseteq R)
      BY <2>5, <2>8 DEF Takes
    <3>4. \A r \in j.reports : r \in import[s].reports \/ r.claims \subseteq R
      BY <2>2, <2>5, <3>1
    <3>5. ASSUME NEW t \in Session, NEW x \in Segment, Shown(t, x)'
          PROVE  Shown(t, x) \/ (t = s /\ x \in R)
      <4>1. CASE x \in export'[t].claims
        BY <1>3, <4>1 DEF Shown
      <4>2. CASE \E r \in import'[t].reports : x \in r.claims
        BY <3>2, <3>4, <4>2 DEF Shown
      <4>3. CASE \E y \in net' : y.type = "RS" /\ y.session = t /\ x \in y.claims
        BY <1>2, <4>3 DEF Shown
      <4>4. CASE \E y \in ToSet(rcvQueue') : y.type = "RS" /\ y.session = t /\ x \in y.claims
        BY <3>3, <4>4 DEF Shown
      <4> QED BY <3>5, <4>1, <4>2, <4>3, <4>4 DEF Shown
    <3>6. import'[s].delivered => import[s].delivered
      BY <2>2, <2>5, <3>1, <3>2
    <3>7. \E y \in net : y.type = "DS" /\ y.session = s
      BY <1>1 DEF s
    <3>8. /\ import'[s].state \in {"live", "dead"} /\ (import'[s].state = "live" => import'[s].red = R)
          /\ (import'[s].state = "dead" => R # Segment)
      BY <3>1, <3>2
    <3> QED BY <1>1, <1>2, <2>1, <2>3, <2>6, <3>2, <3>5, <3>6, <3>7, <3>8 DEF AcceptsData
  <2> QED BY <1>1, <1>2, <2>3, <2>8, <2>9, <2>10, <2>11 DEF Takes, ReceiverOK
<1> HIDE DEF s, i, acts, complete, upper
<1> QED BY <1>1, <1>4, <1>5

-----------------------------------------------------------------------------
(* The steps of the two engines taken together.                            *)

LEMMA SenderMoves ==
  ASSUME SenderOK, MediumOK, Client \/ Meter \/ LsoSends \/ StopXmit \/ Clock \/ Lsi
  PROVE  SenderStep /\ UNCHANGED receiver
BY ClientKeeps, MeterKeeps, LsoKeeps, StopKeeps, ClockKeeps, LsiKeeps

ReceiverMove ==
  /\ ReceiverOK' /\ MediumOK' /\ KeepsBuffers /\ UNCHANGED sender
  /\ Settles \/ \E s \in Session : \E R \in SUBSET Segment : AcceptsData(s, R)

LEMMA ReceiverMoves ==
  ASSUME ReceiverOK, MediumOK, RcvLsoSends \/ RcvClock \/ RcvLsi \/ ForgetImport \/ Deliv
  PROVE  ReceiverMove
<1>1. CASE RcvLsoSends \/ RcvClock \/ ForgetImport
  BY <1>1, RcvLsoKeeps, RcvClockKeeps, ForgetKeeps DEF ReceiverStep, ReceiverMove
<1>2. CASE Deliv
  BY <1>2, DelivFindsKeeps, DelivDeliversKeeps, DelivStaleKeeps
     DEF Deliv, ReceiverStep, ReceiverMove
<1>3. CASE RcvLsi
  <2>1. PICK m \in net : HandleDs(m) \/ HandleRa(m) \/ HandleCs(m) \/ HandleCar(m)
    BY <1>3 DEF RcvLsi
  <2>2. CASE HandleDs(m)
    BY <2>2, HandleDsKeeps DEF ReceiverMove
  <2>3. CASE HandleRa(m) \/ HandleCs(m) \/ HandleCar(m)
    BY <2>3, HandleRaKeeps, HandleCsKeeps, HandleCarKeeps DEF ReceiverStep, ReceiverMove
  <2> QED BY <2>1, <2>2, <2>3
<1> QED BY <1>1, <1>2, <1>3

(* Data is under way only for sessions that have started to send.          *)
SentOK == \A m \in net : m.type = "DS" => export[m.session].state = "live" \/ Over(m.session)

(* While a block is not whole and its sender is not done with it, what     *)
(* reports show to have arrived has, and is not everything.                *)
TruthOK ==
  \A s \in Session : s \notin whole /\ ~Over(s) =>
    /\ import[s].state = "live" => \A i \in Segment : Shown(s, i) => i \in import[s].red
    /\ import[s].state = "none" /\ s \notin closedImports => \A i \in Segment : ~Shown(s, i)
    /\ \E i \in Segment : ~Shown(s, i)

(* A block that is whole does not become less, and is not received again.  *)
WholeOK ==
  \A s \in Session :
    /\ import[s].state = "live" => (s \in whole <=> import[s].red = Segment)
    /\ received[s] > 0 => s \in whole
    /\ import[s].delivered => received[s] > 0
    /\ import[s].state = "none" /\ s \in whole /\ s \notin closedImports =>
         Over(s) /\ \A m \in net : m.type = "DS" => m.session # s

EndsAgree == SentOK /\ TruthOK /\ WholeOK

LEMMA SenderAgrees ==
  ASSUME MediumOK, EndsAgree, SenderStep, UNCHANGED receiver
  PROVE  EndsAgree'
<1>1. UNCHANGED <<import, closedImports, rcvQueue, whole, received>>
  BY DEF receiver, delivery
<1>2. \A s \in Session :
        /\ Over(s) => Over(s)'
        /\ export[s].state = "live" => export'[s].state = "live" \/ Over(s)'
        /\ ~Over(s)' => \A i \in export'[s].claims : i \in export[s].claims \/ Claim(s, i)
  BY DEF SenderStep, Moves
<1>3. \A m \in net' : m \in net \/ (m.type # "RS" /\ (m.type = "DS" => export[m.session].state = "live"))
  BY DEF SenderStep, Feeds
<1>4. \A m \in net' : m.session \in Session
  BY SegmentIs DEF SenderStep, MediumOK
<1>5. SentOK'
  BY <1>2, <1>3, <1>4 DEF EndsAgree, SentOK
<1>6. ASSUME NEW s \in Session, NEW i \in Segment, ~Over(s)', Shown(s, i)' PROVE Shown(s, i)
  <2>1. CASE i \in export'[s].claims
    BY <1>2, <1>6, <2>1 DEF Shown, Claim
  <2>2. CASE ~(i \in export'[s].claims)
    BY <1>1, <1>3, <1>6, <2>2 DEF Shown
  <2> QED BY <2>1, <2>2
<1>7. TruthOK'
  <2> SUFFICES ASSUME NEW s \in Session, s \notin whole', ~Over(s)'
               PROVE  /\ import'[s].state = "live" =>
                           \A i \in Segment : Shown(s, i)' => i \in import'[s].red
                      /\ import'[s].state = "none" /\ s \notin closedImports' =>
                           \A i \in Segment : ~Shown(s, i)'
                      /\ \E i \in Segment : ~Shown(s, i)'
    BY DEF TruthOK
  <2>1. s \notin whole /\ ~Over(s)
    BY <1>1, <1>2
  <2>2. \A i \in Segment : Shown(s, i)' => Shown(s, i)
    BY <1>6
  <2> QED BY <1>1, <2>1, <2>2 DEF EndsAgree, TruthOK
<1>8. WholeOK'
  <2>1. ASSUME NEW s \in Session, Over(s), \A m \in net : m.type = "DS" => m.session # s
        PROVE  Over(s)' /\ \A m \in net' : m.type = "DS" => m.session # s
    BY <1>2, <1>3, <2>1 DEF Over
  <2> QED BY <1>1, <2>1 DEF EndsAgree, WholeOK
<1> QED BY <1>5, <1>7, <1>8 DEF EndsAgree

LEMMA SettlingAgrees ==
  ASSUME EndsAgree, Settles, UNCHANGED sender
  PROVE  EndsAgree'
<1>1. UNCHANGED <<export, whole>> /\ \A s \in Session : Over(s)' <=> Over(s)
  BY DEF sender, Settles, Over
<1>2. \A m \in net' : m \in net \/ m.type # "DS"
  BY DEF Settles
<1>3. SentOK'
  BY <1>1, <1>2 DEF EndsAgree, SentOK, Over
<1>4. ASSUME NEW s \in Session
      PROVE  /\ \A i \in Segment : Shown(s, i)' => Shown(s, i)
             /\ import'[s].state = "live" => import[s].state = "live" /\ import'[s].red = import[s].red
             /\ import'[s].state = "none" /\ s \notin closedImports' =>
                  \/ import[s].state = "none" /\ s \notin closedImports
                  \/ Over(s) /\ \A m \in net' : m.type = "DS" => m.session # s
             /\ received[s] > 0 => received'[s] > 0
             /\ received'[s] > 0 => received[s] > 0 \/ s \in whole
             /\ import'[s].delivered => import[s].delivered \/ received'[s] > 0
  BY DEF Settles
<1>5. TruthOK'
  BY <1>1, <1>4 DEF EndsAgree, TruthOK
<1>6. WholeOK'
  BY <1>1, <1>2, <1>4 DEF EndsAgree, WholeOK
<1> QED BY <1>3, <1>5, <1>6 DEF EndsAgree

(* A block whose data comes has a session, or has not been received.       *)
LEMMA AcceptsNew ==
  ASSUME EndsAgree, NEW s \in Session, NEW R \in SUBSET Segment, AcceptsData(s, R)
  PROVE  /\ s \in whole => import[s].state = "live" /\ R = Segment
         /\ export[s].state = "live" \/ Over(s)
<1>1. PICK m \in net : m.type = "DS" /\ m.session = s
  BY DEF AcceptsData
<1>2. export[s].state = "live" \/ Over(s)
  BY <1>1 DEF EndsAgree, SentOK
<1>3. ASSUME s \in whole PROVE import[s].state = "live" /\ R = Segment
  <2>1. import[s].state = "live"
    BY <1>1, <1>3 DEF EndsAgree, WholeOK, AcceptsData
  <2>2. Has(s) = Segment /\ Has(s) \subseteq R
    BY <1>3, <2>1 DEF EndsAgree, WholeOK, Has, AcceptsData
  <2> QED BY <2>1, <2>2
<1> QED BY <1>2, <1>3

LEMMA AcceptingAgrees ==
  ASSUME EndsAgree, NEW s \in Session, NEW R \in SUBSET Segment, AcceptsData(s, R)
  PROVE  EndsAgree'
<1>1. /\ UNCHANGED <<export, closedImports, received>> /\ \A t \in Session : Over(t)' <=> Over(t)
      /\ \A t \in Session : t # s => import'[t] = import[t]
      /\ \A m \in net' : m \in net
      /\ whole' = IF R = Segment THEN whole \cup {s} ELSE whole
      /\ \A t \in Session : \A i \in Segment : Shown(t, i)' => Shown(t, i) \/ (t = s /\ i \in R)
  BY DEF AcceptsData, sender, Over
<1>2. /\ import[s].state \in {"none", "live"} /\ s \notin closedImports /\ Has(s) \subseteq R
      /\ import'[s].state \in {"live", "dead"}
      /\ import'[s].state = "live" => import'[s].red = R
      /\ import'[s].state = "dead" => R # Segment
      /\ import'[s].delivered => import[s].delivered
  BY DEF AcceptsData
<1>3. SentOK'
  BY <1>1 DEF EndsAgree, SentOK, Over
<1>4. TruthOK'
  <2> SUFFICES ASSUME NEW t \in Session, t \notin whole', ~Over(t)'
               PROVE  /\ import'[t].state = "live" =>
                           \A i \in Segment : Shown(t, i)' => i \in import'[t].red
                      /\ import'[t].state = "none" /\ t \notin closedImports' =>
                           \A i \in Segment : ~Shown(t, i)'
                      /\ \E i \in Segment : ~Shown(t, i)'
    BY DEF TruthOK
  <2>1. t \notin whole /\ ~Over(t)
    BY <1>1
  <2>2. CASE t # s
    BY <1>1, <2>1, <2>2 DEF EndsAgree, TruthOK
  <2>3. CASE t = s
    <3>1. R # Segment
      BY <1>1, <2>3
    <3>2. \A i \in Segment : Shown(s, i) => i \in R
      BY <1>2, <2>1, <2>3 DEF EndsAgree, TruthOK, Has
    <3>3. \A i \in Segment : Shown(s, i)' => i \in R
      BY <1>1, <3>2
    <3>4. PICK i \in Segment : i \notin R
      BY <3>1
    <3> QED BY <1>2, <2>3, <3>3, <3>4
  <2> QED BY <2>2, <2>3
<1>5. WholeOK'
  <2> SUFFICES ASSUME NEW t \in Session
               PROVE  /\ import'[t].state = "live" => (t \in whole' <=> import'[t].red = Segment)
                      /\ received'[t] > 0 => t \in whole'
                      /\ import'[t].delivered => received'[t] > 0
                      /\ import'[t].state = "none" /\ t \in whole' /\ t \notin closedImports' =>
                           Over(t)' /\ \A m \in net' : m.type = "DS" => m.session # t
    BY DEF WholeOK
  <2>1. CASE t # s
    BY <1>1, <2>1 DEF EndsAgree, WholeOK
  <2>2. CASE t = s
    <3>1. s \in whole => R = Segment
      BY AcceptsNew
    <3>2. s \in whole' <=> R = Segment
      BY <1>1, <3>1
    <3> QED BY <1>1, <1>2, <2>2, <3>2 DEF EndsAgree, WholeOK
  <2> QED BY <2>1, <2>2
<1> QED BY <1>3, <1>4, <1>5 DEF EndsAgree

-----------------------------------------------------------------------------
(* The inductive invariant.                                                *)
IInv == SenderOK /\ MediumOK /\ ReceiverOK /\ EndsAgree

(* While no session ends under ltpdeliv's hands.                           *)
KeptOK == HeldOK /\ BuffersOK

LEMMA InitIInv == Init => IInv /\ KeptOK
<1> SUFFICES ASSUME Init PROVE IInv /\ KeptOK
  OBVIOUS
<1>1. NoExport \in ExportType /\ [NoExport EXCEPT !.state = "open"] \in ExportType
      /\ NoExport.state = "none" /\ NoExport.sdus = "none" /\ NoExport.claims = {}
      /\ [NoExport EXCEPT !.state = "open"].state = "open"
      /\ [NoExport EXCEPT !.state = "open"].sdus = "none"
      /\ [NoExport EXCEPT !.state = "open"].claims = {}
  <2> DEFINE c == <<>>
  <2>1. NoExport = [state |-> "none", sdus |-> "none", ckpts |-> c, claims |-> {},
                    rsSerials |-> {}, tries |-> 0, timer |-> FALSE]
    BY Zenon DEF NoExport
  <2>2. c \in Ckpts
    BY DEF Ckpts
  <2> HIDE DEF c
  <2> QED BY <2>1, <2>2 DEF ExportType, States, Returns
<1> DEFINE first == [NoExport EXCEPT !.state = "open"]
<1>2. export = [s \in Session |-> IF s = 1 THEN first ELSE NoExport]
  BY DEF Init
<1> HIDE DEF first
<1>3. \A s \in Session : /\ export[s] \in ExportType /\ export[s].state \in {"none", "open"}
                         /\ export[s].sdus = "none" /\ export[s].claims = {}
  BY <1>1, <1>2 DEF first
<1>4. /\ xmitQueue = <<>> /\ net = {} /\ dups = 0 /\ rcvQueue = <<>> /\ deliverables = <<>>
      /\ ToSet(xmitQueue) = {} /\ ToSet(rcvQueue) = {} /\ ToSet(deliverables) = {}
  BY DEF Init, ToSet
<1>5. SenderOK
  <2>1. export \in [Session -> ExportType]
    BY <1>2, <1>3
  <2>2. SdusOK /\ QueueOK
    BY <1>3, <1>4 DEF SdusOK, QueueOK
  <2> QED BY <1>4, <2>1, <2>2, ExportsAre DEF Init, SenderOK
<1>6. MediumOK
  BY <1>4 DEF MediumOK
<1>7. \A s \in Session : import[s] = NoImport
  BY DEF Init
<1>8. ReceiverOK
  <2>1. import \in [Session -> Imports]
    BY NoImportIs DEF Init
  <2>2. NoDeliverable \in [session : Session \cup {0}, obj : Nat, buffer : Nat]
        /\ NoDeliverable.session = 0
    BY DEF NoDeliverable
  <2>3. ImportsOK
    BY <1>4, <2>1 DEF Init, ImportsOK, ClosedStaysClosed
  <2>4. DeliveryOK
    BY <1>4, <2>2 DEF Init, DeliveryOK
  <2> QED BY <2>3, <2>4 DEF ReceiverOK
<1>9. \A s \in Session : \A i \in Segment : ~Shown(s, i)
  BY <1>3, <1>4, <1>7, NoImportIs DEF Shown
<1>10. EndsAgree
  <2>1. 1 \in Segment
    BY LtpAssumption DEF Segment
  <2>2. TruthOK
    BY <1>7, <1>9, <2>1, NoImportIs DEF TruthOK
  <2>3. WholeOK
    BY <1>7, NoImportIs DEF Init, WholeOK
  <2> QED BY <1>4, <2>2, <2>3 DEF EndsAgree, SentOK
<1>11. KeptOK
  <2>1. \A s \in Session : Owned[s] = 0 /\ import[s].buffer = 0
    BY <1>7, NoImportIs DEF Owned
  <2>2. BuffersFit(importBuffers, importBufferCount, Owned)
    BY <2>1, LtpAssumption DEF Init, BuffersFit
  <2>3. HeldOK
    BY DEF Init, NoDeliverable, HeldOK
  <2> QED BY <2>1, <2>2, <2>3 DEF KeptOK, BuffersOK
<1> QED BY <1>5, <1>6, <1>8, <1>10, <1>11 DEF IInv

LEMMA NextCases ==
  ASSUME Next
  PROVE  \/ Client \/ Meter \/ LsoSends \/ StopXmit \/ Clock \/ Lsi
         \/ RcvLsoSends \/ RcvClock \/ RcvLsi \/ ForgetImport \/ Deliv
BY DEF Next

LEMMA NextIInv == IInv /\ [Next]_vars => IInv' /\ (~Interrupted /\ KeptOK => KeptOK')
<1> SUFFICES ASSUME IInv, [Next]_vars PROVE IInv' /\ (~Interrupted /\ KeptOK => KeptOK')
  OBVIOUS
<1>1. CASE Client \/ Meter \/ LsoSends \/ StopXmit \/ Clock \/ Lsi
  <2>1. SenderStep /\ UNCHANGED receiver
    BY <1>1, SenderMoves DEF IInv
  <2>2. EndsAgree'
    BY <2>1, SenderAgrees DEF IInv
  <2>3. ReceiverOK' /\ (KeptOK => KeptOK')
    BY <2>1 DEF receiver, buffers, delivery, IInv, ReceiverOK, ImportsOK, DeliveryOK,
               ClosedStaysClosed, KeptOK, HeldOK, BuffersOK, Owned
  <2> QED BY <2>1, <2>2, <2>3 DEF IInv, SenderStep
<1>2. CASE RcvLsoSends \/ RcvClock \/ RcvLsi \/ ForgetImport \/ Deliv
  <2>1. ReceiverMove
    BY <1>2, ReceiverMoves DEF IInv
  <2>2. EndsAgree'
    BY <2>1, SettlingAgrees, AcceptingAgrees DEF IInv, ReceiverMove
  <2>3. SenderOK'
    BY <2>1 DEF IInv, ReceiverMove, sender, SenderOK, SdusOK, QueueOK
  <2> QED BY <2>1, <2>2, <2>3 DEF IInv, ReceiverMove, KeepsBuffers, KeptOK
<1>3. CASE UNCHANGED vars
  <2>1. IInv' <=> IInv
    BY <1>3 DEF vars, sender, receiver, buffers, delivery, IInv, SenderOK, SdusOK, QueueOK, MediumOK,
                ReceiverOK, ImportsOK, DeliveryOK, ClosedStaysClosed, EndsAgree, SentOK, TruthOK,
                WholeOK, Shown, Over
  <2>2. KeptOK' <=> KeptOK
    BY <1>3 DEF vars, receiver, buffers, delivery, KeptOK, HeldOK, BuffersOK, Owned
  <2> QED BY <2>1, <2>2
<1> QED BY <1>1, <1>2, <1>3, NextCases

LEMMA SpecIInv == Spec => []IInv
<1>1. Init => IInv
  BY InitIInv
<1>2. IInv /\ [Next]_vars => IInv'
  BY NextIInv
<1> QED BY <1>1, <1>2, PTL DEF Spec

LEMMA SpecKept ==
  ASSUME ~Interrupted
  PROVE  Spec => [](IInv /\ KeptOK)
<1>1. Init => IInv /\ KeptOK
  BY InitIInv
<1>2. IInv /\ KeptOK /\ [Next]_vars => IInv' /\ KeptOK'
  BY NextIInv
<1> QED BY <1>1, <1>2, PTL DEF Spec

(* Every variable keeps its type: whatever is lost, duplicated or late,    *)
(* no handler leaves a session, a queue or a list that is no such thing.   *)
THEOREM TypeCorrect == Spec => []TypeOK
<1>1. IInv => TypeOK
  BY DEF IInv, SenderOK, MediumOK, ReceiverOK, ImportsOK, DeliveryOK, TypeOK
<1> QED BY <1>1, SpecIInv, PTL

(* No data segment of a session that has ended is left in the queue, in    *)
(* none of the ways in which a session ends, so that the lso never finds   *)
(* one and keeps its transaction.                                          *)
THEOREM QueueNeverStuck == Spec => []QueuedDataIsLive
<1>1. IInv => QueuedDataIsLive
  BY InQueue DEF IInv, SenderOK, QueueOK, QueuedDataIsLive
<1> QED BY <1>1, SpecIInv, PTL

(* A session that has been closed is not opened again by what comes late.  *)
THEOREM ClosedSessionsStayClosed == Spec => []ClosedStaysClosed
<1>1. IInv => ClosedStaysClosed
  BY DEF IInv, ReceiverOK, ImportsOK
<1> QED BY <1>1, SpecIInv, PTL

LEMMA BuffersFitOwned == BuffersOK => BuffersOwned
<1> SUFFICES ASSUME BuffersOK PROVE BuffersOwned
  OBVIOUS
<1>1. BuffersFit(importBuffers, importBufferCount, Owned) /\ \A s \in Session : Owned[s] = import[s].buffer
  BY DEF BuffersOK, Owned
<1>2. ASSUME NEW b \in 1..importBufferCount
      PROVE  Cardinality({k \in DOMAIN importBuffers : importBuffers[k] = b})
               + Cardinality({s \in Session : import[s].buffer = b}) = 1
  <2> DEFINE F == {k \in DOMAIN importBuffers : importBuffers[k] = b}
             O == {s \in Session : import[s].buffer = b}
  <2>1. b # 0
    OBVIOUS
  <2>2. CASE \E k \in DOMAIN importBuffers : importBuffers[k] = b
    <3>1. PICK k \in DOMAIN importBuffers : importBuffers[k] = b
      BY <2>2
    <3>2. F = {k}
      BY <1>1, <3>1 DEF BuffersFit
    <3>3. O = {}
      BY <1>1, <2>1, <3>1 DEF BuffersFit
    <3>4. Cardinality(F) = 1 /\ Cardinality(O) = 0
      BY <3>2, <3>3, FS_Singleton, FS_EmptySet
    <3> QED BY <3>4
  <2>3. CASE \E s \in Session : Owned[s] = b
    <3>1. PICK s \in Session : import[s].buffer = b
      BY <1>1, <2>3
    <3>2. O = {s}
      BY <1>1, <2>1, <3>1 DEF BuffersFit
    <3>3. F = {}
      BY <1>1, <2>1, <3>1 DEF BuffersFit
    <3>4. Cardinality(F) = 0 /\ Cardinality(O) = 1
      BY <3>2, <3>3, FS_Singleton, FS_EmptySet
    <3> QED BY <3>4
  <2> QED BY <1>1, <2>2, <2>3 DEF BuffersFit
<1> QED BY <1>1, <1>2 DEF BuffersFit, BuffersOwned

(* No import buffer is lost and none serves two blocks, for any number of  *)
(* sessions and buffers, as long as none of the ways to end a session      *)
(* meets ltpdeliv between its two transactions.                            *)
THEOREM BuffersKept == ~Interrupted => (Spec => []BuffersOwned)
<1>1. CASE ~Interrupted
  <2>1. Spec => [](IInv /\ KeptOK)
    BY <1>1, SpecKept
  <2>2. KeptOK => BuffersOwned
    BY BuffersFitOwned DEF KeptOK
  <2> QED BY <2>1, <2>2, PTL
<1> QED BY <1>1

-----------------------------------------------------------------------------
(* Every step is one of LtpBlock, or is not seen.                          *)

Mapped == [Promise!Next]_(Promise!vars)

LEMMA BlockIs ==
  /\ Promise!vars = <<Sdus, Block>>
  /\ \A s \in Session : Block[s] = IF received[s] > 0 THEN "delivered"
                                   ELSE IF s \notin whole THEN "absent"
                                   ELSE IF import[s].state = "live" THEN "whole" ELSE "dropped"
BY DEF Promise!vars, Sdus, Block

(* One block changes.                                                      *)
LEMMA OneBlock ==
  ASSUME NEW s \in Session, NEW v, \A t \in Session : t # s => Block'[t] = Block[t], Block'[s] = v
  PROVE  Block' = [Block EXCEPT ![s] = v]
BY DEF Block

LEMMA NoBlock ==
  ASSUME \A s \in Session : Block'[s] = Block[s]
  PROVE  Block' = Block
BY DEF Block

LEMMA SenderMaps ==
  ASSUME IInv, SenderStep, UNCHANGED receiver
  PROVE  Mapped
<1>1. Block' = Block
  BY DEF receiver, delivery, Block
<1>2. Tells
  BY DEF SenderStep
<1>3. CASE Told(Sdus)
  <2>1. Sdus' = Sdus
    BY <1>3 DEF Told, Sdus
  <2> QED BY <1>1, <2>1, BlockIs DEF Mapped, Promise!vars, Sdus
<1>4. ASSUME NEW s \in Session, Sdus[s] = "none", Told([Sdus EXCEPT ![s] = "held"])
      PROVE  Mapped
  <2>1. Sdus' = [Sdus EXCEPT ![s] = "held"]
    BY <1>4 DEF Told, Sdus
  <2>2. Promise!Accept(s)
    BY <1>1, <1>4, <2>1 DEF Promise!Accept, Sdus
  <2> QED BY <2>2 DEF Mapped, Promise!Next
<1>5. ASSUME NEW s \in Session, TellsComplete(s) PROVE Mapped
  <2>1. Sdus' = [Sdus EXCEPT ![s] = "complete"]
    BY <1>5 DEF TellsComplete, Told, Sdus
  <2>2. Sdus[s] = "held" /\ ~Over(s)
    BY <1>5 DEF TellsComplete, Sdus, IInv, SenderOK, SdusOK, Over
  <2>3. \A i \in Segment : Shown(s, i)
    BY <1>5 DEF TellsComplete, Claim, Shown
  <2>4. s \in whole
    BY <2>2, <2>3 DEF IInv, EndsAgree, TruthOK
  <2>5. Block[s] # "absent"
    BY <2>4, BlockIs
  <2>6. Promise!Complete(s)
    BY <1>1, <2>1, <2>2, <2>5 DEF Promise!Complete, Sdus
  <2> QED BY <2>6 DEF Mapped, Promise!Next
<1>6. ASSUME NEW S \in SUBSET Session, \A s \in S : Sdus[s] = "held",
             Told([s \in Session |-> IF s \in S THEN "canceled" ELSE Sdus[s]])
      PROVE  Mapped
  <2>1. Sdus' = [s \in Session |-> IF s \in S THEN "canceled" ELSE Sdus[s]]
    BY <1>6 DEF Told, Sdus
  <2>2. Promise!Cancel(S)
    BY <1>1, <1>6, <2>1 DEF Promise!Cancel, Sdus
  <2> QED BY <2>2 DEF Mapped, Promise!Next
<1> QED BY <1>2, <1>3, <1>4, <1>5, <1>6 DEF Tells

LEMMA SettlesMaps ==
  ASSUME IInv, HeldOK, Settles, UNCHANGED sender
  PROVE  Mapped
<1>1. Sdus' = Sdus /\ whole' = whole
  BY DEF sender, Sdus, Settles
<1>2. PICK t \in Session :
       /\ \A s \in Session : s # t => import'[s].state = import[s].state /\ received'[s] = received[s]
       /\ received'[t] # received[t] => import[t].state = "live"
  BY DEF Settles
<1>3. /\ received[t] > 0 => received'[t] > 0
      /\ received'[t] > 0 => received[t] > 0 \/ t \in whole
      /\ import'[t].state = "live" => import[t].state = "live"
      /\ received[t] > 0 => t \in whole
  BY DEF Settles, IInv, EndsAgree, WholeOK
<1>4. \A s \in Session : Block'[s] = IF received'[s] > 0 THEN "delivered"
                                   ELSE IF s \notin whole' THEN "absent"
                                   ELSE IF import'[s].state = "live" THEN "whole" ELSE "dropped"
  BY DEF Block
<1>5. \A s \in Session : s # t => Block'[s] = Block[s]
  BY <1>1, <1>2, <1>4, BlockIs
<1>6. CASE Block'[t] = Block[t]
  <2>1. Block' = Block
    BY <1>5, <1>6, NoBlock
  <2> QED BY <1>1, <2>1, BlockIs DEF Mapped, Promise!vars, Sdus
<1>7. CASE received'[t] > 0 /\ ~(received[t] > 0)
  <2>1. Block[t] = "whole" /\ Block'[t] = "delivered"
    BY <1>2, <1>3, <1>4, <1>7, BlockIs
  <2>2. Block' = [Block EXCEPT ![t] = "delivered"]
    BY <1>5, <2>1, OneBlock
  <2>3. Promise!Deliver(t)
    BY <1>1, <2>1, <2>2 DEF Promise!Deliver, Sdus
  <2> QED BY <2>3 DEF Mapped, Promise!Next
<1>8. CASE ~(received'[t] > 0) /\ Block'[t] # Block[t]
  <2>1. Block[t] = "whole" /\ Block'[t] = "dropped"
    BY <1>1, <1>3, <1>4, <1>8, BlockIs
  <2>2. Block' = [Block EXCEPT ![t] = "dropped"]
    BY <1>5, <2>1, OneBlock
  <2>3. Promise!Drop(t)
    BY <1>1, <2>1, <2>2 DEF Promise!Drop, Sdus
  <2> QED BY <2>3 DEF Mapped, Promise!Next
<1>9. received'[t] > 0 /\ received[t] > 0 => Block'[t] = Block[t]
  BY <1>4, BlockIs
<1> QED BY <1>6, <1>7, <1>8, <1>9

LEMMA AcceptingMaps ==
  ASSUME IInv, NEW s \in Session, NEW R \in SUBSET Segment, AcceptsData(s, R)
  PROVE  Mapped
<1>1. /\ Sdus' = Sdus /\ received' = received
      /\ \A t \in Session : t # s => import'[t] = import[t]
      /\ whole' = IF R = Segment THEN whole \cup {s} ELSE whole
  BY DEF AcceptsData, sender, Sdus
<1>2. /\ s \in whole => import[s].state = "live" /\ R = Segment
      /\ export[s].state = "live" \/ Over(s)
      /\ received[s] > 0 => s \in whole
  BY AcceptsNew DEF IInv, EndsAgree, WholeOK
<1>3. R = Segment => import'[s].state = "live"
  BY DEF AcceptsData
<1>4. \A t \in Session : Block'[t] = IF received'[t] > 0 THEN "delivered"
                                   ELSE IF t \notin whole' THEN "absent"
                                   ELSE IF import'[t].state = "live" THEN "whole" ELSE "dropped"
  BY DEF Block
<1>5. \A t \in Session : t # s => Block'[t] = Block[t]
  BY <1>1, <1>4, BlockIs
<1>6. CASE s \in whole \/ R # Segment
  <2>1. Block'[s] = Block[s]
    BY <1>1, <1>2, <1>3, <1>4, <1>6, BlockIs
  <2>2. Block' = Block
    BY <1>5, <2>1, NoBlock
  <2> QED BY <1>1, <2>2, BlockIs DEF Mapped, Promise!vars, Sdus
<1>7. CASE s \notin whole /\ R = Segment
  <2>1. Block[s] = "absent" /\ Block'[s] = "whole"
    BY <1>1, <1>2, <1>3, <1>4, <1>7, BlockIs
  <2>2. Block' = [Block EXCEPT ![s] = "whole"]
    BY <1>5, <2>1, OneBlock
  <2>3. Sdus[s] # "none"
    BY <1>2 DEF Sdus, Over, IInv, SenderOK, SdusOK
  <2>4. Promise!Receive(s)
    BY <1>1, <2>1, <2>2, <2>3 DEF Promise!Receive, Sdus
  <2> QED BY <2>4 DEF Mapped, Promise!Next
<1> QED BY <1>6, <1>7

LEMMA NextMaps == IInv /\ KeptOK /\ [Next]_vars => Mapped
<1> SUFFICES ASSUME IInv, KeptOK, [Next]_vars PROVE Mapped
  OBVIOUS
<1>1. CASE Client \/ Meter \/ LsoSends \/ StopXmit \/ Clock \/ Lsi
  BY <1>1, SenderMoves, SenderMaps DEF IInv
<1>2. CASE RcvLsoSends \/ RcvClock \/ RcvLsi \/ ForgetImport \/ Deliv
  BY <1>2, ReceiverMoves, SettlesMaps, AcceptingMaps DEF IInv, KeptOK, ReceiverMove
<1>3. CASE UNCHANGED vars
  <2>1. Sdus' = Sdus /\ Block' = Block
    BY <1>3 DEF vars, sender, receiver, delivery, Sdus, Block
  <2> QED BY <2>1 DEF Mapped, Promise!vars, Sdus
<1> QED BY <1>1, <1>2, <1>3, NextCases

LEMMA InitMaps == Init => Promise!Init
<1> SUFFICES ASSUME Init PROVE Promise!Init
  OBVIOUS
<1>1. \A s \in Session : export[s].sdus = "none"
  BY InitIInv DEF Init, NoExport
<1>2. \A s \in Session : received[s] = 0 /\ s \notin whole
  BY DEF Init
<1>3. Block = [s \in Session |-> "absent"]
  BY <1>2 DEF Block
<1> QED BY <1>1, <1>3 DEF Promise!Init

(* What the two ends tell their clients is true: data is reported complete *)
(* only when the other end has the whole block, comes back exactly once,   *)
(* and a block is delivered only if it was received whole and was not      *)
(* dropped before, whatever the medium loses, repeats or holds back.       *)
THEOREM ImplementsLtpBlock == ~Interrupted => (Spec => RefinesLtpBlock)
<1>1. CASE ~Interrupted
  <2>1. Spec => [](IInv /\ KeptOK)
    BY <1>1, SpecKept
  <2>2. IInv /\ KeptOK /\ [Next]_vars => [Promise!Next]_(Promise!vars)
    BY NextMaps DEF Mapped
  <2> QED BY <2>1, <2>2, InitMaps, PTL DEF Spec, RefinesLtpBlock, Promise!Spec
<1> QED BY <1>1
=============================================================================
