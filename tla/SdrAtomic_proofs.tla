--------------------------- MODULE SdrAtomic_proofs ---------------------------
(***************************************************************************)
(* The atomicity of SDR transactions, for every value of the constants that *)
(* keeps the SDR protected: AtomicAtRest is an invariant when transactions *)
(* are reversible, no write to the dataspace file goes wrong unseen, and a *)
(* crash neither takes the log away nor leaves the profile loaded.         *)
(*                                                                         *)
(* The argument: as long as a transaction is open, a word that differs     *)
(* from its committed value is named by an entry of the log, and the first *)
(* entry that names a word holds the word's committed value.  Undoing the  *)
(* entries last to first keeps this true of the entries that remain, so    *)
(* that with none left the contents are the committed ones.                *)
(***************************************************************************)
EXTENDS SdrXn_proofs

(* The configurations that keep transactions atomic.  README.md says what   *)
(* happens without each of these conditions.                               *)
Protected ==
  /\ Reversible
  /\ "writeError" \notin Faults
  /\ CrashKinds \subseteq {"power"}
  /\ CrashKinds # {} => LogInFile \/ ~InFile
  /\ BootTools \subseteq {"ionInitialize"}

-----------------------------------------------------------------------------
(* Logs as data: entry i of a log l is made of its cells 2i-1 and 2i; n is *)
(* a number of entries, c the committed contents, m the contents.          *)

AddrAt(l, i)    == l[2 * i - 1].addr
Logged(l, a, n) == \E i \in 1..n : 2 * i <= Len(l) /\ AddrAt(l, i) = a

LogGood(l, c) ==
  \A i \in 1..Len(l) : 2 * i <= Len(l) =>
    /\ l[2 * i - 1].kind = "ctl" /\ l[2 * i].kind = "data"
    /\ Logged(l, AddrAt(l, i), i - 1) \/ l[2 * i].val = c[AddrAt(l, i)]

Clean(l, c, m, n) == \A a \in Addr : Logged(l, a, n) \/ m[a] = c[a]

(* A word logged among the first n entries is logged among more of them.   *)
LEMMA CleanMonotone ==
  ASSUME NEW l, NEW c, NEW m, NEW n \in Nat, NEW k \in Nat, n <= k, Clean(l, c, m, n)
  PROVE  Clean(l, c, m, k)
BY DEF Clean, Logged

(* With an empty log, or no entry left to undo, the contents are committed. *)
LEMMA CleanNone ==
  ASSUME NEW l, NEW c \in Words, NEW m \in Words, Clean(l, c, m, 0)
  PROVE  m = c
BY DEF Clean, Logged, Words

(* An empty log undoes nothing.                                            *)
LEMMA CleanEmpty ==
  ASSUME NEW c, NEW n \in Nat
  PROVE  LogGood(<<>>, c) /\ Clean(<<>>, c, c, n)
BY EmptySeq DEF LogGood, Clean

(* A word may change once it is logged.                                    *)
LEMMA CleanUpdate ==
  ASSUME NEW l, NEW c, NEW m \in Words, NEW n \in Nat, NEW a, NEW v,
         Clean(l, c, m, n), Logged(l, a, n)
  PROVE  Clean(l, c, [m EXCEPT ![a] = v], n)
BY DEF Clean, Words

(* Undoing the last of n entries leaves a state that n - 1 entries undo.   *)
LEMMA CleanUndo ==
  ASSUME NEW l \in Seq(Cells), NEW c, NEW m \in Words, NEW n \in Nat \ {0},
         2 * n <= Len(l), LogGood(l, c), Clean(l, c, m, n)
  PROVE  Clean(l, c, [m EXCEPT ![EntryAddr(l, 2 * (n - 1))] = EntryData(l, 2 * (n - 1))],
               n - 1)
<1>1. /\ l[2 * n].kind = "data"
      /\ Logged(l, AddrAt(l, n), n - 1) \/ l[2 * n].val = c[AddrAt(l, n)]
  BY DEF LogGood
<1>2. EntryAddr(l, 2 * (n - 1)) = AddrAt(l, n)
  <2>1. 2 * (n - 1) + 1 = 2 * n - 1
    OBVIOUS
  <2> QED BY <2>1 DEF EntryAddr, AddrAt
<1>3. EntryData(l, 2 * (n - 1)) = l[2 * n].val
  <2>1. 2 * (n - 1) + 2 = 2 * n
    OBVIOUS
  <2> QED BY <1>1, <2>1 DEF EntryData
<1> DEFINE a == AddrAt(l, n)
           v == l[2 * n].val
<1>4. ASSUME NEW b \in Addr PROVE Logged(l, b, n - 1) \/ [m EXCEPT ![a] = v][b] = c[b]
  <2>1. CASE b = a
    BY <1>1, <2>1 DEF Words
  <2>2. CASE b # a
    <3>1. Logged(l, b, n) \/ m[b] = c[b]
      BY DEF Clean
    <3>2. Logged(l, b, n) => Logged(l, b, n - 1)
      <4> SUFFICES ASSUME NEW i \in 1..n, 2 * i <= Len(l), AddrAt(l, i) = b
                   PROVE  i \in 1..(n - 1)
        BY DEF Logged
      <4> QED BY <2>2
    <3> QED BY <2>2, <3>1, <3>2 DEF Words
  <2> QED BY <2>1, <2>2
<1> QED BY <1>2, <1>3, <1>4 DEF Clean

(* A control cell alone changes nothing that an entry says.                *)
LEMMA AppendCtl ==
  ASSUME NEW l \in Seq(Cells), NEW c, NEW k \in Nat, Len(l) = 2 * k, LogGood(l, c),
         NEW a, Ctl(a) \in Cells
  PROVE  /\ LogGood(Append(l, Ctl(a)), c)
         /\ \A b, n : Logged(Append(l, Ctl(a)), b, n) <=> Logged(l, b, n)
<1> DEFINE l2 == Append(l, Ctl(a))
<1>1. /\ Len(l2) = Len(l) + 1
      /\ \A i \in 1..Len(l) : l2[i] = l[i]
  OBVIOUS
<1>2. \A i \in Int : 2 * i <= Len(l2) <=> 2 * i <= Len(l)
  BY <1>1
<1> HIDE DEF l2
<1>3. \A i \in Int : 1 <= i /\ 2 * i <= Len(l) => /\ l2[2 * i - 1] = l[2 * i - 1]
                                                 /\ l2[2 * i] = l[2 * i]
  BY <1>1
<1>4. \A b, n : Logged(l2, b, n) <=> Logged(l, b, n)
  BY <1>2, <1>3 DEF Logged, AddrAt
<1>5. LogGood(l2, c)
  <2> SUFFICES ASSUME NEW i \in 1..Len(l2), 2 * i <= Len(l2)
               PROVE  /\ l2[2 * i - 1].kind = "ctl" /\ l2[2 * i].kind = "data"
                      /\ \/ Logged(l2, AddrAt(l2, i), i - 1)
                         \/ l2[2 * i].val = c[AddrAt(l2, i)]
    BY DEF LogGood
  <2>1. 2 * i <= Len(l) /\ i \in 1..Len(l)
    BY <1>1, <1>2
  <2>2. l2[2 * i - 1] = l[2 * i - 1] /\ l2[2 * i] = l[2 * i]
    BY <1>3, <2>1
  <2> QED BY <1>4, <2>1, <2>2 DEF LogGood, AddrAt
<1> QED BY <1>4, <1>5 DEF l2

(* An entry that holds the word's present value, when the word is either   *)
(* logged already or still has its committed value.                        *)
LEMMA AppendData ==
  ASSUME NEW l \in Seq(Cells), NEW c, NEW k \in Nat, Len(l) = 2 * k + 1, LogGood(l, c),
         NEW a, NEW v, l[Len(l)] = Ctl(a), Data(v) \in Cells,
         Logged(l, a, k) \/ v = c[a]
  PROVE  /\ LogGood(Append(l, Data(v)), c)
         /\ \A b, n : Logged(l, b, n) => Logged(Append(l, Data(v)), b, n)
         /\ Logged(Append(l, Data(v)), a, k + 1)
<1> DEFINE l2 == Append(l, Data(v))
<1>1. /\ Len(l2) = Len(l) + 1
      /\ \A i \in 1..Len(l) : l2[i] = l[i]
      /\ l2[Len(l) + 1] = Data(v)
  OBVIOUS
<1> HIDE DEF l2
<1>2. \A i \in Int : 1 <= i /\ 2 * i <= Len(l) => /\ l2[2 * i - 1] = l[2 * i - 1]
                                                 /\ l2[2 * i] = l[2 * i]
  BY <1>1
<1>3. l2[2 * (k + 1) - 1] = Ctl(a) /\ l2[2 * (k + 1)] = Data(v)
  BY <1>1
<1>4. AddrAt(l2, k + 1) = a
  BY <1>3 DEF AddrAt, Ctl
<1>5. \A b, n : Logged(l, b, n) => Logged(l2, b, n)
  BY <1>1, <1>2 DEF Logged, AddrAt
<1>6. Logged(l2, a, k + 1)
  BY <1>1, <1>4 DEF Logged
<1>7. LogGood(l2, c)
  <2> SUFFICES ASSUME NEW i \in 1..Len(l2), 2 * i <= Len(l2)
               PROVE  /\ l2[2 * i - 1].kind = "ctl" /\ l2[2 * i].kind = "data"
                      /\ \/ Logged(l2, AddrAt(l2, i), i - 1)
                         \/ l2[2 * i].val = c[AddrAt(l2, i)]
    BY DEF LogGood
  <2>1. CASE i <= k
    <3>1. 2 * i <= Len(l) /\ i \in 1..Len(l)
      BY <2>1
    <3>2. l2[2 * i - 1] = l[2 * i - 1] /\ l2[2 * i] = l[2 * i]
      BY <1>2, <3>1
    <3> QED BY <1>5, <3>1, <3>2 DEF LogGood, AddrAt
  <2>2. CASE i > k
    <3>1. i = k + 1
      BY <1>1, <2>2
    <3>2. Ctl(a).kind = "ctl" /\ Data(v).kind = "data" /\ Data(v).val = v
      BY DEF Ctl, Data
    <3>3. Logged(l, a, k) => Logged(l2, a, i - 1)
      BY <1>5, <3>1
    <3> QED BY <1>3, <1>4, <3>1, <3>2, <3>3
  <2> QED BY <2>1, <2>2
<1> QED BY <1>5, <1>6, <1>7 DEF l2

-----------------------------------------------------------------------------
(* The inductive invariant.                                                *)

Undoable(n) == /\ InFile => Clean(log, committed, dsfile, n)
               /\ InDram => Clean(log, committed, dssm, n)

(* The list of entries names the first entries of the log.                 *)
ListOK ==
  /\ 2 * Len(logEntries) <= Len(log)
  /\ \A i \in 1..Len(logEntries) : logEntries[i] = 2 * (i - 1)

(* No transaction is open: the log is empty, file and memory agree.        *)
Idle ==
  sdrOwnerTask = NoTask =>
    /\ log = <<>> /\ logEntries = <<>> /\ logLength = 0
    /\ Undoable(0)

(* Where the owner's log stands.                                           *)
LogShape(t) ==
  /\ pc[t] \in {"run", "putCtl", "putFile", "putDram"} => Len(log) = 2 * Len(logEntries)
  /\ pc[t] = "putData" => /\ Len(log) = 2 * Len(logEntries) + 1
                          /\ log[Len(log)] = Ctl(put[t].addr)
  /\ pc[t] \in PutStates \cup {"run"} =>
       logLength = Len(log) /\ logfd[t] \in {AtEnd, Len(log)}
  /\ pc[t] \in {"putFile", "putDram"} => Logged(log, put[t].addr, Len(logEntries))

(* What undoing the owner's entries would give.                            *)
OwnerUndoable(t) ==
  /\ pc[t] # "reverse" => Undoable(Len(logEntries))
  /\ pc[t] = "reverse" => Undoable(rev)

(* File and memory are equal but between the two writes of one word, and   *)
(* once a failed write has cancelled the transaction.                      *)
Mirror(t) ==
  InFile /\ InDram =>
    /\ pc[t] \in {"run", "putCtl", "putData", "putFile"} => dsfile = dssm
    /\ pc[t] = "term" /\ ~xnCanceled => dsfile = dssm
    /\ pc[t] = "putDram" => dsfile = [dssm EXCEPT ![put[t].addr] = put[t].val]

(* While the node is up.                                                   *)
UpOK ==
  phase = "up" =>
    /\ LogGood(log, committed) /\ ListOK /\ Idle
    /\ \A t \in Task : InXn(t) => LogShape(t) /\ OwnerUndoable(t) /\ Mirror(t)

(* What a task that opens a transaction starts from.                       *)
ViewsOK ==
  \A t \in Task : /\ ~InXn(t) \/ phase # "up" => logfd[t] \in {AtEnd, 0}
                  /\ ~LogInFile => logfd[t] = AtEnd

(* The dataspace file can be recovered from the log file at any time.      *)
FileOK == InFile => Clean(log, committed, dsfile, Len(log))

(* While it is not.                                                        *)
DownOK ==
  phase # "up" =>
    /\ CrashKinds # {}
    /\ LogInFile \/ ~InFile
    /\ InFile => LogGood(log, committed)
    /\ phase = "down" => ~loaded
    /\ phase \in Tools =>
         /\ phase = "ionInitialize"
         /\ InFile => ListOK /\ Clean(log, committed, dsfile, rev)
    /\ phase = "ionInit" => Undoable(0)

AInv == UpOK /\ ViewsOK /\ FileOK /\ DownOK

-----------------------------------------------------------------------------
(* Common parts of several steps.                                          *)

(* What the owner's undo log covers, the whole log covers.                 *)
LEMMA FileFromOwner ==
  ASSUME IInv, NEW n \in Nat, 2 * n <= Len(log), Undoable(n)
  PROVE  FileOK
<1>1. Len(log) \in Nat /\ n <= Len(log)
  BY DEF IInv, TypeOK, DataTypeOK
<1> QED BY <1>1, CleanMonotone DEF FileOK, Undoable

(* crashXn by the owner.                                                   *)
LEMMA CrashXnAtomic ==
  ASSUME IInv, IInv', AInv, NEW t \in Task, CrashXn(t), phase = "up", InXn(t),
         UNCHANGED <<node, sdrOwnerTask>>,
         \A u \in Task : u # t => logfd'[u] = logfd[u],
         ~LogInFile => logfd'[t] = logfd[t],
         LogGood(log, committed)', ListOK', Undoable(Len(logEntries))'
  PROVE  AInv'
<1>1. /\ pc'[t] = "term" /\ xnCanceled' /\ phase' = "up" /\ sdrOwnerTask' = t
      /\ sdrOwnerTask' # NoTask
  BY SdrAssumption DEF CrashXn, node, InXn, IInv, TypeOK, TaskTypeOK
<1>2. LogShape(t)' /\ OwnerUndoable(t)' /\ Mirror(t)'
  BY <1>1 DEF LogShape, OwnerUndoable, Mirror, PutStates, Stopped
<1>3. UpOK'
  BY <1>1, <1>2 DEF UpOK, Idle, InXn
<1>4. ViewsOK'
  BY <1>1 DEF AInv, ViewsOK, InXn
<1>5. FileOK'
  <2>1. Len(logEntries') \in Nat /\ Len(log') \in Nat
    BY DEF IInv, TypeOK, DataTypeOK
  <2>2. Len(logEntries') <= Len(log')
    BY <2>1 DEF ListOK
  <2> QED BY <2>1, <2>2, CleanMonotone DEF FileOK, Undoable
<1>6. DownOK'
  BY <1>1 DEF DownOK
<1> QED BY <1>3, <1>4, <1>5, <1>6 DEF AInv

(* The log dropped and the mutex released, with committed contents.        *)
LEMMA ClearAtomic ==
  ASSUME Protected, IInv, AInv, NEW t \in Task, ClearTransaction(t), UnlockSdr,
         phase = "up", InXn(t), UNCHANGED node,
         InFile => dsfile' = committed', InDram => dssm' = committed'
  PROVE  AInv'
<1>1. /\ phase' = "up" /\ sdrOwnerTask' = NoTask /\ log' = <<>> /\ logEntries' = <<>>
      /\ logLength' = 0 /\ \A u \in Task : ~InXn(u)'
  BY SdrAssumption DEF ClearTransaction, UnlockSdr, node, InXn
<1>2. LogGood(log, committed)' /\ Undoable(0)'
  BY <1>1, CleanEmpty DEF Undoable
<1>3. Len(log') = 0 /\ Len(logEntries') = 0
  BY <1>1, EmptySeq
<1>4. UpOK'
  BY <1>1, <1>2, <1>3 DEF UpOK, ListOK, Idle
<1>5. ViewsOK'
  BY <1>1 DEF AInv, ViewsOK, ClearTransaction, Protected, InXn, AtEnd, IInv, TypeOK,
              TaskTypeOK
<1>6. FileOK'
  BY <1>2, <1>3 DEF FileOK, Undoable
<1>7. DownOK'
  BY <1>1 DEF DownOK
<1> QED BY <1>4, <1>5, <1>6, <1>7 DEF AInv

(* A step of the owner that leaves the log and the dataspace alone.        *)
LEMMA OwnerAtomic ==
  ASSUME IInv, AInv, NEW t \in Task, phase = "up", InXn(t),
         UNCHANGED <<node, sdrOwnerTask, logLength, logEntries, log, dsfile, dssm, logfd,
                     committed>>,
         LogShape(t)', OwnerUndoable(t)', Mirror(t)'
  PROVE  AInv'
<1>1. phase' = "up" /\ sdrOwnerTask' = t /\ t # NoTask
  BY SdrAssumption DEF node, InXn
<1>2. UpOK'
  BY <1>1 DEF AInv, UpOK, ListOK, Idle, InXn
<1>3. ViewsOK' /\ FileOK' /\ DownOK'
  BY <1>1 DEF AInv, ViewsOK, FileOK, DownOK, InXn
<1> QED BY <1>2, <1>3 DEF AInv

(* A step of another task that leaves all of it alone.                     *)
LEMMA OtherAtomic ==
  ASSUME IInv, AInv, NEW t \in Task, phase = "up", ~InXn(t),
         UNCHANGED <<node, sdrOwnerTask, xnCanceled, logLength, logEntries, log, dsfile,
                     dssm, rev, put, committed>>,
         \A u \in Task : u # t => pc'[u] = pc[u] /\ logfd'[u] = logfd[u],
         logfd'[t] \in {AtEnd, logfd[t]}
  PROVE  AInv'
<1>1. phase' = "up" /\ sdrOwnerTask' = sdrOwnerTask
  BY DEF node
<1>2. ASSUME NEW u \in Task, InXn(u)' PROVE LogShape(u)' /\ OwnerUndoable(u)' /\ Mirror(u)'
  <2>1. InXn(u) /\ u # t
    BY <1>1, <1>2 DEF InXn
  <2>2. LogShape(u) /\ OwnerUndoable(u) /\ Mirror(u)
    BY <2>1 DEF AInv, UpOK
  <2>3. pc'[u] = pc[u] /\ logfd'[u] = logfd[u]
    BY <2>1
  <2>4. LogShape(u)'
    BY <2>2, <2>3 DEF LogShape
  <2>5. OwnerUndoable(u)'
    BY <2>2, <2>3 DEF OwnerUndoable, Undoable
  <2>6. Mirror(u)'
    BY <2>2, <2>3 DEF Mirror
  <2> QED BY <2>4, <2>5, <2>6
<1>3. UpOK'
  BY <1>1, <1>2 DEF AInv, UpOK, ListOK, Idle, Undoable
<1>4. ViewsOK' /\ FileOK' /\ DownOK'
  BY <1>1 DEF AInv, ViewsOK, FileOK, DownOK, InXn
<1> QED BY <1>3, <1>4 DEF AInv

-----------------------------------------------------------------------------
(* Every action preserves the invariant.                                   *)

(* Taking the lock, first or nested, preserves AInv.                       *)
LEMMA SdrBeginXnAtomic ==
  ASSUME IInv, AInv, NEW t \in Task, SdrBeginXn(t)
  PROVE  AInv'
<1>1. /\ phase = "up" /\ pc[t] = "run"
      /\ UNCHANGED <<node, logLength, logEntries, log, dsfile, dssm, logfd, pc, put, rev,
                     committed, xnCanceled>>
  BY DEF SdrBeginXn, Running
<1>2. CASE InXn(t)
  <2>1. UNCHANGED sdrOwnerTask
    BY <1>2 DEF SdrBeginXn, TakeSdr
  <2>2. LogShape(t)' /\ OwnerUndoable(t)' /\ Mirror(t)'
    BY <1>1, <1>2 DEF AInv, UpOK, LogShape, OwnerUndoable, Mirror, Undoable
  <2> QED BY <1>1, <1>2, <2>1, <2>2, OwnerAtomic
<1>3. CASE ~InXn(t)
  <2>1. sdrOwnerTask = NoTask /\ sdrOwnerTask' = t /\ phase' = "up"
    BY <1>1, <1>3 DEF SdrBeginXn, TakeSdr, IInv, OwnerOK, node
  <2>2. /\ log = <<>> /\ logEntries = <<>> /\ logLength = 0 /\ Undoable(0)
        /\ Len(log) = 0 /\ Len(logEntries) = 0
    BY <1>1, <2>1, EmptySeq DEF AInv, UpOK, Idle
  <2>3. LogShape(t)'
    BY <1>1, <1>3, <2>2 DEF LogShape, AInv, ViewsOK, PutStates
  <2>4. OwnerUndoable(t)'
    BY <1>1, <2>2 DEF OwnerUndoable, Undoable, Stopped
  <2>5. Mirror(t)'
    <3>1. InFile /\ InDram => dsfile = dssm
      BY <2>2, CleanNone DEF Undoable, IInv, TypeOK, DataTypeOK
    <3> QED BY <1>1, <3>1 DEF Mirror
  <2>6. UpOK'
    BY SdrAssumption, <1>1, <2>1, <2>3, <2>4, <2>5 DEF AInv, UpOK, ListOK, Idle, InXn
  <2>7. ViewsOK'
    BY SdrAssumption, <1>1, <2>1 DEF AInv, ViewsOK, InXn
  <2>8. FileOK' /\ DownOK'
    BY <1>1, <2>1 DEF AInv, FileOK, DownOK
  <2> QED BY <2>6, <2>7, <2>8 DEF AInv
<1> QED BY <1>2, <1>3

(* sdr_end_xn, as owner or not, preserves AInv.                            *)
LEMMA SdrEndXnAtomic ==
  ASSUME IInv, AInv, NEW t \in Task, SdrEndXn(t) \/ SdrCancelXn(t)
  PROVE  AInv'
<1>1. /\ phase = "up" /\ pc[t] = "run"
      /\ UNCHANGED <<node, sdrOwnerTask, logLength, logEntries, log, dsfile, dssm, logfd,
                     put, rev, committed>>
      /\ xnCanceled' = xnCanceled \/ InXn(t)
      /\ pc' = pc \/ (InXn(t) /\ pc' = [pc EXCEPT ![t] = "term"])
  BY DEF SdrEndXn, SdrCancelXn, CloseLevel, Running
<1>2. CASE InXn(t)
  <2>1. pc'[t] \in {"run", "term"}
    BY <1>1 DEF IInv, TypeOK, TaskTypeOK
  <2>2. LogShape(t) /\ OwnerUndoable(t) /\ Mirror(t)
    BY <1>1, <1>2 DEF AInv, UpOK
  <2>3. LogShape(t)' /\ OwnerUndoable(t)' /\ Mirror(t)'
    BY <1>1, <2>1, <2>2 DEF LogShape, OwnerUndoable, Mirror, Undoable, PutStates, Stopped
  <2> QED BY <1>1, <1>2, <2>3, OwnerAtomic
<1>3. CASE ~InXn(t)
  BY <1>1, <1>3, OtherAtomic
<1> QED BY <1>2, <1>3

(* sdr_exit_xn preserves AInv.                                             *)
LEMMA SdrExitXnAtomic ==
  ASSUME Protected, IInv, AInv, NEW t \in Task, SdrExitXn(t)
  PROVE  AInv'
<1>1. /\ phase = "up" /\ pc[t] = "run" /\ InXn(t)
      /\ UNCHANGED <<node, dsfile, dssm, put, rev, xnCanceled>>
  BY DEF SdrExitXn, CloseLevel, Running
<1>2. LogShape(t) /\ OwnerUndoable(t) /\ Mirror(t)
  BY <1>1 DEF AInv, UpOK
<1>3. CASE /\ UNCHANGED <<semFree, sdrOwnerTask, logLength, logEntries, log, logfd,
                          committed>>
           /\ pc' = pc \/ pc' = [pc EXCEPT ![t] = "dead"]
  <2>1. pc'[t] \in {"run", "dead"}
    BY <1>1, <1>3 DEF IInv, TypeOK, TaskTypeOK
  <2>2. LogShape(t)' /\ OwnerUndoable(t)' /\ Mirror(t)'
    BY <1>1, <1>2, <1>3, <2>1
       DEF LogShape, OwnerUndoable, Mirror, Undoable, PutStates, Stopped
  <2> QED BY <1>1, <1>3, <2>2, OwnerAtomic
<1>4. CASE ClearTransaction(t) /\ UnlockSdr /\ committed' = Heap
  <2>1. (InFile => dsfile' = committed') /\ (InDram => dssm' = committed')
    BY <1>1, <1>2, <1>4 DEF Mirror, Heap
  <2> QED BY <1>1, <1>4, <2>1, ClearAtomic
<1> QED BY <1>3, <1>4 DEF SdrExitXn

(* Steps that touch neither data nor log preserve the invariant.           *)
LEMMA IdleTaskAtomic ==
  ASSUME IInv, AInv, NEW t \in Task, CloseAfterCrash(t) \/ SdrStopUsing(t)
  PROVE  AInv'
<1>1. /\ phase = "up" /\ ~InXn(t)
      /\ UNCHANGED <<node, sdrOwnerTask, xnCanceled, logLength, logEntries, log, dsfile,
                     dssm, rev, put, committed, pc>>
      /\ logfd' = logfd \/ logfd' = [logfd EXCEPT ![t] = AtEnd]
  BY DEF CloseAfterCrash, CloseLevel, SdrStopUsing, Running, sdrState, IInv, OwnerOK,
         PutStates
<1>2. /\ \A u \in Task : u # t => pc'[u] = pc[u] /\ logfd'[u] = logfd[u]
      /\ logfd'[t] \in {AtEnd, logfd[t]}
  BY <1>1 DEF IInv, TypeOK, TaskTypeOK
<1> QED BY <1>1, <1>2, OtherAtomic

(* The start of a write preserves AInv.                                    *)
LEMMA SdrWriteAtomic ==
  ASSUME Protected, IInv, AInv, NEW t \in Task, SdrWrite(t)
  PROVE  AInv'
<1>1. /\ phase = "up" /\ pc[t] = "run" /\ InXn(t) /\ pc'[t] = "putCtl"
      /\ UNCHANGED <<node, sdrOwnerTask, logLength, logEntries, log, dsfile, dssm, logfd,
                     committed>>
  BY DEF SdrWrite, Running, sdrState, views, Protected, IInv, TypeOK, TaskTypeOK
<1>2. LogShape(t) /\ OwnerUndoable(t) /\ Mirror(t)
  BY <1>1 DEF AInv, UpOK
<1>3. LogShape(t)' /\ OwnerUndoable(t)' /\ Mirror(t)'
  BY <1>1, <1>2 DEF LogShape, OwnerUndoable, Mirror, Undoable, PutStates, Stopped
<1> QED BY <1>1, <1>3, OwnerAtomic

(* An access out of bounds preserves AInv.                                 *)
LEMMA BadAccessAtomic ==
  ASSUME IInv, IInv', AInv, NEW t \in Task, BadAccess(t)
  PROVE  AInv'
<1>1. /\ phase = "up" /\ InXn(t) /\ CrashXn(t) /\ pc[t] = "run"
      /\ UNCHANGED <<node, sdrOwnerTask, logfd, log, logEntries, dsfile, dssm, committed>>
  BY DEF BadAccess, Running, views
<1>2. LogGood(log, committed) /\ ListOK /\ Undoable(Len(logEntries))
  BY <1>1 DEF AInv, UpOK, OwnerUndoable, Stopped
<1>3. LogGood(log, committed)' /\ ListOK' /\ Undoable(Len(logEntries))'
  BY <1>1, <1>2 DEF ListOK, Undoable
<1> QED BY <1>1, <1>3, CrashXnAtomic

(* In an ordinary state of the log, a cell is written at its end.          *)
LEMMA WriteAtEnd ==
  ASSUME IInv, AInv, NEW t \in Task, NEW cell, WriteToLog(t, cell),
         logLength = Len(log), logfd[t] \in {AtEnd, Len(log)}
  PROVE  /\ log' = Append(log, cell) /\ logLength' = Len(log) + 1
         /\ logfd'[t] \in {AtEnd, Len(log) + 1}
         /\ \A u \in Task : u # t => logfd'[u] = logfd[u]
         /\ ~LogInFile => logfd' = logfd
<1>1. Len(log) \in Nat
  BY DEF IInv, TypeOK, DataTypeOK
<1>2. log' = Append(log, cell)
  BY <1>1 DEF WriteToLog, AtEnd
<1>3. logfd'[t] \in {AtEnd, Len(log) + 1}
  <2>1. ~LogInFile => logfd[t] = AtEnd
    BY DEF AInv, ViewsOK
  <2> QED BY <1>1, <2>1 DEF WriteToLog, IInv, TypeOK, TaskTypeOK
<1> QED BY <1>2, <1>3 DEF WriteToLog, IInv, TypeOK, TaskTypeOK

(* Logging a control cell, or failing to, preserves AInv.                  *)
LEMMA PutCtlAtomic ==
  ASSUME Protected, IInv, IInv', AInv, NEW t \in Task, PutCtl(t)
  PROVE  AInv'
<1> DEFINE k == Len(logEntries)
           a == put[t].addr
<1>1. /\ phase = "up" /\ pc[t] = "putCtl" /\ InXn(t)
      /\ UNCHANGED <<node, sdrOwnerTask, logEntries, dsfile, dssm, rev, committed>>
      /\ phase' = "up" /\ sdrOwnerTask' = t
  BY DEF PutCtl, IInv, OwnerOK, node, InXn
<1>2. /\ LogShape(t) /\ OwnerUndoable(t) /\ Mirror(t)
      /\ LogGood(log, committed) /\ ListOK
  BY <1>1 DEF AInv, UpOK
<1>3. /\ k \in Nat /\ Len(log) = 2 * k /\ Undoable(k)
      /\ logLength = Len(log) /\ logfd[t] \in {AtEnd, Len(log)}
      /\ log \in Seq(Cells) /\ Ctl(a) \in Cells
  BY <1>1, <1>2 DEF LogShape, OwnerUndoable, PutStates, Stopped, IInv, TypeOK,
                    DataTypeOK, PutOK, Cells
<1>4. CASE WriteToLog(t, Ctl(a)) /\ pc' = [pc EXCEPT ![t] = "putData"]
           /\ UNCHANGED <<xnDepth, xnCanceled, put, verdict>>
  <2>1. /\ log' = Append(log, Ctl(a)) /\ logLength' = Len(log) + 1
        /\ logfd'[t] \in {AtEnd, Len(log) + 1}
        /\ \A u \in Task : u # t => logfd'[u] = logfd[u]
        /\ ~LogInFile => logfd' = logfd
    BY <1>3, <1>4, WriteAtEnd
  <2>2. /\ LogGood(log', committed)
        /\ \A b, n : Logged(log', b, n) <=> Logged(log, b, n)
    BY <1>2, <1>3, <2>1, AppendCtl
  <2>3. /\ Len(log') = Len(log) + 1 /\ log'[Len(log')] = Ctl(a)
        /\ pc'[t] = "putData"
    BY <1>3, <1>4, <2>1 DEF IInv, TypeOK, TaskTypeOK
  <2>4. LogShape(t)'
    BY <1>1, <1>3, <1>4, <2>1, <2>3 DEF LogShape
  <2>5. Undoable(k)' /\ OwnerUndoable(t)'
    BY <1>1, <1>3, <2>2, <2>3 DEF OwnerUndoable, Undoable, Clean, Stopped
  <2>6. Mirror(t)'
    BY <1>1, <1>2, <2>3 DEF Mirror
  <2>7. ListOK'
    BY <1>1, <1>2, <1>3, <2>3 DEF ListOK
  <2>8. UpOK'
    BY SdrAssumption, <1>1, <2>2, <2>4, <2>5, <2>6, <2>7 DEF UpOK, Idle, InXn
  <2>9. FileOK'
    BY <1>1, <1>3, <2>5, <2>3, FileFromOwner DEF FileOK, Undoable, Clean, Logged
  <2>10. ViewsOK' /\ DownOK'
    BY <1>1, <2>1 DEF AInv, ViewsOK, DownOK, InXn
  <2> QED BY <2>8, <2>9, <2>10 DEF AInv
<1>5. CASE CrashXn(t) /\ UNCHANGED <<log, logLength, logfd>>
  <2>1. LogGood(log, committed)' /\ ListOK' /\ Undoable(Len(logEntries))'
    BY <1>1, <1>2, <1>3, <1>5 DEF ListOK, Undoable
  <2> QED BY <1>1, <1>5, <2>1, CrashXnAtomic
<1> QED BY <1>4, <1>5 DEF PutCtl

(* Logging the old data, or failing to, preserves AInv.                    *)
LEMMA PutDataAtomic ==
  ASSUME Protected, IInv, IInv', AInv, NEW t \in Task, PutData(t)
  PROVE  AInv'
<1> DEFINE a == put[t].addr
           v == Heap[a]
<1>0. PICK k \in Nat : k = Len(logEntries)
  BY DEF IInv, TypeOK, DataTypeOK
<1>1. /\ phase = "up" /\ pc[t] = "putData" /\ InXn(t)
      /\ UNCHANGED <<node, sdrOwnerTask, dsfile, dssm, rev, committed>>
      /\ phase' = "up" /\ sdrOwnerTask' = t
  BY DEF PutData, IInv, OwnerOK, node, InXn
<1>2. /\ LogShape(t) /\ OwnerUndoable(t) /\ Mirror(t)
      /\ LogGood(log, committed) /\ ListOK
  BY <1>1 DEF AInv, UpOK
<1>3. /\ Len(log) = 2 * k + 1 /\ Undoable(k) /\ log[Len(log)] = Ctl(a)
      /\ logLength = Len(log) /\ logfd[t] \in {AtEnd, Len(log)}
      /\ log \in Seq(Cells) /\ a \in Addr /\ logEntries \in Seq(Int)
  <2>1. log \in Seq(Cells) /\ logEntries \in Seq(Int)
    BY DEF IInv, TypeOK, DataTypeOK
  <2>2. a \in Addr
    BY <1>1 DEF IInv, PutOK, PutStates
  <2> QED BY <1>0, <1>1, <1>2, <2>1, <2>2 DEF LogShape, OwnerUndoable, PutStates, Stopped
<1>4. Data(v) \in Cells
  BY <1>3 DEF Heap, IInv, TypeOK, DataTypeOK, Words, Cells
<1>5. Logged(log, a, k) \/ v = committed[a]
  BY SdrAssumption, <1>3 DEF Undoable, Clean, Heap
<1> HIDE DEF a, v
<1>6. ASSUME WriteToLog(t, Data(v))
      PROVE  /\ log' = Append(log, Data(v)) /\ logLength' = Len(log) + 1
             /\ Len(log') = 2 * (k + 1)
             /\ logfd'[t] \in {AtEnd, Len(log) + 1}
             /\ \A u \in Task : u # t => logfd'[u] = logfd[u]
             /\ ~LogInFile => logfd' = logfd
             /\ LogGood(log', committed)
             /\ \A b, n : Logged(log, b, n) => Logged(log', b, n)
             /\ Logged(log', a, k + 1)
  <2>1. /\ log' = Append(log, Data(v)) /\ logLength' = Len(log) + 1
        /\ logfd'[t] \in {AtEnd, Len(log) + 1}
        /\ \A u \in Task : u # t => logfd'[u] = logfd[u]
        /\ ~LogInFile => logfd' = logfd
    BY <1>3, <1>6, WriteAtEnd
  <2>2. /\ LogGood(log', committed)
        /\ \A b, n : Logged(log, b, n) => Logged(log', b, n)
        /\ Logged(log', a, k + 1)
    BY <1>2, <1>3, <1>4, <1>5, <2>1, AppendData
  <2>3. Len(log') = 2 * (k + 1)
    BY <1>3, <2>1
  <2> QED BY <2>1, <2>2, <2>3
<1>7. CASE /\ WriteToLog(t, Data(v)) /\ logEntries' = Append(logEntries, logLength - 1)
           /\ pc' = [pc EXCEPT ![t] = PutDataspace]
           /\ UNCHANGED <<xnDepth, xnCanceled, put, verdict>>
  <2>1. /\ Len(logEntries') = k + 1 /\ logEntries'[k + 1] = 2 * k
        /\ \A i \in 1..k : logEntries'[i] = logEntries[i]
    BY <1>0, <1>3, <1>7 DEF IInv, TypeOK, DataTypeOK
  <2>2. pc'[t] = PutDataspace /\ PutDataspace \in {"putFile", "putDram"}
    BY <1>7 DEF PutDataspace, IInv, TypeOK, TaskTypeOK
  <2>3. LogShape(t)'
    <3>1. /\ Len(log') = 2 * Len(logEntries')
          /\ logLength' = Len(log') /\ logfd'[t] \in {AtEnd, Len(log')}
      <4>1. /\ logLength' = Len(log) + 1 /\ Len(log') = 2 * (k + 1)
            /\ logfd'[t] \in {AtEnd, Len(log) + 1}
        BY <1>6, <1>7
      <4>2. Len(log) + 1 = 2 * (k + 1)
        BY <1>3
      <4> QED BY <2>1, <4>1, <4>2
    <3>2. Logged(log', put'[t].addr, Len(logEntries'))
      BY <1>6, <1>7, <2>1 DEF a
    <3>3. pc'[t] \in {"putFile", "putDram"}
      BY <2>2
    <3> QED BY <3>1, <3>2, <3>3 DEF LogShape
  <2>5. Undoable(k + 1)'
    <3>1. \A b : Logged(log, b, k) => Logged(log', b, k + 1)
      <4>1. \A b : Logged(log', b, k) => Logged(log', b, k + 1)
        BY <1>3 DEF Logged
      <4> QED BY <1>6, <1>7, <4>1
    <3> QED BY <1>1, <1>3, <3>1 DEF Undoable, Clean
  <2>6. OwnerUndoable(t)'
    BY <2>1, <2>2, <2>5 DEF OwnerUndoable, Stopped
  <2>7. Mirror(t)'
    BY <1>1, <1>2, <2>2 DEF Mirror, PutDataspace
  <2>8. ListOK'
    <3>1. 2 * Len(logEntries') <= Len(log')
      BY <1>6, <1>7, <2>1
    <3>2. ASSUME NEW i \in 1..(k + 1) PROVE logEntries'[i] = 2 * (i - 1)
      <4>1. CASE i \in 1..k
        BY <1>0, <1>2, <2>1, <4>1 DEF ListOK
      <4>2. CASE i = k + 1
        BY <2>1, <4>2
      <4> QED BY <4>1, <4>2
    <3> QED BY <2>1, <3>1, <3>2 DEF ListOK
  <2>9. UpOK'
    BY SdrAssumption, <1>1, <1>6, <1>7, <2>3, <2>6, <2>7, <2>8 DEF UpOK, Idle, InXn
  <2>10. FileOK'
    <3>1. k + 1 <= Len(log') /\ k + 1 \in Nat /\ Len(log') \in Nat
      BY <1>3, <1>6, <1>7
    <3> QED BY <2>5, <3>1, CleanMonotone DEF FileOK, Undoable
  <2>11. ViewsOK' /\ DownOK'
    BY <1>1, <1>6, <1>7 DEF AInv, ViewsOK, DownOK, InXn
  <2> QED BY <2>9, <2>10, <2>11 DEF AInv
<1>8. CASE /\ CrashXn(t) /\ UNCHANGED logEntries
           /\ \/ UNCHANGED <<log, logLength, logfd>>
              \/ WriteToLog(t, Data(v))
  <2>1. /\ LogGood(log', committed)
        /\ \A b, n : Logged(log, b, n) => Logged(log', b, n)
        /\ \A u \in Task : u # t => logfd'[u] = logfd[u]
        /\ ~LogInFile => logfd' = logfd
        /\ 2 * k <= Len(log')
    BY <1>0, <1>2, <1>3, <1>6, <1>8
  <2>2. LogGood(log, committed)' /\ ListOK' /\ Undoable(Len(logEntries))'
    BY <1>0, <1>1, <1>2, <1>3, <1>8, <2>1 DEF ListOK, Undoable, Clean
  <2> QED BY <1>1, <1>8, <2>1, <2>2, CrashXnAtomic
<1> QED BY <1>7, <1>8 DEF PutData, v, a

(* The write to the file, whole, short or failed, preserves AInv.          *)
LEMMA PutFileAtomic ==
  ASSUME Protected, IInv, IInv', AInv, NEW t \in Task, PutFile(t)
  PROVE  AInv'
<1> DEFINE a == put[t].addr
<1>0. PICK k \in Nat : k = Len(logEntries)
  BY DEF IInv, TypeOK, DataTypeOK
<1>1. /\ phase = "up" /\ pc[t] = "putFile" /\ InXn(t)
      /\ UNCHANGED <<node, sdrOwnerTask, logLength, logEntries, log, dssm, logfd, rev,
                     committed>>
      /\ phase' = "up" /\ sdrOwnerTask' = t
  BY DEF PutFile, IInv, OwnerOK, node, InXn
<1>2. /\ LogShape(t) /\ OwnerUndoable(t) /\ Mirror(t)
      /\ LogGood(log, committed) /\ ListOK
  BY <1>1 DEF AInv, UpOK
<1>3. /\ Len(log) = 2 * k /\ Undoable(k) /\ Logged(log, a, k)
      /\ logLength = Len(log) /\ logfd[t] \in {AtEnd, Len(log)}
      /\ dsfile \in Words /\ Len(log) \in Nat
  BY <1>0, <1>1, <1>2 DEF LogShape, OwnerUndoable, PutStates, Stopped, IInv, TypeOK,
                          DataTypeOK
<1>4. PICK v : dsfile' = [dsfile EXCEPT ![a] = v]
  BY DEF PutFile, Protected
<1>5. Undoable(k)' /\ FileOK' /\ ListOK' /\ LogGood(log, committed)'
  <2>1. Undoable(k)'
    BY <1>1, <1>3, <1>4, CleanUpdate DEF Undoable
  <2>2. FileOK'
    BY <1>1, <1>3, <2>1, CleanMonotone DEF FileOK, Undoable
  <2> QED BY <1>1, <1>2, <2>1, <2>2 DEF ListOK
<1> HIDE DEF a
<1>6. CASE /\ dsfile' = [dsfile EXCEPT ![put[t].addr] = put[t].val]
           /\ \/ InDram /\ pc' = [pc EXCEPT ![t] = "putDram"] /\ UNCHANGED put
              \/ ~InDram /\ pc' = [pc EXCEPT ![t] = "run"]
           /\ UNCHANGED xnCanceled
  <2>1. pc'[t] = IF InDram THEN "putDram" ELSE "run"
    BY <1>6 DEF IInv, TypeOK, TaskTypeOK
  <2>2. LogShape(t)'
    BY <1>0, <1>1, <1>3, <1>6, <2>1 DEF LogShape, PutStates, a
  <2>3. OwnerUndoable(t)'
    BY <1>0, <1>1, <1>5, <2>1 DEF OwnerUndoable
  <2>4. Mirror(t)'
    <3>1. InFile /\ InDram => dsfile = dssm
      BY <1>1, <1>2 DEF Mirror
    <3> QED BY <1>1, <1>6, <2>1, <3>1 DEF Mirror
  <2>5. UpOK'
    BY SdrAssumption, <1>1, <1>5, <2>2, <2>3, <2>4 DEF UpOK, Idle, InXn
  <2>6. ViewsOK' /\ DownOK'
    BY <1>1 DEF AInv, ViewsOK, DownOK, InXn
  <2> QED BY <1>5, <2>5, <2>6 DEF AInv
<1>7. CASE CrashXn(t)
  <2>1. Undoable(Len(logEntries))'
    BY <1>0, <1>1, <1>5
  <2> QED BY <1>1, <1>5, <1>7, <2>1, CrashXnAtomic
<1>8. CrashXn(t) \/ (/\ dsfile' = [dsfile EXCEPT ![put[t].addr] = put[t].val]
                     /\ \/ InDram /\ pc' = [pc EXCEPT ![t] = "putDram"] /\ UNCHANGED put
                        \/ ~InDram /\ pc' = [pc EXCEPT ![t] = "run"]
                     /\ UNCHANGED xnCanceled)
  BY DEF PutFile, Protected, Written
<1> QED BY <1>6, <1>7, <1>8

(* The write to the memory copy preserves AInv.                            *)
LEMMA PutDramAtomic ==
  ASSUME IInv, AInv, NEW t \in Task, PutDram(t)
  PROVE  AInv'
<1> DEFINE a == put[t].addr
<1>0. PICK k \in Nat : k = Len(logEntries)
  BY DEF IInv, TypeOK, DataTypeOK
<1>1. /\ phase = "up" /\ pc[t] = "putDram" /\ InXn(t)
      /\ UNCHANGED <<node, sdrOwnerTask, xnCanceled, logLength, logEntries, log, dsfile,
                     logfd, rev, committed>>
      /\ phase' = "up" /\ sdrOwnerTask' = t
      /\ dssm' = [dssm EXCEPT ![a] = put[t].val]
  BY DEF PutDram, sdrState, IInv, OwnerOK, node, InXn
<1>2. /\ LogShape(t) /\ OwnerUndoable(t) /\ Mirror(t)
      /\ LogGood(log, committed) /\ ListOK
  BY <1>1 DEF AInv, UpOK
<1>3. /\ Len(log) = 2 * k /\ Undoable(k) /\ Logged(log, a, k)
      /\ logLength = Len(log) /\ logfd[t] \in {AtEnd, Len(log)}
      /\ dssm \in Words
  BY <1>0, <1>1, <1>2 DEF LogShape, OwnerUndoable, PutStates, Stopped, IInv, TypeOK,
                          DataTypeOK
<1>4. Undoable(k)'
  BY <1>1, <1>3, CleanUpdate DEF Undoable
<1>5. pc'[t] = "run"
  BY DEF PutDram, Written, IInv, TypeOK, TaskTypeOK
<1>6. Mirror(t)'
  BY <1>1, <1>2, <1>5 DEF Mirror
<1> HIDE DEF a
<1>7. LogShape(t)' /\ OwnerUndoable(t)'
  BY <1>0, <1>1, <1>3, <1>4, <1>5 DEF LogShape, OwnerUndoable
<1>8. UpOK'
  BY SdrAssumption, <1>1, <1>2, <1>6, <1>7 DEF UpOK, ListOK, Idle, InXn
<1>9. ViewsOK' /\ FileOK' /\ DownOK'
  BY <1>1 DEF AInv, ViewsOK, FileOK, DownOK, InXn
<1> QED BY <1>8, <1>9 DEF AInv

(* The decision to commit, reverse or abort preserves AInv.                *)
LEMMA TerminateXnAtomic ==
  ASSUME Protected, IInv, AInv, NEW t \in Task, TerminateXn(t)
  PROVE  AInv'
<1>1. /\ phase = "up" /\ pc[t] = "term" /\ InXn(t)
      /\ UNCHANGED <<node, dsfile, dssm>>
  BY DEF TerminateXn, IInv, OwnerOK
<1>2. LogShape(t) /\ OwnerUndoable(t) /\ Mirror(t)
  BY <1>1 DEF AInv, UpOK
<1>3. CASE ~xnCanceled
  <2>1. ClearTransaction(t) /\ UnlockSdr /\ committed' = Heap
    BY <1>3 DEF TerminateXn, Finish
  <2>2. (InFile => dsfile' = committed') /\ (InDram => dssm' = committed')
    BY <1>1, <1>2, <1>3, <2>1 DEF Mirror, Heap
  <2> QED BY <1>1, <2>1, <2>2, ClearAtomic
<1>4. CASE xnCanceled
  <2>1. /\ UNCHANGED <<sdrOwnerTask, logLength, logEntries, log, logfd, committed>>
        /\ pc'[t] = "reverse" /\ rev' = Len(logEntries)
    BY <1>4 DEF TerminateXn, Protected, IInv, TypeOK, TaskTypeOK
  <2>2. LogShape(t)' /\ OwnerUndoable(t)' /\ Mirror(t)'
    BY <1>1, <1>2, <2>1
       DEF LogShape, OwnerUndoable, Mirror, Undoable, PutStates, Stopped
  <2> QED BY <1>1, <2>1, <2>2, OwnerAtomic
<1> QED BY <1>3, <1>4

(* One entry undone in one medium, in a reversal and in a recovery.        *)
LEMMA UndoOne ==
  ASSUME IInv, ListOK, LogGood(log, committed), rev \in 1..Len(logEntries),
         NEW m \in Words, Clean(log, committed, m, rev)
  PROVE  /\ Clean(log, committed, Restored(m, logEntries[rev]), rev - 1)
         /\ Clean(log, committed, Restored(m, logEntries[rev]), Len(log))
         /\ rev - 1 \in Nat
<1>1. /\ rev \in Nat \ {0} /\ rev - 1 \in Nat /\ Len(log) \in Nat /\ log \in Seq(Cells)
      /\ 2 * rev <= Len(log) /\ rev - 1 <= Len(log)
      /\ logEntries[rev] = 2 * (rev - 1)
  BY DEF IInv, TypeOK, DataTypeOK, ListOK
<1>2. Clean(log, committed, Restored(m, logEntries[rev]), rev - 1)
  BY <1>1, CleanUndo DEF Restored
<1> QED BY <1>1, <1>2, CleanMonotone

(* Undoing one entry preserves AInv.                                       *)
LEMMA ReverseEntryAtomic ==
  ASSUME IInv, AInv, NEW t \in Task, ReverseEntry(t)
  PROVE  AInv'
<1>1. /\ phase = "up" /\ pc[t] = "reverse" /\ InXn(t) /\ rev' = rev - 1
      /\ UNCHANGED <<node, sdrOwnerTask, xnCanceled, logEntries, log, logfd, pc, put,
                     committed>>
      /\ phase' = "up" /\ sdrOwnerTask' = t
      /\ rev \in 1..Len(logEntries)
  BY DEF ReverseEntry, views, IInv, OwnerOK, EntriesOK, node, InXn, TypeOK, DataTypeOK
<1>2. OwnerUndoable(t) /\ LogGood(log, committed) /\ ListOK /\ Undoable(rev)
  BY <1>1 DEF AInv, UpOK, OwnerUndoable
<1>3. dsfile \in Words /\ dssm \in Words
  BY DEF IInv, TypeOK, DataTypeOK
<1>4. /\ InFile => Clean(log, committed, dsfile', rev - 1)
      /\ InFile => Clean(log, committed, dsfile', Len(log))
      /\ InDram => Clean(log, committed, dssm', rev - 1)
  BY <1>1, <1>2, <1>3, UndoOne DEF ReverseEntry, Undoable
<1>5. LogShape(t)' /\ OwnerUndoable(t)' /\ Mirror(t)'
  BY <1>1, <1>4 DEF LogShape, OwnerUndoable, Mirror, Undoable, PutStates, Stopped
<1>6. UpOK'
  BY SdrAssumption, <1>1, <1>2, <1>5 DEF UpOK, ListOK, Idle, InXn
<1>7. ViewsOK' /\ FileOK' /\ DownOK'
  BY <1>1, <1>4 DEF AInv, ViewsOK, FileOK, DownOK, InXn
<1> QED BY <1>6, <1>7 DEF AInv

(* The end of a reversal preserves AInv.                                   *)
LEMMA ReverseDoneAtomic ==
  ASSUME Protected, IInv, AInv, NEW t \in Task, ReverseDone(t)
  PROVE  AInv'
<1>1. /\ phase = "up" /\ pc[t] = "reverse" /\ InXn(t) /\ rev = 0
      /\ ClearTransaction(t) /\ UnlockSdr
      /\ UNCHANGED <<node, dsfile, dssm, committed>>
  BY DEF ReverseDone, Finish, IInv, OwnerOK
<1>2. Undoable(0)
  BY <1>1 DEF AInv, UpOK, OwnerUndoable
<1>3. (InFile => dsfile' = committed') /\ (InDram => dssm' = committed')
  BY <1>1, <1>2, CleanNone DEF Undoable, IInv, TypeOK, DataTypeOK
<1> QED BY <1>1, <1>3, ClearAtomic

(* A failed reversal preserves AInv.                                       *)
LEMMA ReverseFailsAtomic ==
  ASSUME IInv, AInv, NEW t \in Task, ReverseFails(t)
  PROVE  AInv'
<1>1. /\ phase = "up" /\ InXn(t) /\ pc'[t] = "dead"
      /\ UNCHANGED <<node, sdrOwnerTask, logLength, logEntries, log, dsfile, dssm, logfd,
                     committed>>
  BY DEF ReverseFails, sdrState, views, IInv, OwnerOK, TypeOK, TaskTypeOK
<1>2. Undoable(Len(logEntries))
  <2>1. /\ Undoable(rev) /\ rev <= Len(logEntries)
        /\ rev \in Nat /\ Len(logEntries) \in Nat
    BY <1>1 DEF ReverseFails, AInv, UpOK, OwnerUndoable, IInv, EntriesOK, TypeOK, DataTypeOK
  <2> QED BY <2>1, CleanMonotone DEF Undoable
<1>3. LogShape(t)' /\ OwnerUndoable(t)' /\ Mirror(t)'
  BY <1>1, <1>2 DEF LogShape, OwnerUndoable, Undoable, Mirror, PutStates
<1> QED BY <1>1, <1>3, OwnerAtomic

(* The death of all tasks preserves AInv.                                  *)
LEMMA CrashAtomic ==
  ASSUME Protected, IInv, AInv, NEW kind \in CrashKinds, Crash(kind)
  PROVE  AInv'
<1>1. /\ kind = "power" /\ phase' = "down" /\ ~loaded' /\ (LogInFile \/ ~InFile)
      /\ dsfile' = dsfile /\ committed' = committed
      /\ InFile => log' = log
      /\ logfd' = [t \in Task |-> AtEnd]
  BY DEF Crash, Protected, sdrState
<1>2. InFile => LogGood(log, committed)
  BY DEF AInv, UpOK, DownOK
<1>3. UpOK' /\ ViewsOK' /\ FileOK'
  BY <1>1 DEF AInv, UpOK, ViewsOK, FileOK
<1>4. DownOK'
  BY <1>1, <1>2 DEF DownOK, Tools
<1> QED BY <1>3, <1>4 DEF AInv

(* In a good log every complete pair of cells is reloaded.                 *)
LEMMA ReloadGood ==
  ASSUME NEW l \in Seq(Cells), NEW c, LogGood(l, c), NEW n \in 0..Len(l),
         Reloadable(l, n), ~Reloadable(l, n + 1)
  PROVE  2 * n <= Len(l) /\ Len(l) < 2 * n + 2
<1>1. Len(l) \in Nat /\ n \in Nat
  OBVIOUS
<1>2. 2 * n <= Len(l)
  <2>1. CASE n = 0
    BY <1>1, <2>1
  <2>2. CASE n # 0
    <3>1. n \in 1..n
      BY <1>1, <2>2
    <3>2. Readable(l, 2 * (n - 1))
      BY <3>1 DEF Reloadable
    <3> QED BY <1>1, <3>2 DEF Readable
  <2> QED BY <2>1, <2>2
<1>3. ~Readable(l, 2 * n)
  <2>1. PICK i \in 1..(n + 1) : ~Readable(l, 2 * (i - 1))
    BY DEF Reloadable
  <2>2. i \notin 1..n
    BY <2>1 DEF Reloadable
  <2>3. i = n + 1
    BY <1>1, <2>2
  <2> QED BY <1>1, <2>1, <2>3
<1>4. SUFFICES ASSUME 2 * n + 2 <= Len(l) PROVE FALSE
  BY <1>1, <1>2
<1>5. l[2 * n + 1].kind # "ctl"
  BY <1>1, <1>3, <1>4 DEF Readable
<1>6. n + 1 \in 1..Len(l) /\ 2 * (n + 1) <= Len(l) /\ 2 * (n + 1) - 1 = 2 * n + 1
  BY <1>1, <1>4
<1> QED BY <1>5, <1>6 DEF LogGood

(* Loading the profile anew preserves AInv.                                *)
LEMMA LoadProfileAtomic ==
  ASSUME Protected, IInv, AInv, NEW tool \in BootTools, LoadProfile(tool)
  PROVE  AInv'
<1>1. /\ phase = "down" /\ phase' = "ionInitialize" /\ (LogInFile \/ ~InFile)
      /\ CrashKinds # {}
      /\ UNCHANGED <<log, dsfile, dssm, logfd, committed>>
  BY DEF LoadProfile, Protected, views, AInv, DownOK
<1>2. CASE InFile
  <2>1. LogInFile /\ LogGood(log, committed) /\ Clean(log, committed, dsfile, Len(log))
        /\ log \in Seq(Cells)
    BY <1>1, <1>2 DEF AInv, DownOK, FileOK, IInv, TypeOK, DataTypeOK
  <2>2. logEntries' = ReloadLogEntries(log) /\ rev' = Len(ReloadLogEntries(log))
    BY <2>1 DEF LoadProfile, Protected
  <2>3. PICK n \in 0..Len(log) : /\ ReloadLogEntries(log) = [i \in 1..n |-> 2 * (i - 1)]
                                 /\ Reloadable(log, n) /\ ~Reloadable(log, n + 1)
    BY <2>1, ReloadLogEntriesOK
  <2>4. 2 * n <= Len(log) /\ Len(log) < 2 * n + 2
    BY <2>1, <2>3, ReloadGood
  <2>5. n \in Nat /\ Len(log) \in Nat
    BY <2>1
  <2>6. Len(logEntries') = n /\ rev' = n
        /\ \A i \in 1..n : logEntries'[i] = 2 * (i - 1)
    BY <2>2, <2>3, <2>5
  <2>7. ListOK'
    BY <1>1, <2>4, <2>6 DEF ListOK
  <2>8. Clean(log, committed, dsfile, n)
    <3>1. \A a : Logged(log, a, Len(log)) => Logged(log, a, n)
      BY <2>4, <2>5 DEF Logged
    <3> QED BY <2>1, <3>1 DEF Clean
  <2>9. DownOK'
    BY <1>1, <2>1, <2>6, <2>7, <2>8 DEF DownOK
  <2>10. UpOK' /\ ViewsOK' /\ FileOK'
    BY <1>1 DEF AInv, UpOK, ViewsOK, FileOK
  <2> QED BY <2>9, <2>10 DEF AInv
<1>3. CASE ~InFile
  BY <1>1, <1>3 DEF AInv, UpOK, ViewsOK, FileOK, DownOK
<1> QED BY <1>2, <1>3

(* Undoing one entry on load preserves AInv.                               *)
LEMMA RecoverEntryAtomic ==
  ASSUME IInv, AInv, RecoverEntry
  PROVE  AInv'
<1>1. /\ phase \in Tools /\ phase # "up" /\ InFile /\ rev > 0 /\ rev' = rev - 1
      /\ dsfile' = Restored(dsfile, logEntries[rev])
      /\ UNCHANGED <<node, logEntries, log, logfd, committed>>
      /\ UNCHANGED <<phase, loaded>>
      /\ rev \in 1..Len(logEntries) /\ dsfile \in Words
  BY DEF RecoverEntry, node, views, Tools, IInv, EntriesOK, TypeOK, DataTypeOK
<1>2. ListOK /\ LogGood(log, committed) /\ Clean(log, committed, dsfile, rev)
  BY <1>1 DEF AInv, DownOK
<1>3. /\ Clean(log, committed, dsfile', rev - 1)
      /\ Clean(log, committed, dsfile', Len(log))
  BY <1>1, <1>2, UndoOne
<1>4. UpOK' /\ ViewsOK' /\ FileOK'
  BY <1>1, <1>3 DEF AInv, UpOK, ViewsOK, FileOK
<1>5. DownOK'
  BY <1>1, <1>2, <1>3 DEF AInv, DownOK, ListOK, Tools
<1> QED BY <1>4, <1>5 DEF AInv

(* The end of a recovery preserves AInv.                                   *)
LEMMA RecoverDoneAtomic ==
  ASSUME IInv, AInv, RecoverDone
  PROVE  AInv'
<1>1. /\ phase = "ionInitialize" /\ phase' = "ionInit"
      /\ UNCHANGED <<log, dsfile, logfd>>
  BY DEF RecoverDone, sdrState, views, AInv, DownOK, Tools
<1>2. CASE InFile
  <2>1. /\ rev = 0 /\ committed' = committed /\ InDram => dssm' = dsfile
    BY <1>2 DEF RecoverDone
  <2>2. LogGood(log, committed) /\ Clean(log, committed, dsfile, 0)
    BY <1>1, <1>2, <2>1 DEF RecoverDone, AInv, DownOK, Tools
  <2>3. Undoable(0)'
    BY <1>1, <2>1, <2>2, <1>2 DEF Undoable, RecoverDone
  <2>4. UpOK' /\ ViewsOK' /\ FileOK'
    BY <1>1, <1>2, <2>1 DEF AInv, UpOK, ViewsOK, FileOK, RecoverDone
  <2>5. DownOK'
    BY <1>1, <1>2, <2>1, <2>2, <2>3 DEF AInv, DownOK, Tools, RecoverDone
  <2> QED BY <2>4, <2>5 DEF AInv
<1>3. CASE ~InFile
  <2>1. committed' = Fresh /\ dssm' = Fresh
    BY SdrAssumption, <1>3 DEF RecoverDone
  <2>2. Undoable(0)'
    BY <1>3, <2>1 DEF Undoable, Clean
  <2>3. UpOK' /\ ViewsOK' /\ FileOK' /\ DownOK'
    BY <1>1, <1>3, <2>2 DEF AInv, UpOK, ViewsOK, FileOK, DownOK, Tools
  <2> QED BY <2>3 DEF AInv
<1> QED BY <1>2, <1>3

(* A failed recovery preserves AInv.                                       *)
LEMMA RecoverFailsAtomic ==
  ASSUME IInv, AInv, RecoverFails
  PROVE  AInv'
<1>1. /\ phase \in Tools /\ phase # "up" /\ phase' = "down" /\ ~loaded' /\ InFile
      /\ log' = <<>> /\ dsfile' = Fresh /\ committed' = Fresh /\ logfd' = logfd
      /\ LogInFile
  BY DEF RecoverFails, views, Tools, AInv, DownOK
<1>2. LogGood(log', committed') /\ Clean(log', committed', dsfile', Len(log'))
  <2>1. Len(log') \in Nat
    BY <1>1, EmptySeq
  <2> QED BY <1>1, <2>1, CleanEmpty
<1>3. UpOK' /\ ViewsOK' /\ FileOK' /\ DownOK'
  BY <1>1, <1>2 DEF AInv, UpOK, ViewsOK, FileOK, DownOK, Tools
<1> QED BY <1>3 DEF AInv

(* ionInitialize's first transaction preserves AInv.                       *)
LEMMA IonInitializeAtomic ==
  ASSUME IInv, AInv, IonInitialize
  PROVE  AInv'
<1>1. /\ phase = "ionInit" /\ phase' = "up" /\ sdrOwnerTask' = NoTask
      /\ log' = <<>> /\ logLength' = 0 /\ logEntries' = <<>>
      /\ UNCHANGED <<dsfile, dssm, logfd, committed>>
      /\ \A t \in Task : ~InXn(t)'
  BY SdrAssumption DEF IonInitialize, UnlockSdr, views, InXn
<1>2. (InFile => dsfile = committed) /\ (InDram => dssm = committed)
  BY <1>1, CleanNone DEF AInv, DownOK, Undoable, IInv, TypeOK, DataTypeOK
<1>3. Len(log') = 0 /\ Len(logEntries') = 0
  BY <1>1, EmptySeq
<1>4. LogGood(log, committed)' /\ Undoable(0)'
  BY <1>1, <1>2, CleanEmpty DEF Undoable
<1>5. UpOK'
  BY <1>1, <1>3, <1>4 DEF UpOK, ListOK, Idle
<1>6. ViewsOK' /\ FileOK' /\ DownOK'
  BY <1>1, <1>3, <1>4 DEF AInv, ViewsOK, FileOK, DownOK, Undoable
<1> QED BY <1>5, <1>6 DEF AInv

-----------------------------------------------------------------------------
(* A fresh SDR satisfies the atomicity invariant.                          *)
LEMMA InitAInv == Init => AInv
<1> SUFFICES ASSUME Init PROVE AInv
  OBVIOUS
<1>1. /\ phase = "up" /\ log = <<>> /\ logEntries = <<>> /\ logLength = 0
      /\ dsfile = committed /\ dssm = committed /\ \A t \in Task : ~InXn(t)
      /\ logfd = [t \in Task |-> AtEnd]
      /\ Len(log) = 0 /\ Len(logEntries) = 0
  BY SdrAssumption, EmptySeq DEF Init, InXn
<1>2. LogGood(log, committed) /\ Undoable(0)
  BY <1>1, CleanEmpty DEF Undoable
<1>3. UpOK /\ ViewsOK /\ FileOK /\ DownOK
  BY <1>1, <1>2 DEF UpOK, ListOK, Idle, ViewsOK, FileOK, DownOK, Undoable
<1> QED BY <1>3 DEF AInv

(* Every step of a protected SDR preserves the atomicity invariant.        *)
LEMMA NextAInv ==
  ASSUME Protected
  PROVE  IInv /\ IInv' /\ AInv /\ [Next]_vars => AInv'
<1> SUFFICES ASSUME IInv, IInv', AInv, [Next]_vars PROVE AInv'
  OBVIOUS
<1>1. ASSUME NEW t \in Task, TaskStep(t) PROVE AInv'
  BY <1>1, SdrBeginXnAtomic, SdrEndXnAtomic, SdrExitXnAtomic, IdleTaskAtomic,
     SdrWriteAtomic, BadAccessAtomic, PutCtlAtomic, PutDataAtomic, PutFileAtomic,
     PutDramAtomic, TerminateXnAtomic, ReverseEntryAtomic, ReverseDoneAtomic,
     ReverseFailsAtomic DEF TaskStep
<1>2. ASSUME NEW kind \in CrashKinds, Crash(kind) PROVE AInv'
  BY <1>2, CrashAtomic
<1>3. CASE Boot \/ RecoverFails
  <2>1. ~ProfileLoaded
    BY DEF ProfileLoaded, AInv, DownOK
  <2> QED BY <1>3, <2>1, LoadProfileAtomic, RecoverEntryAtomic, RecoverDoneAtomic,
             RecoverFailsAtomic, IonInitializeAtomic DEF Boot
<1>4. CASE UNCHANGED vars
  BY <1>4 DEF vars, node, sdrState, views, AInv, UpOK, ListOK, Idle, Undoable, LogShape,
     OwnerUndoable, Mirror, ViewsOK, FileOK, DownOK, InXn
<1> QED BY <1>1, <1>2, <1>3, <1>4 DEF Next

(* The atomicity invariant implies atomicity at rest.                      *)
LEMMA AInvAtomic == IInv /\ AInv => AtomicAtRest
<1> SUFFICES ASSUME IInv, AInv, phase = "up", sdrOwnerTask = NoTask
             PROVE  (InFile => dsfile = committed) /\ (InDram => dssm = committed)
  BY DEF AtomicAtRest
<1>1. Undoable(0)
  BY DEF AInv, UpOK, Idle
<1> QED BY <1>1, CleanNone DEF Undoable, IInv, TypeOK, DataTypeOK

(* Transactions are atomic in a protected configuration, for any number of *)
(* tasks and words, any nesting, any number of power failures, also during *)
(* a reversal or a recovery, and with writes to the log that fail, short   *)
(* writes to the dataspace, and reversals and recoveries that fail: when   *)
(* no transaction is open, file and memory hold what the last transaction  *)
(* that was not reversed left.                                             *)
THEOREM TransactionsAtomic == Protected => (Spec => []AtomicAtRest)
<1> SUFFICES ASSUME Protected PROVE Spec => []AtomicAtRest
  OBVIOUS
<1>1. Init => AInv
  BY InitAInv
<1>2. IInv /\ IInv' /\ AInv /\ [Next]_vars => AInv'
  BY NextAInv
<1>3. IInv /\ AInv => AtomicAtRest
  BY AInvAtomic
<1> QED BY SpecIInv, <1>1, <1>2, <1>3, PTL DEF Spec
===============================================================================
