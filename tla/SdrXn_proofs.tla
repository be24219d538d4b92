----------------------------- MODULE SdrXn_proofs -----------------------------
(***************************************************************************)
(* Proofs about SdrXn for every value of its constants: its types, mutual  *)
(* exclusion, and what sdr_end_xn reports.  One lemma per action or kind   *)
(* of action, under it one step per part of the inductive invariant.       *)
(***************************************************************************)
EXTENDS SdrXn, TLAPS, SequenceTheorems, WellFoundedInduction

PutStates == {"putCtl", "putData", "putFile", "putDram"}
Stopped   == {"reverse", "dead"}

-----------------------------------------------------------------------------
(* The invariant behind TypeOK and Exclusive.                              *)

(* A write in progress has an address and a value.                         *)
PutOK == \A t \in Task : pc[t] \in PutStates => put[t] \in [addr : Addr, val : Val]

(* Exclusive, with the depth constrained in the middle of a write too.     *)
OwnerOK ==
  phase = "up" =>
    /\ semFree <=> sdrOwnerTask = NoTask
    /\ \A t \in Task :
         /\ pc[t] # "run" => InXn(t)
         /\ InXn(t) /\ pc[t] \in PutStates \cup {"run"} => xnDepth \in 1..level[t]

(* While the node is not up no task runs, and a tool that loads the profile *)
(* has made the mutex anew.                                                *)
BootOK ==
  /\ phase # "up" => \A t \in Task : pc[t] = "run"
  /\ phase \in Tools => semFree /\ sdrOwnerTask = NoTask

(* Offsets of log entries are not negative, those that remain to be undone *)
(* are in the list, and those a tool undoes are in the log.                *)
EntriesOK ==
  /\ \A i \in 1..Len(logEntries) : logEntries[i] \in Nat
  /\ \A t \in Task : pc[t] = "reverse" => rev <= Len(logEntries)
  /\ phase \in Tools =>
       /\ logLength = 2 * rev
       /\ rev <= Len(logEntries)
       /\ \A i \in 1..rev : Readable(log, logEntries[i])

(* logLength is negative only during a reversal that began with a log      *)
(* shorter than its list of entries.                                       *)
LengthOK ==
  phase = "up" =>
    /\ (\A t \in Task : pc[t] \notin Stopped) => logLength >= 0
    /\ \A t \in Task : pc[t] = "putData" => logLength >= 1

IInv == TypeOK /\ PutOK /\ OwnerOK /\ BootOK /\ EntriesOK /\ LengthOK

-----------------------------------------------------------------------------
(* reloadLogEntries stops at the first entry that is not complete.         *)
LEMMA ReloadLogEntriesOK ==
  ASSUME NEW l \in Seq(Cells)
  PROVE  \E n \in 0..Len(l) : /\ ReloadLogEntries(l) = [i \in 1..n |-> 2 * (i - 1)]
                              /\ Reloadable(l, n) /\ ~Reloadable(l, n + 1)
<1> DEFINE T == {k \in Nat : ~Reloadable(l, k + 1)}
<1>1. Len(l) \in T
  <2>1. Len(l) \in Nat
    OBVIOUS
  <2>2. ~Readable(l, 2 * (Len(l) + 1 - 1))
    BY <2>1 DEF Readable
  <2> QED BY <2>1, <2>2 DEF Reloadable
<1>2. PICK n \in T : \A y \in T : ~ (<<y, n>> \in OpToRel(<, Nat))
  <2>1. T \subseteq Nat /\ T # {}
    BY <1>1
  <2> QED BY <2>1, NatLessThanWellFounded, WFMin
<1>3. \A y \in Nat : y < n => y \notin T
  BY <1>2 DEF OpToRel
<1>4. n \in Nat /\ n <= Len(l)
  <2>1. n <= Len(l) \/ Len(l) < n
    OBVIOUS
  <2> QED BY <1>1, <1>3, <2>1
<1>5. Reloadable(l, n)
  <2>1. CASE n = 0
    BY <2>1 DEF Reloadable
  <2>2. CASE n # 0
    <3>1. n - 1 \in Nat /\ n - 1 < n
      BY <1>4, <2>2
    <3>2. Reloadable(l, (n - 1) + 1)
      BY <1>3, <3>1
    <3> QED BY <1>4, <3>2
  <2> QED BY <2>1, <2>2
<1>6. n \in 0..Len(l) /\ Reloadable(l, n) /\ ~Reloadable(l, n + 1)
  BY <1>4, <1>5
<1> DEFINE Is(k) == k \in 0..Len(l) /\ Reloadable(l, k) /\ ~Reloadable(l, k + 1)
           m == CHOOSE k \in 0..Len(l) : Reloadable(l, k) /\ ~Reloadable(l, k + 1)
<1>7. Is(m)
  <2> HIDE DEF T
  <2> QED BY <1>6, Zenon
<1>8. ReloadLogEntries(l) = [i \in 1..m |-> 2 * (i - 1)]
  BY Zenon DEF ReloadLogEntries
<1> HIDE DEF m
<1> QED BY <1>7, <1>8

(* What a log entry holds.                                                 *)
LEMMA EntryDataType ==
  ASSUME NEW l \in Seq(Cells), NEW o \in Nat, Readable(l, o)
  PROVE  EntryData(l, o) \in Val \cup {Garbage}
<1>1. o + 2 \in 1..Len(l)
  BY DEF Readable
<1>2. l[o + 2] \in Cells
  BY <1>1, ElementOfSeq
<1>3. CASE l[o + 2].kind = "data"
  <2>1. l[o + 2] \notin {Ctl(a) : a \in Addr}
    <3>1. \A a : Ctl(a).kind = "ctl"
      BY DEF Ctl
    <3> QED BY <1>3, <3>1
  <2>2. PICK v \in Val \cup {Garbage} : l[o + 2] = Data(v)
    BY <1>2, <2>1 DEF Cells
  <2> QED BY <1>3, <2>2 DEF EntryData, Data
<1>4. CASE l[o + 2].kind # "data"
  BY <1>4 DEF EntryData
<1> QED BY <1>3, <1>4

-----------------------------------------------------------------------------
(* Every action preserves the invariant.                                   *)

(* Taking the lock, first or nested, preserves IInv.                       *)
LEMMA SdrBeginXnStep ==
  ASSUME IInv, NEW t \in Task, SdrBeginXn(t)
  PROVE  IInv'
<1> USE SdrAssumption DEF IInv, SdrBeginXn, node, sdrState, views, TakeSdr,
        InXn, Running, NewVerdict, PutStates, Busy, Tools, Stopped, AtEnd
<1>1. NodeTypeOK'
  <2>1. xnDepth' \in Nat
    <3>1. xnDepth' = xnDepth + 1 \/ xnDepth' = 1
      OBVIOUS
    <3> QED BY <3>1 DEF TypeOK, NodeTypeOK
  <2>2. sdrOwnerTask' \in Task \cup {NoTask}
    BY DEF TypeOK, NodeTypeOK
  <2>3. semFree' \in BOOLEAN
    BY DEF TypeOK, NodeTypeOK
  <2>4. UNCHANGED <<phase, loaded, crashes, xnCanceled>>
    OBVIOUS
  <2> QED BY <2>1, <2>2, <2>3, <2>4 DEF TypeOK, NodeTypeOK
<1>2. DataTypeOK'
  BY DEF TypeOK, DataTypeOK, TaskTypeOK, Words, Cells, Puts, NoPut, PutOK
<1>3. TaskTypeOK'
  BY DEF TypeOK, TaskTypeOK, Puts, NoPut
<1>4. verdict' \in [Task -> Verdicts]
  BY DEF TypeOK, Verdicts
<1>5. PutOK'
  BY DEF TypeOK, TaskTypeOK, PutOK
<1>6. OwnerOK'
  BY DEF TypeOK, NodeTypeOK, TaskTypeOK, OwnerOK
<1>7. BootOK'
  BY DEF BootOK
<1>8. EntriesOK'
  BY DEF TypeOK, NodeTypeOK, TaskTypeOK, EntriesOK
<1>9. LengthOK'
  BY DEF TypeOK, NodeTypeOK, TaskTypeOK, LengthOK, OwnerOK
<1> QED BY <1>1, <1>2, <1>3, <1>4, <1>5, <1>6, <1>7, <1>8, <1>9 DEF TypeOK

(* sdr_end_xn, as owner or not, preserves IInv.                            *)
LEMMA SdrEndXnStep ==
  ASSUME IInv, NEW t \in Task, SdrEndXn(t)
  PROVE  IInv'
<1> USE SdrAssumption DEF IInv, SdrEndXn, node, sdrState, views, CloseLevel,
        InXn, Running, PutStates, Busy, Tools, Stopped, AtEnd
<1>1. NodeTypeOK'
  BY DEF TypeOK, NodeTypeOK, TaskTypeOK, OwnerOK
<1>2. DataTypeOK'
  BY DEF TypeOK, DataTypeOK, TaskTypeOK, Words, Cells, Puts, NoPut, PutOK
<1>3. TaskTypeOK'
  BY DEF TypeOK, TaskTypeOK, Puts, NoPut
<1>4. verdict' \in [Task -> Verdicts]
  BY DEF TypeOK, Verdicts
<1>5. PutOK'
  BY DEF TypeOK, TaskTypeOK, PutOK
<1>6. OwnerOK'
  BY DEF TypeOK, NodeTypeOK, TaskTypeOK, OwnerOK
<1>7. BootOK'
  BY DEF BootOK
<1>8. EntriesOK'
  BY DEF TypeOK, NodeTypeOK, TaskTypeOK, EntriesOK
<1>9. LengthOK'
  BY DEF TypeOK, NodeTypeOK, TaskTypeOK, LengthOK, OwnerOK
<1> QED BY <1>1, <1>2, <1>3, <1>4, <1>5, <1>6, <1>7, <1>8, <1>9 DEF TypeOK

(* sdr_cancel_xn preserves IInv.                                           *)
LEMMA SdrCancelXnStep ==
  ASSUME IInv, NEW t \in Task, SdrCancelXn(t)
  PROVE  IInv'
<1> USE SdrAssumption DEF IInv, SdrCancelXn, node, sdrState, views, CloseLevel,
        InXn, Running, PutStates, Busy, Tools, Stopped, AtEnd
<1>1. NodeTypeOK'
  BY DEF TypeOK, NodeTypeOK, TaskTypeOK, OwnerOK
<1>2. DataTypeOK'
  BY DEF TypeOK, DataTypeOK, TaskTypeOK, Words, Cells, Puts, NoPut, PutOK
<1>3. TaskTypeOK'
  BY DEF TypeOK, TaskTypeOK, Puts, NoPut
<1>4. verdict' \in [Task -> Verdicts]
  BY ZenonT(30) DEF TypeOK, Verdicts
<1>5. PutOK'
  BY DEF TypeOK, TaskTypeOK, PutOK
<1>6. OwnerOK'
  BY DEF TypeOK, NodeTypeOK, TaskTypeOK, OwnerOK
<1>7. BootOK'
  BY DEF BootOK
<1>8. EntriesOK'
  BY DEF TypeOK, NodeTypeOK, TaskTypeOK, EntriesOK
<1>9. LengthOK'
  BY DEF TypeOK, NodeTypeOK, TaskTypeOK, LengthOK, OwnerOK
<1> QED BY <1>1, <1>2, <1>3, <1>4, <1>5, <1>6, <1>7, <1>8, <1>9 DEF TypeOK

(* A closer called after crashXn preserves IInv.                           *)
LEMMA CloseAfterCrashStep ==
  ASSUME IInv, NEW t \in Task, CloseAfterCrash(t)
  PROVE  IInv'
<1> USE SdrAssumption DEF IInv, CloseAfterCrash, node, sdrState, views,
        CloseLevel, InXn, Running, PutStates, Busy, Tools, Stopped, AtEnd
<1>1. NodeTypeOK'
  BY DEF TypeOK, NodeTypeOK, TaskTypeOK, OwnerOK
<1>2. DataTypeOK'
  BY DEF TypeOK, DataTypeOK, TaskTypeOK, Words, Cells, Puts, NoPut, PutOK
<1>3. TaskTypeOK'
  BY DEF TypeOK, TaskTypeOK, Puts, NoPut
<1>4. verdict' \in [Task -> Verdicts]
  BY DEF TypeOK, Verdicts
<1>5. PutOK'
  BY DEF TypeOK, TaskTypeOK, PutOK
<1>6. OwnerOK'
  BY DEF TypeOK, NodeTypeOK, TaskTypeOK, OwnerOK
<1>7. BootOK'
  BY DEF BootOK
<1>8. EntriesOK'
  BY DEF TypeOK, NodeTypeOK, TaskTypeOK, EntriesOK
<1>9. LengthOK'
  BY DEF TypeOK, NodeTypeOK, TaskTypeOK, LengthOK, OwnerOK
<1> QED BY <1>1, <1>2, <1>3, <1>4, <1>5, <1>6, <1>7, <1>8, <1>9 DEF TypeOK

(* The start of a write preserves IInv.                                    *)
LEMMA SdrWriteStep ==
  ASSUME IInv, NEW t \in Task, SdrWrite(t)
  PROVE  IInv'
<1> USE SdrAssumption DEF IInv, SdrWrite, node, sdrState, views, Running, InXn,
        PutDataspace, PutStates, Busy, Tools, Stopped, AtEnd
<1>1. NodeTypeOK'
  BY DEF TypeOK, NodeTypeOK, TaskTypeOK, OwnerOK
<1>2. DataTypeOK'
  BY DEF TypeOK, DataTypeOK, TaskTypeOK, Words, Cells, Puts, NoPut, PutOK
<1>3. TaskTypeOK'
  BY DEF TypeOK, TaskTypeOK, Puts, NoPut
<1>4. verdict' \in [Task -> Verdicts]
  BY DEF TypeOK, Verdicts
<1>5. PutOK'
  BY DEF TypeOK, TaskTypeOK, PutOK
<1>6. OwnerOK'
  BY DEF TypeOK, NodeTypeOK, TaskTypeOK, OwnerOK
<1>7. BootOK'
  BY DEF BootOK
<1>8. EntriesOK'
  BY DEF TypeOK, NodeTypeOK, TaskTypeOK, EntriesOK
<1>9. LengthOK'
  BY DEF TypeOK, NodeTypeOK, TaskTypeOK, LengthOK, OwnerOK
<1> QED BY <1>1, <1>2, <1>3, <1>4, <1>5, <1>6, <1>7, <1>8, <1>9 DEF TypeOK

(* A fresh view preserves IInv.                                            *)
LEMMA SdrStopUsingStep ==
  ASSUME IInv, NEW t \in Task, SdrStopUsing(t)
  PROVE  IInv'
<1> USE SdrAssumption DEF IInv, SdrStopUsing, node, sdrState, views, Running,
        InXn, PutStates, Busy, Tools, Stopped, AtEnd
<1>1. NodeTypeOK'
  BY DEF TypeOK, NodeTypeOK, TaskTypeOK, OwnerOK
<1>2. DataTypeOK'
  BY DEF TypeOK, DataTypeOK, TaskTypeOK, Words, Cells, Puts, NoPut, PutOK
<1>3. TaskTypeOK'
  BY DEF TypeOK, TaskTypeOK, Puts, NoPut
<1>4. verdict' \in [Task -> Verdicts]
  BY DEF TypeOK, Verdicts
<1>5. PutOK'
  BY DEF TypeOK, TaskTypeOK, PutOK
<1>6. OwnerOK'
  BY DEF TypeOK, NodeTypeOK, TaskTypeOK, OwnerOK
<1>7. BootOK'
  BY DEF BootOK
<1>8. EntriesOK'
  BY DEF TypeOK, NodeTypeOK, TaskTypeOK, EntriesOK
<1>9. LengthOK'
  BY DEF TypeOK, NodeTypeOK, TaskTypeOK, LengthOK, OwnerOK
<1> QED BY <1>1, <1>2, <1>3, <1>4, <1>5, <1>6, <1>7, <1>8, <1>9 DEF TypeOK

(* The write to the memory copy preserves IInv.                            *)
LEMMA PutDramStep ==
  ASSUME IInv, NEW t \in Task, PutDram(t)
  PROVE  IInv'
<1> USE SdrAssumption DEF IInv, PutDram, node, sdrState, views, Written, InXn,
        PutStates, Busy, Tools, Stopped, AtEnd
<1>1. NodeTypeOK'
  BY DEF TypeOK, NodeTypeOK, TaskTypeOK, OwnerOK
<1>2. DataTypeOK'
  BY DEF TypeOK, DataTypeOK, TaskTypeOK, Words, Cells, Puts, NoPut, PutOK
<1>3. TaskTypeOK'
  BY DEF TypeOK, TaskTypeOK, Puts, NoPut
<1>4. verdict' \in [Task -> Verdicts]
  BY DEF TypeOK, Verdicts
<1>5. PutOK'
  BY DEF TypeOK, TaskTypeOK, PutOK
<1>6. OwnerOK'
  BY DEF TypeOK, NodeTypeOK, TaskTypeOK, OwnerOK
<1>7. BootOK'
  BY DEF BootOK
<1>8. EntriesOK'
  BY DEF TypeOK, NodeTypeOK, TaskTypeOK, EntriesOK
<1>9. LengthOK'
  BY DEF TypeOK, NodeTypeOK, TaskTypeOK, LengthOK, OwnerOK
<1> QED BY <1>1, <1>2, <1>3, <1>4, <1>5, <1>6, <1>7, <1>8, <1>9 DEF TypeOK

(* A failed reversal preserves IInv.                                       *)
LEMMA ReverseFailsStep ==
  ASSUME IInv, NEW t \in Task, ReverseFails(t)
  PROVE  IInv'
<1> USE SdrAssumption DEF IInv, ReverseFails, node, sdrState, views, InXn,
        PutStates, Busy, Tools, Stopped, AtEnd
<1>1. NodeTypeOK'
  BY DEF TypeOK, NodeTypeOK, TaskTypeOK, OwnerOK
<1>2. DataTypeOK'
  BY DEF TypeOK, DataTypeOK, TaskTypeOK, Words, Cells, Puts, NoPut, PutOK
<1>3. TaskTypeOK'
  BY DEF TypeOK, TaskTypeOK, Puts, NoPut
<1>4. verdict' \in [Task -> Verdicts]
  BY DEF TypeOK, Verdicts
<1>5. PutOK'
  BY DEF TypeOK, TaskTypeOK, PutOK
<1>6. OwnerOK'
  BY DEF TypeOK, NodeTypeOK, TaskTypeOK, OwnerOK
<1>7. BootOK'
  BY DEF BootOK
<1>8. EntriesOK'
  BY DEF TypeOK, NodeTypeOK, TaskTypeOK, EntriesOK
<1>9. LengthOK'
  BY DEF TypeOK, NodeTypeOK, TaskTypeOK, LengthOK, OwnerOK
<1> QED BY <1>1, <1>2, <1>3, <1>4, <1>5, <1>6, <1>7, <1>8, <1>9 DEF TypeOK

(* Marking a task's verdict as failed or undone leaves a verdict.          *)
LEMMA MarkedVerdict ==
  ASSUME NEW t \in Task, verdict \in [Task -> Verdicts]
  PROVE  /\ [verdict EXCEPT ![t].failed = TRUE] \in [Task -> Verdicts]
         /\ [verdict EXCEPT ![t].undone = TRUE] \in [Task -> Verdicts]
<1>1. verdict[t] \in Verdicts
  OBVIOUS
<1>2. [verdict[t] EXCEPT !.failed = TRUE] \in Verdicts
  BY <1>1 DEF Verdicts
<1>3. [verdict[t] EXCEPT !.undone = TRUE] \in Verdicts
  BY <1>1 DEF Verdicts
<1> QED BY <1>2, <1>3

(* crashXn by the owner of the transaction, whatever it wrote before.      *)
LEMMA CrashXnStep ==
  ASSUME IInv, NEW t \in Task, CrashXn(t),
         phase = "up", InXn(t), pc[t] \notin Stopped,
         UNCHANGED <<node, semFree, sdrOwnerTask, logEntries, rev, modified, level>>,
         DataTypeOK', logfd' \in [Task -> Nat \cup {AtEnd}], logLength' >= logLength
  PROVE  IInv'
<1>3. verdict' \in [Task -> Verdicts]
  BY MarkedVerdict DEF IInv, TypeOK, CrashXn
<1> USE SdrAssumption DEF IInv, CrashXn, node, InXn, PutStates, Busy, Tools,
        Stopped
<1>1. NodeTypeOK'
  BY DEF TypeOK, NodeTypeOK
<1>2. TaskTypeOK'
  BY DEF TypeOK, TaskTypeOK, Puts, NoPut
<1>4. PutOK'
  BY DEF TypeOK, TaskTypeOK, PutOK
<1>5. OwnerOK'
  BY DEF TypeOK, NodeTypeOK, TaskTypeOK, OwnerOK
<1>6. BootOK'
  BY DEF BootOK
<1>7. EntriesOK'
  BY DEF TypeOK, TaskTypeOK, EntriesOK
<1>8. LengthOK'
  BY DEF TypeOK, DataTypeOK, TaskTypeOK, LengthOK, OwnerOK
<1> QED BY <1>1, <1>2, <1>3, <1>4, <1>5, <1>6, <1>7, <1>8 DEF TypeOK

(* The end of a transaction: the log dropped and the mutex released.       *)
LEMMA ClearAndUnlockStep ==
  ASSUME IInv, NEW t \in Task, ClearTransaction(t), UnlockSdr,
         phase = "up", InXn(t),
         pc' = [pc EXCEPT ![t] = "run"],
         UNCHANGED <<node, dsfile, dssm, modified, put, rev>>,
         xnDepth' \in Nat, xnCanceled' \in BOOLEAN, committed' \in {committed, Heap},
         level' \in [Task -> Nat], verdict' \in [Task -> Verdicts]
  PROVE  IInv'
<1> USE SdrAssumption DEF IInv, ClearTransaction, UnlockSdr, node, InXn,
        PutStates,
        Busy, Tools, Stopped
<1>1. NodeTypeOK'
  BY DEF TypeOK, NodeTypeOK
<1>2. DataTypeOK'
  BY EmptySeq DEF TypeOK, DataTypeOK, Heap
<1>3. TaskTypeOK'
  BY DEF TypeOK, TaskTypeOK
<1>4. PutOK'
  BY DEF TypeOK, TaskTypeOK, PutOK
<1>5. \A u \in Task : pc'[u] = "run"
  BY DEF OwnerOK, TypeOK, TaskTypeOK
<1>6. OwnerOK'
  BY <1>5 DEF OwnerOK, TypeOK, NodeTypeOK
<1>7. BootOK'
  BY DEF BootOK
<1>8. EntriesOK'
  BY <1>5 DEF EntriesOK
<1>9. LengthOK'
  BY <1>5 DEF LengthOK
<1> QED BY <1>1, <1>2, <1>3, <1>4, <1>6, <1>7, <1>8, <1>9 DEF TypeOK

(* One more cell in the log.                                               *)
LEMMA WriteToLogOK ==
  ASSUME DataTypeOK, TaskTypeOK, NEW t \in Task, NEW cell \in Cells,
         ~LogInFile => logLength \in Nat, WriteToLog(t, cell)
  PROVE  /\ log' \in Seq(Cells) /\ logLength' \in Int /\ logLength' = logLength + 1
         /\ logfd' \in [Task -> Nat \cup {AtEnd}]
<1> DEFINE pos == IF ~LogInFile THEN logLength
                  ELSE IF logfd[t] = AtEnd THEN Len(log) ELSE logfd[t]
<1>1. pos \in Nat
  BY DEF DataTypeOK, TaskTypeOK, AtEnd
<1>2. log' = IF pos < Len(log) THEN [log EXCEPT ![pos + 1] = cell] ELSE Append(log, cell)
  BY DEF WriteToLog
<1> HIDE DEF pos
<1>3. log' \in Seq(Cells)
  <2>1. CASE pos < Len(log)
    BY <1>1, <1>2, <2>1, ExceptSeq, LenProperties DEF DataTypeOK
  <2>2. CASE ~(pos < Len(log))
    BY <1>2, <2>2 DEF DataTypeOK
  <2> QED BY <2>1, <2>2
<1>4. logLength' = logLength + 1 /\ logLength' \in Int
  BY DEF WriteToLog, DataTypeOK
<1>5. logfd' \in [Task -> Nat \cup {AtEnd}]
  BY DEF WriteToLog, TaskTypeOK, AtEnd
<1> QED BY <1>3, <1>4, <1>5

(* sdr_exit_xn preserves IInv.                                             *)
LEMMA SdrExitXnStep ==
  ASSUME IInv, NEW t \in Task, SdrExitXn(t)
  PROVE  IInv'
<1> USE SdrAssumption DEF IInv
<1>1. /\ phase = "up" /\ pc[t] = "run" /\ InXn(t) /\ xnDepth \in 1..level[t]
      /\ UNCHANGED <<node, dsfile, dssm, modified, put, rev, xnCanceled>>
      /\ xnDepth' \in Nat /\ xnDepth' = xnDepth - 1
      /\ level' \in [Task -> Nat] /\ level' = [level EXCEPT ![t] = @ - 1]
      /\ verdict' \in [Task -> Verdicts]
  BY DEF SdrExitXn, CloseLevel, Running, TypeOK, NodeTypeOK, TaskTypeOK, OwnerOK, Verdicts
<1>2. CASE xnDepth > 1 \/ modified[t]
  <2>1. /\ UNCHANGED <<semFree, sdrOwnerTask, logLength, logEntries, log, logfd, committed>>
        /\ \/ xnDepth > 1 /\ pc' = pc
           \/ pc' = [pc EXCEPT ![t] = "dead"]
    BY <1>1, <1>2 DEF SdrExitXn
  <2> USE DEF node, PutStates, Busy, Tools, Stopped, InXn
  <2>2. NodeTypeOK'
    BY <1>1, <2>1 DEF TypeOK, NodeTypeOK
  <2>3. DataTypeOK'
    BY <1>1, <2>1 DEF TypeOK, DataTypeOK
  <2>4. TaskTypeOK'
    BY <1>1, <2>1 DEF TypeOK, TaskTypeOK
  <2>5. PutOK'
    BY <1>1, <2>1 DEF TypeOK, TaskTypeOK, PutOK
  <2>6. OwnerOK'
    BY <1>1, <2>1 DEF TypeOK, NodeTypeOK, TaskTypeOK, OwnerOK
  <2>7. BootOK' /\ EntriesOK' /\ LengthOK'
    BY <1>1, <2>1 DEF TypeOK, NodeTypeOK, TaskTypeOK, BootOK, EntriesOK, LengthOK
  <2> QED BY <1>1, <2>2, <2>3, <2>4, <2>5, <2>6, <2>7 DEF TypeOK
<1>3. CASE ~(xnDepth > 1 \/ modified[t])
  <2>1. ClearTransaction(t) /\ UnlockSdr /\ committed' = Heap /\ pc' = pc
    BY <1>1, <1>3 DEF SdrExitXn
  <2>2. pc' = [pc EXCEPT ![t] = "run"]
    BY <1>1, <2>1 DEF TypeOK, TaskTypeOK
  <2>3. xnCanceled' \in BOOLEAN
    BY <1>1 DEF TypeOK, NodeTypeOK
  <2> QED BY <1>1, <2>1, <2>2, <2>3, ClearAndUnlockStep
<1> QED BY <1>2, <1>3

(* Logging a control cell, or failing to, preserves IInv.                  *)
LEMMA PutCtlStep ==
  ASSUME IInv, NEW t \in Task, PutCtl(t)
  PROVE  IInv'
<1> USE SdrAssumption DEF IInv
<1>1. /\ phase = "up" /\ pc[t] = "putCtl" /\ InXn(t)
      /\ logLength \in Nat /\ Ctl(put[t].addr) \in Cells
      /\ UNCHANGED <<node, semFree, sdrOwnerTask, logEntries, dsfile, dssm, modified,
                     level, rev, committed>>
  <2>1. \A u \in Task : pc[u] \notin Stopped
    BY DEF PutCtl, OwnerOK, InXn, TypeOK, NodeTypeOK, Stopped
  <2> QED BY <2>1 DEF PutCtl, OwnerOK, PutOK, LengthOK, TypeOK, DataTypeOK, InXn,
                      Cells, PutStates
<1>2. CASE WriteToLog(t, Ctl(put[t].addr)) /\ pc' = [pc EXCEPT ![t] = "putData"]
           /\ UNCHANGED <<xnDepth, xnCanceled, put, verdict>>
  <2>1. /\ log' \in Seq(Cells) /\ logLength' = logLength + 1
        /\ logfd' \in [Task -> Nat \cup {AtEnd}]
    BY <1>1, <1>2, WriteToLogOK DEF TypeOK
  <2> USE <1>1, <1>2, <2>1 DEF node, PutStates, Busy, Tools, Stopped, InXn
  <2>2. NodeTypeOK'
    BY DEF TypeOK, NodeTypeOK
  <2>3. DataTypeOK'
    BY DEF TypeOK, DataTypeOK
  <2>4. TaskTypeOK'
    BY DEF TypeOK, TaskTypeOK
  <2>5. PutOK'
    BY DEF TypeOK, TaskTypeOK, PutOK
  <2>6. OwnerOK'
    BY DEF TypeOK, NodeTypeOK, TaskTypeOK, OwnerOK
  <2>7. BootOK' /\ EntriesOK'
    BY DEF TypeOK, TaskTypeOK, BootOK, EntriesOK
  <2>8. LengthOK'
    BY DEF TypeOK, TaskTypeOK, LengthOK, OwnerOK
  <2> QED BY <2>2, <2>3, <2>4, <2>5, <2>6, <2>7, <2>8 DEF TypeOK
<1>3. CASE CrashXn(t) /\ UNCHANGED <<log, logLength, logfd>>
  <2>1. /\ DataTypeOK' /\ logfd' \in [Task -> Nat \cup {AtEnd}]
        /\ logLength' >= logLength /\ pc[t] \notin Stopped
    BY <1>1, <1>3 DEF TypeOK, DataTypeOK, TaskTypeOK, Stopped
  <2> QED BY <1>1, <1>3, <2>1, CrashXnStep
<1> QED BY <1>2, <1>3 DEF PutCtl

(* Logging the old data, or failing to, preserves IInv.                    *)
LEMMA PutDataStep ==
  ASSUME IInv, NEW t \in Task, PutData(t)
  PROVE  IInv'
<1> USE SdrAssumption DEF IInv
<1> DEFINE cell == Data(Heap[put[t].addr])
<1>1. /\ phase = "up" /\ pc[t] = "putData" /\ InXn(t)
      /\ logLength \in Nat /\ logLength >= 1
      /\ UNCHANGED <<node, semFree, sdrOwnerTask, dsfile, dssm, modified, level, rev,
                     committed>>
  <2>1. \A u \in Task : pc[u] \notin Stopped
    BY DEF PutData, OwnerOK, InXn, TypeOK, NodeTypeOK, Stopped
  <2> QED BY <2>1 DEF PutData, OwnerOK, LengthOK, TypeOK, DataTypeOK, InXn
<1>2. cell \in Cells
  <2>1. put[t].addr \in Addr
    BY <1>1 DEF PutOK, PutStates
  <2> QED BY <2>1 DEF Heap, TypeOK, DataTypeOK, Words, Cells, Data
<1> HIDE DEF cell
<1>3. CASE WriteToLog(t, cell) /\ logEntries' = Append(logEntries, logLength - 1)
           /\ pc' = [pc EXCEPT ![t] = PutDataspace]
           /\ UNCHANGED <<xnDepth, xnCanceled, put, verdict>>
  <2>1. /\ log' \in Seq(Cells) /\ logLength' = logLength + 1
        /\ logfd' \in [Task -> Nat \cup {AtEnd}]
    BY <1>1, <1>2, <1>3, WriteToLogOK DEF TypeOK
  <2> USE <1>1, <1>3, <2>1 DEF node, PutStates, Busy, Tools, Stopped, InXn, PutDataspace
  <2>2. NodeTypeOK'
    BY DEF TypeOK, NodeTypeOK
  <2>3. DataTypeOK'
    BY DEF TypeOK, DataTypeOK
  <2>4. TaskTypeOK'
    BY DEF TypeOK, TaskTypeOK
  <2>5. PutOK'
    BY DEF TypeOK, TaskTypeOK, PutOK
  <2>6. OwnerOK'
    BY DEF TypeOK, NodeTypeOK, TaskTypeOK, OwnerOK
  <2>7. BootOK'
    BY DEF BootOK
  <2>8. EntriesOK'
    BY DEF TypeOK, DataTypeOK, TaskTypeOK, EntriesOK
  <2>9. LengthOK'
    BY DEF TypeOK, TaskTypeOK, LengthOK, OwnerOK
  <2> QED BY <2>2, <2>3, <2>4, <2>5, <2>6, <2>7, <2>8, <2>9 DEF TypeOK
<1>4. CASE /\ CrashXn(t) /\ UNCHANGED logEntries
           /\ \/ UNCHANGED <<log, logLength, logfd>>
              \/ WriteToLog(t, cell)
  <2>1. /\ log' \in Seq(Cells) /\ logLength' \in Int /\ logLength' >= logLength
        /\ logfd' \in [Task -> Nat \cup {AtEnd}]
    <3>1. CASE UNCHANGED <<log, logLength, logfd>>
      BY <3>1 DEF TypeOK, DataTypeOK, TaskTypeOK
    <3>2. CASE WriteToLog(t, cell)
      BY <1>1, <1>2, <3>2, WriteToLogOK DEF TypeOK
    <3> QED BY <1>4, <3>1, <3>2
  <2>2. DataTypeOK' /\ pc[t] \notin Stopped
    BY <1>1, <1>4, <2>1 DEF TypeOK, DataTypeOK, Stopped
  <2> QED BY <1>1, <1>4, <2>1, <2>2, CrashXnStep
<1> QED BY <1>3, <1>4 DEF PutData, cell

(* The write to the file, whole, short or failed, preserves IInv.          *)
LEMMA PutFileStep ==
  ASSUME IInv, NEW t \in Task, PutFile(t)
  PROVE  IInv'
<1> USE SdrAssumption DEF IInv
<1>1. /\ phase = "up" /\ pc[t] = "putFile" /\ InXn(t)
      /\ UNCHANGED <<node, semFree, sdrOwnerTask, logLength, logEntries, log, dssm,
                     logfd, level, rev, committed>>
      /\ put[t] \in [addr : Addr, val : Val]
  BY DEF PutFile, OwnerOK, PutOK, PutStates
<1>2. DataTypeOK'
  BY <1>1 DEF PutFile, TypeOK, DataTypeOK, Words
<1>3. CASE /\ \/ InDram /\ pc' = [pc EXCEPT ![t] = "putDram"] /\ UNCHANGED <<modified, put>>
              \/ Written(t)
           /\ UNCHANGED <<xnDepth, xnCanceled, verdict>>
  <2> USE <1>1, <1>3 DEF node, PutStates, Busy, Tools, Stopped, InXn, Written
  <2>2. NodeTypeOK'
    BY DEF TypeOK, NodeTypeOK
  <2>4. TaskTypeOK'
    BY DEF TypeOK, TaskTypeOK, Puts
  <2>5. PutOK'
    BY DEF TypeOK, TaskTypeOK, PutOK
  <2>6. OwnerOK'
    BY DEF TypeOK, NodeTypeOK, TaskTypeOK, OwnerOK
  <2>7. BootOK' /\ EntriesOK'
    BY DEF TypeOK, TaskTypeOK, BootOK, EntriesOK
  <2>8. LengthOK'
    BY DEF TypeOK, TaskTypeOK, LengthOK, OwnerOK
  <2> QED BY <1>2, <2>2, <2>4, <2>5, <2>6, <2>7, <2>8 DEF TypeOK
<1>4. CASE CrashXn(t) /\ UNCHANGED modified
  <2>1. /\ logfd' \in [Task -> Nat \cup {AtEnd}]
        /\ logLength' >= logLength /\ pc[t] \notin Stopped
    BY <1>1 DEF TypeOK, DataTypeOK, TaskTypeOK, Stopped
  <2> QED BY <1>1, <1>2, <1>4, <2>1, CrashXnStep
<1> QED BY <1>3, <1>4 DEF PutFile

(* The decision to commit, reverse or abort preserves IInv.                *)
LEMMA TerminateXnStep ==
  ASSUME IInv, NEW t \in Task, TerminateXn(t)
  PROVE  IInv'
<1> USE SdrAssumption DEF IInv
<1>1. /\ phase = "up" /\ pc[t] = "term" /\ InXn(t) /\ xnCanceled' = FALSE
      /\ UNCHANGED <<node, xnDepth, dsfile, dssm, modified, put, level, verdict>>
  BY DEF TerminateXn, OwnerOK
<1>2. CASE Finish(t) /\ committed' \in {committed, Heap} /\ UNCHANGED rev
  <2>1. /\ xnDepth' \in Nat /\ xnCanceled' \in BOOLEAN /\ level' \in [Task -> Nat]
        /\ verdict' \in [Task -> Verdicts]
    BY <1>1 DEF TypeOK, NodeTypeOK, TaskTypeOK
  <2> QED BY <1>1, <1>2, <2>1, ClearAndUnlockStep DEF Finish
<1>3. CASE /\ UNCHANGED <<semFree, sdrOwnerTask, logLength, logEntries, log, logfd,
                          committed>>
           /\ \/ pc' = [pc EXCEPT ![t] = "dead"] /\ UNCHANGED rev
              \/ pc' = [pc EXCEPT ![t] = "reverse"] /\ rev' = Len(logEntries)
  <2> USE <1>1, <1>3 DEF node, PutStates, Busy, Tools, Stopped, InXn
  <2>1. NodeTypeOK'
    BY DEF TypeOK, NodeTypeOK
  <2>2. DataTypeOK'
    BY DEF TypeOK, DataTypeOK
  <2>3. TaskTypeOK'
    BY DEF TypeOK, TaskTypeOK
  <2>4. PutOK'
    BY DEF TypeOK, TaskTypeOK, PutOK
  <2>5. OwnerOK'
    BY DEF TypeOK, NodeTypeOK, TaskTypeOK, OwnerOK
  <2>6. BootOK'
    BY DEF BootOK
  <2>7. EntriesOK'
    <3>1. \A u \in Task : u # t => pc'[u] # "reverse"
      BY DEF OwnerOK, TypeOK, TaskTypeOK, NodeTypeOK
    <3>2. \A u \in Task : pc'[u] = "reverse" => rev' <= Len(logEntries')
      BY <3>1 DEF TypeOK, DataTypeOK, TaskTypeOK
    <3> QED BY <3>2 DEF EntriesOK
  <2>8. LengthOK'
    BY DEF TypeOK, TaskTypeOK, LengthOK
  <2> QED BY <2>1, <2>2, <2>3, <2>4, <2>5, <2>6, <2>7, <2>8 DEF TypeOK
<1> QED BY <1>2, <1>3, Zenon DEF TerminateXn

(* Undoing one entry preserves IInv.                                       *)
LEMMA ReverseEntryStep ==
  ASSUME IInv, NEW t \in Task, ReverseEntry(t)
  PROVE  IInv'
<1> USE SdrAssumption DEF IInv
<1> DEFINE o == logEntries[rev]
<1>1. /\ phase = "up" /\ pc[t] = "reverse" /\ rev > 0 /\ InXn(t) /\ o \in Nat
  BY DEF ReverseEntry, OwnerOK, EntriesOK, TypeOK, DataTypeOK
<1>2. EntryData(log, o) \in Val \cup {Garbage}
  BY <1>1, EntryDataType DEF ReverseEntry, TypeOK, DataTypeOK
<1>3. dsfile' \in Words /\ dssm' \in Words
  BY <1>2 DEF ReverseEntry, Restored, TypeOK, DataTypeOK, Words
<1>5. DataTypeOK'
  <2>1. logLength' \in Int /\ rev' \in Nat
    BY <1>1 DEF ReverseEntry, TypeOK, DataTypeOK
  <2>2. logEntries' = logEntries /\ log' = log /\ committed' = committed
    BY DEF ReverseEntry
  <2> QED BY <1>3, <2>1, <2>2 DEF TypeOK, DataTypeOK
<1>7. verdict' \in [Task -> Verdicts]
  BY MarkedVerdict DEF ReverseEntry, TypeOK
<1> HIDE DEF o
<1> USE <1>1 DEF ReverseEntry, node, views, PutStates, Busy, Tools, Stopped, InXn
<1>4. NodeTypeOK'
  BY DEF TypeOK, NodeTypeOK
<1>6. TaskTypeOK' /\ PutOK' /\ BootOK'
  BY DEF TypeOK, TaskTypeOK, PutOK, BootOK
<1>8. OwnerOK'
  BY DEF OwnerOK
<1>9. EntriesOK'
  BY DEF TypeOK, DataTypeOK, EntriesOK
<1>10. LengthOK'
  BY DEF LengthOK, OwnerOK
<1> QED BY <1>4, <1>5, <1>6, <1>7, <1>8, <1>9, <1>10 DEF TypeOK

(* The end of a reversal preserves IInv.                                   *)
LEMMA ReverseDoneStep ==
  ASSUME IInv, NEW t \in Task, ReverseDone(t)
  PROVE  IInv'
<1>1. phase = "up" /\ InXn(t)
  BY DEF ReverseDone, IInv, OwnerOK
<1>2. /\ xnDepth' \in Nat /\ xnCanceled' \in BOOLEAN /\ level' \in [Task -> Nat]
      /\ verdict' \in [Task -> Verdicts]
  BY DEF ReverseDone, IInv, TypeOK, NodeTypeOK, TaskTypeOK
<1> QED BY <1>1, <1>2, ClearAndUnlockStep DEF ReverseDone, Finish

(* An access out of bounds preserves IInv.                                 *)
LEMMA BadAccessStep ==
  ASSUME IInv, NEW t \in Task, BadAccess(t)
  PROVE  IInv'
<1>1. /\ phase = "up" /\ InXn(t) /\ pc[t] \notin Stopped /\ CrashXn(t)
      /\ UNCHANGED <<node, semFree, sdrOwnerTask, logEntries, rev, modified, level>>
  BY DEF BadAccess, Running, Stopped, views
<1>2. /\ DataTypeOK' /\ logfd' \in [Task -> Nat \cup {AtEnd}]
      /\ logLength' >= logLength
  BY DEF BadAccess, views, IInv, TypeOK, DataTypeOK, TaskTypeOK
<1> QED BY <1>1, <1>2, CrashXnStep

(* The death of all tasks preserves IInv.                                  *)
LEMMA CrashStep ==
  ASSUME IInv, NEW kind \in CrashKinds, Crash(kind)
  PROVE  IInv'
<1> USE SdrAssumption DEF IInv, Crash, sdrState, node, Tools, Stopped, PutStates
<1>1. NodeTypeOK'
  BY DEF TypeOK, NodeTypeOK
<1>2. DataTypeOK'
  BY EmptySeq DEF TypeOK, DataTypeOK, Words
<1>3. TaskTypeOK'
  BY DEF TaskTypeOK, Puts, NoPut, AtEnd, Busy
<1>4. verdict' \in [Task -> Verdicts]
  BY DEF Verdicts, NewVerdict
<1>5. PutOK' /\ OwnerOK' /\ BootOK' /\ LengthOK'
  BY DEF PutOK, OwnerOK, BootOK, LengthOK
<1>6. EntriesOK'
  BY DEF EntriesOK
<1> QED BY <1>1, <1>2, <1>3, <1>4, <1>5, <1>6 DEF TypeOK

(* Loading the profile anew preserves IInv.                                *)
LEMMA LoadProfileStep ==
  ASSUME IInv, NEW tool \in BootTools, LoadProfile(tool)
  PROVE  IInv'
<1> DEFINE entries == IF Reversible /\ LogInFile THEN ReloadLogEntries(log) ELSE <<>>
<1>1. /\ entries \in Seq(Nat)
      /\ \A i \in 1..Len(entries) : Readable(log, entries[i])
  <2>1. CASE Reversible /\ LogInFile
    <3>1. PICK n \in 0..Len(log) : /\ entries = [i \in 1..n |-> 2 * (i - 1)]
                                   /\ Reloadable(log, n)
      BY <2>1, ReloadLogEntriesOK DEF IInv, TypeOK, DataTypeOK
    <3>2. \A i \in 1..n : 2 * (i - 1) \in Nat
      OBVIOUS
    <3>3. n \in Nat
      BY DEF IInv, TypeOK, DataTypeOK
    <3>4. entries \in Seq(Nat) /\ Len(entries) = n
      <4> HIDE DEF entries
      <4> QED BY <3>1, <3>2, <3>3
    <3> HIDE DEF entries
    <3> QED BY <3>1, <3>4 DEF Reloadable
  <2>2. CASE ~(Reversible /\ LogInFile)
    BY <2>2, EmptySeq
  <2> QED BY <2>1, <2>2
<1>2. /\ phase' \in Tools /\ loaded' = TRUE /\ semFree' = TRUE
      /\ sdrOwnerTask' = NoTask /\ xnDepth' = 0 /\ xnCanceled' = FALSE
      /\ logEntries' = entries /\ logLength' = 2 * Len(entries) /\ rev' = Len(entries)
      /\ UNCHANGED <<crashes, log, dsfile, dssm, views, pc, put, level, committed,
                     verdict>>
      /\ phase # "up"
  BY SdrAssumption DEF LoadProfile
<1> HIDE DEF entries
<1> USE <1>1, <1>2 DEF IInv, views, Tools, Stopped, PutStates
<1>3. NodeTypeOK'
  BY DEF TypeOK, NodeTypeOK
<1>4. DataTypeOK'
  BY SeqMonotonic DEF TypeOK, DataTypeOK
<1>5. TaskTypeOK' /\ verdict' \in [Task -> Verdicts]
  BY DEF TypeOK, TaskTypeOK
<1>6. PutOK' /\ OwnerOK' /\ BootOK' /\ LengthOK'
  BY DEF PutOK, OwnerOK, BootOK, LengthOK
<1>7. EntriesOK'
  BY DEF EntriesOK, BootOK
<1> QED BY <1>3, <1>4, <1>5, <1>6, <1>7 DEF TypeOK

(* Finding the profile loaded preserves IInv.                              *)
LEMMA ProfileLoadedStep ==
  ASSUME IInv, ProfileLoaded
  PROVE  IInv'
<1> USE DEF IInv, ProfileLoaded, views, Tools, Stopped, PutStates
<1>1. TypeOK'
  <2>1. NodeTypeOK'
    BY DEF TypeOK, NodeTypeOK
  <2>2. DataTypeOK'
    BY DEF TypeOK, DataTypeOK
  <2>3. TaskTypeOK' /\ verdict' \in [Task -> Verdicts]
    BY DEF TypeOK, TaskTypeOK
  <2> QED BY <2>1, <2>2, <2>3 DEF TypeOK
<1>2. PutOK' /\ OwnerOK' /\ BootOK' /\ LengthOK'
  BY DEF PutOK, OwnerOK, BootOK, LengthOK
<1>3. EntriesOK'
  BY DEF EntriesOK
<1> QED BY <1>1, <1>2, <1>3

(* Undoing one entry on load preserves IInv.                               *)
LEMMA RecoverEntryStep ==
  ASSUME IInv, RecoverEntry
  PROVE  IInv'
<1> DEFINE o == logEntries[rev]
<1>1. phase \in Tools /\ rev > 0 /\ rev \in 1..Len(logEntries) /\ o \in Nat
      /\ Readable(log, o)
  BY DEF RecoverEntry, IInv, EntriesOK, TypeOK, DataTypeOK
<1>2. EntryData(log, o) \in Val \cup {Garbage}
  BY <1>1, EntryDataType DEF IInv, TypeOK, DataTypeOK
<1>3. dsfile' \in Words
  BY <1>2 DEF RecoverEntry, Restored, IInv, TypeOK, DataTypeOK, Words
<1> HIDE DEF o
<1> USE <1>1 DEF IInv, RecoverEntry, node, views, Tools, Stopped, PutStates
<1>4. TypeOK'
  BY <1>3 DEF TypeOK, NodeTypeOK, DataTypeOK, TaskTypeOK
<1>5. PutOK' /\ OwnerOK' /\ BootOK' /\ LengthOK'
  BY DEF PutOK, OwnerOK, BootOK, LengthOK
<1>6. EntriesOK'
  BY DEF EntriesOK, TypeOK, DataTypeOK, BootOK
<1> QED BY <1>4, <1>5, <1>6

(* The end of a recovery preserves IInv.                                   *)
LEMMA RecoverDoneStep ==
  ASSUME IInv, RecoverDone
  PROVE  IInv'
<1> USE SdrAssumption DEF IInv, RecoverDone, sdrState, views, Tools, Stopped,
        PutStates
<1>1. TypeOK'
  BY DEF TypeOK, NodeTypeOK, DataTypeOK, TaskTypeOK, Words, Fresh
<1>2. PutOK' /\ BootOK'
  BY DEF PutOK, BootOK
<1>3. OwnerOK'
  BY DEF OwnerOK, BootOK, InXn
<1>4. EntriesOK' /\ LengthOK'
  BY DEF EntriesOK, LengthOK, BootOK, TypeOK, DataTypeOK
<1> QED BY <1>1, <1>2, <1>3, <1>4

(* A failed recovery preserves IInv.                                       *)
LEMMA RecoverFailsStep ==
  ASSUME IInv, RecoverFails
  PROVE  IInv'
<1> USE SdrAssumption DEF IInv, RecoverFails, sdrState, views, Tools, Stopped,
        PutStates
<1>1. TypeOK'
  BY EmptySeq DEF TypeOK, NodeTypeOK, DataTypeOK, TaskTypeOK, Words, Fresh
<1>2. PutOK' /\ OwnerOK' /\ BootOK' /\ LengthOK'
  BY DEF PutOK, OwnerOK, BootOK, LengthOK
<1>3. EntriesOK'
  BY DEF EntriesOK
<1> QED BY <1>1, <1>2, <1>3

(* ionInitialize's first transaction preserves IInv.                       *)
LEMMA IonInitializeStep ==
  ASSUME IInv, IonInitialize
  PROVE  IInv'
<1> USE SdrAssumption DEF IInv, IonInitialize, UnlockSdr, views, Tools,
        Stopped, PutStates
<1>1. TypeOK'
  BY EmptySeq DEF TypeOK, NodeTypeOK, DataTypeOK, TaskTypeOK
<1>2. PutOK' /\ BootOK' /\ LengthOK'
  BY DEF PutOK, BootOK, LengthOK
<1>3. OwnerOK'
  BY DEF OwnerOK, BootOK, InXn
<1>4. EntriesOK'
  BY EmptySeq DEF EntriesOK, BootOK
<1> QED BY <1>1, <1>2, <1>3, <1>4

-----------------------------------------------------------------------------
(* A fresh SDR satisfies the invariant.                                    *)
LEMMA InitIInv == Init => IInv
<1> SUFFICES ASSUME Init PROVE IInv
  OBVIOUS
<1> USE SdrAssumption DEF Init, Tools, PutStates, Stopped
<1>1. TypeOK
  <2>1. NodeTypeOK
    BY DEF NodeTypeOK
  <2>2. DataTypeOK
    BY EmptySeq DEF DataTypeOK, Words, Fresh
  <2>3. TaskTypeOK
    BY DEF TaskTypeOK, Busy, Puts, NoPut, AtEnd
  <2>4. verdict \in [Task -> Verdicts]
    BY DEF Verdicts, NewVerdict
  <2> QED BY <2>1, <2>2, <2>3, <2>4 DEF TypeOK
<1>2. PutOK /\ OwnerOK /\ BootOK /\ LengthOK
  BY DEF PutOK, OwnerOK, BootOK, LengthOK, InXn
<1>3. EntriesOK
  BY EmptySeq DEF EntriesOK
<1> QED BY <1>1, <1>2, <1>3 DEF IInv

(* Every step preserves the invariant.                                     *)
LEMMA NextIInv == IInv /\ [Next]_vars => IInv'
<1> SUFFICES ASSUME IInv, [Next]_vars PROVE IInv'
  OBVIOUS
<1>1. ASSUME NEW t \in Task, TaskStep(t) PROVE IInv'
  BY <1>1, SdrBeginXnStep, SdrEndXnStep, SdrCancelXnStep, SdrExitXnStep,
     CloseAfterCrashStep, SdrWriteStep, BadAccessStep, SdrStopUsingStep, PutCtlStep,
     PutDataStep, PutFileStep, PutDramStep, TerminateXnStep, ReverseEntryStep,
     ReverseDoneStep, ReverseFailsStep DEF TaskStep
<1>2. ASSUME NEW kind \in CrashKinds, Crash(kind) PROVE IInv'
  BY <1>2, CrashStep
<1>3. CASE Boot \/ RecoverFails
  BY <1>3, LoadProfileStep, ProfileLoadedStep, RecoverEntryStep, RecoverDoneStep,
     RecoverFailsStep, IonInitializeStep DEF Boot
<1>4. CASE UNCHANGED vars
  BY <1>4 DEF vars, node, sdrState, views, IInv, TypeOK, NodeTypeOK, DataTypeOK,
     TaskTypeOK, PutOK, OwnerOK, InXn, BootOK, EntriesOK, Readable, LengthOK
<1> QED BY <1>1, <1>2, <1>3, <1>4 DEF Next

(* The invariant holds in every state.                                     *)
LEMMA SpecIInv == Spec => []IInv
BY InitIInv, NextIInv, PTL DEF Spec

(* Every variable keeps its type, whatever the faults, the crashes and the *)
(* way the node is brought back: in particular no reversal or recovery     *)
(* reads past the end of the log, and no log entry has a negative offset.  *)
THEOREM TypeCorrect == Spec => []TypeOK
<1>1. IInv => TypeOK
  BY DEF IInv
<1> QED BY <1>1, SpecIInv, PTL

(* The transaction mutex, for any number of tasks, any depth of nesting,   *)
(* all faults and all kinds of crash and restart.                          *)
THEOREM MutualExclusion == Spec => []Exclusive
<1>1. IInv => Exclusive
  BY DEF IInv, OwnerOK, Exclusive
<1> QED BY <1>1, SpecIInv, PTL
-----------------------------------------------------------------------------
(* What sdr_end_xn reports.                                                *)
ReportsTrue(t) ==
  /\ verdict[t].ret = "error" => verdict[t].failed
  /\ verdict[t].ret = "zero"  => ~verdict[t].failed

(* Every level that the task has opened is one of the transaction it is in. *)
Whole(t) == InXn(t) /\ pc[t] \in PutStates \cup {"run"} /\ xnDepth = level[t]

(* A task is inside a begin only while the node is up, and has levels that *)
(* its transaction does not count exactly if a failure has ended one.      *)
ReportOK ==
  /\ phase # "up" => \A t \in Task : level[t] = 0
  /\ \A t \in Task : level[t] = 0 => ReportsTrue(t)
  /\ phase = "up" => \A t \in Task : level[t] > 0 => (verdict[t].failed <=> ~Whole(t))

(* It is enough to look at the task that makes the step.                   *)
LEMMA OneReports ==
  ASSUME IInv, IInv', ReportOK, phase = "up", phase' = "up", NEW t \in Task,
         \A u \in Task \ {t} : /\ level'[u] = level[u] /\ verdict'[u] = verdict[u]
                               /\ pc'[u] = pc[u],
         \/ UNCHANGED <<sdrOwnerTask, xnDepth>>
         \/ {sdrOwnerTask, sdrOwnerTask'} \subseteq {t, NoTask},
         level'[t] = 0 => ReportsTrue(t)',
         level'[t] > 0 => (verdict'[t].failed <=> ~Whole(t)')
  PROVE  ReportOK'
<1>1. ASSUME NEW u \in Task, u # t, level'[u] > 0 PROVE verdict'[u].failed <=> ~Whole(u)'
  <2>1. level[u] > 0 /\ (verdict[u].failed <=> ~Whole(u))
    BY <1>1 DEF ReportOK
  <2>2. (InXn(u)' <=> InXn(u)) /\ (InXn(u) => UNCHANGED xnDepth)
    BY <1>1, SdrAssumption DEF InXn
  <2> QED BY <1>1, <2>1, <2>2 DEF Whole
<1>2. ASSUME NEW u \in Task, u # t, level'[u] = 0 PROVE ReportsTrue(u)'
  BY <1>2 DEF ReportOK, ReportsTrue
<1> QED BY <1>1, <1>2 DEF ReportOK


LEMMA BeginReports ==
  ASSUME IInv, IInv', ReportOK, NEW t \in Task, SdrBeginXn(t)
  PROVE  ReportOK'
<1> USE SdrAssumption DEF SdrBeginXn, TakeSdr, Running, InXn, node
<1>1. /\ phase = "up" /\ phase' = "up" /\ level[t] \in Nat /\ level'[t] = level[t] + 1
      /\ pc[t] = "run" /\ UNCHANGED pc
      /\ \A u \in Task \ {t} : level'[u] = level[u] /\ verdict'[u] = verdict[u]
      /\ verdict'[t] = IF level[t] = 0 THEN NewVerdict ELSE verdict[t]
  BY DEF IInv, TypeOK, NodeTypeOK, TaskTypeOK
<1>2. {sdrOwnerTask, sdrOwnerTask'} \subseteq {t, NoTask}
  BY <1>1 DEF IInv, OwnerOK
<1>3. verdict'[t].failed <=> ~Whole(t)'
  <2>1. CASE level[t] = 0
    BY <1>1, <2>1 DEF IInv, OwnerOK, Whole, NewVerdict
  <2>2. CASE level[t] # 0
    <3>1. level[t] > 0 /\ (verdict[t].failed <=> ~Whole(t))
      BY <1>1, <2>2 DEF ReportOK
    <3>2. Whole(t)' <=> Whole(t)
      BY <1>1, <2>2 DEF IInv, OwnerOK, TypeOK, NodeTypeOK, Whole
    <3> QED BY <1>1, <2>2, <3>1, <3>2
  <2> QED BY <2>1, <2>2
<1> QED BY <1>1, <1>2, <1>3, OneReports

(* The calls that close a level.                                           *)
LEMMA CloseReports ==
  ASSUME IInv, IInv', ReportOK, NEW t \in Task,
         SdrEndXn(t) \/ SdrCancelXn(t) \/ SdrExitXn(t) \/ CloseAfterCrash(t)
  PROVE  ReportOK'
<1> USE SdrAssumption DEF CloseLevel, Running, InXn, node, UnlockSdr, ClearTransaction, sdrState
<1>1. /\ phase = "up" /\ phase' = "up" /\ level[t] \in Nat /\ level[t] > 0
      /\ level'[t] = level[t] - 1 /\ pc[t] = "run"
      /\ \A u \in Task \ {t} : /\ level'[u] = level[u] /\ verdict'[u] = verdict[u]
                               /\ pc'[u] = pc[u]
  BY DEF IInv, TypeOK, NodeTypeOK, TaskTypeOK, SdrEndXn, SdrCancelXn, SdrExitXn, CloseAfterCrash
<1>2. \/ UNCHANGED <<sdrOwnerTask, xnDepth>>
      \/ {sdrOwnerTask, sdrOwnerTask'} \subseteq {t, NoTask}
  BY DEF SdrEndXn, SdrCancelXn, SdrExitXn, CloseAfterCrash
<1>3. verdict[t].failed <=> ~Whole(t)
  BY <1>1 DEF ReportOK
<1>4. verdict \in [Task -> Verdicts] /\ xnDepth \in Nat
  BY DEF IInv, TypeOK, NodeTypeOK
<1>5. /\ verdict'[t].failed = verdict[t].failed
      /\ verdict'[t].ret \in {"zero", "error"} =>
           /\ SdrEndXn(t)
           /\ verdict'[t].ret = IF InXn(t) THEN "zero" ELSE "error"
  BY <1>4 DEF SdrEndXn, SdrCancelXn, SdrExitXn, CloseAfterCrash, Verdicts
<1>6. CASE InXn(t)
  <2>1. xnDepth \in 1..level[t]
    BY <1>1, <1>6 DEF IInv, OwnerOK
  <2>2. Whole(t) <=> xnDepth = level[t]
    BY <1>1, <1>6 DEF Whole
  <2>3. xnDepth' = xnDepth - 1
    BY <1>6 DEF SdrEndXn, SdrCancelXn, SdrExitXn, CloseAfterCrash
  <2>4. xnDepth > 1 => UNCHANGED <<sdrOwnerTask, pc>>
    BY <1>6 DEF SdrEndXn, SdrCancelXn, SdrExitXn, CloseAfterCrash
  <2>5. xnDepth = 1 /\ InXn(t)' => pc'[t] \in {"term", "dead"}
    BY <1>6 DEF SdrEndXn, SdrCancelXn, SdrExitXn, CloseAfterCrash, IInv, TypeOK, TaskTypeOK
  <2>6. level'[t] = 0 => ReportsTrue(t)'
    BY <1>1, <1>3, <1>5, <1>6, <2>1, <2>2 DEF ReportsTrue
  <2>7. level'[t] > 0 => (verdict'[t].failed <=> ~Whole(t)')
    <3>1. CASE xnDepth > 1
      BY <1>1, <1>3, <1>5, <1>6, <2>1, <2>2, <2>3, <2>4, <3>1 DEF Whole
    <3>2. CASE xnDepth = 1
      BY <1>1, <1>3, <1>5, <1>6, <2>1, <2>2, <2>5, <3>2 DEF Whole, PutStates
    <3> QED BY <2>1, <3>1, <3>2
  <2> QED BY <1>1, <1>2, <2>6, <2>7, OneReports
<1>7. CASE ~InXn(t)
  <2>1. verdict[t].failed /\ UNCHANGED sdrOwnerTask
    BY <1>3, <1>7 DEF Whole, SdrEndXn, SdrCancelXn, SdrExitXn, CloseAfterCrash
  <2>2. level'[t] = 0 => ReportsTrue(t)'
    BY <1>5, <1>7, <2>1 DEF ReportsTrue
  <2>3. verdict'[t].failed /\ ~Whole(t)'
    BY <1>5, <1>7, <2>1 DEF Whole
  <2> QED BY <1>1, <1>2, <2>2, <2>3, OneReports
<1> QED BY <1>6, <1>7

(* A transaction ends by a failure.                                        *)
LEMMA CrashXnReports ==
  ASSUME IInv, IInv', ReportOK, NEW t \in Task, CrashXn(t), phase = "up",
         InXn(t), pc[t] \in PutStates \cup {"run"},
         UNCHANGED <<phase, level, sdrOwnerTask>>
  PROVE  ReportOK'
<1>1. level[t] \in Nat /\ level[t] > 0
  BY DEF IInv, OwnerOK, TypeOK, NodeTypeOK, TaskTypeOK
<1>2. verdict'[t].failed /\ pc'[t] = "term"
  BY DEF CrashXn, IInv, TypeOK, TaskTypeOK, Verdicts
<1>3. \A u \in Task \ {t} : /\ level'[u] = level[u] /\ verdict'[u] = verdict[u]
                            /\ pc'[u] = pc[u]
  BY DEF CrashXn, IInv, TypeOK, TaskTypeOK
<1>4. {sdrOwnerTask, sdrOwnerTask'} \subseteq {t, NoTask}
  BY DEF InXn
<1>5. ~Whole(t)'
  BY <1>2 DEF Whole, PutStates
<1> QED BY <1>1, <1>2, <1>3, <1>4, <1>5, OneReports

(* The steps of a transaction between its calls.                           *)
LEMMA InsideReports ==
  ASSUME IInv, IInv', ReportOK, NEW t \in Task, phase = "up",
         UNCHANGED <<phase, level, xnDepth>>,
         \A u \in Task \ {t} : verdict'[u] = verdict[u] /\ pc'[u] = pc[u],
         verdict'[t].failed = verdict[t].failed, verdict'[t].ret = verdict[t].ret,
         \/ UNCHANGED sdrOwnerTask /\ {pc[t], pc'[t]} \subseteq PutStates \cup {"run"}
         \/ /\ pc[t] \in {"term", "reverse", "dead"}
            /\ sdrOwnerTask' \in {sdrOwnerTask, NoTask}
            /\ pc'[t] = "run" => sdrOwnerTask' = NoTask
            /\ pc'[t] \notin PutStates
  PROVE  ReportOK'
<1>1. \/ UNCHANGED <<sdrOwnerTask, xnDepth>>
      \/ {sdrOwnerTask, sdrOwnerTask'} \subseteq {t, NoTask}
  BY DEF IInv, OwnerOK, InXn
<1>2. level'[t] = 0 => ReportsTrue(t)'
  BY DEF ReportOK, ReportsTrue
<1>3. ASSUME level'[t] > 0 PROVE verdict'[t].failed <=> ~Whole(t)'
  <2>1. verdict[t].failed <=> ~Whole(t)
    BY <1>3 DEF ReportOK
  <2>2. Whole(t)' <=> Whole(t)
    BY SdrAssumption DEF Whole, InXn, PutStates
  <2> QED BY <2>1, <2>2
<1> QED BY <1>1, <1>2, <1>3, OneReports

(* Every step of a task.                                                   *)
LEMMA TaskReports ==
  ASSUME IInv, IInv', ReportOK, NEW t \in Task, TaskStep(t)
  PROVE  ReportOK'
<1>1. CASE SdrBeginXn(t)
  BY <1>1, BeginReports
<1>2. CASE SdrEndXn(t) \/ SdrCancelXn(t) \/ SdrExitXn(t) \/ CloseAfterCrash(t)
  BY <1>2, CloseReports
<1>3. CASE CrashXn(t) /\ (BadAccess(t) \/ PutCtl(t) \/ PutData(t) \/ PutFile(t))
  <2>1. phase = "up" /\ pc[t] \in PutStates \cup {"run"} /\ UNCHANGED <<phase, level, sdrOwnerTask>>
    BY <1>3 DEF BadAccess, Running, PutCtl, PutData, PutFile, PutStates, node
  <2>2. InXn(t)
    BY <1>3, <2>1 DEF BadAccess, PutCtl, PutData, PutFile, IInv, OwnerOK
  <2> QED BY <1>3, <2>1, <2>2, CrashXnReports
<1>4. CASE \/ SdrWrite(t) \/ SdrStopUsing(t) \/ PutDram(t)
           \/ ~CrashXn(t) /\ (PutCtl(t) \/ PutData(t) \/ PutFile(t))
  <2>1. /\ phase = "up" /\ {pc[t], pc'[t]} \subseteq PutStates \cup {"run"}
        /\ UNCHANGED <<phase, level, sdrOwnerTask, xnDepth, verdict>>
        /\ \A u \in Task \ {t} : pc'[u] = pc[u]
    BY <1>4 DEF SdrWrite, SdrStopUsing, Running, PutCtl, PutData, PutFile, PutDram, Written,
       PutStates, PutDataspace, node, sdrState, IInv, TypeOK, TaskTypeOK
  <2> QED BY <2>1, InsideReports
<1>5. CASE TerminateXn(t) \/ ReverseEntry(t) \/ ReverseDone(t) \/ ReverseFails(t)
  <2>1. /\ phase = "up" /\ UNCHANGED <<phase, level, xnDepth>>
        /\ pc[t] \in {"term", "reverse", "dead"} /\ pc'[t] \notin PutStates
        /\ sdrOwnerTask' \in {sdrOwnerTask, NoTask}
        /\ pc'[t] = "run" => sdrOwnerTask' = NoTask
        /\ \A u \in Task \ {t} : pc'[u] = pc[u]
    BY <1>5 DEF TerminateXn, ReverseEntry, ReverseDone, ReverseFails, Finish, UnlockSdr,
       PutStates, node, sdrState, IInv, TypeOK, TaskTypeOK
  <2>2. /\ \A u \in Task \ {t} : verdict'[u] = verdict[u]
        /\ verdict'[t].failed = verdict[t].failed /\ verdict'[t].ret = verdict[t].ret
    BY <1>5 DEF TerminateXn, ReverseEntry, ReverseDone, ReverseFails, IInv, TypeOK, Verdicts
  <2> QED BY <2>1, <2>2, InsideReports
<1> QED BY <1>1, <1>2, <1>3, <1>4, <1>5 DEF TaskStep, BadAccess

LEMMA NextReports == IInv /\ IInv' /\ ReportOK /\ [Next]_vars => ReportOK'
<1> SUFFICES ASSUME IInv, IInv', ReportOK, [Next]_vars PROVE ReportOK'
  OBVIOUS
<1>1. ASSUME NEW t \in Task, TaskStep(t) PROVE ReportOK'
  BY <1>1, TaskReports
<1>2. ASSUME NEW kind \in CrashKinds, Crash(kind) PROVE ReportOK'
  BY <1>2 DEF Crash, ReportOK, ReportsTrue, NewVerdict
<1>3. CASE Boot \/ RecoverFails
  <2>1. phase # "up" /\ UNCHANGED <<level, verdict>>
    BY <1>3 DEF Boot, LoadProfile, ProfileLoaded, RecoverEntry, RecoverDone, IonInitialize,
       RecoverFails, Tools
  <2> QED BY <2>1 DEF ReportOK, ReportsTrue
<1>4. CASE UNCHANGED vars
  BY <1>4 DEF vars, node, sdrState, ReportOK, ReportsTrue, Whole, InXn
<1> QED BY <1>1, <1>2, <1>3, <1>4 DEF Next

(* A task is told that its transaction failed only if an operation of it   *)
(* failed, and that it ended well only if none did, however deep begins    *)
(* and closers were nested after the failure, and whatever has failed.     *)
THEOREM FailuresAreReported == Spec => []EndReportsFailure
<1>1. Init => ReportOK
  BY DEF Init, ReportOK, ReportsTrue, NewVerdict
<1>2. ReportOK => EndReportsFailure
  BY DEF ReportOK, ReportsTrue, EndReportsFailure, Closed
<1> QED BY <1>1, <1>2, SpecIInv, NextReports, PTL DEF Spec
=============================================================================
