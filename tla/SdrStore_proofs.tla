---------------------------- MODULE SdrStore_proofs ----------------------------
(***************************************************************************)
(* What a protected SDR keeps through crashes, and that it is an atomic    *)
(* store: Recoverable is an invariant, and SdrXn implements AtomicStore    *)
(* under the mapping that SdrXn states, step by step.                      *)
(*                                                                         *)
(* The argument: the entries that the next load would find are the first   *)
(* ones of the log; by the invariant AInv of SdrAtomic_proofs they name    *)
(* every word that differs from its committed value, and the oldest entry  *)
(* of a word holds that value.  So the abstract store is the committed     *)
(* contents, which no step but a commit changes.                           *)
(***************************************************************************)
EXTENDS SdrAtomic_proofs, ListLemmas

(* Where committed contents outlive the tasks: an SDR in memory only does  *)
(* not survive a power failure.                                            *)
Surviving == Protected /\ (InFile \/ CrashKinds = {})

(* A failed recovery destroys the SDR.                                     *)
NeverDestroyed == Surviving /\ "recoveryFails" \notin Faults

-----------------------------------------------------------------------------
(* The contents that n good entries give back.                             *)
LEMMA DurableIs ==
  ASSUME IInv, LogGood(log, committed), NEW n \in Nat, 2 * n <= Len(log),
         DurableEntries = [i \in 1..n |-> 2 * (i - 1)],
         Clean(log, committed, IF InFile THEN dsfile ELSE dssm, n)
  PROVE  Durable = committed
<1> DEFINE es == DurableEntries
           m == IF InFile THEN dsfile ELSE dssm
           Of(a) == {i \in DOMAIN es : EntryAddr(log, es[i]) = a}
           Oldest(a) == CHOOSE i \in Of(a) : \A j \in Of(a) : i <= j
           Gives(a) == IF Of(a) # {} THEN EntryData(log, es[Oldest(a)]) ELSE m[a]
<1>1. log \in Seq(Cells) /\ committed \in Words /\ m \in Words /\ Len(log) \in Nat
  BY DEF IInv, TypeOK, DataTypeOK
<1>2. DOMAIN es = 1..n /\ \A i \in 1..n : es[i] = 2 * (i - 1)
  OBVIOUS
<1>3. \A i \in 1..n : EntryAddr(log, es[i]) = AddrAt(log, i)
  <2> SUFFICES ASSUME NEW i \in 1..n PROVE EntryAddr(log, es[i]) = AddrAt(log, i)
    OBVIOUS
  <2>1. es[i] + 1 = 2 * i - 1
    BY <1>2
  <2> QED BY <2>1 DEF EntryAddr, AddrAt
<1>4. ASSUME NEW a \in Addr PROVE Gives(a) = committed[a]
  <2>1. CASE Of(a) = {}
    <3>1. ~Logged(log, a, n)
      BY <1>2, <1>3, <2>1 DEF Logged
    <3>2. m[a] = committed[a]
      BY <3>1 DEF Clean
    <3> QED BY <2>1, <3>2
  <2>2. CASE Of(a) # {}
    <3> DEFINE o == Oldest(a)
    <3>1. o \in Of(a) /\ \A j \in Of(a) : o <= j
      <4>1. Of(a) \in SUBSET Nat
        BY <1>2
      <4>2. \E x \in Of(a) : \A y \in Of(a) : x <= y
        BY <2>2, <4>1, LeastExists
      <4> HIDE DEF Of
      <4> QED BY <4>2
    <3> HIDE DEF o
    <3>2. /\ o \in 1..n /\ AddrAt(log, o) = a /\ es[o] = 2 * (o - 1)
          /\ o \in 1..Len(log) /\ 2 * o <= Len(log)
      BY <1>1, <1>2, <1>3, <3>1
    <3>3. ~Logged(log, a, o - 1)
      <4> SUFFICES ASSUME NEW i \in 1..(o - 1), AddrAt(log, i) = a PROVE FALSE
        BY DEF Logged
      <4>1. i \in Of(a) /\ i < o
        BY <1>2, <1>3, <3>2
      <4> QED BY <3>1, <3>2, <4>1
    <3>4. log[2 * o].kind = "data" /\ log[2 * o].val = committed[a]
      BY <3>2, <3>3 DEF LogGood
    <3>5. EntryData(log, es[o]) = committed[a]
      <4>1. es[o] + 2 = 2 * o
        BY <3>2
      <4> QED BY <3>4, <4>1 DEF EntryData
    <3> QED BY <2>2, <3>5 DEF o
  <2> QED BY <2>1, <2>2
<1>5. Durable = [a \in Addr |-> Gives(a)]
  BY DEF Durable
<1> HIDE DEF Gives
<1> QED BY <1>1, <1>4, <1>5 DEF Words

(* The entries that reloadLogEntries finds in a good log are those whose   *)
(* two cells are there; they name every word that the whole log names.     *)
LEMMA ReloadedEntries ==
  ASSUME IInv, LogGood(log, committed)
  PROVE  \E n \in Nat : /\ ReloadLogEntries(log) = [i \in 1..n |-> 2 * (i - 1)]
                        /\ 2 * n <= Len(log) /\ Len(log) < 2 * n + 2
                        /\ \A a, k : k \in Nat /\ Logged(log, a, k) => Logged(log, a, n)
<1>1. log \in Seq(Cells) /\ Len(log) \in Nat
  BY DEF IInv, TypeOK, DataTypeOK
<1>2. PICK n \in 0..Len(log) : /\ ReloadLogEntries(log) = [i \in 1..n |-> 2 * (i - 1)]
                               /\ Reloadable(log, n) /\ ~Reloadable(log, n + 1)
  BY <1>1, ReloadLogEntriesOK
<1>3. 2 * n <= Len(log) /\ Len(log) < 2 * n + 2 /\ n \in Nat
  BY <1>1, <1>2, ReloadGood
<1>4. \A a, k : k \in Nat /\ Logged(log, a, k) => Logged(log, a, n)
  BY <1>1, <1>3 DEF Logged
<1> QED BY <1>2, <1>3, <1>4

(* While the node is up, the list of entries undoes the open transaction,  *)
(* also after a part of it has been undone.                                *)
LEMMA ListUndoes ==
  ASSUME IInv, AInv, phase = "up"
  PROVE  Undoable(Len(logEntries))
<1>1. Len(logEntries) \in Nat
  BY DEF IInv, TypeOK, DataTypeOK
<1>2. CASE sdrOwnerTask = NoTask
  BY <1>2, EmptySeq DEF AInv, UpOK, Idle
<1>3. CASE sdrOwnerTask # NoTask
  <2>1. PICK t \in Task : InXn(t)
    BY <1>3 DEF InXn, IInv, TypeOK, NodeTypeOK
  <2>2. OwnerUndoable(t)
    BY <2>1 DEF AInv, UpOK
  <2>3. CASE pc[t] # "reverse"
    BY <2>2, <2>3 DEF OwnerUndoable
  <2>4. CASE pc[t] = "reverse"
    <3>1. Undoable(rev) /\ rev <= Len(logEntries) /\ rev \in Nat
      BY <2>2, <2>4 DEF OwnerUndoable, IInv, EntriesOK, TypeOK, DataTypeOK
    <3> QED BY <1>1, <3>1, CleanMonotone DEF Undoable
  <2> QED BY <2>3, <2>4
<1> QED BY <1>2, <1>3

(* The invariants give the committed contents back.                        *)
LEMMA AInvRecoverable ==
  ASSUME Surviving, IInv, AInv
  PROVE  Recoverable
<1> DEFINE m == IF InFile THEN dsfile ELSE dssm
<1>1. phase = "up" \/ (InFile /\ LogInFile)
  BY DEF AInv, DownOK, Surviving
<1>2. LogGood(log, committed)
  BY <1>1 DEF AInv, UpOK, DownOK
<1>3. CASE LogInFile
  <2>1. PICK n \in Nat : /\ ReloadLogEntries(log) = [i \in 1..n |-> 2 * (i - 1)]
                         /\ 2 * n <= Len(log)
                         /\ \A a, k : k \in Nat /\ Logged(log, a, k) => Logged(log, a, n)
    BY <1>2, ReloadedEntries
  <2>2. PICK k \in Nat : Clean(log, committed, m, k)
    <3>1. Len(log) \in Nat /\ Len(logEntries) \in Nat
      BY DEF IInv, TypeOK, DataTypeOK
    <3>2. CASE InFile
      BY <3>1, <3>2 DEF AInv, FileOK
    <3>3. CASE ~InFile
      BY SdrAssumption, <1>1, <3>1, <3>3, ListUndoes DEF Undoable
    <3> QED BY <3>2, <3>3
  <2>3. Clean(log, committed, m, n)
    BY <2>1, <2>2 DEF Clean
  <2>4. DurableEntries = [i \in 1..n |-> 2 * (i - 1)]
    BY <1>3, <2>1 DEF DurableEntries, Surviving, Protected
  <2> QED BY <1>2, <2>1, <2>3, <2>4, DurableIs DEF Recoverable
<1>4. CASE ~LogInFile
  <2> DEFINE n == Len(logEntries)
  <2>1. n \in Nat /\ logEntries \in Seq(Int)
    BY DEF IInv, TypeOK, DataTypeOK
  <2>2. ListOK /\ Clean(log, committed, m, n)
    BY SdrAssumption, <1>1, <1>4, ListUndoes DEF AInv, UpOK, Undoable
  <2>3. DurableEntries = [i \in 1..n |-> 2 * (i - 1)]
    <3>1. logEntries = [i \in 1..n |-> logEntries[i]]
      BY <2>1
    <3>2. logEntries = [i \in 1..n |-> 2 * (i - 1)]
      BY <2>2, <3>1 DEF ListOK
    <3> QED BY <1>4, <3>2 DEF DurableEntries, Surviving, Protected
  <2> HIDE DEF n
  <2>4. 2 * n <= Len(log)
    BY <2>2 DEF ListOK, n
  <2> QED BY <1>2, <2>1, <2>2, <2>3, <2>4, DurableIs DEF Recoverable
<1> QED BY <1>3, <1>4

(* Both invariants hold in every state of a protected SDR.                 *)
LEMMA SpecAInv == Protected => (Spec => [](IInv /\ AInv))
<1> SUFFICES ASSUME Protected PROVE Spec => [](IInv /\ AInv)
  OBVIOUS
<1>1. Init => AInv
  BY InitAInv
<1>2. IInv /\ IInv' /\ AInv /\ [Next]_vars => AInv'
  BY NextAInv
<1> QED BY SpecIInv, <1>1, <1>2, PTL DEF Spec

(* Write-ahead logging: in every state, also in the middle of a write, of  *)
(* a reversal, of a recovery, or down, what log and dataspace hold gives   *)
(* back the last committed contents; for any tasks, words, nesting and     *)
(* number of crashes, with the log in a file or in memory.                 *)
THEOREM AlwaysRecoverable == Surviving => (Spec => []Recoverable)
<1> SUFFICES ASSUME Surviving PROVE Spec => []Recoverable
  OBVIOUS
<1>1. Spec => [](IInv /\ AInv)
  BY SpecAInv DEF Surviving
<1>2. IInv /\ AInv => Recoverable
  BY AInvRecoverable
<1> QED BY <1>1, <1>2, PTL

-----------------------------------------------------------------------------
(* The refinement.  What tasks see, in terms of the committed contents.    *)
Work == IF Visible THEN Heap ELSE committed
Open == Visible /\ sdrOwnerTask # NoTask

Seen ==
  /\ phase # "up" \/ sdrOwnerTask = NoTask => Work = committed /\ ~Open
  /\ phase = "up" =>
       \A t \in Task : InXn(t) => IF Undoing(t) THEN Work = committed /\ ~Open
                                                ELSE Work = Heap /\ Open

(* The steps of the atomic store.                                          *)
Stutters == (Open' <=> Open) /\ UNCHANGED <<committed, Work>>
Begins   == ~Open /\ Open' /\ UNCHANGED <<committed, Work>>
Writes   == /\ Open /\ Open' /\ UNCHANGED committed
            /\ \E a \in Addr, v \in Val : Work' = [Work EXCEPT ![a] = v]
Commits  == Open /\ ~Open' /\ committed' = Work /\ UNCHANGED Work
Aborts   == Open /\ ~Open' /\ Work' = committed /\ UNCHANGED committed
Mapped   == Stutters \/ Begins \/ Writes \/ Commits \/ Aborts

(* With recoverable contents these are steps of AtomicStore.               *)
LEMMA MappedStep ==
  ASSUME Recoverable, Recoverable', Mapped
  PROVE  [Abstract!ANext]_(Abstract!avars)
<1>1. Durable = committed /\ Durable' = committed'
  BY DEF Recoverable
<1>2. /\ Work = (IF Visible THEN Heap ELSE Durable)
      /\ Work' = (IF Visible THEN Heap ELSE Durable)'
  BY <1>1 DEF Work
<1> QED BY <1>1, <1>2 DEF Mapped, Stutters, Begins, Writes, Commits, Aborts, Open,
     Abstract!ANext, Abstract!Begin, Abstract!Write, Abstract!Commit, Abstract!Abort,
     Abstract!avars

(* What tasks see follows from the invariants.                             *)
LEMMA AInvSeen == IInv /\ AInv => Seen
<1> SUFFICES ASSUME IInv, AInv PROVE Seen
  OBVIOUS
<1>1. CASE phase # "up"
  BY <1>1 DEF Seen, Work, Open, Visible
<1>2. CASE phase = "up" /\ sdrOwnerTask = NoTask
  <2>1. AtomicAtRest
    BY AInvAtomic
  <2>2. Heap = committed
    BY SdrAssumption, <1>2, <2>1 DEF AtomicAtRest, Heap
  <2>3. \A t \in Task : ~InXn(t)
    BY SdrAssumption, <1>2 DEF InXn
  <2> QED BY <1>2, <2>2, <2>3 DEF Seen, Work, Open
<1>3. CASE phase = "up" /\ sdrOwnerTask # NoTask
  <2>1. \A t \in Task : InXn(t) => (Visible <=> ~Undoing(t))
    BY <1>3 DEF Visible, Undoing, InXn, IInv, OwnerOK
  <2> QED BY <1>3, <2>1 DEF Seen, Work, Open, InXn
<1> QED BY <1>1, <1>2, <1>3

(* Taking the lock begins a transaction; a nested begin changes nothing.   *)
LEMMA SdrBeginXnMaps ==
  ASSUME IInv, Seen, Seen', NEW t \in Task, SdrBeginXn(t)
  PROVE  Mapped
<1>1. /\ phase = "up" /\ pc[t] = "run"
      /\ UNCHANGED <<phase, xnCanceled, dsfile, dssm, pc, committed>>
  BY DEF SdrBeginXn, Running, node
<1>2. CASE InXn(t)
  BY <1>1, <1>2 DEF SdrBeginXn, TakeSdr, Mapped, Stutters, Work, Open, Visible, Undoing,
                    Heap
<1>3. CASE ~InXn(t)
  <2>1. sdrOwnerTask = NoTask /\ InXn(t)' /\ ~Undoing(t)'
    BY <1>1, <1>3 DEF SdrBeginXn, TakeSdr, IInv, OwnerOK, InXn, Undoing
  <2>2. Work = committed /\ ~Open /\ Work' = Heap' /\ Open'
    BY <1>1, <2>1 DEF Seen
  <2>3. Work' = Work
    BY <1>1, <2>1 DEF Work, Visible, Undoing, Heap
  <2> QED BY <1>1, <2>2, <2>3 DEF Mapped, Begins
<1> QED BY <1>2, <1>3

(* sdr_end_xn and sdr_cancel_xn leave the transaction open, unless it has  *)
(* been cancelled and its outermost level ends: then it is given up.       *)
LEMMA SdrEndXnMaps ==
  ASSUME IInv, Seen, Seen', NEW t \in Task, SdrEndXn(t) \/ SdrCancelXn(t)
  PROVE  Mapped
<1>1. /\ phase = "up" /\ pc[t] = "run"
      /\ UNCHANGED <<phase, sdrOwnerTask, dsfile, dssm, committed>>
      /\ Heap' = Heap
  BY DEF SdrEndXn, SdrCancelXn, CloseLevel, Running, node, Heap
<1>2. CASE InXn(t)
  <2>1. Work = Heap /\ Open
    BY <1>1, <1>2 DEF Seen, Undoing
  <2>2. CASE ~Undoing(t)'
    <3>1. Work' = Heap' /\ Open'
      BY <1>1, <1>2, <2>2 DEF Seen, InXn
    <3> QED BY <1>1, <2>1, <3>1 DEF Mapped, Stutters
  <2>3. CASE Undoing(t)'
    <3>1. Work' = committed' /\ ~Open'
      BY <1>1, <1>2, <2>3 DEF Seen, InXn
    <3> QED BY <1>1, <2>1, <3>1 DEF Mapped, Aborts
  <2> QED BY <2>2, <2>3
<1>3. CASE ~InXn(t)
  <2>1. UNCHANGED <<xnCanceled, pc>>
    BY <1>3 DEF SdrEndXn, SdrCancelXn
  <2> QED BY <1>1, <2>1 DEF Mapped, Stutters, Work, Open, Visible, Undoing
<1> QED BY <1>2, <1>3

(* sdr_exit_xn commits, gives up, or closes an inner level.                *)
LEMMA SdrExitXnMaps ==
  ASSUME IInv, AInv, Seen, Seen', NEW t \in Task, SdrExitXn(t)
  PROVE  Mapped
<1>1. /\ phase = "up" /\ pc[t] = "run" /\ InXn(t)
      /\ UNCHANGED <<phase, xnCanceled, dsfile, dssm>>
      /\ Heap' = Heap
  BY DEF SdrExitXn, CloseLevel, Running, node, Heap
<1>2. Work = Heap /\ Open
  BY <1>1 DEF Seen, Undoing
<1>3. CASE UNCHANGED <<sdrOwnerTask, pc, committed>>
  BY <1>1, <1>3 DEF Mapped, Stutters, Work, Open, Visible, Undoing
<1>4. CASE pc' = [pc EXCEPT ![t] = "dead"] /\ UNCHANGED <<sdrOwnerTask, committed>>
  <2>1. Undoing(t)' /\ InXn(t)'
    BY <1>1, <1>4 DEF Undoing, InXn, IInv, TypeOK, TaskTypeOK
  <2>2. Work' = committed' /\ ~Open'
    BY <1>1, <2>1 DEF Seen
  <2> QED BY <1>2, <1>4, <2>2 DEF Mapped, Aborts
<1>5. CASE UnlockSdr /\ committed' = Heap
  <2>1. Work' = committed' /\ ~Open'
    BY <1>5 DEF Seen, UnlockSdr
  <2> QED BY <1>2, <1>5, <2>1 DEF Mapped, Commits
<1> QED BY <1>3, <1>4, <1>5 DEF SdrExitXn

(* terminateXn commits, or goes on with what has been given up.            *)
LEMMA TerminateXnMaps ==
  ASSUME Protected, IInv, AInv, Seen, Seen', NEW t \in Task, TerminateXn(t)
  PROVE  Mapped
<1>1. /\ phase = "up" /\ pc[t] = "term" /\ InXn(t)
      /\ UNCHANGED <<phase, dsfile, dssm>>
  BY DEF TerminateXn, node, IInv, OwnerOK
<1>2. CASE ~xnCanceled
  <2>1. UnlockSdr /\ committed' = Heap
    BY <1>2 DEF TerminateXn, Finish
  <2>2. Work = Heap /\ Open
    BY <1>1, <1>2 DEF Seen, Undoing
  <2>3. Work' = committed' /\ ~Open'
    BY <2>1 DEF Seen, UnlockSdr
  <2> QED BY <2>1, <2>2, <2>3 DEF Mapped, Commits
<1>3. CASE xnCanceled
  <2>1. pc'[t] = "reverse" /\ UNCHANGED <<sdrOwnerTask, committed>>
    BY <1>3 DEF TerminateXn, Protected, IInv, TypeOK, TaskTypeOK
  <2>2. Work = committed /\ ~Open
    BY <1>1, <1>3 DEF Seen, Undoing
  <2>3. Work' = committed' /\ ~Open'
    BY <1>1, <2>1 DEF Seen, Undoing, InXn
  <2> QED BY <2>1, <2>2, <2>3 DEF Mapped, Stutters
<1> QED BY <1>2, <1>3

(* A reversal, its end and its failure are not seen.                       *)
LEMMA ReverseMaps ==
  ASSUME IInv, Seen, Seen', NEW t \in Task,
         ReverseEntry(t) \/ ReverseDone(t) \/ ReverseFails(t)
  PROVE  Mapped
<1>1. /\ phase = "up" /\ pc[t] = "reverse" /\ InXn(t)
      /\ UNCHANGED <<phase, committed>>
  BY DEF ReverseEntry, ReverseDone, ReverseFails, node, IInv, OwnerOK
<1>2. Work = committed /\ ~Open
  BY <1>1 DEF Seen, Undoing
<1>3. sdrOwnerTask' = NoTask \/ (InXn(t)' /\ Undoing(t)')
  BY <1>1 DEF ReverseEntry, ReverseDone, ReverseFails, Finish, UnlockSdr, sdrState, InXn,
              Undoing, IInv, TypeOK, TaskTypeOK
<1>4. Work' = committed' /\ ~Open'
  BY <1>1, <1>3 DEF Seen
<1> QED BY <1>1, <1>2, <1>4 DEF Mapped, Stutters

(* crashXn by a task that is writing gives the transaction up.             *)
LEMMA CrashXnMaps ==
  ASSUME IInv, Seen, Seen', NEW t \in Task, phase = "up", InXn(t),
         pc[t] \in PutStates \cup {"run"}, CrashXn(t),
         UNCHANGED <<phase, sdrOwnerTask, committed>>
  PROVE  Mapped
<1>1. Work = Heap /\ Open
  BY DEF Seen, Undoing, PutStates
<1>2. Undoing(t)' /\ InXn(t)'
  BY DEF CrashXn, Undoing, InXn, IInv, TypeOK, TaskTypeOK
<1>3. Work' = committed' /\ ~Open'
  BY <1>2 DEF Seen
<1> QED BY <1>1, <1>3 DEF Mapped, Aborts

(* The owner of the transaction moves on without a change of the heap.     *)
LEMMA OwnerMaps ==
  ASSUME IInv, Seen, Seen', NEW t \in Task, phase = "up", InXn(t),
         pc[t] \in PutStates \cup {"run"}, pc'[t] \in PutStates \cup {"run"},
         UNCHANGED <<phase, sdrOwnerTask, committed, Heap>>
  PROVE  Mapped
<1>1. Work = Heap /\ Open
  BY DEF Seen, Undoing, PutStates
<1>2. Work' = Heap' /\ Open'
  BY DEF Seen, Undoing, PutStates, InXn
<1> QED BY <1>1, <1>2 DEF Mapped, Stutters

(* The write reaches the heap.                                             *)
LEMMA HeapWriteMaps ==
  ASSUME IInv, Seen, Seen', NEW t \in Task, phase = "up", InXn(t),
         pc[t] \in PutStates, pc'[t] = "run",
         UNCHANGED <<phase, sdrOwnerTask, committed>>,
         Heap' = [Heap EXCEPT ![put[t].addr] = put[t].val]
  PROVE  Mapped
<1>1. Work = Heap /\ Open
  BY DEF Seen, Undoing, PutStates
<1>2. Work' = Heap' /\ Open'
  BY DEF Seen, Undoing, InXn
<1>3. put[t].addr \in Addr /\ put[t].val \in Val
  BY DEF IInv, PutOK
<1> QED BY <1>1, <1>2, <1>3 DEF Mapped, Writes

(* The stages of a write.                                                  *)
LEMMA PutMaps ==
  ASSUME Protected, IInv, Seen, Seen', NEW t \in Task,
         SdrWrite(t) \/ BadAccess(t) \/ PutCtl(t) \/ PutData(t) \/ PutFile(t) \/ PutDram(t)
  PROVE  Mapped
<1>1. /\ phase = "up" /\ InXn(t) /\ pc[t] \in PutStates \cup {"run"}
      /\ UNCHANGED <<phase, sdrOwnerTask, committed>>
  BY DEF SdrWrite, BadAccess, PutCtl, PutData, PutFile, PutDram, Running, node, sdrState,
         IInv, OwnerOK, PutStates
<1>2. CASE CrashXn(t)
  BY <1>1, <1>2, CrashXnMaps
<1>3. CASE (SdrWrite(t) \/ PutCtl(t) \/ PutData(t)) /\ ~CrashXn(t)
  <2>1. pc'[t] \in PutStates /\ Heap' = Heap
    BY <1>3 DEF SdrWrite, PutCtl, PutData, PutDataspace, Heap, PutStates, IInv, TypeOK,
                TaskTypeOK
  <2> QED BY <1>1, <2>1, OwnerMaps
<1>4. CASE PutFile(t) /\ ~CrashXn(t)
  <2>1. pc[t] \in PutStates /\ dssm' = dssm
        /\ dsfile' = [dsfile EXCEPT ![put[t].addr] = put[t].val]
        /\ pc'[t] = IF InDram THEN "putDram" ELSE "run"
    BY <1>4 DEF PutFile, Protected, Written, PutStates, IInv, TypeOK, TaskTypeOK
  <2>2. CASE InDram
    BY <1>1, <2>1, <2>2, OwnerMaps DEF Heap, PutStates
  <2>3. CASE ~InDram
    BY <1>1, <2>1, <2>3, HeapWriteMaps DEF Heap
  <2> QED BY <2>2, <2>3
<1>5. CASE PutDram(t)
  <2>1. pc[t] \in PutStates /\ dsfile' = dsfile /\ pc'[t] = "run"
        /\ dssm' = [dssm EXCEPT ![put[t].addr] = put[t].val]
    BY <1>5 DEF PutDram, Written, PutStates, IInv, TypeOK, TaskTypeOK
  <2>2. CASE InDram
    BY <1>1, <2>1, <2>2, HeapWriteMaps DEF Heap
  <2>3. CASE ~InDram
    BY <1>1, <2>1, <2>3, OwnerMaps DEF Heap, PutStates
  <2> QED BY <2>2, <2>3
<1>6. BadAccess(t) => CrashXn(t)
  BY DEF BadAccess
<1> QED BY <1>2, <1>3, <1>4, <1>5, <1>6

(* Steps that leave data, lock and program counters alone.                 *)
LEMMA IdleTaskMaps ==
  ASSUME NEW t \in Task, CloseAfterCrash(t) \/ SdrStopUsing(t)
  PROVE  Mapped
BY DEF CloseAfterCrash, CloseLevel, SdrStopUsing, Running, sdrState, node, Mapped,
       Stutters, Work, Open, Visible, Undoing, Heap

(* A crash gives up the open transaction.                                  *)
LEMMA CrashMaps ==
  ASSUME IInv, Seen, Seen', NEW kind \in CrashKinds, Crash(kind)
  PROVE  Mapped
<1>1. phase' = "down" /\ committed' = committed
  BY DEF Crash
<1>2. Work' = committed' /\ ~Open'
  BY <1>1 DEF Seen
<1>3. Open \/ Work = committed
  BY DEF Open, Seen, Work
<1> QED BY <1>1, <1>2, <1>3 DEF Mapped, Stutters, Aborts

(* Nothing of a recovery is seen.                                          *)
LEMMA BootMaps ==
  ASSUME NeverDestroyed, IInv, AInv, Seen, Seen', Boot \/ RecoverFails
  PROVE  Mapped
<1>1. phase # "up" /\ (phase' # "up" \/ sdrOwnerTask' = NoTask)
  BY DEF Boot, RecoverFails, LoadProfile, ProfileLoaded, RecoverEntry, RecoverDone,
         IonInitialize, UnlockSdr, node, Tools, AInv, DownOK
<1>2. committed' = committed
  <2>1. InFile
    BY <1>1 DEF AInv, DownOK, NeverDestroyed, Surviving
  <2> QED BY <2>1 DEF Boot, RecoverFails, LoadProfile, ProfileLoaded, RecoverEntry,
             RecoverDone, IonInitialize, NeverDestroyed
<1>3. Work = committed /\ ~Open /\ Work' = committed' /\ ~Open'
  BY <1>1 DEF Seen
<1> QED BY <1>2, <1>3 DEF Mapped, Stutters

(* Every step of the SDR is one of the atomic store, or is not seen.       *)
LEMMA NextMaps ==
  ASSUME NeverDestroyed
  PROVE  IInv /\ AInv /\ Seen /\ Seen' /\ [Next]_vars => Mapped
<1> SUFFICES ASSUME IInv, AInv, Seen, Seen', [Next]_vars PROVE Mapped
  OBVIOUS
<1>1. ASSUME NEW t \in Task, TaskStep(t) PROVE Mapped
  <2>1. Protected
    BY DEF NeverDestroyed, Surviving
  <2> QED BY <1>1, <2>1, SdrBeginXnMaps, SdrEndXnMaps, SdrExitXnMaps, TerminateXnMaps,
             ReverseMaps, PutMaps, IdleTaskMaps DEF TaskStep
<1>2. ASSUME NEW kind \in CrashKinds, Crash(kind) PROVE Mapped
  BY <1>2, CrashMaps
<1>3. CASE Boot \/ RecoverFails
  BY <1>3, BootMaps
<1>4. CASE UNCHANGED vars
  BY <1>4 DEF vars, node, sdrState, Mapped, Stutters, Work, Open, Visible, Undoing, Heap
<1> QED BY <1>1, <1>2, <1>3, <1>4 DEF Next

(* A fresh SDR is a fresh store.                                           *)
LEMMA InitMaps ==
  ASSUME Init, Recoverable
  PROVE  Abstract!AInit
<1>1. Durable = Fresh /\ Heap = Fresh /\ sdrOwnerTask = NoTask
  BY DEF Init, Recoverable, Heap
<1> QED BY <1>1 DEF Abstract!AInit, Fresh

(* The SDR implements the atomic store: through failures of the log and of *)
(* working memory, short writes, failed reversals and power failures,      *)
(* transactions begin, write, and then commit or vanish, one at a time.    *)
THEOREM ImplementsAtomicStore == NeverDestroyed => (Spec => RefinesAtomicStore)
<1> SUFFICES ASSUME NeverDestroyed PROVE Spec => RefinesAtomicStore
  OBVIOUS
<1>1. Spec => [](IInv /\ AInv)
  BY SpecAInv DEF NeverDestroyed, Surviving
<1>2. IInv /\ AInv => Recoverable /\ Seen
  BY AInvRecoverable, AInvSeen DEF NeverDestroyed
<1>3. Init /\ Recoverable => Abstract!AInit
  BY InitMaps
<1>4. IInv /\ AInv /\ Seen /\ Seen' /\ [Next]_vars => Mapped
  BY NextMaps
<1>5. Recoverable /\ Recoverable' /\ Mapped => [Abstract!ANext]_(Abstract!avars)
  BY MappedStep
<1> QED BY <1>1, <1>2, <1>3, <1>4, <1>5, PTL
       DEF Spec, RefinesAtomicStore, Abstract!ASpec
=============================================================================
