-------------------------------- MODULE SdrXn --------------------------------
(***************************************************************************)
(* The SDR transaction engine of ION (ici/sdr/sdrxn.c): the transaction    *)
(* mutex, nested transactions, the undo log, reversal of a cancelled       *)
(* transaction, and recovery when the SDR profile is loaded again after    *)
(* the tasks died in the middle of a transaction.                          *)
(*                                                                         *)
(* A task is a process with its own view (SdrView) of one SDR; the shared  *)
(* SdrState lives in SDR working memory.  The dataspace may be kept in a   *)
(* file, in shared memory, or in both; the log in a file or in memory.     *)
(* Log and dataspace are written one cell at a time, and the tasks may die *)
(* between any two writes.  Files keep what was written, in order (page-   *)
(* cache loss is outside this model: the code never calls fsync).          *)
(*                                                                         *)
(* The SDR is loaded without a restart command, as sdrmend and the SDR     *)
(* tests do.                                                               *)
(***************************************************************************)
EXTENDS Integers, Sequences, FiniteSets

CONSTANTS
  Task,          \* tasks that use the SDR
  Addr,          \* word addresses of the dataspace
  Val,           \* values a word may hold
  InitVal,       \* the value every word has in a fresh dataspace
  InFile,        \* SDR_IN_FILE
  InDram,        \* SDR_IN_DRAM
  Reversible,    \* SDR_REVERSIBLE
  LogInFile,     \* logSize = 0: the log is a file
  LogSize,       \* capacity of the log in cells; for a log file, a model bound
  Faults,        \* faults that may strike, a subset of FaultKinds
  CrashKinds,    \* ways in which all tasks may die, a subset of {"power", "kill"}
  BootTools,     \* what brings the SDR back, a subset of Tools
  NoTask,        \* sdrOwnerTask = -1
  Garbage,       \* bytes that are no value of a word
  MaxDepth,      \* model bound on the nesting of transactions
  MaxCrashes     \* model bound on the number of crashes

FaultKinds == {"logFails", "noWorkingMemory", "shortWrite", "writeError",
               "reversalFails", "recoveryFails"}
Tools == {"ionInitialize", "sdrmend"}

ASSUME SdrAssumption ==
  /\ InFile \in BOOLEAN /\ InDram \in BOOLEAN /\ (InFile \/ InDram)
  /\ Reversible \in BOOLEAN /\ LogInFile \in BOOLEAN
  /\ LogSize \in Nat /\ MaxDepth \in Nat /\ MaxCrashes \in Nat
  /\ Faults \subseteq FaultKinds
  /\ CrashKinds \subseteq {"power", "kill"}
  /\ BootTools \subseteq Tools
  /\ NoTask \notin Task /\ Garbage \notin Val /\ InitVal \in Val

VARIABLES
  phase,         \* node: "up", "down", a tool loading the profile, or "ionInit"
  loaded,        \* the SDR's profile is in the sdrs list of working memory
  semFree,       \* sdrSemaphore can be taken
  sdrOwnerTask, xnDepth, xnCanceled,            \* SdrState
  logLength, logEntries,                        \* SdrState
  log,           \* the cells of the log, in file or memory
  dsfile, dssm,  \* the dataspace in the file and in shared memory
  modified,      \* per task: sdrv->modified
  logfd,         \* per task: position of sdrv->logfile, or AtEnd
  pc, put,       \* per task: where it is, the write it is performing
  level,         \* per task: transactions its program has begun and not closed
  rev,           \* log entries that reverseTransaction still has to undo
  crashes,
  committed,     \* history: the dataspace as the last transaction left it
  verdict        \* history, per task: what became of its last transaction

sdrState  == <<semFree, sdrOwnerTask, xnDepth, xnCanceled, logLength, logEntries>>
views     == <<modified, logfd>>
node      == <<phase, loaded, crashes>>
vars == <<node, sdrState, log, dsfile, dssm, views, pc, put, level, rev,
          committed, verdict>>

AtEnd == -1                      \* opened with O_APPEND
NoPut == [addr |-> NoTask, val |-> NoTask]

Ctl(a)  == [kind |-> "ctl",  addr |-> a]     \* logEntryControl: address, length
Data(v) == [kind |-> "data", val  |-> v]     \* the overwritten bytes

Heap == IF InDram THEN dssm ELSE dsfile      \* what sdr_read returns

Fresh == [a \in Addr |-> InitVal]
NewVerdict == [ret |-> "none", canceled |-> FALSE, failed |-> FALSE,
               undone |-> FALSE]

Busy == {"putCtl", "putData", "putFile", "putDram", "term", "reverse", "dead"}

-----------------------------------------------------------------------------
(* Mutual exclusion: takeSdr, unlockSdr, sdr_in_xn.                        *)

InXn(t) == sdrOwnerTask = t

(* Mutant: lockSdr does not wait for the semaphore.                        *)
TakeSdrUnlocked(t) ==
  /\ semFree' = FALSE
  /\ sdrOwnerTask' = t
  /\ xnDepth' = IF InXn(t) THEN xnDepth + 1 ELSE 1

TakeSdr(t) ==
  \/ /\ InXn(t)
     /\ xnDepth' = xnDepth + 1
     /\ UNCHANGED <<semFree, sdrOwnerTask>>
  \/ /\ ~InXn(t)
     /\ semFree
     /\ semFree' = FALSE
     /\ sdrOwnerTask' = t
     /\ xnDepth' = 1

(* Mutant: the semaphore is given and the owner forgotten.                 *)
UnlockSdrKeepsOwner == semFree' = TRUE /\ UNCHANGED sdrOwnerTask

UnlockSdr ==
  /\ sdrOwnerTask' = NoTask
  /\ semFree' = TRUE

(* Mutant: the log file is not truncated.                                  *)
ClearTransactionKeepsLog(t) ==
  /\ UNCHANGED <<log, logfd>>
  /\ logLength' = 0
  /\ logEntries' = <<>>

(* Truncates the log; the view's descriptor is reopened at its start.  The *)
(* code reports an iopen that fails and goes on (sdrxn.c:740-745): that is *)
(* left out.                                                               *)
ClearTransaction(t) ==
  /\ log' = <<>>
  /\ logLength' = 0
  /\ logEntries' = <<>>
  /\ logfd' = IF Reversible /\ LogInFile THEN [logfd EXCEPT ![t] = 0] ELSE logfd

-----------------------------------------------------------------------------
(* Transactions.                                                           *)

Running(t) == phase = "up" /\ pc[t] = "run"

SdrBeginXn(t) ==
  /\ Running(t)
  /\ level[t] < MaxDepth
  /\ TakeSdr(t)
  /\ modified' = [modified EXCEPT ![t] = FALSE]
  /\ level' = [level EXCEPT ![t] = @ + 1]
  /\ verdict' = IF level[t] = 0 THEN [verdict EXCEPT ![t] = NewVerdict]
                ELSE verdict
  /\ UNCHANGED <<node, xnCanceled, logLength, logEntries, log, dsfile, dssm,
                 logfd, pc, put, rev, committed>>

(* crashXn: the transaction is cancelled at every level at once.           *)
CrashXn(t) ==
  /\ xnCanceled' = TRUE
  /\ xnDepth' = 0
  /\ pc' = [pc EXCEPT ![t] = "term"]
  /\ put' = [put EXCEPT ![t] = NoPut]
  /\ verdict' = [verdict EXCEPT ![t].failed = TRUE]

CloseLevel(t) ==
  /\ Running(t)
  /\ level[t] > 0
  /\ level' = [level EXCEPT ![t] = @ - 1]
  /\ UNCHANGED <<node, dsfile, dssm, modified, put, rev>>

(* Mutants: sdr_end_xn forgets to check the ownership; it always returns 0. *)
SdrEndXnUnchecked(t) ==
  /\ CloseLevel(t)
  /\ verdict' = [verdict EXCEPT ![t].ret = "zero"]
  /\ xnDepth' = xnDepth - 1
  /\ pc' = IF xnDepth = 1 THEN [pc EXCEPT ![t] = "term"] ELSE pc
  /\ UNCHANGED <<semFree, sdrOwnerTask, xnCanceled, logLength, logEntries, log,
                 logfd, committed>>
SdrEndXnZero(t) ==
  /\ CloseLevel(t)
  /\ verdict' = [verdict EXCEPT ![t].ret = "zero"]
  /\ xnDepth' = IF InXn(t) THEN xnDepth - 1 ELSE xnDepth
  /\ pc' = IF InXn(t) /\ xnDepth = 1 THEN [pc EXCEPT ![t] = "term"] ELSE pc
  /\ UNCHANGED <<semFree, sdrOwnerTask, xnCanceled, logLength, logEntries, log,
                 logfd, committed>>

(* sdr_end_xn called when the task does not own the transaction, or at an  *)
(* inner level, or at the outermost level: terminateXn follows.            *)
SdrEndXn(t) ==
  /\ CloseLevel(t)
  /\ verdict' = [verdict EXCEPT ![t].ret = IF InXn(t) THEN "zero" ELSE "error"]
  /\ xnDepth' = IF InXn(t) THEN xnDepth - 1 ELSE xnDepth
  /\ pc' = IF InXn(t) /\ xnDepth = 1 THEN [pc EXCEPT ![t] = "term"] ELSE pc
  /\ UNCHANGED <<semFree, sdrOwnerTask, xnCanceled, logLength, logEntries, log,
                 logfd, committed>>

SdrCancelXn(t) ==
  /\ CloseLevel(t)
  /\ InXn(t)
  /\ xnCanceled' = TRUE
  /\ xnDepth' = xnDepth - 1
  /\ pc' = IF xnDepth = 1 THEN [pc EXCEPT ![t] = "term"] ELSE pc
  /\ verdict' = [verdict EXCEPT ![t].canceled = TRUE, ![t].ret = "none"]
  /\ UNCHANGED <<semFree, sdrOwnerTask, logLength, logEntries, log, logfd,
                 committed>>

(* sdr_exit_xn: at the outermost level an unrecoverable error when the     *)
(* view says that data were modified, otherwise the log is dropped and the *)
(* transaction unlocked.                                                   *)
SdrExitXn(t) ==
  /\ CloseLevel(t)
  /\ InXn(t)
  /\ xnDepth' = xnDepth - 1
  /\ \/ /\ xnDepth > 1
        /\ UNCHANGED <<semFree, sdrOwnerTask, logLength, logEntries, log, logfd,
                       pc, committed>>
     \/ /\ xnDepth = 1 /\ modified[t]
        /\ pc' = [pc EXCEPT ![t] = "dead"]
        /\ UNCHANGED <<semFree, sdrOwnerTask, logLength, logEntries, log, logfd,
                       committed>>
     \/ /\ xnDepth = 1 /\ ~modified[t]
        /\ ClearTransaction(t)
        /\ UnlockSdr
        /\ committed' = Heap
        /\ UNCHANGED pc
  /\ verdict' = [verdict EXCEPT ![t].ret = "none"]
  /\ UNCHANGED xnCanceled

(* Any closer but sdr_end_xn, called by a task whose transaction crashXn has *)
(* already ended, does nothing.                                            *)
CloseAfterCrash(t) ==
  /\ CloseLevel(t)
  /\ ~InXn(t)
  /\ verdict' = [verdict EXCEPT ![t].ret = "none"]
  /\ UNCHANGED <<sdrState, log, logfd, pc, committed>>

Finish(t) == pc' = [pc EXCEPT ![t] = "run"] /\ UnlockSdr /\ ClearTransaction(t)

(* terminateXn.                                                            *)
TerminateXn(t) ==
  /\ phase = "up" /\ pc[t] = "term"
  /\ xnCanceled' = FALSE
  /\ \/ /\ ~xnCanceled
        /\ Finish(t)
        /\ committed' = Heap
        /\ UNCHANGED rev
     \/ /\ xnCanceled /\ ~Reversible /\ ~modified[t]
        /\ Finish(t)
        /\ UNCHANGED <<committed, rev>>
     \/ /\ xnCanceled /\ ~Reversible /\ modified[t]
        /\ pc' = [pc EXCEPT ![t] = "dead"]
        /\ UNCHANGED <<semFree, sdrOwnerTask, logLength, logEntries, log, logfd,
                       committed, rev>>
     \/ /\ xnCanceled /\ Reversible
        /\ pc' = [pc EXCEPT ![t] = "reverse"]
        /\ rev' = Len(logEntries)
        /\ UNCHANGED <<semFree, sdrOwnerTask, logLength, logEntries, log, logfd,
                       committed>>
  /\ UNCHANGED <<node, xnDepth, dsfile, dssm, modified, put, level, verdict>>

-----------------------------------------------------------------------------
(* The undo log.                                                           *)

(* writeToLog puts one cell where the view's descriptor stands.            *)
WriteToLog(t, cell) ==
  LET pos == IF ~LogInFile THEN logLength
             ELSE IF logfd[t] = AtEnd THEN Len(log) ELSE logfd[t]
  IN  /\ log' = IF pos < Len(log) THEN [log EXCEPT ![pos + 1] = cell]
                                  ELSE Append(log, cell)
      /\ logLength' = logLength + 1
      /\ logfd' = IF LogInFile /\ logfd[t] # AtEnd
                  THEN [logfd EXCEPT ![t] = @ + 1] ELSE logfd

LogFull == IF LogInFile THEN "logFails" \in Faults ELSE logLength + 1 > LogSize
LogFits == LogInFile \/ logLength + 1 <= LogSize

(* The entry at offset o.  Bytes that are no control cell hold an arbitrary *)
(* length, taken to run past the end of the log; bytes that were never a   *)
(* data cell are garbage.                                                  *)
Readable(l, o)  == o + 2 <= Len(l) /\ l[o + 1].kind = "ctl"
EntryAddr(l, o) == l[o + 1].addr
EntryData(l, o) == IF l[o + 2].kind = "data" THEN l[o + 2].val ELSE Garbage

Restored(heap, o) == [heap EXCEPT ![EntryAddr(log, o)] = EntryData(log, o)]

(* Mutant: the entries are undone first to last.                           *)
ReverseEntryForward(t) ==
  LET o == logEntries[Len(logEntries) - rev + 1]
  IN  /\ phase = "up" /\ pc[t] = "reverse" /\ rev > 0
      /\ Readable(log, o)
      /\ dssm'   = IF InDram THEN Restored(dssm, o) ELSE dssm
      /\ dsfile' = IF InFile THEN Restored(dsfile, o) ELSE dsfile
      /\ rev' = rev - 1
      /\ UNCHANGED <<node, sdrState, log, views, pc, put, level, committed, verdict>>

(* One turn of reverseTransaction's loop, last entry first.                *)
ReverseEntry(t) ==
  /\ phase = "up" /\ pc[t] = "reverse" /\ rev > 0
  /\ Readable(log, logEntries[rev])
  /\ dssm'   = IF InDram THEN Restored(dssm, logEntries[rev]) ELSE dssm
  /\ dsfile' = IF InFile THEN Restored(dsfile, logEntries[rev]) ELSE dsfile
  /\ logLength' = logLength - 2
  /\ rev' = rev - 1
  /\ verdict' = [verdict EXCEPT ![t].undone = TRUE]
  /\ UNCHANGED <<node, semFree, sdrOwnerTask, xnDepth, xnCanceled, logEntries,
                 log, views, pc, put, level, committed>>

ReverseDone(t) ==
  /\ phase = "up" /\ pc[t] = "reverse" /\ rev = 0
  /\ Finish(t)
  /\ UNCHANGED <<node, xnDepth, xnCanceled, dsfile, dssm, modified, put, level,
                 rev, committed, verdict>>

(* reverseTransaction fails: handleUnrecoverableError aborts the task.     *)
ReverseFails(t) ==
  /\ phase = "up" /\ pc[t] = "reverse" /\ rev > 0
  /\ "reversalFails" \in Faults \/ ~Readable(log, logEntries[rev])
  /\ pc' = [pc EXCEPT ![t] = "dead"]
  /\ UNCHANGED <<node, sdrState, log, dsfile, dssm, views, put, level, rev,
                 committed, verdict>>

-----------------------------------------------------------------------------
(* _sdrput, one write to log or dataspace at a time.                       *)

PutDataspace == IF InFile THEN "putFile" ELSE "putDram"

SdrWrite(t) ==
  /\ Running(t) /\ level[t] > 0 /\ InXn(t)
  /\ LogInFile => Len(log) + 2 <= LogSize
  /\ \E a \in Addr, v \in Val : put' = [put EXCEPT ![t] = [addr |-> a, val |-> v]]
  /\ pc' = [pc EXCEPT ![t] = IF Reversible THEN "putCtl" ELSE PutDataspace]
  /\ UNCHANGED <<node, sdrState, log, dsfile, dssm, views, level, rev, committed,
                 verdict>>

(* A write or a read outside the dataspace, or across an object boundary.  *)
BadAccess(t) ==
  /\ Running(t) /\ level[t] > 0 /\ InXn(t)
  /\ CrashXn(t)
  /\ UNCHANGED <<node, semFree, sdrOwnerTask, logLength, logEntries, log, dsfile,
                 dssm, views, level, rev, committed>>

(* sdr_stop_using and a new sdr_start_using: the view is made afresh.      *)
SdrStopUsing(t) ==
  /\ Running(t) /\ level[t] = 0
  /\ modified' = [modified EXCEPT ![t] = FALSE]
  /\ logfd' = [logfd EXCEPT ![t] = AtEnd]
  /\ UNCHANGED <<node, sdrState, log, dsfile, dssm, pc, put, level, rev,
                 committed, verdict>>

PutCtl(t) ==
  /\ phase = "up" /\ pc[t] = "putCtl"
  /\ \/ /\ LogFits
        /\ WriteToLog(t, Ctl(put[t].addr))
        /\ pc' = [pc EXCEPT ![t] = "putData"]
        /\ UNCHANGED <<xnDepth, xnCanceled, put, verdict>>
     \/ /\ LogFull
        /\ CrashXn(t)
        /\ UNCHANGED <<log, logLength, logfd>>
  /\ UNCHANGED <<node, semFree, sdrOwnerTask, logEntries, dsfile, dssm, modified,
                 level, rev, committed>>

(* The old data is logged and the entry's offset, taken before the control *)
(* cell was written, is put in the list of log entries.                    *)
PutData(t) ==
  /\ phase = "up" /\ pc[t] = "putData"
  /\ \/ /\ LogFits
        /\ WriteToLog(t, Data(Heap[put[t].addr]))
        /\ logEntries' = Append(logEntries, logLength - 1)
        /\ pc' = [pc EXCEPT ![t] = PutDataspace]
        /\ UNCHANGED <<xnDepth, xnCanceled, put, verdict>>
     \/ /\ LogFull
        /\ CrashXn(t)
        /\ UNCHANGED <<log, logLength, logEntries, logfd>>
     \/ /\ LogFits /\ "noWorkingMemory" \in Faults
        /\ WriteToLog(t, Data(Heap[put[t].addr]))
        /\ CrashXn(t)
        /\ UNCHANGED logEntries
  /\ UNCHANGED <<node, semFree, sdrOwnerTask, dsfile, dssm, modified, level, rev,
                 committed>>

(* Mutant: a write leaves no mark.                                         *)
WrittenUnmarked(t) ==
  /\ pc' = [pc EXCEPT ![t] = "run"]
  /\ put' = [put EXCEPT ![t] = NoPut]
  /\ UNCHANGED modified

Written(t) ==
  /\ modified' = [modified EXCEPT ![t] = TRUE]
  /\ pc' = [pc EXCEPT ![t] = "run"]
  /\ put' = [put EXCEPT ![t] = NoPut]

(* The result of write() is compared, unsigned, with the length: a short   *)
(* write is an error, -1 is not seen and the write passes for done.        *)
PutFile(t) ==
  /\ phase = "up" /\ pc[t] = "putFile"
  /\ \/ /\ \/ dsfile' = [dsfile EXCEPT ![put[t].addr] = put[t].val]
           \/ "writeError" \in Faults /\ UNCHANGED dsfile
        /\ IF InDram THEN pc' = [pc EXCEPT ![t] = "putDram"]
                          /\ UNCHANGED <<modified, put>>
                     ELSE Written(t)
        /\ UNCHANGED <<xnDepth, xnCanceled, verdict>>
     \/ /\ "shortWrite" \in Faults
        /\ dsfile' = [dsfile EXCEPT ![put[t].addr] = Garbage]
        /\ CrashXn(t)
        /\ UNCHANGED modified
  /\ UNCHANGED <<node, semFree, sdrOwnerTask, logLength, logEntries, log, dssm,
                 logfd, level, rev, committed>>

PutDram(t) ==
  /\ phase = "up" /\ pc[t] = "putDram"
  /\ dssm' = [dssm EXCEPT ![put[t].addr] = put[t].val]
  /\ Written(t)
  /\ UNCHANGED <<node, sdrState, log, dsfile, logfd, level, rev, committed,
                 verdict>>

-----------------------------------------------------------------------------
(* Crash and recovery.                                                     *)

(* All tasks die.  A power failure also takes working memory, the memory   *)
(* copy of the dataspace and a log in memory.                              *)
Crash(kind) ==
  /\ crashes < MaxCrashes /\ phase # "down"
  /\ crashes' = crashes + 1
  /\ phase' = "down"
  /\ loaded' = (kind = "kill" /\ loaded)
  /\ log' = IF kind = "power" /\ ~LogInFile THEN <<>> ELSE log
  /\ dssm' = IF kind = "power" THEN [a \in Addr |-> Garbage] ELSE dssm
  /\ pc' = [t \in Task |-> "run"]
  /\ put' = [t \in Task |-> NoPut]
  /\ level' = [t \in Task |-> 0]
  /\ modified' = [t \in Task |-> FALSE]
  /\ logfd' = [t \in Task |-> AtEnd]
  /\ verdict' = [t \in Task |-> NewVerdict]
  /\ UNCHANGED <<sdrState, dsfile, rev, committed>>

(* Mutant: the last complete entry is taken for an incomplete one.         *)
ReloadableShort(l, n) == \A i \in 1..n : Readable(l, 2 * (i - 1)) /\ 2 * i < Len(l)

(* reloadLogEntries: entries are read from the start of the log file up to *)
(* the first that is not complete.                                         *)
Reloadable(l, n) == \A i \in 1..n : Readable(l, 2 * (i - 1))
ReloadLogEntries(l) ==
  LET n == CHOOSE k \in 0..Len(l) : Reloadable(l, k) /\ ~Reloadable(l, k + 1)
  IN  [i \in 1..n |-> 2 * (i - 1)]

(* sdr_load_profile for an SDR whose profile is not loaded, or is unloaded *)
(* first by sdr_reload_profile: a new SdrState, with the log entries that  *)
(* the log file holds.                                                     *)
LoadProfile(tool) ==
  LET entries == IF Reversible /\ LogInFile THEN ReloadLogEntries(log) ELSE <<>>
  IN  /\ phase = "down"
      /\ ~loaded \/ tool = "sdrmend"
      /\ phase' = tool
      /\ loaded' = TRUE
      /\ semFree' = TRUE
      /\ sdrOwnerTask' = NoTask
      /\ xnDepth' = 0
      /\ xnCanceled' = FALSE
      /\ logEntries' = entries
      /\ logLength' = 2 * Len(entries)
      /\ rev' = Len(entries)
      /\ UNCHANGED <<crashes, log, dsfile, dssm, views, pc, put, level, committed,
                     verdict>>

(* sdr_load_profile for a profile that is loaded: only sm_SemUnwedge.      *)
ProfileLoaded ==
  /\ phase = "down" /\ loaded /\ "ionInitialize" \in BootTools
  /\ phase' = "ionInit"
  /\ semFree' = TRUE
  /\ UNCHANGED <<loaded, crashes, sdrOwnerTask, xnDepth, xnCanceled, logLength,
                 logEntries, log, dsfile, dssm, views, pc, put, level, rev,
                 committed, verdict>>

(* Mutant: the loop does not move to the previous entry.                   *)
RecoverSameEntry ==
  /\ phase \in Tools /\ InFile /\ rev > 0
  /\ dsfile' = Restored(dsfile, logEntries[rev])
  /\ UNCHANGED <<node, sdrState, log, dssm, views, pc, put, level, rev,
                 committed, verdict>>

(* reverseTransaction on the dataspace file.                               *)
RecoverEntry ==
  /\ phase \in Tools /\ InFile /\ rev > 0
  /\ dsfile' = Restored(dsfile, logEntries[rev])
  /\ logLength' = logLength - 2
  /\ rev' = rev - 1
  /\ UNCHANGED <<node, semFree, sdrOwnerTask, xnDepth, xnCanceled, logEntries, log,
                 dssm, views, pc, put, level, committed, verdict>>

(* The memory copy is restaged from the file, or initialized without one.  *)
RecoverDone ==
  /\ phase \in Tools
  /\ InFile => rev = 0
  /\ dssm' = IF ~InDram THEN dssm ELSE IF InFile THEN dsfile ELSE Fresh
  /\ committed' = IF InFile THEN committed ELSE Fresh
  /\ phase' = IF phase = "ionInitialize" THEN "ionInit" ELSE "up"
  /\ UNCHANGED <<loaded, crashes, sdrState, log, dsfile, views, pc, put, level,
                 rev, verdict>>

(* reverseTransaction fails: destroySdr unlinks the dataspace and the log, *)
(* and the next start creates the SDR anew.                                *)
RecoverFails ==
  /\ "recoveryFails" \in Faults
  /\ phase \in Tools /\ InFile /\ rev > 0
  /\ phase' = "down"
  /\ loaded' = FALSE
  /\ log' = <<>>
  /\ dsfile' = Fresh
  /\ committed' = Fresh
  /\ UNCHANGED <<crashes, sdrState, dssm, views, pc, put, level, rev, verdict>>

(* ionInitialize goes on with a transaction of its own that looks up the   *)
(* ION database, finds it and leaves by sdr_exit_xn, before any other task *)
(* of the node starts.                                                     *)
IonInitialize ==
  /\ phase = "ionInit"
  /\ phase' = "up"
  /\ log' = <<>> /\ logLength' = 0 /\ logEntries' = <<>>
  /\ xnDepth' = 0
  /\ UnlockSdr
  /\ UNCHANGED <<loaded, crashes, xnCanceled, dsfile, dssm, views, pc, put, level,
                 rev, committed, verdict>>

-----------------------------------------------------------------------------
Init ==
  /\ phase = "up" /\ loaded = TRUE /\ crashes = 0
  /\ semFree = TRUE /\ sdrOwnerTask = NoTask /\ xnDepth = 0 /\ xnCanceled = FALSE
  /\ logLength = 0 /\ logEntries = <<>> /\ log = <<>>
  /\ dsfile = Fresh /\ dssm = Fresh /\ committed = Fresh
  /\ modified = [t \in Task |-> FALSE]
  /\ logfd = [t \in Task |-> AtEnd]
  /\ pc = [t \in Task |-> "run"]
  /\ put = [t \in Task |-> NoPut]
  /\ level = [t \in Task |-> 0]
  /\ rev = 0
  /\ verdict = [t \in Task |-> NewVerdict]

TaskStep(t) ==
  \/ SdrBeginXn(t) \/ SdrEndXn(t) \/ SdrCancelXn(t) \/ SdrExitXn(t)
  \/ CloseAfterCrash(t) \/ SdrWrite(t) \/ BadAccess(t) \/ SdrStopUsing(t)
  \/ PutCtl(t) \/ PutData(t) \/ PutFile(t) \/ PutDram(t)
  \/ TerminateXn(t) \/ ReverseEntry(t) \/ ReverseDone(t) \/ ReverseFails(t)

Boot ==
  \/ \E tool \in BootTools : LoadProfile(tool)
  \/ ProfileLoaded \/ RecoverEntry \/ RecoverDone \/ IonInitialize

Next ==
  \/ \E t \in Task : TaskStep(t)
  \/ \E kind \in CrashKinds : Crash(kind)
  \/ Boot \/ RecoverFails

Spec == Init /\ [][Next]_vars

(* The operator's start script runs the boot tool to its end.              *)
FairSpec == Spec /\ WF_vars(Boot)

-----------------------------------------------------------------------------
(* Properties.                                                             *)

Words == [Addr -> Val \cup {Garbage}]
Cells == {Ctl(a) : a \in Addr} \cup {Data(v) : v \in Val \cup {Garbage}}
Puts  == [addr : Addr, val : Val] \cup {NoPut}

Verdicts == [ret : {"none", "zero", "error"}, canceled : BOOLEAN,
             failed : BOOLEAN, undone : BOOLEAN]

NodeTypeOK ==
  /\ phase \in {"up", "down", "ionInit"} \cup Tools
  /\ loaded \in BOOLEAN /\ crashes \in Nat
  /\ semFree \in BOOLEAN /\ sdrOwnerTask \in Task \cup {NoTask}
  /\ xnDepth \in Nat /\ xnCanceled \in BOOLEAN
DataTypeOK ==
  /\ logLength \in Int /\ logEntries \in Seq(Int) /\ log \in Seq(Cells)
  /\ dsfile \in Words /\ dssm \in Words /\ committed \in Words
  /\ rev \in Nat
TaskTypeOK ==
  /\ modified \in [Task -> BOOLEAN]
  /\ logfd \in [Task -> Nat \cup {AtEnd}]
  /\ pc \in [Task -> Busy \cup {"run"}]
  /\ put \in [Task -> Puts]
  /\ level \in [Task -> Nat]

(* Every variable has its type.                                            *)
TypeOK ==
  NodeTypeOK /\ DataTypeOK /\ TaskTypeOK /\ verdict \in [Task -> Verdicts]

(* Mutual exclusion survives nesting, crashXn and the ways a node comes    *)
(* back: while the node is up the semaphore is free exactly when no task   *)
(* owns the transaction, a task that is writing, reversing or has aborted  *)
(* owns it, and the depth counts no more levels than the owner has open.   *)
Exclusive ==
  phase = "up" =>
    /\ semFree <=> sdrOwnerTask = NoTask
    /\ \A t \in Task :
         /\ pc[t] # "run" => InXn(t)
         /\ InXn(t) /\ pc[t] = "run" => xnDepth \in 1..level[t]

(* Atomicity: when the node is up and no transaction is open, the file and *)
(* the memory copy both hold what the last transaction that was not        *)
(* reversed left: no update of a cancelled, failed or interrupted one.     *)
AtomicAtRest ==
  phase = "up" /\ sdrOwnerTask = NoTask =>
    /\ InFile => dsfile = committed
    /\ InDram => dssm = committed

(* The contents that undoing the log, as the next load would find it, gives *)
(* back: the oldest logged value of a word wins.                           *)
DurableEntries ==
  IF ~Reversible THEN <<>>
  ELSE IF LogInFile THEN ReloadLogEntries(log) ELSE logEntries
Durable ==
  LET es == DurableEntries
      Of(a) == {i \in DOMAIN es : EntryAddr(log, es[i]) = a}
      Oldest(a) == CHOOSE i \in Of(a) : \A j \in Of(a) : i <= j
  IN  [a \in Addr |-> IF Of(a) # {} THEN EntryData(log, es[Oldest(a)])
                      ELSE IF InFile THEN dsfile[a] ELSE dssm[a]]

(* Write-ahead logging: in every state, in the middle of a write, of a     *)
(* reversal, of a recovery, or down, what the log and the dataspace hold   *)
(* is enough to give back the last committed contents.                     *)
Recoverable == Durable = committed

(* The transactional promise: seen through Durable, an SDR is an atomic    *)
(* store.  Tasks see the heap unless a transaction is being undone, or the *)
(* node is wedged or down; the abstract transaction is open from the lock  *)
(* being taken until the commit point, the decision to reverse, the crash. *)
Undoing(t) == pc[t] \in {"reverse", "dead"} \/ (pc[t] = "term" /\ xnCanceled)
Visible == phase = "up" /\ \A t \in Task : ~Undoing(t)
Abstract == INSTANCE AtomicStore WITH
  store <- Durable,
  work <- IF Visible THEN Heap ELSE Durable,
  open <- Visible /\ sdrOwnerTask # NoTask
RefinesAtomicStore == Abstract!ASpec

Closed(t) == phase = "up" /\ pc[t] = "run" /\ level[t] = 0

(* sdr_end_xn's result: once its outermost level is closed, the task has    *)
(* been given -1 only if an operation failed, and 0 only if none did, with *)
(* any nesting of begins and closers after the failure.                    *)
EndReportsFailure ==
  \A t \in Task : Closed(t) =>
    /\ verdict[t].ret = "error" => verdict[t].failed
    /\ verdict[t].ret = "zero"  => ~verdict[t].failed

(* sdr.pod: a cancellation reverses the transactions that encompass it and *)
(* those nested in them; nothing else does but a failure.  (sdr_exit_xn at *)
(* the outermost level leaves xnCanceled set for the next transaction.)    *)
UndoneOnlyIfAsked ==
  \A t \in Task : verdict[t].undone => verdict[t].canceled \/ verdict[t].failed

(* Recovery: a node that is down comes up.                                 *)
RecoveryCompletes == phase = "down" ~> phase = "up"
=============================================================================
