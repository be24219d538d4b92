------------------------------ MODULE MCSdrModes ------------------------------
(* Three small instances of SdrXn side by side, one of which Init chooses:  *)
(* an SDR in memory with a log in memory that fills up, an SDR that is not  *)
(* reversible, and, with the constants of the .cfg, a node whose tasks or   *)
(* machine die and that is started again, also by a recovery that fails.    *)
EXTENDS SdrXn, TLC

CONSTANTS t1, t2, a1, a2, v0, v1, none, garbage

MemLog == INSTANCE SdrXn WITH
  Task <- {t1}, Addr <- {a1, a2}, Val <- {v0, v1}, InitVal <- v0,
  InFile <- FALSE, InDram <- TRUE, Reversible <- TRUE,
  LogInFile <- FALSE, LogSize <- 5,
  Faults <- {"noWorkingMemory"}, CrashKinds <- {"power"},
  BootTools <- {"ionInitialize"}, NoTask <- none, Garbage <- garbage,
  MaxDepth <- 3, MaxCrashes <- 1

Plain == INSTANCE SdrXn WITH
  Task <- {t1, t2}, Addr <- {a1, a2}, Val <- {v0, v1}, InitVal <- v0,
  InFile <- TRUE, InDram <- TRUE, Reversible <- FALSE,
  LogInFile <- TRUE, LogSize <- 2,
  Faults <- {}, CrashKinds <- {},
  BootTools <- {}, NoTask <- none, Garbage <- garbage,
  MaxDepth <- 1, MaxCrashes <- 0

(* Tasks and words tell the instances apart.                               *)
IsMemLog  == DOMAIN level = {t1}
IsRestart == DOMAIN dssm = {a1}
IsPlain   == ~IsMemLog /\ ~IsRestart

ModesInit == MemLog!Init \/ Plain!Init \/ Init

(* Only the node that is started again finds its profile loaded, or a log   *)
(* to recover.                                                              *)
ModesNext ==
  \/ IsMemLog /\ MemLog!Next
  \/ IsPlain /\ Plain!Next
  \/ /\ IsRestart
     /\ \/ \E t \in Task : TaskStep(t)
        \/ \E kind \in CrashKinds : Crash(kind)
        \/ \E tool \in BootTools : LoadProfile(tool)
        \/ RecoverEntry \/ RecoverDone \/ IonInitialize
  \/ ProfileLoaded \/ RecoverFails

(* Fairness of the start script, as in SdrXn.                              *)
ModesSpec ==
  /\ ModesInit /\ [][ModesNext]_vars
  /\ WF_vars(IsRestart /\ Boot)

(* AtomicAtRest of the two SDRs that keep to what they are meant to         *)
(* survive: no update of a cancelled or failed transaction is left at rest. *)
ModesAtomicAtRest ==
  /\ IsMemLog => MemLog!AtomicAtRest
  /\ IsPlain => Plain!AtomicAtRest

(* EndReportsFailure when the log in memory fills up.                       *)
MemLogEndReportsFailure == IsMemLog => MemLog!EndReportsFailure

(* Exclusive through crashes, failed recoveries and both boot tools.        *)
RestartExclusive == IsRestart => Exclusive

(* RecoveryCompletes of the node that is started again: whatever has died   *)
(* or failed, it comes up.                                                  *)
RestartRecoveryCompletes == IsRestart => RecoveryCompletes
=============================================================================
