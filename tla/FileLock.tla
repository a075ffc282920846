------------------------------- MODULE FileLock -------------------------------
(***************************************************************************)
(* FileCredentialLock: a file created exclusively and removed on release.  *)
(* A process that finds it there removes it when its owner is not running  *)
(* and it is old enough, and tries again until its patience ends.  Between *)
(* the judgement and the removal the file may have become another's.       *)
(* A process writes its pid within staleMilliseconds of creating the file, *)
(* so that only a dead owner's lock is judged stale; how old a dead        *)
(* owner's file is, and how long a process has waited, is left open.       *)
(***************************************************************************)
CONSTANT Process

VARIABLES
  lockFile,           \* whose pid credentials.lock holds, {} when there is none
  waiting,            \* where each process stands in withLock
  dead                \* processes that crashed

lockVars == <<lockFile, waiting, dead>>

LockTypeOK ==
  /\ lockFile \in Process \cup {{}}
  /\ waiting \in [Process -> {"out", "open", "remove", "pause", "held"}]
  /\ dead \subseteq Process

LockInit ==
  /\ lockFile = {}
  /\ waiting = [p \in Process |-> "out"]
  /\ dead = {}

WaitGoes(p, pc) == waiting' = [waiting EXCEPT ![p] = pc]
StartWaiting(p) == WaitGoes(p, "open") /\ UNCHANGED <<lockFile, dead>>

OpenLock(p) ==
  /\ waiting[p] \in {"open", "pause"} /\ lockFile = {}
  /\ lockFile' = p /\ WaitGoes(p, "held") /\ UNCHANGED dead

MutantFindLocked(p) ==                \* processIsRunning is not asked
  /\ waiting[p] \in {"open", "pause"} /\ lockFile # {}
  /\ WaitGoes(p, "pause") \/ WaitGoes(p, "remove")
  /\ UNCHANGED <<lockFile, dead>>

FindLocked(p) ==
  /\ waiting[p] \in {"open", "pause"} /\ lockFile # {}
  /\ WaitGoes(p, "pause") \/ (lockFile \in dead /\ WaitGoes(p, "remove"))
  /\ UNCHANGED <<lockFile, dead>>

\* rm -f of whatever file is there by now
RemoveStale(p) ==
  /\ waiting[p] = "remove"
  /\ lockFile' = {} /\ WaitGoes(p, "pause") /\ UNCHANGED dead

LockTimesOut(p) ==
  /\ waiting[p] = "pause"
  /\ WaitGoes(p, "out") /\ UNCHANGED <<lockFile, dead>>

\* The finally block removes the file, whoever's it is.
Release(p) ==
  /\ waiting[p] = "held"
  /\ lockFile' = {} /\ WaitGoes(p, "out") /\ UNCHANGED dead

Die(p) ==
  /\ dead' = dead \cup {p} /\ WaitGoes(p, "out") /\ UNCHANGED lockFile
=============================================================================
