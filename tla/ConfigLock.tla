----------------------------- MODULE ConfigLock -----------------------------
(***************************************************************************)
(* The lock file that guards config.yaml: withConfigLock and acquireLock   *)
(* of internal/config/config.go.                                           *)
(*                                                                         *)
(* A process is one run of the command line program, which takes the lock  *)
(* at most once; so the lock file is identified by the process that        *)
(* created it, and a process that died never comes back.  Every file       *)
(* system call is a step of its own: the existence test, the age test and  *)
(* the removal of a stale lock are three steps other processes can come    *)
(* between.                                                                *)
(*                                                                         *)
(* Time appears as what the code reads from it: a lock file may turn older *)
(* than lockStaleAfter, and a waiting process may find its lockTimeout     *)
(* exceeded.                                                               *)
(***************************************************************************)
CONSTANTS
    Procs,       \* runs of the program
    NoLock,      \* there is no lock file
    Crashable,   \* the processes that may be killed while they run
    Slow,        \* the processes that may hold the lock past lockStaleAfter
    PowerFails   \* whether the machine may lose power

ASSUME LockAssumption ==
    /\ NoLock \notin Procs
    /\ Crashable \subseteq Procs
    /\ Slow \subseteq Procs
    /\ PowerFails \in BOOLEAN

VARIABLES
    lock,        \* the creator of the lock file, or NoLock
    stale,       \* the creators whose lock file has grown too old
    lpc,         \* where each process is in withConfigLock
    late,        \* the waiting processes whose deadline has passed
    recoverers,  \* history: who removed a lock file as stale
    breached     \* history: such a lock file belonged to a running process

lockVars == <<lock, stale, lpc, late, recoverers, breached>>

Waiting == {"create", "stat", "remove", "deadline"}
LockPC  == Waiting \cup {"idle", "critical", "released", "failed", "dead"}

Critical(p) == lpc[p] = "critical"
Running(p)  == lpc[p] \in Waiting \cup {"critical"}

LockInit ==
    /\ lock = NoLock
    /\ stale = {}
    /\ lpc = [p \in Procs |-> "idle"]
    /\ late = {}
    /\ recoverers = {}
    /\ breached = FALSE

Goto(p, label) == lpc' = [lpc EXCEPT ![p] = label]

-----------------------------------------------------------------------------
(* acquireLock *)

Begin(p) ==
    /\ lpc[p] = "idle"
    /\ Goto(p, "create")
    /\ UNCHANGED <<lock, stale, late, recoverers, breached>>

(* Mutant: the file is created without O_EXCL. *)
CreateWithoutExcl(p) ==
    /\ lpc[p] = "create"
    /\ lock' = p
    /\ Goto(p, "critical")
    /\ UNCHANGED <<stale, late, recoverers, breached>>

(* O_CREATE|O_EXCL succeeds when there is no lock file ... *)
Create(p) ==
    /\ lpc[p] = "create"
    /\ lock = NoLock
    /\ lock' = p
    /\ Goto(p, "critical")
    /\ UNCHANGED <<stale, late, recoverers, breached>>

(* ... fails when there is one ... *)
FindsLock(p) ==
    /\ lpc[p] = "create"
    /\ lock # NoLock
    /\ Goto(p, "stat")
    /\ UNCHANGED <<lock, stale, late, recoverers, breached>>

(* ... and ends the attempt on any other error. *)
CreateFails(p) ==
    /\ lpc[p] = "create"
    /\ Goto(p, "failed")
    /\ UNCHANGED <<lock, stale, late, recoverers, breached>>

(* Mutant: any lock file counts as stale. *)
StatIgnoresAge(p) ==
    /\ lpc[p] = "stat"
    /\ Goto(p, IF lock # NoLock THEN "remove" ELSE "deadline")
    /\ UNCHANGED <<lock, stale, late, recoverers, breached>>

(* A lock file that is gone, or cannot be examined, is not stale. *)
Stat(p) ==
    /\ lpc[p] = "stat"
    /\ Goto(p, IF lock \in stale THEN "remove" ELSE "deadline")
    /\ UNCHANGED <<lock, stale, late, recoverers, breached>>

(* os.Remove deletes whichever lock file it finds. *)
RemoveStale(p) ==
    /\ lpc[p] = "remove"
    /\ lock # NoLock
    /\ lock' = NoLock
    /\ recoverers' = recoverers \cup {p}
    /\ breached' = (breached \/ Critical(lock))
    /\ Goto(p, "create")
    /\ UNCHANGED <<stale, late>>

(* It fails when the file is gone, or the directory refuses. *)
RemoveFails(p) ==
    /\ lpc[p] = "remove"
    /\ Goto(p, "deadline")
    /\ UNCHANGED <<lock, stale, late, recoverers, breached>>

(* Mutant: the deadline is not looked at. *)
PollForever(p) ==
    /\ lpc[p] = "deadline"
    /\ Goto(p, "create")
    /\ UNCHANGED <<lock, stale, late, recoverers, breached>>

Poll(p) ==
    /\ lpc[p] = "deadline"
    /\ p \notin late
    /\ Goto(p, "create")
    /\ UNCHANGED <<lock, stale, late, recoverers, breached>>

GiveUp(p) ==
    /\ lpc[p] = "deadline"
    /\ p \in late
    /\ Goto(p, "failed")
    /\ UNCHANGED <<lock, stale, late, recoverers, breached>>

-----------------------------------------------------------------------------
(* Mutant: the lock file is closed but not removed. *)
ReleaseKeepsFile(p) ==
    /\ Critical(p)
    /\ Goto(p, "released")
    /\ UNCHANGED <<lock, stale, late, recoverers, breached>>

(* withConfigLock's deferred release: it removes the lock file by its path, *)
(* whoever created it, and ignores an error.                                *)
Release(p) ==
    /\ Critical(p)
    /\ lock' = NoLock
    /\ Goto(p, "released")
    /\ UNCHANGED <<stale, late, recoverers, breached>>

-----------------------------------------------------------------------------
(* The environment *)

DeadlinePasses(p) ==
    /\ lpc[p] \in Waiting
    /\ p \notin late
    /\ late' = late \cup {p}
    /\ UNCHANGED <<lock, stale, lpc, recoverers, breached>>

(* A lock file outlives lockStaleAfter when its creator died, or is slow. *)
GrowsOld(p) ==
    /\ lock = p
    /\ p \notin stale
    /\ lpc[p] = "dead" \/ p \in Slow
    /\ stale' = stale \cup {p}
    /\ UNCHANGED <<lock, lpc, late, recoverers, breached>>

(* Killed: no deferred call runs, and the lock file stays behind. *)
Crash(p) ==
    /\ p \in Crashable
    /\ Running(p)
    /\ Goto(p, "dead")
    /\ UNCHANGED <<lock, stale, late, recoverers, breached>>

(* Every running process dies, and the directory entry of the lock file,   *)
(* which nothing flushed, may or may not have reached the disk.            *)
PowerLoss ==
    /\ PowerFails
    /\ \E p \in Procs : Running(p)
    /\ lpc' = [p \in Procs |-> IF Running(p) THEN "dead" ELSE lpc[p]]
    /\ lock' \in {lock, NoLock}
    /\ UNCHANGED <<stale, late, recoverers, breached>>

-----------------------------------------------------------------------------
Acquire(p) ==
    \/ Create(p) \/ FindsLock(p) \/ CreateFails(p)
    \/ Stat(p) \/ RemoveStale(p) \/ RemoveFails(p)
    \/ Poll(p) \/ GiveUp(p)

LockNext ==
    \/ \E p \in Procs :
          \/ Begin(p) \/ Acquire(p) \/ Release(p)
          \/ DeadlinePasses(p) \/ GrowsOld(p) \/ Crash(p)
    \/ PowerLoss

LockSpec == LockInit /\ [][LockNext]_lockVars

-----------------------------------------------------------------------------
LockTypeOK ==
    /\ lock \in Procs \cup {NoLock}
    /\ stale \subseteq Procs
    /\ lpc \in [Procs -> LockPC]
    /\ late \subseteq Procs
    /\ recoverers \subseteq Procs
    /\ breached \in BOOLEAN

(* No two processes edit the configuration at once. *)
MutualExclusion ==
    \A p, q \in Procs : Critical(p) /\ Critical(q) => p = q

(* They do only after a process deleted the lock file of one that was still *)
(* running: nothing else in the protocol lets a second one in.              *)
MutualExclusionUntilBreach == breached \/ MutualExclusion

(* A lock file never outlives a command that ended on its own: the creator *)
(* of the one on disk is editing, or was killed.                           *)
LockHasHolderOrCorpse ==
    lock # NoLock => lpc[lock] \in {"critical", "dead"}

(* When live holders are never slow, recovering a dead process's lock is   *)
(* safe as long as only one process does so; two that both saw it stale    *)
(* can delete the lock file a third has just created.                      *)
BreachNeedsTwoRecoverers ==
    Slow = {} /\ breached => \E p, q \in recoverers : p # q
=============================================================================
