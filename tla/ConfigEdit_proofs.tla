-------------------------- MODULE ConfigEdit_proofs --------------------------
(***************************************************************************)
(* The `auth` commands keep what the lock and the store promise, for any   *)
(* number of commands, names, keys and URLs.                               *)
(***************************************************************************)
EXTENDS ConfigEdit, Profiles_proofs, FiniteSetTheorems, TLAPS

-----------------------------------------------------------------------------
(* What the lock file guarantees for any set of commands *)

Actions(p) ==
    \/ Begin(p) \/ Create(p) \/ FindsLock(p) \/ CreateFails(p) \/ Stat(p)
    \/ RemoveStale(p) \/ RemoveFails(p) \/ Poll(p) \/ GiveUp(p) \/ Release(p)
    \/ DeadlinePasses(p) \/ GrowsOld(p) \/ Crash(p)

LEMMA LockTypeInit == LockInit => LockTypeOK
BY LockAssumption DEF LockInit, LockTypeOK, LockPC

LEMMA LockTypeStep == LockTypeOK /\ [LockNext]_lockVars => LockTypeOK'
<1> SUFFICES ASSUME LockTypeOK, [LockNext]_lockVars PROVE LockTypeOK'
    OBVIOUS
<1> USE LockAssumption DEF LockTypeOK, LockPC, Waiting, Goto
<1>1. CASE UNCHANGED lockVars
    BY <1>1 DEF lockVars
<1>2. ASSUME NEW p \in Procs, Actions(p) PROVE LockTypeOK'
    <2>1. CASE Begin(p) \/ Create(p) \/ FindsLock(p) \/ CreateFails(p)
        BY <2>1 DEF Begin, Create, FindsLock, CreateFails
    <2>2. CASE Stat(p)
        BY <2>2 DEF Stat
    <2>3. CASE RemoveStale(p)
        BY <2>3 DEF RemoveStale, Critical
    <2>4. CASE RemoveFails(p) \/ Poll(p) \/ GiveUp(p) \/ Release(p)
        BY <2>4 DEF RemoveFails, Poll, GiveUp, Release
    <2>5. CASE DeadlinePasses(p) \/ GrowsOld(p) \/ Crash(p)
        BY <2>5 DEF DeadlinePasses, GrowsOld, Crash
    <2> QED
        BY <1>2, <2>1, <2>2, <2>3, <2>4, <2>5 DEF Actions
<1>3. CASE PowerLoss
    BY <1>3 DEF PowerLoss
<1> QED
    BY <1>1, <1>2, <1>3 DEF LockNext, Acquire, Actions

(* Every reachable state of the lock protocol is well typed. *)
THEOREM LockTypeCorrect == LockSpec => []LockTypeOK
BY LockTypeInit, LockTypeStep, PTL DEF LockSpec

-----------------------------------------------------------------------------
(* Who the lock file belongs to *)

HolderOwnsLock == breached \/ \A p \in Procs : Critical(p) => lock = p

LockInv == LockTypeOK /\ LockHasHolderOrCorpse /\ HolderOwnsLock

LEMMA LockInvInit == LockInit => LockInv
BY LockTypeInit
   DEF LockInit, LockInv, LockHasHolderOrCorpse, HolderOwnsLock, Critical

LEMMA LockInvStep == LockInv /\ [LockNext]_lockVars => LockInv'
<1> SUFFICES ASSUME LockInv, [LockNext]_lockVars PROVE LockInv'
    OBVIOUS
<1>t. LockTypeOK /\ LockTypeOK'
    BY LockTypeStep DEF LockInv
<1> USE <1>t, LockAssumption
        DEF LockInv, LockTypeOK, LockHasHolderOrCorpse, HolderOwnsLock, Critical, Goto
<1>1. CASE UNCHANGED lockVars
    BY <1>1 DEF lockVars
<1>2. ASSUME NEW p \in Procs, Actions(p)
      PROVE  (LockHasHolderOrCorpse /\ HolderOwnsLock)'
    <2>1. CASE Begin(p) \/ FindsLock(p) \/ CreateFails(p)
        BY <2>1 DEF Begin, FindsLock, CreateFails
    <2>2. CASE Create(p)
        BY <2>2 DEF Create
    <2>3. CASE Stat(p)
        BY <2>3 DEF Stat
    <2>4. CASE RemoveStale(p)
        BY <2>4 DEF RemoveStale
    <2>5. CASE RemoveFails(p) \/ Poll(p) \/ GiveUp(p)
        BY <2>5 DEF RemoveFails, Poll, GiveUp
    <2>6. CASE Release(p)
        BY <2>6 DEF Release
    <2>7. CASE DeadlinePasses(p) \/ GrowsOld(p)
        BY <2>7 DEF DeadlinePasses, GrowsOld
    <2>8. CASE Crash(p)
        BY <2>8 DEF Crash, Running, Waiting
    <2> QED
        BY <1>2, <2>1, <2>2, <2>3, <2>4, <2>5, <2>6, <2>7, <2>8 DEF Actions
<1>3. CASE PowerLoss
    BY <1>3 DEF PowerLoss, Running, Waiting
<1> QED
    BY <1>1, <1>2, <1>3 DEF LockNext, Acquire, Actions

(* Two commands are inside the lock together only after one of them, or a  *)
(* third, deleted the lock file of a running command as stale.             *)
THEOREM MutualExclusionHolds == LockSpec => []MutualExclusionUntilBreach
<1>1. LockInv => MutualExclusionUntilBreach
    BY DEF LockInv, HolderOwnsLock, MutualExclusionUntilBreach, MutualExclusion
<1> QED
    BY <1>1, LockInvInit, LockInvStep, PTL DEF LockSpec

(* A command that ends on its own leaves no lock file of its own behind. *)
THEOREM NoOrphanedLock == LockSpec => []LockHasHolderOrCorpse
<1>1. LockInv => LockHasHolderOrCorpse
    BY DEF LockInv
<1> QED
    BY <1>1, LockInvInit, LockInvStep, PTL DEF LockSpec

-----------------------------------------------------------------------------
(* Recovering the lock of a dead process *)

OtherRecoverer(p) == \E q \in recoverers : q # p

RecoveryInv ==
    /\ \A q \in stale : lpc[q] = "dead"
    /\ \A p \in Procs : lpc[p] = "remove" => lock \in stale \/ OtherRecoverer(p)
    /\ breached => \E p, q \in recoverers : p # q

LEMMA RecoveryStep ==
    ASSUME Slow = {}, LockInv, RecoveryInv, [LockNext]_lockVars
    PROVE  RecoveryInv'
<1>t. LockTypeOK /\ LockTypeOK'
    BY LockTypeStep DEF LockInv
<1>h. breached \/ \A p \in Procs : Critical(p) => lock = p
    BY DEF LockInv, HolderOwnsLock
<1> USE <1>t, LockAssumption DEF LockTypeOK, RecoveryInv, OtherRecoverer, Critical, Goto
<1>1. CASE UNCHANGED lockVars
    BY <1>1 DEF lockVars
<1>2. ASSUME NEW p \in Procs, Actions(p) PROVE RecoveryInv'
    <2>1. CASE Begin(p) \/ FindsLock(p) \/ CreateFails(p)
        BY <2>1 DEF Begin, FindsLock, CreateFails
    <2>2. CASE Create(p)
        BY <2>2 DEF Create
    <2>3. CASE Stat(p)
        BY <2>3 DEF Stat
    <2>4. CASE RemoveStale(p)
        <3>1. breached' => \E a, b \in recoverers' : a # b
            BY <2>4 DEF RemoveStale
        <3>2. \A q \in stale' : lpc'[q] = "dead"
            BY <2>4 DEF RemoveStale
        <3>3. \A q \in Procs : lpc'[q] = "remove" => OtherRecoverer(q)'
            BY <2>4 DEF RemoveStale
        <3> QED
            BY <3>1, <3>2, <3>3
    <2>5. CASE RemoveFails(p) \/ Poll(p) \/ GiveUp(p)
        BY <2>5 DEF RemoveFails, Poll, GiveUp
    <2>6. CASE Release(p)
        <3>1. \A q \in stale' : lpc'[q] = "dead"
            BY <2>6 DEF Release
        <3>2. ASSUME NEW q \in Procs, lpc'[q] = "remove"
              PROVE  \E r \in recoverers : r # q
            BY <1>h, <2>6, <3>2 DEF Release
        <3> QED
            BY <2>6, <3>1, <3>2 DEF Release
    <2>7. CASE DeadlinePasses(p) \/ GrowsOld(p)
        BY <2>7 DEF DeadlinePasses, GrowsOld
    <2>8. CASE Crash(p)
        BY <2>8 DEF Crash, Running, Waiting
    <2> QED
        BY <1>2, <2>1, <2>2, <2>3, <2>4, <2>5, <2>6, <2>7, <2>8 DEF Actions
<1>3. CASE PowerLoss
    BY <1>3 DEF PowerLoss, Running, Waiting
<1> QED
    BY <1>1, <1>2, <1>3 DEF LockNext, Acquire, Actions

(* With holders that are never slow, a single process recovering stale lock *)
(* files never removes a running command's.                                 *)
THEOREM BreachBound == LockSpec => []BreachNeedsTwoRecoverers
<1> DEFINE Inv == LockInv /\ (Slow = {} => RecoveryInv)
<1>1. LockInit => Inv
    BY LockInvInit DEF LockInit, RecoveryInv
<1>2. Inv /\ [LockNext]_lockVars => Inv'
    BY LockInvStep, RecoveryStep
<1>3. Inv => BreachNeedsTwoRecoverers
    BY DEF RecoveryInv, BreachNeedsTwoRecoverers
<1> QED
    BY <1>1, <1>2, <1>3, PTL DEF LockSpec

-----------------------------------------------------------------------------
(* Commands that are neither killed nor slow *)

NothingStale ==
    /\ stale = {}
    /\ \A p \in Procs : lpc[p] \notin {"remove", "dead"}
    /\ ~breached

LEMMA NothingStaleStep ==
    ASSUME Crashable = {}, Slow = {}, ~PowerFails,
           LockTypeOK, NothingStale, [LockNext]_lockVars
    PROVE  NothingStale'
<1> USE LockAssumption DEF LockTypeOK, NothingStale, Goto
<1>1. CASE UNCHANGED lockVars
    BY <1>1 DEF lockVars
<1>2. ASSUME NEW p \in Procs, Actions(p) PROVE NothingStale'
    <2>1. CASE Begin(p) \/ Create(p) \/ FindsLock(p) \/ CreateFails(p)
        BY <2>1 DEF Begin, Create, FindsLock, CreateFails
    <2>2. CASE Stat(p)
        BY <2>2 DEF Stat
    <2>3. CASE RemoveStale(p) \/ RemoveFails(p) \/ Poll(p) \/ GiveUp(p) \/ Release(p)
        BY <2>3 DEF RemoveStale, RemoveFails, Poll, GiveUp, Release
    <2>4. CASE DeadlinePasses(p) \/ GrowsOld(p) \/ Crash(p)
        BY <2>4 DEF DeadlinePasses, GrowsOld, Crash
    <2> QED
        BY <1>2, <2>1, <2>2, <2>3, <2>4 DEF Actions
<1>3. CASE PowerLoss
    BY <1>3 DEF PowerLoss
<1> QED
    BY <1>1, <1>2, <1>3 DEF LockNext, Acquire, Actions

(* Without kills, power losses and holders slower than lockStaleAfter, no  *)
(* two commands are ever inside the lock together.                         *)
THEOREM MutualExclusionWithoutStaleness ==
    ASSUME Crashable = {}, Slow = {}, ~PowerFails
    PROVE  LockSpec => []MutualExclusion
<1> DEFINE Inv == LockInv /\ NothingStale
<1>1. LockInit => Inv
    BY LockInvInit DEF LockInit, NothingStale
<1>2. Inv /\ [LockNext]_lockVars => Inv'
    BY LockInvStep, NothingStaleStep DEF LockInv
<1>3. Inv => MutualExclusion
    BY DEF LockInv, HolderOwnsLock, NothingStale, MutualExclusion
<1> QED
    BY <1>1, <1>2, <1>3, PTL DEF LockSpec

-----------------------------------------------------------------------------
(* Commands over the lock *)

(* A step of a command is a step of the lock protocol, or none. *)
LEMMA EditStepIsLockStep == [Next]_vars => [LockNext]_lockVars
<1> SUFFICES ASSUME [Next]_vars PROVE [LockNext]_lockVars
    OBVIOUS
<1>1. CASE UNCHANGED vars
    BY <1>1 DEF vars
<1>2. ASSUME NEW p \in Procs, Start(p) PROVE [LockNext]_lockVars
    BY <1>2 DEF Start, AuthAdd, AuthRemove, AuthUse, SnapshotUnreadable,
                Submit, EndEarly, LockNext
<1>3. ASSUME NEW p \in Procs, Work(p) PROVE [LockNext]_lockVars
    BY <1>3 DEF Work, TakeLock, LoadAndMutate, CreateTemp, WriteTemp, SyncTemp,
                TempStep, Rename, WriteFails, Unlock, LockNext
<1>4. ASSUME NEW p \in Procs, TimePasses(p) \/ Killed(p) PROVE [LockNext]_lockVars
    BY <1>4 DEF TimePasses, Killed, LockNext
<1>5. CASE LosePower
    BY <1>5 DEF LosePower, LockNext
<1> QED
    BY <1>1, <1>2, <1>3, <1>4, <1>5 DEF Next

-----------------------------------------------------------------------------
(* Types *)

LEMMA EmptyConfigType == EmptyConfig \in Config
BY DEF EmptyConfig, Config

(* What `auth add` carries into the lock is a request, confirmed only with *)
(* consent.                                                                *)
LEMMA SubmitsRequest ==
    ASSUME NEW p \in Procs, NEW r, NEW c, Submit(p, r, c), r \in Request,
           r.op = "remove" \/ (r.op = "add" /\ r.confirmed) => c
    PROVE  /\ req' = [req EXCEPT ![p] = r]
           /\ r \in Request
           /\ r.op = "remove" \/ (r.op = "add" /\ r.confirmed) => p \in consented'
           /\ consented \subseteq consented' /\ consented' \subseteq consented \cup {p}
BY DEF Submit

LEMMA StartCases ==
    ASSUME NEW p \in Procs, Start(p)
    PROVE  /\ step[p] = "start"
           /\ \/ \E how \in {"error", "unchanged"} : EndEarly(p, how)
              \/ \E r \in Request, c \in BOOLEAN :
                    /\ r.op = "remove" \/ (r.op = "add" /\ r.confirmed) => c
                    /\ Submit(p, r, c)
<1>1. ASSUME NEW n \in Names, NEW key \in Keys \cup {NoKey}, NEW url \in URLs,
             NEW yes \in BOOLEAN, NEW terminal \in BOOLEAN,
             AuthAdd(p, n, key, url, yes, terminal)
      PROVE  /\ step[p] = "start"
             /\ \/ \E how \in {"error", "unchanged"} : EndEarly(p, how)
                \/ \E r \in Request, c \in BOOLEAN :
                      /\ r.op = "remove" \/ (r.op = "add" /\ r.confirmed) => c
                      /\ Submit(p, r, c)
    <2> DEFINE exists    == n \in Stored(file)
               urlSet    == exists => url # FillURL(file.profiles[n]).url
               destroys  == key # NoKey /\ HasKey(file, n)
               confirmed == yes \/ (terminal /\ destroys)
               warned    == terminal /\ HasKey(file, n)
               asked     == [op |-> "add", name |-> n, key |-> key, url |-> url,
                             urlSet |-> urlSet, confirmed |-> confirmed]
    <2>1. step[p] = "start"
        BY <1>1 DEF AuthAdd
    <2>2. CASE \E how \in {"error", "unchanged"} : EndEarly(p, how)
        BY <2>1, <2>2
    <2>3. CASE /\ key # NoKey \/ (HasKey(file, n) /\ urlSet)
               /\ Submit(p, asked, yes \/ warned)
        <3>1. asked \in Request
            BY <2>3 DEF Request, AddRequest
        <3>2. yes \/ warned \in BOOLEAN
            BY DEF HasKey
        <3>3. asked.op = "remove" \/ (asked.op = "add" /\ asked.confirmed)
                 => yes \/ warned
            OBVIOUS
        <3> HIDE DEF asked, warned
        <3> QED
            BY <2>1, <2>3, <3>1, <3>2, <3>3
    <2> QED
        BY <1>1, <2>2, <2>3 DEF AuthAdd
<1>2. ASSUME NEW n \in Names, NEW agreed \in BOOLEAN, AuthRemove(p, n, agreed)
      PROVE  /\ step[p] = "start"
             /\ \/ EndEarly(p, "error")
                \/ Submit(p, [op |-> "remove", name |-> n], TRUE)
    BY <1>2 DEF AuthRemove
<1>3. ASSUME NEW n \in Names, AuthUse(p, n)
      PROVE  step[p] = "start" /\ Submit(p, [op |-> "use", name |-> n], FALSE)
    BY <1>3 DEF AuthUse
<1>4. CASE SnapshotUnreadable(p)
    BY <1>4 DEF SnapshotUnreadable
<1>5. \A n \in Names : /\ [op |-> "remove", name |-> n] \in Request
                       /\ [op |-> "use", name |-> n] \in Request
    BY DEF Request, RemoveRequest, UseRequest
<1>6. ASSUME NEW n \in Names, NEW agreed \in BOOLEAN, AuthRemove(p, n, agreed)
      PROVE  /\ step[p] = "start"
             /\ \/ \E how \in {"error", "unchanged"} : EndEarly(p, how)
                \/ \E r \in Request, c \in BOOLEAN :
                      /\ r.op = "remove" \/ (r.op = "add" /\ r.confirmed) => c
                      /\ Submit(p, r, c)
    BY <1>2, <1>5, <1>6
<1>7. ASSUME NEW n \in Names, AuthUse(p, n)
      PROVE  /\ step[p] = "start"
             /\ \E r \in Request, c \in BOOLEAN :
                      /\ r.op = "remove" \/ (r.op = "add" /\ r.confirmed) => c
                      /\ Submit(p, r, c)
    <2> DEFINE r == [op |-> "use", name |-> n]
    <2>1. r \in Request /\ ~(r.op = "remove" \/ (r.op = "add" /\ r.confirmed))
        BY <1>5
    <2>2. step[p] = "start" /\ Submit(p, r, FALSE)
        BY <1>3, <1>7
    <2> HIDE DEF r
    <2> QED
        BY <2>1, <2>2
<1> QED
    BY <1>1, <1>4, <1>6, <1>7 DEF Start

LEMMA TypeStep == TypeOK /\ [Next]_vars => TypeOK'
<1> SUFFICES ASSUME TypeOK, [Next]_vars PROVE TypeOK'
    OBVIOUS
<1>t. LockTypeOK'
    BY EditStepIsLockStep, LockTypeStep DEF TypeOK
<1> USE <1>t DEF TypeOK, Steps, Outcomes, At, Ends, fileVars, procVars, history
<1>1. CASE UNCHANGED vars
    BY <1>1 DEF vars
<1>2. ASSUME NEW p \in Procs, Start(p) PROVE TypeOK'
    <2>1. ASSUME NEW how \in {"error", "unchanged"}, EndEarly(p, how) PROVE TypeOK'
        BY <2>1 DEF EndEarly
    <2>2. ASSUME NEW r \in Request, NEW c \in BOOLEAN, Submit(p, r, c) PROVE TypeOK'
        BY <2>2 DEF Submit
    <2> QED
        BY <1>2, <2>1, <2>2, StartCases
<1>3. ASSUME NEW p \in Procs, Work(p) PROVE TypeOK'
    <2>1. CASE TakeLock(p)
        BY <2>1 DEF TakeLock
    <2>2. CASE LoadAndMutate(p)
        <3>1. ASSUME file # Torn, Accepted(req[p], file)
              PROVE  Applied(req[p], file) \in Config
            <4>1. req[p] # NoRequest
                BY <3>1 DEF Accepted, NoRequest
            <4> QED
                BY <3>1, <4>1, AppliedType
        <3> QED
            BY <2>2, <3>1 DEF LoadAndMutate
    <2>3. CASE CreateTemp(p) \/ WriteTemp(p) \/ SyncTemp(p)
        BY <2>3 DEF CreateTemp, WriteTemp, SyncTemp, TempStep
    <2>4. CASE Rename(p)
        BY <2>4 DEF Rename
    <2>5. CASE WriteFails(p)
        BY <2>5 DEF WriteFails
    <2>6. CASE Unlock(p)
        BY <2>6, EmptyConfigType DEF Unlock
    <2> QED
        BY <1>3, <2>1, <2>2, <2>3, <2>4, <2>5, <2>6 DEF Work
<1>4. ASSUME NEW p \in Procs, TimePasses(p) \/ Killed(p) PROVE TypeOK'
    BY <1>4, EmptyConfigType DEF TimePasses, Killed
<1>5. CASE LosePower
    BY <1>5, EmptyConfigType DEF LosePower
<1> QED
    BY <1>1, <1>2, <1>3, <1>4, <1>5 DEF Next

(* Every reachable state is well typed. *)
THEOREM TypeCorrect == Spec => []TypeOK
<1>1. Init => TypeOK
    BY LockTypeInit, EmptyConfigType, EditAssumption
       DEF Init, TypeOK, Steps, Outcomes
<1> QED
    BY <1>1, TypeStep, PTL DEF Spec

-----------------------------------------------------------------------------
(* Where commands are, and their temporary files *)

Writing  == {"temp", "write", "sync", "rename"}
TempAt(s) == IF s = "write" THEN "empty"
             ELSE IF s = "sync" THEN "written"
             ELSE IF s = "rename" THEN "synced"
             ELSE "none"

PlaceInv ==
    \A p \in Procs :
        /\ step[p] \in Writing \cup {"leave"} => Critical(p)
        /\ step[p] = "start" => lpc[p] = "idle"
        /\ lpc[p] \in Waiting => step[p] = "load"
        /\ Critical(p) => step[p] \in Writing \cup {"load", "leave"}
        /\ lpc[p] # "dead" => temp[p] = TempAt(step[p])
        /\ p \in committed => step[p] \in {"leave", "over"}

LEMMA PlaceStep == TypeOK /\ PlaceInv /\ [Next]_vars => PlaceInv'
<1> SUFFICES ASSUME TypeOK, PlaceInv, [Next]_vars PROVE PlaceInv'
    OBVIOUS
<1> USE DEF TypeOK, LockTypeOK, PlaceInv, Writing, Waiting, TempAt, Critical, At, Ends, Goto,
            lockVars, fileVars, procVars, history
<1>1. CASE UNCHANGED vars
    BY <1>1 DEF vars
<1>2. ASSUME NEW p \in Procs, Start(p) PROVE PlaceInv'
    <2>1. ASSUME NEW how \in {"error", "unchanged"}, EndEarly(p, how) PROVE PlaceInv'
        BY <2>1 DEF EndEarly
    <2>2. ASSUME NEW r \in Request, NEW c \in BOOLEAN, step[p] = "start", Submit(p, r, c)
          PROVE  PlaceInv'
        BY <2>2 DEF Submit, Begin
    <2> QED
        BY <1>2, <2>1, <2>2, StartCases
<1>3. ASSUME NEW p \in Procs, Work(p) PROVE PlaceInv'
    <2>1. CASE TakeLock(p)
        <3>1. /\ lpc[p] \in Waiting
              /\ \E label \in {"critical", "stat", "failed", "remove", "deadline", "create"} :
                    lpc' = [lpc EXCEPT ![p] = label]
            BY <2>1 DEF TakeLock, Acquire, Create, FindsLock, CreateFails, Stat,
                        RemoveStale, RemoveFails, Poll, GiveUp, Waiting
        <3>2. step[p] = "load"
            BY <3>1
        <3> QED
            BY <2>1, <3>1, <3>2 DEF TakeLock, Waiting
    <2>2. CASE LoadAndMutate(p)
        BY <2>2 DEF LoadAndMutate
    <2>3. CASE CreateTemp(p) \/ WriteTemp(p) \/ SyncTemp(p)
        BY <2>3 DEF CreateTemp, WriteTemp, SyncTemp, TempStep
    <2>4. CASE Rename(p)
        BY <2>4 DEF Rename
    <2>5. CASE WriteFails(p)
        BY <2>5 DEF WriteFails
    <2>6. CASE Unlock(p)
        BY <2>6 DEF Unlock, Release
    <2> QED
        BY <1>3, <2>1, <2>2, <2>3, <2>4, <2>5, <2>6 DEF Work
<1>4. ASSUME NEW p \in Procs, TimePasses(p) PROVE PlaceInv'
    BY <1>4 DEF TimePasses, DeadlinePasses, GrowsOld
<1>5. ASSUME NEW p \in Procs, Killed(p) PROVE PlaceInv'
    BY <1>5 DEF Killed, Crash, Running, Waiting
<1>6. CASE LosePower
    BY <1>6 DEF LosePower, PowerLoss, Running, Waiting
<1> QED
    BY <1>1, <1>2, <1>3, <1>4, <1>5, <1>6 DEF Next

-----------------------------------------------------------------------------
(* Whole files, current plans, informed users *)

WholeInv ==
    /\ flushed
    /\ older \subseteq Config
    /\ \A p \in Procs : step[p] \in Writing => file \in Config

PlanInv ==
    breached \/ \A p \in Procs : step[p] \in Writing =>
                    /\ Accepted(req[p], file)
                    /\ draft[p] = Applied(req[p], file)

ConsentInv ==
    \A p \in Procs : (\/ req[p].op = "remove"
                      \/ req[p].op = "add" /\ req[p].confirmed)
                     => p \in consented

EditInv == TypeOK /\ LockInv /\ PlaceInv /\ WholeInv /\ PlanInv /\ ConsentInv

LEMMA WholeStep ==
    ASSUME TypeOK, PlaceInv, WholeInv, [Next]_vars
    PROVE  WholeInv' /\ (file # Torn => file' # Torn)
<1>1. \A p \in Procs : step[p] \in Writing => Critical(p)
    BY DEF PlaceInv
<1> USE EditAssumption
        DEF TypeOK, WholeInv, Writing, At, Ends, fileVars, procVars, history
<1>2. CASE UNCHANGED vars
    BY <1>2 DEF vars
<1>3. ASSUME NEW p \in Procs, Start(p)
      PROVE  WholeInv' /\ (file # Torn => file' # Torn)
    BY <1>3, StartCases DEF EndEarly, Submit
<1>4. ASSUME NEW p \in Procs, Work(p)
      PROVE  WholeInv' /\ (file # Torn => file' # Torn)
    <2>1. CASE TakeLock(p)
        BY <2>1 DEF TakeLock
    <2>2. CASE LoadAndMutate(p)
        BY <2>2 DEF LoadAndMutate
    <2>3. CASE CreateTemp(p) \/ WriteTemp(p) \/ SyncTemp(p)
        BY <2>3 DEF CreateTemp, WriteTemp, SyncTemp, TempStep
    <2>4. CASE Rename(p)
        <3>1. temp[p] = "synced"
            BY <2>4 DEF Rename, PlaceInv, Critical, TempAt
        <3>2. file \in Config /\ file' \in Config
            BY <2>4, <3>1 DEF Rename
        <3> QED
            BY <2>4, <3>1, <3>2 DEF Rename
    <2>5. CASE WriteFails(p)
        BY <2>5 DEF WriteFails
    <2>6. CASE Unlock(p)
        BY <2>6 DEF Unlock
    <2> QED
        BY <1>4, <2>1, <2>2, <2>3, <2>4, <2>5, <2>6 DEF Work
<1>5. ASSUME NEW p \in Procs, TimePasses(p) \/ Killed(p)
      PROVE  WholeInv' /\ (file # Torn => file' # Torn)
    BY <1>5 DEF TimePasses, Killed
<1>6. CASE LosePower
    BY <1>1, <1>6 DEF LosePower, Running, Critical
<1> QED
    BY <1>2, <1>3, <1>4, <1>5, <1>6 DEF Next

LEMMA PlanStep ==
    ASSUME TypeOK, LockInv, PlaceInv, WholeInv, PlanInv, [Next]_vars
    PROVE  PlanInv'
<1> SUFFICES ASSUME ~breached', NEW q \in Procs, step'[q] \in Writing
             PROVE  (/\ Accepted(req[q], file)
                     /\ draft[q] = Applied(req[q], file))'
    BY DEF PlanInv
<1>b. ~breached
    BY EditStepIsLockStep
       DEF LockNext, Acquire, Begin, Create, FindsLock, CreateFails, Stat,
           RemoveStale, RemoveFails, Poll, GiveUp, Release, DeadlinePasses,
           GrowsOld, Crash, PowerLoss, lockVars
<1>i. step[q] \in Writing => /\ Critical(q)
                             /\ Accepted(req[q], file)
                             /\ draft[q] = Applied(req[q], file)
    BY <1>b DEF PlanInv, PlaceInv
<1>o. \A p \in Procs : Critical(p) => lock = p
    BY <1>b DEF LockInv, HolderOwnsLock
<1> USE <1>i DEF TypeOK, Writing, At, Ends, fileVars, procVars, history
<1>1. CASE UNCHANGED vars
    BY <1>1 DEF vars
<1>2. ASSUME NEW p \in Procs, Start(p)
      PROVE  (/\ Accepted(req[q], file)
              /\ draft[q] = Applied(req[q], file))'
    BY <1>2, StartCases DEF EndEarly, Submit
<1>3. ASSUME NEW p \in Procs, Work(p)
      PROVE  (/\ Accepted(req[q], file)
              /\ draft[q] = Applied(req[q], file))'
    <2>1. CASE TakeLock(p)
        BY <2>1 DEF TakeLock
    <2>2. CASE LoadAndMutate(p)
        BY <2>2 DEF LoadAndMutate
    <2>3. CASE CreateTemp(p) \/ WriteTemp(p) \/ SyncTemp(p)
        BY <2>3 DEF CreateTemp, WriteTemp, SyncTemp, TempStep
    <2>4. CASE Rename(p)
        <3>1. Critical(p) /\ step' = [step EXCEPT ![p] = "leave"]
            BY <2>4 DEF Rename
        <3>2. p = q
            BY <1>o, <3>1
        <3> QED
            BY <3>1, <3>2
    <2>5. CASE WriteFails(p)
        BY <2>5 DEF WriteFails
    <2>6. CASE Unlock(p)
        BY <2>6 DEF Unlock
    <2> QED
        BY <1>3, <2>1, <2>2, <2>3, <2>4, <2>5, <2>6 DEF Work
<1>4. ASSUME NEW p \in Procs, TimePasses(p) \/ Killed(p)
      PROVE  (/\ Accepted(req[q], file)
              /\ draft[q] = Applied(req[q], file))'
    BY <1>4 DEF TimePasses, Killed
<1>5. CASE LosePower
    BY <1>5 DEF LosePower, Running, Critical
<1> QED
    BY <1>1, <1>2, <1>3, <1>4, <1>5 DEF Next

LEMMA ConsentStep ==
    ASSUME TypeOK, ConsentInv, [Next]_vars
    PROVE  ConsentInv'
<1> USE DEF TypeOK, ConsentInv, NoRequest, fileVars, procVars, history
<1>1. CASE UNCHANGED vars
    BY <1>1 DEF vars
<1>2. ASSUME NEW p \in Procs, Start(p) PROVE ConsentInv'
    <2>1. ASSUME NEW how \in {"error", "unchanged"}, EndEarly(p, how)
          PROVE  ConsentInv'
        BY <2>1 DEF EndEarly
    <2>2. ASSUME NEW r \in Request, NEW c \in BOOLEAN, Submit(p, r, c),
                 r.op = "remove" \/ (r.op = "add" /\ r.confirmed) => c
          PROVE  ConsentInv'
        BY <2>2, SubmitsRequest
    <2> QED
        BY <1>2, <2>1, <2>2, StartCases
<1>3. ASSUME NEW p \in Procs, Work(p) PROVE ConsentInv'
    BY <1>3 DEF Work, TakeLock, LoadAndMutate, CreateTemp, WriteTemp, SyncTemp,
                TempStep, Rename, WriteFails, Unlock
<1>4. ASSUME NEW p \in Procs, TimePasses(p) \/ Killed(p) PROVE ConsentInv'
    BY <1>4 DEF TimePasses, Killed
<1>5. CASE LosePower
    BY <1>5 DEF LosePower
<1> QED
    BY <1>1, <1>2, <1>3, <1>4, <1>5 DEF Next

LEMMA EditInvInit == Init => EditInv
<1> SUFFICES ASSUME Init PROVE EditInv
    OBVIOUS
<1>1. TypeOK
    BY LockTypeInit, EmptyConfigType, EditAssumption
       DEF Init, TypeOK, Steps, Outcomes
<1>2. LockInv
    BY LockInvInit DEF Init
<1>3. PlaceInv
    BY DEF Init, LockInit, PlaceInv, Writing, Waiting, TempAt, Critical
<1>4. WholeInv
    BY DEF Init, WholeInv, Writing
<1>5. PlanInv
    BY DEF Init, PlanInv, Writing
<1>6. ConsentInv
    BY DEF Init, ConsentInv, NoRequest
<1> QED
    BY <1>1, <1>2, <1>3, <1>4, <1>5, <1>6 DEF EditInv

LEMMA EditInvStep == EditInv /\ [Next]_vars => EditInv'
BY TypeStep, LockInvStep, EditStepIsLockStep, PlaceStep, WholeStep, PlanStep,
   ConsentStep
   DEF EditInv

LEMMA EditInvHolds == Spec => []EditInv
BY EditInvInit, EditInvStep, PTL DEF Spec

-----------------------------------------------------------------------------
(* Readers never meet half a file, whatever dies when. *)
THEOREM FileStaysWhole == Spec => NeverBecomesTorn
<1>1. EditInv /\ [Next]_vars => [file # Torn => file' # Torn]_vars
    BY WholeStep DEF EditInv
<1> QED
    BY <1>1, EditInvHolds, PTL DEF Spec, NeverBecomesTorn

(* A temporary file outlives only a command that was killed. *)
THEOREM TempFilesRemoved == Spec => []NoStrayTemp
<1>1. EditInv => NoStrayTemp
    BY DEF EditInv, PlaceInv, NoStrayTemp, Critical, Writing, TempAt
<1> QED
    BY <1>1, EditInvHolds, PTL

-----------------------------------------------------------------------------
(* What a write does *)

LEMMA OnlyRenameCommits ==
    ASSUME TypeOK, [Next]_vars, NEW p \in Procs, p \in committed' \ committed
    PROVE  Rename(p)
<1> USE DEF fileVars, procVars, history
<1>1. ~UNCHANGED vars /\ ~LosePower
    BY DEF vars, LosePower
<1>2. ASSUME NEW q \in Procs, Start(q) \/ TimePasses(q) \/ Killed(q) PROVE FALSE
    BY <1>2, StartCases DEF EndEarly, Submit, TimePasses, Killed
<1>3. ASSUME NEW q \in Procs, Work(q) PROVE Rename(q) /\ q = p
    BY <1>3 DEF Work, TakeLock, LoadAndMutate, CreateTemp, WriteTemp, SyncTemp,
                TempStep, Rename, WriteFails, Unlock
<1> QED
    BY <1>1, <1>2, <1>3 DEF Next

LEMMA OnlyRenameChangesFile ==
    ASSUME WholeInv, [Next]_vars, ~PowerFails, file' # file
    PROVE  \E p \in Procs : Rename(p)
<1> USE DEF fileVars, procVars, history
<1>1. ~UNCHANGED vars /\ ~LosePower
    BY DEF vars, LosePower, PowerLoss
<1>2. ASSUME NEW q \in Procs, Start(q) \/ TimePasses(q) \/ Killed(q) PROVE FALSE
    BY <1>2, StartCases DEF EndEarly, Submit, TimePasses, Killed
<1>3. ASSUME NEW q \in Procs, Work(q) PROVE Rename(q)
    BY <1>3 DEF Work, TakeLock, LoadAndMutate, CreateTemp, WriteTemp, SyncTemp,
                TempStep, WriteFails, Unlock
<1> QED
    BY <1>1, <1>2, <1>3 DEF Next

LEMMA RenameApplies ==
    ASSUME EditInv, ~breached, NEW p \in Procs, Rename(p)
    PROVE  /\ req[p] \in Request
           /\ file \in Config
           /\ Accepted(req[p], file)
           /\ file' = Applied(req[p], file)
<1>1. /\ temp[p] = "synced" /\ step[p] = "rename"
    BY DEF Rename, EditInv, PlaceInv, Critical, Writing, TempAt
<1>2. Accepted(req[p], file) /\ draft[p] = Applied(req[p], file)
    BY <1>1 DEF EditInv, PlanInv, Writing
<1>3. req[p] \in Request
    BY <1>2 DEF EditInv, TypeOK, Accepted, NoRequest
<1> QED
    BY <1>1, <1>2, <1>3 DEF Rename, EditInv, WholeInv, Writing

(* Until a running command's lock file is deleted as stale, a write is the *)
(* command's own request applied to the contents it replaces.              *)
THEOREM WritesAreCurrent ==
    Spec => [][~breached => \A p \in Procs : p \in committed' \ committed =>
                  Accepted(req[p], file) /\ file' = Applied(req[p], file)]_vars
<1>1. EditInv /\ [Next]_vars
        => [~breached => \A p \in Procs : p \in committed' \ committed =>
               Accepted(req[p], file) /\ file' = Applied(req[p], file)]_vars
    <2> SUFFICES ASSUME EditInv, [Next]_vars, ~breached,
                        NEW p \in Procs, p \in committed' \ committed
                 PROVE  Accepted(req[p], file) /\ file' = Applied(req[p], file)
        OBVIOUS
    <2>1. Rename(p)
        BY OnlyRenameCommits DEF EditInv
    <2> QED
        BY <2>1, RenameApplies
<1> QED
    BY <1>1, EditInvHolds, PTL DEF Spec

-----------------------------------------------------------------------------
(* What a step does to the file before a breach *)

LosesKey(n) == HasKey(file, n)
               /\ ~(HasKey(file', n) /\ file'.profiles[n].key = file.profiles[n].key)

AskedToLose(n) == \E p \in committed' \ committed : p \in consented /\ req[p].name = n

LEMMA KeyLossStep ==
    ASSUME EditInv, ~breached, ~PowerFails, [Next]_vars, NEW n \in Names, LosesKey(n)
    PROVE  AskedToLose(n)
<1>1. file' # file
    BY DEF LosesKey
<1>2. PICK p \in Procs : Rename(p)
    BY <1>1, OnlyRenameChangesFile DEF EditInv
<1> DEFINE r == req[p]
<1>3. /\ r \in Request /\ file \in Config
      /\ Accepted(r, file) /\ file' = Applied(r, file)
    BY <1>2, RenameApplies
<1> HIDE DEF r
<1>4. Normalized(file).profiles[n].key = file.profiles[n].key
      /\ n \in Stored(Normalized(file))
    <2>1. n \in Stored(file) /\ file.profiles[n] \in Profile
        BY <1>3 DEF LosesKey, HasKey, Config, Stored
    <2> QED
        BY <1>3, <2>1, NormalizedType, FillURLType
<1>5. n = r.name
    <2> SUFFICES ASSUME n # r.name PROVE FALSE
        OBVIOUS
    <2>1. file'.profiles[n] = Normalized(file).profiles[n]
        BY <1>3, OthersKept
    <2> QED
        BY <1>4, <2>1 DEF LosesKey, HasKey, Stored
<1>6. r.op = "remove" \/ (r.op = "add" /\ r.confirmed)
    <2>1. CASE r \in AddRequest
        <3>1. r.op = "add" /\ n \in Stored(file) /\ file.profiles[n] \in Profile
            BY <1>3, <2>1 DEF LosesKey, AddRequest, HasKey, Config, Stored
        <3>2. CASE r.key # NoKey
            BY <1>3, <1>5, <3>1, <3>2 DEF LosesKey, Accepted, DestroysStoredKey
        <3>3. CASE r.key = NoKey
            <4>1. FillURL(file.profiles[n]).key = file.profiles[n].key
                BY <3>1, FillURLType
            <4>2. AuthAddProfile(r, file).key = file.profiles[n].key
                BY <1>5, <3>1, <3>3, <4>1 DEF AuthAddProfile
            <4>3. AuthAddProfile(r, file) \in Profile
                BY <1>3, <2>1, AuthAddProfileType
            <4>4. Mutated(r, file).profiles[n] = FillURL(AuthAddProfile(r, file))
                  /\ n \in Stored(Mutated(r, file))
                  /\ Mutated(r, file) \in Config
                <5>1. /\ Mutated(r, file) \in Config
                      /\ Stored(Mutated(r, file)) = Stored(file)
                      /\ Mutated(r, file).profiles
                           = [file.profiles EXCEPT
                                ![n] = FillURL(AuthAddProfile(r, file))]
                    BY <1>3, <1>5, <2>1, <3>1, UpdateCase
                <5>2. file.profiles \in [Names -> Profile \cup {NoProfile}]
                    BY <1>3 DEF Config
                <5> QED
                    BY <3>1, <5>1, <5>2
            <4>5. file'.profiles[n].key = file.profiles[n].key
                  /\ n \in Stored(file')
                <5>1. FillURL(AuthAddProfile(r, file)) \in Profile
                    BY <4>3, FillURLType
                <5>2. file'.profiles[n]
                        = FillURL(FillURL(AuthAddProfile(r, file)))
                      /\ n \in Stored(file')
                    BY <1>3, <4>4, NormalizedType DEF Applied
                <5> QED
                    BY <4>2, <4>3, <5>1, <5>2, FillURLType
            <4> QED
                BY <4>5 DEF LosesKey, HasKey
        <3> QED
            BY <3>2, <3>3
    <2>2. CASE r \in RemoveRequest
        BY <2>2 DEF RemoveRequest
    <2>3. CASE r \in UseRequest
        <3>1. file'.profiles = Normalized(file).profiles
            BY <1>3, <2>3, UseKeepsProfiles
        <3> QED
            BY <1>4, <3>1 DEF LosesKey, HasKey, Stored
    <2> QED
        BY <1>3, <2>1, <2>2, <2>3 DEF Request
<1>7. p \in consented
    BY <1>6 DEF r, EditInv, ConsentInv
<1> QED
    BY <1>2, <1>5, <1>7 DEF r, Rename, EditInv, PlaceInv, AskedToLose

-----------------------------------------------------------------------------
(* The store's definitions are the ones the commands use *)

LEMMA SameRequests == Store!Request = Request /\ Store!Config = Config
BY DEF Store!Request, Store!AddRequest, Store!RemoveRequest, Store!UseRequest,
       Request, AddRequest, RemoveRequest, UseRequest,
       Store!Config, Store!Profile, Config, Profile

LEMMA SameAccepted ==
    ASSUME NEW r, NEW cfg PROVE Store!Accepted(r, cfg) = Accepted(r, cfg)
BY DEF Store!Accepted, Store!DestroysStoredKey, Store!HasKey, Store!Stored,
       Accepted, DestroysStoredKey, HasKey, Stored

LEMMA SameHelpers ==
    ASSUME NEW cfg, NEW n, NEW p
    PROVE  /\ Store!Stored(cfg) = Stored(cfg)
           /\ Store!FillURL(p) = FillURL(p)
           /\ Store!HasCurrentProfile(cfg) = HasCurrentProfile(cfg)
           /\ Store!Select(cfg, n) = Select(cfg, n)
           /\ Store!SetProfile(cfg, n, p) = SetProfile(cfg, n, p)
           /\ Store!Normalized(cfg) = Normalized(cfg)
BY DEF Store!Stored, Store!FillURL, Store!HasCurrentProfile, Store!Select,
       Store!SetProfile, Store!Normalized,
       Stored, FillURL, HasCurrentProfile, Select, SetProfile, Normalized

LEMMA SameMutators ==
    ASSUME NEW cfg, NEW n, NEW p
    PROVE  /\ Store!AddProfile(cfg, n, p) = AddProfile(cfg, n, p)
           /\ Store!UpdateProfile(cfg, n, p) = UpdateProfile(cfg, n, p)
           /\ Store!RemoveProfile(cfg, n) = RemoveProfile(cfg, n)
           /\ Store!UseProfile(cfg, n) = UseProfile(cfg, n)
BY SameHelpers
   DEF Store!AddProfile, Store!UpdateProfile, Store!RemoveProfile, Store!UseProfile,
       AddProfile, UpdateProfile, RemoveProfile, UseProfile

LEMMA SameApplied ==
    ASSUME NEW r, NEW cfg PROVE Store!Applied(r, cfg) = Applied(r, cfg)
<1>1. Store!AuthAddProfile(r, cfg) = AuthAddProfile(r, cfg)
    BY SameHelpers DEF Store!AuthAddProfile, AuthAddProfile
<1>2. Store!Mutated(r, cfg) = Mutated(r, cfg)
    BY <1>1, SameHelpers, SameMutators DEF Store!Mutated, Mutated
<1> QED
    BY <1>2, SameHelpers DEF Store!Applied, Applied

LEMMA StoreStep ==
    ASSUME EditInv, ~breached, ~PowerFails, [Next]_vars
    PROVE  [Store!Next]_file
<1> SUFFICES ASSUME file' # file PROVE Store!Next
    OBVIOUS
<1>1. PICK p \in Procs : Rename(p)
    BY OnlyRenameChangesFile DEF EditInv
<1>2. /\ req[p] \in Request
      /\ Accepted(req[p], file) /\ file' = Applied(req[p], file)
    BY <1>1, RenameApplies
<1>3. /\ req[p] \in Store!Request
      /\ Store!Accepted(req[p], file) /\ file' = Store!Applied(req[p], file)
    BY <1>2, SameRequests, SameAccepted, SameApplied
<1> QED
    BY <1>3 DEF Store!Next, Store!Commit

(* Whoever is slow or killed: until a running command's lock file is       *)
(* deleted as stale, the file changes by one whole accepted request at a   *)
(* time ...                                                                *)
THEOREM StoreUntilBreach ==
    ASSUME ~PowerFails
    PROVE  Spec => [][~breached => [Store!Next]_file]_vars
<1>1. EditInv /\ [Next]_vars => [~breached => [Store!Next]_file]_vars
    BY StoreStep
<1> QED
    BY <1>1, EditInvHolds, PTL DEF Spec

(* ... and no stored key is lost to a command whose user did not ask.      *)
THEOREM ConsentUntilBreach ==
    ASSUME ~PowerFails
    PROVE  Spec => [][~breached => \A n \in Names : LosesKey(n) => AskedToLose(n)]_vars
<1>1. EditInv /\ [Next]_vars
        => [~breached => \A n \in Names : LosesKey(n) => AskedToLose(n)]_vars
    BY KeyLossStep
<1> QED
    BY <1>1, EditInvHolds, PTL DEF Spec

-----------------------------------------------------------------------------
(* Commands that are killed, and one that recovers their lock *)

OneRecoverer == \A p, q \in recoverers : p = q

LEMMA RecoveryInvHolds ==
    ASSUME Slow = {}
    PROVE  Spec => []RecoveryInv
<1>1. Init => RecoveryInv
    BY DEF Init, LockInit, RecoveryInv
<1>2. EditInv /\ RecoveryInv /\ [Next]_vars => RecoveryInv'
    BY RecoveryStep, EditStepIsLockStep DEF EditInv
<1> QED
    BY <1>1, <1>2, EditInvHolds, PTL DEF Spec

LEMMA NeverBreached ==
    ASSUME Slow = {}
    PROVE  Spec /\ []OneRecoverer => []~breached
<1>1. RecoveryInv /\ OneRecoverer => ~breached
    BY DEF RecoveryInv, OneRecoverer
<1> QED
    BY <1>1, RecoveryInvHolds, PTL

(* "concurrent commands cannot overwrite each other's profile changes",    *)
(* with commands killed and power lost at any moment, as long as no lock   *)
(* holder is slow and one command at most recovers stale lock files.       *)
THEOREM NoLostUpdate ==
    ASSUME Slow = {}
    PROVE  Spec /\ []OneRecoverer => WritesApplyToLatest
<1>1. EditInv /\ ~breached /\ [Next]_vars
        => [\A p \in Procs : p \in committed' \ committed =>
               /\ Accepted(req[p], file)
               /\ file' = Applied(req[p], file)]_vars
    <2> SUFFICES ASSUME EditInv, ~breached, [Next]_vars,
                        NEW p \in Procs, p \in committed' \ committed
                 PROVE  Accepted(req[p], file) /\ file' = Applied(req[p], file)
        OBVIOUS
    <2>1. Rename(p)
        BY OnlyRenameCommits DEF EditInv
    <2> QED
        BY <2>1, RenameApplies
<1> QED
    BY <1>1, EditInvHolds, NeverBreached, PTL DEF Spec, WritesApplyToLatest

(* A stored key is lost only to a command whose user asked for that,       *)
(* whichever commands are killed.                                          *)
THEOREM ConsentRequired ==
    ASSUME Slow = {}, ~PowerFails
    PROVE  Spec /\ []OneRecoverer => KeysLostOnlyByConsent
<1>1. EditInv /\ ~breached /\ [Next]_vars
        => [\A n \in Names :
              (HasKey(file, n) /\ ~(HasKey(file', n)
                                    /\ file'.profiles[n].key = file.profiles[n].key))
              => \E p \in committed' \ committed :
                    p \in consented /\ req[p].name = n]_vars
    BY KeyLossStep DEF LosesKey, AskedToLose
<1> QED
    BY <1>1, EditInvHolds, NeverBreached, PTL DEF Spec, KeysLostOnlyByConsent

(* Seen from outside, commands of which any may be killed change the file  *)
(* by one whole accepted request at a time.                                *)
THEOREM EditImplementsStore ==
    ASSUME Slow = {}, ~PowerFails
    PROVE  Spec /\ []OneRecoverer => ImplementsStore
<1>1. Init => Store!Init
    BY DEF Init, Store!Init
<1>2. EditInv /\ ~breached /\ [Next]_vars => [Store!Next]_file
    BY StoreStep
<1> QED
    BY <1>1, <1>2, EditInvHolds, NeverBreached, PTL DEF Spec, ImplementsStore, Store!Spec

-----------------------------------------------------------------------------
(* Two commands cannot both be recoverers *)

(* Between two processes, the one that removes a stale lock file is alone. *)
AloneInv == OneRecoverer /\ \A p \in recoverers : \A q \in Procs \ {p} : lpc[q] = "dead"

LEMMA AloneStep ==
    ASSUME NEW a, NEW b, Procs = {a, b}, Slow = {},
           LockInv, RecoveryInv, AloneInv, [LockNext]_lockVars
    PROVE  AloneInv'
<1>t. LockTypeOK /\ LockTypeOK'
    BY LockTypeStep DEF LockInv
<1> USE <1>t, LockAssumption DEF LockTypeOK, AloneInv, OneRecoverer, Goto
<1>1. CASE UNCHANGED lockVars
    BY <1>1 DEF lockVars
<1>2. ASSUME NEW p \in Procs, Actions(p) PROVE AloneInv'
    <2>1. CASE RemoveStale(p)
        <3>1. lpc[p] = "remove" /\ recoverers' = recoverers \cup {p}
              /\ lpc' = [lpc EXCEPT ![p] = "create"]
            BY <2>1 DEF RemoveStale
        <3>2. \A q \in recoverers : q = p
            BY <3>1
        <3>3. lock \in stale
            BY <3>1, <3>2 DEF RecoveryInv, OtherRecoverer
        <3>4. lpc[lock] = "dead" /\ lock \in Procs
            BY <3>3 DEF RecoveryInv
        <3>5. \A q \in Procs \ {p} : q = lock
            BY <3>1, <3>4
        <3> QED
            BY <3>1, <3>2, <3>4, <3>5
    <2>2. CASE ~RemoveStale(p)
        <3>1. recoverers' = recoverers
            BY <1>2, <2>2 DEF Actions, Begin, Create, FindsLock, CreateFails, Stat,
                RemoveFails, Poll, GiveUp, Release, DeadlinePasses, GrowsOld, Crash
        <3>2. \A q \in Procs : lpc[q] = "dead" => lpc'[q] = "dead"
            BY <1>2, <2>2 DEF Actions, Begin, Create, FindsLock, CreateFails, Stat,
                RemoveFails, Poll, GiveUp, Release, DeadlinePasses, GrowsOld, Crash,
                Critical, Running, Waiting
        <3> QED
            BY <3>1, <3>2
    <2> QED
        BY <2>1, <2>2
<1>3. CASE PowerLoss
    BY <1>3 DEF PowerLoss, Running, Waiting, Critical
<1> QED
    BY <1>1, <1>2, <1>3 DEF LockNext, Acquire, Actions

LEMMA TwoHaveOneRecoverer ==
    ASSUME NEW a, NEW b, Procs = {a, b}, Slow = {}
    PROVE  Spec => []OneRecoverer
<1>1. Init => AloneInv
    BY DEF Init, LockInit, AloneInv, OneRecoverer
<1>2. EditInv /\ RecoveryInv /\ AloneInv /\ [Next]_vars => AloneInv'
    BY AloneStep, EditStepIsLockStep DEF EditInv
<1>3. AloneInv => OneRecoverer
    BY DEF AloneInv
<1> QED
    BY <1>1, <1>2, <1>3, EditInvHolds, RecoveryInvHolds, PTL DEF Spec

(* Two commands, both of which may be killed at any step, implement the    *)
(* store without a further condition: a breach takes a third.              *)
THEOREM TwoCommands ==
    ASSUME NEW a, NEW b, Procs = {a, b}, Slow = {}, ~PowerFails
    PROVE  Spec => ImplementsStore /\ WritesApplyToLatest /\ KeysLostOnlyByConsent
BY TwoHaveOneRecoverer, EditImplementsStore, NoLostUpdate, ConsentRequired, PTL

-----------------------------------------------------------------------------
(* Any number of commands none of which is killed *)

LEMMA NothingRecovered ==
    ASSUME Crashable = {}, Slow = {}, ~PowerFails
    PROVE  Spec => []OneRecoverer
<1> DEFINE Inv == NothingStale /\ recoverers = {}
<1>1. Init => Inv
    BY DEF Init, LockInit, NothingStale
<1>2. EditInv /\ Inv /\ [Next]_vars => Inv'
    <2> SUFFICES ASSUME EditInv, Inv, [Next]_vars PROVE Inv'
        OBVIOUS
    <2>1. [LockNext]_lockVars /\ LockTypeOK
        BY EditStepIsLockStep DEF EditInv, LockInv
    <2>2. NothingStale'
        BY <2>1, NothingStaleStep
    <2>3. UNCHANGED recoverers
        BY <2>1 DEF NothingStale, lockVars, LockTypeOK, LockNext, Acquire, Begin, Create,
            FindsLock, CreateFails, Stat, RemoveStale, RemoveFails, Poll, GiveUp, Release,
            DeadlinePasses, GrowsOld, Crash, PowerLoss
    <2> QED
        BY <2>2, <2>3
<1>3. Inv => OneRecoverer
    BY DEF OneRecoverer
<1> QED
    BY <1>1, <1>2, <1>3, EditInvHolds, PTL DEF Spec

(* Without kills nothing is ever recovered, and any number of commands     *)
(* implements the store.                                                   *)
THEOREM UnkilledCommands ==
    ASSUME Crashable = {}, Slow = {}, ~PowerFails
    PROVE  Spec => ImplementsStore /\ WritesApplyToLatest /\ KeysLostOnlyByConsent
BY NothingRecovered, EditImplementsStore, NoLostUpdate, ConsentRequired, PTL

-----------------------------------------------------------------------------
(* No command goes on for ever *)

(* The processes whose lock file is there or may still come to be. *)
LocksToCome == {p \in Procs : lpc[p] \in {"idle"} \cup Waiting \/ lock = p}

StepsFrom(label) ==
    CASE label = "create" -> 10 [] label = "stat" -> 9 [] label = "remove" -> 8
      [] label = "deadline" -> 7 [] label = "load" -> 6 [] label = "temp" -> 5
      [] label = "write" -> 4 [] label = "sync" -> 3 [] label = "rename" -> 2
      [] label = "leave" -> 1 [] OTHER -> 0

(* The steps a command can take once its deadline has passed: a waiting one *)
(* starts over, without a look at the deadline, for every lock file that it *)
(* removes.                                                                 *)
StepsLeft(p) ==
    IF lpc[p] \in Waiting THEN 3 * Cardinality(LocksToCome) + StepsFrom(lpc[p])
    ELSE IF Critical(p) THEN StepsFrom(step[p])
    ELSE 0

(* Each process creates one lock file at most, and a removed one never *)
(* comes back.                                                         *)
LEMMA LocksToComeStep ==
    ASSUME LockInv, [LockNext]_lockVars
    PROVE  /\ LocksToCome' \subseteq LocksToCome
           /\ \A p \in Procs : RemoveStale(p) => lock \in LocksToCome \ LocksToCome'
<1>t. LockTypeOK
    BY DEF LockInv
<1> USE <1>t, LockAssumption
        DEF LockInv, LockTypeOK, LockHasHolderOrCorpse, LocksToCome, Critical, Goto, Waiting
<1>1. CASE UNCHANGED lockVars
    BY <1>1 DEF lockVars, RemoveStale
<1>2. ASSUME NEW p \in Procs, Actions(p) PROVE LocksToCome' \subseteq LocksToCome
    <2>1. CASE Begin(p) \/ Create(p) \/ FindsLock(p) \/ CreateFails(p)
        BY <2>1 DEF Begin, Create, FindsLock, CreateFails
    <2>2. CASE Stat(p)
        BY <2>2 DEF Stat
    <2>3. CASE RemoveStale(p)
        BY <2>3 DEF RemoveStale
    <2>4. CASE RemoveFails(p) \/ Poll(p) \/ GiveUp(p) \/ Release(p)
        BY <2>4 DEF RemoveFails, Poll, GiveUp, Release
    <2>5. CASE DeadlinePasses(p) \/ GrowsOld(p) \/ Crash(p)
        BY <2>5 DEF DeadlinePasses, GrowsOld, Crash
    <2> QED
        BY <1>2, <2>1, <2>2, <2>3, <2>4, <2>5 DEF Actions
<1>3. ASSUME PowerLoss PROVE LocksToCome' \subseteq LocksToCome
    BY <1>3 DEF PowerLoss, Running
<1>4. ASSUME NEW p \in Procs, RemoveStale(p) PROVE lock \in LocksToCome \ LocksToCome'
    BY <1>4 DEF RemoveStale
<1> QED
    BY <1>1, <1>2, <1>3, <1>4 DEF LockNext, Acquire, Actions

LEMMA FewerLocks ==
    ASSUME IsFiniteSet(Procs), LockInv, [LockNext]_lockVars
    PROVE  /\ Cardinality(LocksToCome) \in Nat /\ Cardinality(LocksToCome)' \in Nat
           /\ Cardinality(LocksToCome)' <= Cardinality(LocksToCome)
           /\ \A p \in Procs : RemoveStale(p) =>
                 Cardinality(LocksToCome)' < Cardinality(LocksToCome)
<1>1. LocksToCome \subseteq Procs /\ LocksToCome' \subseteq LocksToCome
    BY LocksToComeStep DEF LocksToCome
<1>2. IsFiniteSet(LocksToCome)
    BY <1>1, FS_Subset
<1>3. /\ IsFiniteSet(LocksToCome')
      /\ Cardinality(LocksToCome') <= Cardinality(LocksToCome)
      /\ Cardinality(LocksToCome) = Cardinality(LocksToCome') => LocksToCome = LocksToCome'
    BY <1>1, <1>2, FS_Subset
<1>4. Cardinality(LocksToCome) \in Nat /\ Cardinality(LocksToCome') \in Nat
    BY <1>2, <1>3, FS_CardinalityType
<1>5. \A p \in Procs : RemoveStale(p) => LocksToCome # LocksToCome'
    BY LocksToComeStep
<1> QED
    BY <1>3, <1>4, <1>5

(* What a step does to the place of process p. *)
PlaceStays(p) == lpc'[p] = lpc[p] /\ step'[p] = step[p]

LEMMA PlaceMoves ==
    ASSUME EditInv, [Next]_vars, NEW p \in Procs, Running(p),
           p \in late \/ Critical(p), ~PlaceStays(p)
    PROVE  \/ RemoveStale(p) /\ step'[p] = step[p] /\ lpc'[p] = "create"
           \/ /\ lpc[p] = "create" /\ lpc'[p] \in {"stat", "failed"}
           \/ lpc[p] = "create" /\ lpc'[p] = "critical" /\ step'[p] = "load"
           \/ lpc[p] = "stat" /\ lpc'[p] \in {"remove", "deadline"}
           \/ lpc[p] = "remove" /\ lpc'[p] = "deadline"
           \/ lpc[p] = "deadline" /\ lpc'[p] = "failed"
           \/ lpc[p] \in Waiting \cup {"critical"} /\ lpc'[p] = "dead"
           \/ /\ Critical(p) /\ lpc'[p] = "critical"
              /\ \/ step[p] = "load" /\ step'[p] \in {"temp", "leave"}
                 \/ step[p] = "temp" /\ step'[p] \in {"write", "leave"}
                 \/ step[p] = "write" /\ step'[p] \in {"sync", "leave"}
                 \/ step[p] = "sync" /\ step'[p] \in {"rename", "leave"}
                 \/ step[p] = "rename" /\ step'[p] = "leave"
           \/ Critical(p) /\ step[p] = "leave" /\ lpc'[p] = "released"
<1>t. /\ lpc \in [Procs -> LockPC] /\ step \in [Procs -> Steps]
      /\ lpc[p] \in Waiting => step[p] = "load"
      /\ lpc[p] \in Waiting \cup {"critical"}
    BY DEF EditInv, TypeOK, LockInv, LockTypeOK, PlaceInv, Running
<1> USE <1>t DEF Waiting, Critical, PlaceStays, At, Ends, Goto, lockVars, fileVars, procVars, history
<1>1. CASE UNCHANGED vars
    BY <1>1 DEF vars
<1>2. ASSUME NEW q \in Procs, Start(q) PROVE FALSE
    <2>1. lpc[q] = "idle" /\ q # p
        BY <1>2, StartCases DEF EndEarly, Submit, Begin
    <2> QED
        BY <1>2, <2>1, StartCases DEF EndEarly, Submit, Begin
<1>3. ASSUME NEW q \in Procs, Work(q), q # p PROVE FALSE
    <2>1. CASE TakeLock(q)
        BY <1>3, <2>1 DEF TakeLock, Acquire, Create, FindsLock, CreateFails, Stat,
            RemoveStale, RemoveFails, Poll, GiveUp
    <2>2. CASE ~TakeLock(q)
        BY <1>3, <2>2 DEF Work, LoadAndMutate, CreateTemp, WriteTemp, SyncTemp,
            TempStep, Rename, WriteFails, Unlock, Release
    <2> QED
        BY <2>1, <2>2
<1>4. CASE TakeLock(p)
    BY <1>4 DEF TakeLock, Acquire, Create, FindsLock, CreateFails, Stat,
        RemoveStale, RemoveFails, Poll, GiveUp
<1>5. CASE LoadAndMutate(p) \/ CreateTemp(p) \/ WriteTemp(p) \/ SyncTemp(p)
    BY <1>5 DEF LoadAndMutate, CreateTemp, WriteTemp, SyncTemp, TempStep
<1>6. CASE Rename(p) \/ WriteFails(p)
    BY <1>6 DEF Rename, WriteFails
<1>7. CASE Unlock(p)
    BY <1>7 DEF Unlock, Release
<1>8. ASSUME NEW q \in Procs, TimePasses(q) PROVE FALSE
    BY <1>8 DEF TimePasses, DeadlinePasses, GrowsOld
<1>9. ASSUME NEW q \in Procs, Killed(q) PROVE lpc'[p] = "dead"
    BY <1>9 DEF Killed, Crash
<1>10. CASE LosePower
    BY <1>10 DEF LosePower, PowerLoss, Running
<1> QED
    BY <1>1, <1>2, <1>3, <1>4, <1>5, <1>6, <1>7, <1>8, <1>9, <1>10 DEF Next, Work

LEMMA StepsLeftStep ==
    ASSUME IsFiniteSet(Procs), EditInv, [Next]_vars, NEW p \in Procs, Running(p),
           p \in late \/ Critical(p)
    PROVE  IF PlaceStays(p) THEN StepsLeft(p)' <= StepsLeft(p)
                            ELSE StepsLeft(p)' < StepsLeft(p)
<1>1. PICK n \in Nat, m \in Nat :
          /\ n = Cardinality(LocksToCome) /\ m = Cardinality(LocksToCome)'
          /\ m <= n /\ (RemoveStale(p) => m + 1 <= n)
    <2>1. /\ Cardinality(LocksToCome) \in Nat /\ Cardinality(LocksToCome)' \in Nat
          /\ Cardinality(LocksToCome)' <= Cardinality(LocksToCome)
          /\ RemoveStale(p) => Cardinality(LocksToCome)' < Cardinality(LocksToCome)
        BY FewerLocks, EditStepIsLockStep DEF EditInv
    <2>2. \A i, j \in Nat : i < j => i + 1 <= j
        OBVIOUS
    <2> QED
        BY <2>1, <2>2
<1>2. StepsLeft(p) = IF lpc[p] \in Waiting THEN 3 * n + StepsFrom(lpc[p])
                     ELSE IF lpc[p] = "critical" THEN StepsFrom(step[p]) ELSE 0
    BY <1>1 DEF StepsLeft, Critical
<1>3. StepsLeft(p)' = IF lpc'[p] \in Waiting THEN 3 * m + StepsFrom(lpc'[p])
                      ELSE IF lpc'[p] = "critical" THEN StepsFrom(step'[p]) ELSE 0
    BY <1>1 DEF StepsLeft, Critical
<1>4. lpc[p] \in Waiting \cup {"critical"}
    BY DEF Running
<1>5. Critical(p) => step[p] \in Writing \cup {"load", "leave"}
    BY DEF EditInv, PlaceInv
<1>6. CASE PlaceStays(p)
    BY <1>1, <1>2, <1>3, <1>4, <1>5, <1>6
       DEF PlaceStays, Waiting, Critical, Writing, StepsFrom
<1>7. CASE ~PlaceStays(p) /\ RemoveStale(p) /\ lpc'[p] = "create"
    <2>1. m + 1 <= n
        BY <1>1, <1>7
    <2>2. lpc[p] = "remove"
        BY <1>7 DEF RemoveStale
    <2> QED
        BY <1>1, <1>2, <1>3, <1>7, <2>1, <2>2 DEF Waiting, StepsFrom
<1>8. CASE ~PlaceStays(p) /\ ~(RemoveStale(p) /\ lpc'[p] = "create")
    <2>1. /\ StepsFrom("create") = 10 /\ StepsFrom("stat") = 9 /\ StepsFrom("remove") = 8
          /\ StepsFrom("deadline") = 7 /\ StepsFrom("load") = 6 /\ StepsFrom("temp") = 5
          /\ StepsFrom("write") = 4 /\ StepsFrom("sync") = 3 /\ StepsFrom("rename") = 2
          /\ StepsFrom("leave") = 1
        BY DEF StepsFrom
    <2>2. CASE lpc[p] \in Waiting /\ lpc'[p] \in Waiting
        <3>1. \/ lpc[p] = "create" /\ lpc'[p] = "stat"
              \/ lpc[p] = "stat" /\ lpc'[p] \in {"remove", "deadline"}
              \/ lpc[p] = "remove" /\ lpc'[p] = "deadline"
            BY <1>8, <2>2, PlaceMoves DEF Waiting, Critical
        <3>2. StepsFrom(lpc'[p]) < StepsFrom(lpc[p]) /\ StepsFrom(lpc[p]) \in Nat
                                                    /\ StepsFrom(lpc'[p]) \in Nat
            BY <2>1, <3>1
        <3> QED
            BY <1>1, <1>2, <1>3, <2>2, <3>2
    <2>3. CASE lpc[p] \in Waiting /\ lpc'[p] \notin Waiting
        <3>1. \/ lpc'[p] \in {"failed", "dead"}
              \/ lpc'[p] = "critical" /\ step'[p] = "load"
            BY <1>8, <2>3, PlaceMoves DEF Waiting, Critical
        <3>2. StepsLeft(p)' <= 6
            BY <1>3, <2>1, <2>3, <3>1
        <3>3. StepsFrom(lpc[p]) \in Nat /\ StepsFrom(lpc[p]) > 6
            BY <2>1, <2>3 DEF Waiting
        <3>4. StepsLeft(p)' \in Nat
            BY <1>3, <2>1, <2>3, <3>1
        <3> QED
            BY <1>1, <1>2, <2>3, <3>2, <3>3, <3>4
    <2>4. CASE lpc[p] \notin Waiting
        <3>1. Critical(p) /\ StepsFrom(step[p]) \in Nat /\ StepsFrom(step[p]) > 0
              /\ StepsLeft(p) = StepsFrom(step[p])
            BY <1>2, <1>4, <1>5, <2>1, <2>4 DEF Critical, Writing
        <3>2. CASE lpc'[p] # "critical"
            <4>1. lpc'[p] \in {"dead", "released"}
                BY <1>8, <2>4, <3>2, PlaceMoves DEF Waiting, Critical
            <4> QED
                BY <1>3, <3>1, <4>1 DEF Waiting
        <3>3. CASE lpc'[p] = "critical"
            <4>1. \/ step[p] = "load" /\ step'[p] \in {"temp", "leave"}
                  \/ step[p] = "temp" /\ step'[p] \in {"write", "leave"}
                  \/ step[p] = "write" /\ step'[p] \in {"sync", "leave"}
                  \/ step[p] = "sync" /\ step'[p] \in {"rename", "leave"}
                  \/ step[p] = "rename" /\ step'[p] = "leave"
                BY <1>8, <2>4, <3>3, PlaceMoves DEF Waiting, Critical
            <4>2. StepsFrom(step'[p]) < StepsFrom(step[p])
                BY <2>1, <4>1
            <4> QED
                BY <1>3, <1>8, <3>1, <3>3, <4>2 DEF Waiting
        <3> QED
            BY <3>2, <3>3
    <2> QED
        BY <1>8, <2>2, <2>3, <2>4
<1> QED
    BY <1>6, <1>7, <1>8

(* A command whose deadline has passed, or that is in, never starts over    *)
(* but for a lock file it removed, of which there are as many as processes: *)
(* it is over after 3 * Cardinality(Procs) + 10 steps of its own.           *)
THEOREM CommandsAreBounded ==
    ASSUME IsFiniteSet(Procs)
    PROVE  Spec => /\ [](\A p \in Procs : StepsLeft(p) \in 0 .. 3 * Cardinality(Procs) + 10)
                   /\ [][\A p \in Procs : Running(p) /\ (p \in late \/ Critical(p)) =>
                            IF PlaceStays(p) THEN StepsLeft(p)' <= StepsLeft(p)
                                             ELSE StepsLeft(p)' < StepsLeft(p)]_vars
<1>1. EditInv => \A p \in Procs : StepsLeft(p) \in 0 .. 3 * Cardinality(Procs) + 10
    <2>1. LocksToCome \subseteq Procs
        BY DEF LocksToCome
    <2>2. /\ Cardinality(LocksToCome) \in Nat /\ Cardinality(Procs) \in Nat
          /\ Cardinality(LocksToCome) <= Cardinality(Procs)
        BY <2>1, FS_Subset, FS_CardinalityType
    <2>3. \A label : StepsFrom(label) \in 0 .. 10
        BY DEF StepsFrom
    <2> QED
        BY <2>2, <2>3 DEF StepsLeft
<1>2. EditInv /\ [Next]_vars
        => [\A p \in Procs : Running(p) /\ (p \in late \/ Critical(p)) =>
               IF PlaceStays(p) THEN StepsLeft(p)' <= StepsLeft(p)
                                ELSE StepsLeft(p)' < StepsLeft(p)]_vars
    BY StepsLeftStep
<1> QED
    BY <1>1, <1>2, EditInvHolds, PTL DEF Spec
=============================================================================
