----------------------------- MODULE ConfigEdit -----------------------------
(***************************************************************************)
(* `auth add`, `auth remove` and `auth use` at work on config.yaml         *)
(* (internal/cmd/auth/auth.go, Edit and writeFileAtomic of                 *)
(* internal/config/config.go).                                             *)
(*                                                                         *)
(* A command reads a snapshot of the file without the lock, puts its       *)
(* questions, takes the lock, plans the change again on the file as it is  *)
(* then, and writes the whole file by way of a temporary one.  The lock is *)
(* ConfigLock's, the meaning of a request Profiles'.                       *)
(***************************************************************************)
EXTENDS Profiles, ConfigLock

CONSTANTS
    InitialStores,   \* what the file may hold at first, hand edits included
    Torn             \* a file that does not parse: half written, or broken by hand

ASSUME EditAssumption ==
    /\ InitialStores \subseteq Config \cup {Torn}
    /\ Torn \notin Config

VARIABLES
    file,        \* the contents of config.yaml (EmptyConfig when absent)
    flushed,     \* the contents were on the disk before the file was renamed
    older,       \* earlier versions whose replacement is not yet on the disk
    temp,        \* each process's temporary file: "none", "empty",
                 \* "written" or "synced"
    step,        \* where each command is in Edit
    req,         \* what each command carries into the lock
    draft,       \* the configuration each command is about to write
    outcome,     \* how each command ended
    consented,   \* history: commands whose user agreed to lose a stored key
    committed    \* history: commands that renamed their file into place

fileVars == <<file, flushed, older>>
procVars == <<temp, step, req, draft, outcome>>
history  == <<consented, committed>>
vars == <<lockVars, fileVars, procVars, history>>

Store == INSTANCE ProfileStore WITH store <- file

Steps    == {"start", "load", "temp", "write", "sync", "rename", "leave", "over"}
Outcomes == {"none", "ok", "unchanged", "error", "killed"}
NoRequest == [op |-> "none"]

Init ==
    /\ LockInit
    /\ file \in InitialStores
    /\ flushed = TRUE
    /\ older = {}
    /\ temp = [p \in Procs |-> "none"]
    /\ step = [p \in Procs |-> "start"]
    /\ req = [p \in Procs |-> NoRequest]
    /\ draft = [p \in Procs |-> EmptyConfig]
    /\ outcome = [p \in Procs |-> "none"]
    /\ consented = {}
    /\ committed = {}

At(p, label) == step' = [step EXCEPT ![p] = label]
Ends(p, how) == outcome' = [outcome EXCEPT ![p] = how]

-----------------------------------------------------------------------------
(* Before the lock: snapshot, questions, refusals *)

(* The command goes on to config.Edit with request r. *)
Submit(p, r, consent) ==
    /\ Begin(p)
    /\ req' = [req EXCEPT ![p] = r]
    /\ consented' = IF consent THEN consented \cup {p} ELSE consented
    /\ At(p, "load")
    /\ UNCHANGED <<fileVars, temp, draft, outcome, committed>>

(* The command ends without having tried the lock. *)
EndEarly(p, how) ==
    /\ lpc[p] = "idle"
    /\ Ends(p, how)
    /\ At(p, "over")
    /\ UNCHANGED <<lockVars, fileVars, temp, req, draft, history>>

(* `auth add n`: key is the answer to the key prompt (NoKey keeps the      *)
(* stored one), url the accepted URL, yes the flag, terminal whether a     *)
(* person is typing.  The URL counts as given unless it is the stored one. *)
AuthAdd(p, n, key, url, yes, terminal) ==
    LET exists    == n \in Stored(file)
        urlSet    == exists => url # FillURL(file.profiles[n]).url
        destroys  == key # NoKey /\ HasKey(file, n)
        confirmed == yes \/ (terminal /\ destroys)
        warned    == terminal /\ HasKey(file, n)
        asked     == [op |-> "add", name |-> n, key |-> key, url |-> url,
                      urlSet |-> urlSet, confirmed |-> confirmed]
    IN  /\ step[p] = "start"
        /\ file # Torn
        /\ \/ /\ key = NoKey /\ ~HasKey(file, n)   \* "API key is required"
              /\ EndEarly(p, "error")
           \/ /\ key = NoKey /\ HasKey(file, n) /\ ~urlSet
              /\ EndEarly(p, "unchanged")
           \/ /\ destroys /\ ~yes /\ ~terminal
              /\ EndEarly(p, "error")
           \/ /\ key # NoKey \/ (HasKey(file, n) /\ urlSet)
              /\ destroys => yes \/ terminal
              /\ Submit(p, asked, yes \/ warned)

(* `auth remove n`: agreed by the flag or by the answer. *)
AuthRemove(p, n, agreed) ==
    /\ step[p] = "start"
    /\ file # Torn
    /\ \/ /\ n \in Stored(file) /\ agreed
          /\ Submit(p, [op |-> "remove", name |-> n], TRUE)
       \/ /\ n \notin Stored(file) \/ ~agreed
          /\ EndEarly(p, "error")

(* `auth use n` looks at nothing before it has the lock. *)
AuthUse(p, n) ==
    /\ step[p] = "start"
    /\ Submit(p, [op |-> "use", name |-> n], FALSE)

(* `auth add` and `auth remove` stop at a file they cannot parse. *)
SnapshotUnreadable(p) ==
    /\ step[p] = "start"
    /\ file = Torn
    /\ EndEarly(p, "error")

-----------------------------------------------------------------------------
(* acquireLock *)

TakeLock(p) ==
    /\ Acquire(p)
    /\ IF lpc'[p] = "failed" THEN Ends(p, "error") /\ At(p, "over")
                             ELSE UNCHANGED <<outcome, step>>
    /\ UNCHANGED <<fileVars, temp, req, draft, history>>

-----------------------------------------------------------------------------
(* Under the lock: Edit, saveToPath, writeFileAtomic *)

LoadAndMutate(p) ==
    /\ Critical(p) /\ step[p] = "load"
    /\ \/ /\ file # Torn /\ Accepted(req[p], file)
          /\ draft' = [draft EXCEPT ![p] = Applied(req[p], file)]
          /\ At(p, "temp")
          /\ UNCHANGED outcome
       \/ /\ file # Torn => ~Accepted(req[p], file)
          /\ Ends(p, "error")
          /\ At(p, "leave")
          /\ UNCHANGED draft
    /\ UNCHANGED <<lockVars, fileVars, temp, req, history>>

TempStep(p, from, made, to) ==
    /\ Critical(p) /\ step[p] = from
    /\ temp' = [temp EXCEPT ![p] = made]
    /\ At(p, to)
    /\ UNCHANGED <<lockVars, fileVars, req, draft, outcome, history>>

(* Mutant: the file is renamed unsynced. *)
SyncTempSkipped(p) == TempStep(p, "sync", "written", "rename")

CreateTemp(p) == TempStep(p, "temp", "empty", "write")
WriteTemp(p)  == TempStep(p, "write", "written", "sync")
SyncTemp(p)   == TempStep(p, "sync", "synced", "rename")

(* The rename replaces the file and consumes the temporary one. *)
Rename(p) ==
    /\ Critical(p) /\ step[p] = "rename"
    /\ file' = IF temp[p] = "empty" THEN Torn ELSE draft[p]
    /\ flushed' = (temp[p] = "synced")
    /\ older' = IF PowerFails THEN older \cup {file} ELSE {}
    /\ temp' = [temp EXCEPT ![p] = "none"]
    /\ Ends(p, "ok")
    /\ At(p, "leave")
    /\ committed' = committed \cup {p}
    /\ UNCHANGED <<lockVars, req, draft, consented>>

(* Mutant: the temporary file is not removed on failure. *)
WriteFailsDirty(p) ==
    /\ Critical(p) /\ step[p] \in {"temp", "write", "sync", "rename"}
    /\ Ends(p, "error")
    /\ At(p, "leave")
    /\ UNCHANGED <<lockVars, fileVars, temp, req, draft, history>>

(* Any call of writeFileAtomic may fail; the deferred removal then takes   *)
(* the temporary file away.                                                *)
WriteFails(p) ==
    /\ Critical(p) /\ step[p] \in {"temp", "write", "sync", "rename"}
    /\ temp' = [temp EXCEPT ![p] = "none"]
    /\ Ends(p, "error")
    /\ At(p, "leave")
    /\ UNCHANGED <<lockVars, fileVars, req, draft, history>>

Unlock(p) ==
    /\ step[p] = "leave"
    /\ Release(p)
    /\ At(p, "over")
    /\ req' = [req EXCEPT ![p] = NoRequest]
    /\ draft' = [draft EXCEPT ![p] = EmptyConfig]
    /\ UNCHANGED <<fileVars, temp, outcome, history>>

-----------------------------------------------------------------------------
(* The environment *)

TimePasses(p) ==
    /\ DeadlinePasses(p) \/ GrowsOld(p)
    /\ UNCHANGED <<fileVars, procVars, history>>

(* A killed command leaves its temporary file behind. *)
Killed(p) ==
    /\ Crash(p)
    /\ Ends(p, "killed")
    /\ At(p, "over")
    /\ req' = [req EXCEPT ![p] = NoRequest]
    /\ draft' = [draft EXCEPT ![p] = EmptyConfig]
    /\ UNCHANGED <<fileVars, temp, history>>

(* Without a sync of the directory, a power loss may undo renames; contents *)
(* that were not synced before the rename may be gone.                      *)
LosePower ==
    /\ PowerLoss
    /\ file' \in {IF flushed THEN file ELSE Torn} \cup older
    /\ flushed' = TRUE
    /\ older' = {}
    /\ outcome' = [p \in Procs |-> IF Running(p) THEN "killed" ELSE outcome[p]]
    /\ step' = [p \in Procs |-> IF Running(p) THEN "over" ELSE step[p]]
    /\ req' = [p \in Procs |-> NoRequest]
    /\ draft' = [p \in Procs |-> EmptyConfig]
    /\ UNCHANGED <<temp, history>>

-----------------------------------------------------------------------------
Start(p) ==
    \/ \E n \in Names, key \in Keys \cup {NoKey}, url \in URLs,
          yes \in BOOLEAN, terminal \in BOOLEAN :
             AuthAdd(p, n, key, url, yes, terminal)
    \/ \E n \in Names, agreed \in BOOLEAN : AuthRemove(p, n, agreed)
    \/ \E n \in Names : AuthUse(p, n)
    \/ SnapshotUnreadable(p)

Work(p) ==
    \/ TakeLock(p)
    \/ LoadAndMutate(p)
    \/ CreateTemp(p) \/ WriteTemp(p) \/ SyncTemp(p) \/ Rename(p)
    \/ WriteFails(p)
    \/ Unlock(p)

Next ==
    \/ \E p \in Procs : Start(p) \/ Work(p) \/ TimePasses(p) \/ Killed(p)
    \/ LosePower

(* A command that was started runs on, and the clock advances. *)
Fairness == \A p \in Procs : WF_vars(Work(p)) /\ WF_lockVars(DeadlinePasses(p))

Spec == Init /\ [][Next]_vars /\ Fairness

-----------------------------------------------------------------------------
TypeOK ==
    /\ LockTypeOK
    /\ file \in Config \cup {Torn}
    /\ flushed \in BOOLEAN
    /\ older \subseteq Config \cup {Torn}
    /\ temp \in [Procs -> {"none", "empty", "written", "synced"}]
    /\ step \in [Procs -> Steps]
    /\ req \in [Procs -> Request \cup {NoRequest}]
    /\ draft \in [Procs -> Config]
    /\ outcome \in [Procs -> Outcomes]
    /\ consented \subseteq Procs
    /\ committed \subseteq Procs

(* "concurrent commands cannot overwrite each other's profile changes": a  *)
(* write is the command's own request applied to the contents it replaces, *)
(* never to an older version of them.                                      *)
WritesApplyToLatest ==
    [][\A p \in Procs : p \in committed' \ committed =>
          /\ Accepted(req[p], file)
          /\ file' = Applied(req[p], file)]_vars

(* Seen from outside, the file changes by one whole accepted request at a  *)
(* time, whatever the commands do in between.                              *)
ImplementsStore == Store!Spec

(* A stored key is lost only to a command whose user asked for that: with  *)
(* --yes, by answering yes, or by typing over a warning; and only the key  *)
(* of the profile the command names.                                       *)
KeysLostOnlyByConsent ==
    [][\A n \in Names :
          (HasKey(file, n) /\ ~(HasKey(file', n)
                                /\ file'.profiles[n].key = file.profiles[n].key))
          => \E p \in committed' \ committed :
                p \in consented /\ req[p].name = n]_vars

(* No reader ever meets half a file: one that parsed goes on parsing, a    *)
(* power loss included.                                                    *)
NeverBecomesTorn == [][file # Torn => file' # Torn]_vars

(* A temporary file with every stored key in it is on the disk only while  *)
(* its command writes, or when it was killed writing.                      *)
NoStrayTemp ==
    \A p \in Procs : temp[p] # "none" => lpc[p] \in {"critical", "dead"}

(* Every command that was started ends.                                    *)
CommandsEnd == \A p \in Procs : Running(p) ~> step[p] = "over"
=============================================================================
