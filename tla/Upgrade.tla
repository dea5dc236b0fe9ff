------------------------------- MODULE Upgrade -------------------------------
(***************************************************************************)
(* `nvfleetint upgrade` and the lookup of `nvfleetint version`             *)
(* (internal/cmd/release, internal/updatecheck, install.sh, install.ps1).  *)
(*                                                                         *)
(* Commands started from the binaries of one directory look up a release,  *)
(* ask, move their own binary aside (Windows only), and have the release's *)
(* installer put a file named nvfleetint into the directory.  Releases are *)
(* published meanwhile, every step may fail, and Ctrl-C, for which main    *)
(* installs no handler, ends a command together with its installer.        *)
(*                                                                         *)
(* Downloading, checking and unpacking the archive happen in a work        *)
(* directory of the installer's own: they are one step that may fail.      *)
(***************************************************************************)
EXTENDS Versions

CONSTANTS
    Upgraders,      \* commands, each run at most once
    Releases,       \* versions that may come to be published
    WithInstaller,  \* those that ship install.sh and install.ps1
    NoVersion,      \* no release; --version not given
    Malformed,      \* a --version that ReleaseTag refuses
    Dev,            \* a local build: works, but has no release version
    Absent, Broken, \* no file; a file cut off in the middle of copying
    Link            \* nvfleetint -> the versioned name beside it

ASSUME ReleasesAssumption ==
    /\ Releases \subseteq Version
    /\ WithInstaller \subseteq Releases
    /\ {NoVersion, Malformed, Dev, Absent, Broken, Link} \cap Version = {}
    /\ NoVersion # Malformed
    /\ Dev \notin {Absent, Broken, Link}
    /\ Absent # Broken

VARIABLES
    windows,    \* the platform
    files,      \* the directory: nvfleetint and a versioned name beside it
    aside,      \* the .old file of each name
    published, latest,  \* releases, and the one the permalink names
    pc, outcome,
    named,      \* --version, NoVersion when not given
    exe,        \* ExecutablePath: the name of the running binary
    current,    \* build.Version
    target,     \* the release resolved
    image,      \* where the file is that a command runs from: "live" under
                \* its name, "aside", or "gone" (deleted, or not running)
    writing     \* the command whose installer has nvfleetint open, or none

releaseVars == <<published, latest>>
dirVars     == <<files, aside, writing>>
flagVars    == <<named, exe, current>>
vars == <<windows, dirVars, releaseVars, flagVars, pc, outcome, target, image>>

Names    == {"nvfleetint", "versioned"}
Std      == "nvfleetint"
Binaries == Releases \cup {Dev}
Content  == Binaries \cup {Absent, Broken, Link}
Nobody   == "nobody"

ASSUME UpgradersAssumption == Nobody \notin Upgraders


Labels   == {"idle", "lookup", "check", "ask", "download", "aside", "verify",
             "copying", "copied", "finish", "restore", "over"}
Outcomes == {"none", "dev", "current", "behind", "unchecked", "refused",
             "declined", "failed", "unrestored", "upgraded", "killed"}

Works(content) == content \in Binaries

Init ==
    /\ windows \in BOOLEAN
    /\ files \in [Names -> Content]
    /\ files[Std] \in Binaries \cup {Link}
    /\ files[Std] = Link => ~windows /\ Works(files["versioned"])
    /\ files["versioned"] \in Binaries \cup {Absent}
    /\ aside \in [Names -> {Absent}]
    /\ published \in SUBSET Releases /\ latest \in published \cup {NoVersion}
    /\ \A n \in Names : files[n] \in Releases => files[n] \in published
    /\ latest = NoVersion => published = {}
    /\ pc = [u \in Upgraders |-> "idle"]
    /\ outcome = [u \in Upgraders |-> "none"]
    /\ named = [u \in Upgraders |-> NoVersion]
    /\ exe = [u \in Upgraders |-> Std]
    /\ current = [u \in Upgraders |-> Dev]
    /\ target = [u \in Upgraders |-> NoVersion]
    /\ image = [u \in Upgraders |-> "gone"]
    /\ writing = Nobody

Goes(u, label) == pc' = [pc EXCEPT ![u] = label]

(* The process is gone, and with it the hold on its file. *)
Ends(u, how) ==
    /\ outcome' = [outcome EXCEPT ![u] = how]
    /\ Goes(u, "over")
    /\ image' = [image EXCEPT ![u] = "gone"]

Proceeds(u, label) == Goes(u, label) /\ UNCHANGED <<outcome, image>>

(* Windows neither deletes nor overwrites a file that a process runs from  *)
(* or has open; it does rename it.                                         *)
Held(n, place) ==
    /\ windows
    /\ \/ \E u \in Upgraders : exe[u] = n /\ image[u] = place
       \/ place = "live" /\ n = Std /\ writing # Nobody

-----------------------------------------------------------------------------
(* runUpgrade up to the confirmation *)

(* A binary is started by one of its names; os.Executable and EvalSymlinks *)
(* see through the link.                                                   *)
Start(u, n, version) ==
    /\ pc[u] = "idle"
    /\ LET path == IF files[n] = Link THEN "versioned" ELSE n
       IN  /\ Works(files[path])
           /\ exe' = [exe EXCEPT ![u] = path]
           /\ current' = [current EXCEPT ![u] = files[path]]
    /\ named' = [named EXCEPT ![u] = version]
    /\ image' = [image EXCEPT ![u] = "live"]
    /\ Goes(u, "lookup")
    /\ UNCHANGED <<windows, dirVars, releaseVars, outcome, target>>

(* Checker.Latest names the permalink's release; Checker.Release the one   *)
(* asked for, when it is well formed and published.                        *)
Found(u) ==
    IF named[u] = NoVersion THEN latest
    ELSE IF named[u] \in published THEN named[u] ELSE NoVersion

(* Mutant: whatever the permalink names is an upgrade. *)
InstalledByTextOnly(u, release) == release = current[u]

(* Without --version everything but a newer release is nothing to do; with *)
(* it only the version already installed.                                  *)
Installed(u, release) ==
    IF named[u] = NoVersion THEN ~IsNewer(release, current[u])
    ELSE IsSame(release, current[u])

Lookup(u) ==
    /\ pc[u] = "lookup"
    /\ IF current[u] = Dev THEN Ends(u, "dev") /\ UNCHANGED target
       ELSE \/ Ends(u, "failed") /\ UNCHANGED target      \* network, timeout
            \/ /\ Found(u) = NoVersion
               /\ Ends(u, "refused")
               /\ UNCHANGED target
            \/ /\ Found(u) # NoVersion
               /\ target' = [target EXCEPT ![u] = Found(u)]
               /\ IF Installed(u, Found(u)) THEN Ends(u, "current")
                                            ELSE Proceeds(u, "check")
    /\ UNCHANGED <<windows, dirVars, releaseVars, flagVars>>

(* `nvfleetint version` makes the same lookup and never fails for it. *)
VersionCommand(u) ==
    /\ pc[u] = "lookup" /\ named[u] = NoVersion
    /\ IF current[u] = Dev \/ latest = NoVersion
       THEN Ends(u, "unchecked") /\ UNCHANGED target
       ELSE \/ Ends(u, "unchecked") /\ UNCHANGED target
            \/ /\ target' = [target EXCEPT ![u] = latest]
               /\ Ends(u, IF IsNewer(latest, current[u]) THEN "behind" ELSE "current")
    /\ UNCHANGED <<windows, dirVars, releaseVars, flagVars>>

(* CheckWritable and CheckInstallerAvailable, before anything is asked. *)
Check(u) ==
    /\ pc[u] = "check"
    /\ \/ Ends(u, "refused")
       \/ target[u] \in WithInstaller /\ Proceeds(u, "ask")
    /\ UNCHANGED <<windows, dirVars, releaseVars, flagVars, target>>

(* Confirm, skipped with --yes. *)
Confirm(u) ==
    /\ pc[u] = "ask"
    /\ \/ Ends(u, "declined")
       \/ Proceeds(u, "download")
    /\ UNCHANGED <<windows, dirVars, releaseVars, flagVars, target>>

-----------------------------------------------------------------------------
(* UpgradePlan.Run *)

(* downloadInstaller and writing the script to the work directory. *)
Download(u) ==
    /\ pc[u] = "download"
    /\ \/ Ends(u, "failed")
       \/ Proceeds(u, "aside")
    /\ UNCHANGED <<windows, dirVars, releaseVars, flagVars, target>>

(* Every command that runs from the file moved goes with it. *)
ImagesMove(n, from, to) ==
    [w \in Upgraders |-> IF exe[w] = n /\ image[w] = from THEN to ELSE image[w]]

(* Mutant: the backup is discarded before the installer has run. *)
MoveAsideAndDiscard(u) ==
    /\ pc[u] = "aside" /\ windows
    /\ files' = [files EXCEPT ![exe[u]] = Absent]
    /\ image' = ImagesMove(exe[u], "live", "gone")
    /\ Goes(u, "verify")
    /\ UNCHANGED <<windows, aside, writing, releaseVars, flagVars, outcome, target>>

(* moveRunningBinaryAside: a leftover backup is removed if nothing runs    *)
(* from it, and the rename fails when it is still there and held.          *)
MoveAside(u) ==
    LET n == exe[u]
        kept == Held(n, "aside")
    IN  /\ pc[u] = "aside" /\ windows
        /\ \/ /\ ~kept /\ files[n] # Absent
              /\ aside' = [aside EXCEPT ![n] = files[n]]
              /\ files' = [files EXCEPT ![n] = Absent]
              /\ image' = ImagesMove(n, "live", "aside")
              /\ Goes(u, "verify")
              /\ UNCHANGED outcome
           \/ /\ aside' = IF kept THEN aside ELSE [aside EXCEPT ![n] = Absent]
              /\ Ends(u, "failed")
              /\ UNCHANGED files
        /\ UNCHANGED <<windows, writing, releaseVars, flagVars, target>>

(* Elsewhere nothing is moved. *)
StayInPlace(u) ==
    /\ pc[u] = "aside" /\ ~windows
    /\ Proceeds(u, "verify")
    /\ UNCHANGED <<windows, dirVars, releaseVars, flagVars, target>>

-----------------------------------------------------------------------------
(* The installer, pinned to the target's tag and to the directory *)

(* Nothing is in the directory until the archive is checked. *)
InstallerFails(u) ==
    /\ pc[u] \in {"verify", "copied"}
    /\ Proceeds(u, "restore")
    /\ UNCHANGED <<windows, dirVars, releaseVars, flagVars, target>>

(* install(1) removes the old file, or link, before it copies; Copy-Item   *)
(* -Force overwrites it in place.                                          *)
BeginCopy(u) ==
    /\ pc[u] = "verify"
    /\ ~Held(Std, "live")
    /\ files' = [files EXCEPT ![Std] = Broken]
    /\ writing' = u
    /\ image' = IF windows THEN image ELSE ImagesMove(Std, "live", "gone")
    /\ Goes(u, "copying")
    /\ UNCHANGED <<windows, aside, releaseVars, flagVars, outcome, target>>

CopyOf(u, release) ==
    /\ pc[u] = "copying"
    /\ files' = IF writing = u THEN [files EXCEPT ![Std] = release] ELSE files
    /\ writing' = IF writing = u THEN Nobody ELSE writing
    /\ Proceeds(u, "copied")
    /\ UNCHANGED <<windows, aside, releaseVars, flagVars, target>>

(* Mutant: the installer resolves the permalink again. *)
CopyEndsWithLatest(u) == CopyOf(u, latest)

(* On Unix another installer may have put a file of its own there since:   *)
(* what this one finishes is then no longer in the directory.              *)
CopyEnds(u) ==
    \/ CopyOf(u, target[u])
    \/ /\ pc[u] = "copying"
       /\ writing' = IF writing = u THEN Nobody ELSE writing
       /\ Proceeds(u, "restore")
       /\ UNCHANGED <<windows, files, aside, releaseVars, flagVars, target>>

(* The last line of the script runs the file it has installed. *)
RunInstalled(u) ==
    /\ pc[u] = "copied"
    /\ Works(files[Std])
    /\ Proceeds(u, "finish")
    /\ UNCHANGED <<windows, dirVars, releaseVars, flagVars, target>>

-----------------------------------------------------------------------------
(* After the installer *)

(* Mutant: the backup is taken back only where the installer left nothing. *)
RestoreUnlessReplaced(u) ==
    LET n == exe[u]
    IN  /\ pc[u] = "restore"
        /\ files' = IF windows /\ files[n] = Absent
                    THEN [files EXCEPT ![n] = aside[n]] ELSE files
        /\ Ends(u, "failed")
        /\ UNCHANGED <<windows, aside, writing, releaseVars, flagVars, target>>

(* restore: the failed replacement is removed and the backup renamed back; *)
(* either may fail.  The installer is over, so what it opened is closed.   *)
Restore(u) ==
    LET n == exe[u]
        removable == ~(files[n] # Absent /\ Held(n, "live"))
    IN  /\ pc[u] = "restore"
        /\ \/ /\ ~windows
              /\ Ends(u, "failed")
              /\ UNCHANGED <<files, aside>>
           \/ /\ windows
              /\ Ends(u, "unrestored")
              /\ files' \in {files} \cup
                   (IF removable THEN {[files EXCEPT ![n] = Absent]} ELSE {})
              /\ UNCHANGED aside
           \/ /\ windows /\ removable /\ aside[n] # Absent
              /\ files' = [files EXCEPT ![n] = aside[n]]
              /\ aside' = [aside EXCEPT ![n] = Absent]
              /\ outcome' = [outcome EXCEPT ![u] = "failed"]
              /\ Goes(u, "over")
              /\ image' = [ImagesMove(n, "aside", "live") EXCEPT ![u] = "gone"]
        /\ UNCHANGED <<windows, writing, releaseVars, flagVars, target>>

(* discard: the command still runs from the backup, which therefore stays. *)
Finish(u) ==
    /\ pc[u] = "finish"
    /\ aside' = IF windows /\ ~Held(exe[u], "aside")
                THEN [aside EXCEPT ![exe[u]] = Absent] ELSE aside
    /\ Ends(u, "upgraded")
    /\ UNCHANGED <<windows, files, writing, releaseVars, flagVars, target>>

-----------------------------------------------------------------------------
(* The environment *)

(* Ctrl-C or a closed terminal: the installer goes with the command. *)
Interrupt(u) ==
    /\ pc[u] \notin {"idle", "over"}
    /\ Ends(u, "killed")
    /\ writing' = IF writing = u THEN Nobody ELSE writing
    /\ UNCHANGED <<windows, files, aside, releaseVars, flagVars, target>>

(* A release appears; a backport need not become the latest. *)
Publish(v) ==
    /\ v \notin published
    /\ published' = published \cup {v}
    /\ latest' \in {latest, v} \ {NoVersion}
    /\ UNCHANGED <<windows, dirVars, flagVars, pc, outcome, target, image>>

-----------------------------------------------------------------------------
Step(u) ==
    \/ Lookup(u) \/ VersionCommand(u) \/ Check(u) \/ Confirm(u) \/ Download(u)
    \/ MoveAside(u) \/ StayInPlace(u)
    \/ InstallerFails(u) \/ BeginCopy(u) \/ CopyEnds(u) \/ RunInstalled(u)
    \/ Restore(u) \/ Finish(u)

Next ==
    \/ \E u \in Upgraders :
          \/ \E n \in Names, v \in Releases \cup {NoVersion, Malformed} : Start(u, n, v)
          \/ Step(u)
          \/ Interrupt(u)
    \/ \E v \in Releases : Publish(v)

Spec == Init /\ [][Next]_vars

-----------------------------------------------------------------------------
TypeOK ==
    /\ windows \in BOOLEAN
    /\ files \in [Names -> Content]
    /\ aside \in [Names -> Binaries \cup {Absent}]
    /\ writing \in Upgraders \cup {Nobody}
    /\ published \subseteq Releases
    /\ latest \in published \cup {NoVersion}
    /\ pc \in [Upgraders -> Labels]
    /\ outcome \in [Upgraders -> Outcomes]
    /\ named \in [Upgraders -> Releases \cup {NoVersion, Malformed}]
    /\ exe \in [Upgraders -> Names]
    /\ current \in [Upgraders -> Binaries]
    /\ target \in [Upgraders -> Releases \cup {NoVersion}]
    /\ image \in [Upgraders -> {"live", "aside", "gone"}]

HasBinary == \E n \in Names : Works(files[n]) \/ Works(aside[n])

(* Whatever fails, is interrupted or runs at the same time, a working      *)
(* binary stays in the directory, under its name or as .old; only the copy *)
(* of install.sh, which removes the old file first, may take the last one. *)
KeepsABinary ==
    [][HasBinary /\ ~HasBinary' => /\ ~windows
                                  /\ \E u \in Upgraders : writing' = u /\ writing # u]_vars

(* "the installer failed", with nothing about the restore: on Windows the  *)
(* user has the binary back that the command was started from.             *)
FailureUndone ==
    [][\A u \in Upgraders :
          (windows /\ pc[u] = "restore" /\ outcome'[u] = "failed")
             => files'[exe[u]] = current[u]]_vars

(* What comes into the directory is what the user has asked for: the       *)
(* release named, or one newer than the binary that was run.  No release   *)
(* published meanwhile, and no backport marked as latest, slips in.        *)
NothingElseInstalled ==
    [][\A n \in Names :
          (files'[n] # files[n] /\ Works(files'[n])) =>
             \E u \in Upgraders :
                \/ files'[n] = current[u] /\ outcome'[u] # outcome[u]
                \/ files'[n] = target[u] /\ target[u] = named[u]
                \/ /\ files'[n] = target[u] /\ named[u] = NoVersion
                   /\ Precedes(current[u], target[u])]_vars

(* "Upgraded": the release is in place, unless another command has been at *)
(* it since.                                                               *)
UpgradeDelivers ==
    [][\A u \in Upgraders :
          outcome'[u] = "upgraded" /\ outcome[u] = "none" =>
             \/ files[Std] = target[u]
             \/ \E w \in Upgraders \ {u} :
                   /\ target[w] # NoVersion
                   /\ files[Std] \in {target[w], current[w], Broken, Absent}]_vars

Canonical(v) == \A i \in 1..Len(v.pre) : v.pre[i].text = 0

(* "already the newest release", "already installed" and "Update           *)
(* available" agree with semantic versioning, for versions that have no    *)
(* number with leading zeros in them.                                      *)
NoticesTrue ==
    \A u \in Upgraders :
       (target[u] # NoVersion /\ current[u] # Dev
          /\ Canonical(target[u]) /\ Canonical(current[u])) =>
          /\ outcome[u] = "current" => ~Precedes(current[u], target[u])
          /\ outcome[u] = "current" /\ named[u] # NoVersion
                => ~Precedes(target[u], current[u])
          /\ outcome[u] = "behind" => Precedes(current[u], target[u])

(* "ExecutablePath is the binary that will be replaced, with symlinks      *)
(* resolved."                                                              *)
ReplacesRunningBinary ==
    [][\A u \in Upgraders :
          outcome'[u] = "upgraded" /\ outcome[u] = "none"
             => files'[exe[u]] = target[u]]_vars
=============================================================================
