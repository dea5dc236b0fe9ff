----------------------------- MODULE ZoneUpdate -----------------------------
(***************************************************************************)
(* "computezone update" commands on one compute zone: the request replaces *)
(* the whole document, so the SDK reads it, merges the fields the user     *)
(* named over it, and puts the result (nvfleetint/computezone.go).  There  *)
(* is no ETag.  The PUT is sent once; it may land after the command gave   *)
(* up on it.                                                               *)
(*                                                                         *)
(* A document is flat here: the code leaves out a contact or a location    *)
(* none of whose fields is there.                                          *)
(***************************************************************************)
EXTENDS Naturals

CONSTANTS
    Commands,
    Fields,
    Type,        \* the field that cannot be cleared
    Checked,     \* the fields whose values are validated
    Values,
    Bad,         \* a value validation refuses
    Absent,      \* not in the document; as an option: clear it
    Keep,        \* the option that was not given
    NoDocument,
    MaxEdits     \* bound: edits by others

ASSUME ZoneAssumption ==
    /\ Type \in Checked /\ Checked \subseteq Fields
    /\ {Bad, Absent, Keep} \cap Values = {}
    /\ Bad # Absent /\ Bad # Keep /\ Absent # Keep
    /\ NoDocument \notin [Fields -> Values \cup {Absent}]
    /\ MaxEdits \in Nat

Documents == [Fields -> Values \cup {Absent}]

Requests == [Fields -> Values \cup {Absent, Keep, Bad}]

VARIABLES
    zone,      \* the document the backend stores
    edits,     \* bound: edits by others so far
    phase,     \* where each command stands
    asked,     \* its options
    base,      \* the document it read
    put,       \* what became of its PUT
    reported,  \* the document it printed
    outcome,
    agreed     \* history: the user saw the changes and agreed, or said --yes

vars == <<zone, edits, phase, asked, base, put, reported, outcome, agreed>>

Phases == {"new", "confirm", "read", "preview", "write", "sent", "done"}

Puts == {"none", "flying", "landed", "lost", "demoted"}

Outcomes == {"none", "invalid", "aborted", "failed", "previewed", "ok"}

Init ==
    /\ zone \in Documents
    /\ edits = 0
    /\ phase = [c \in Commands |-> "new"]
    /\ asked = [c \in Commands |-> [f \in Fields |-> Keep]]
    /\ base = [c \in Commands |-> NoDocument]
    /\ put = [c \in Commands |-> "none"]
    /\ reported = [c \in Commands |-> NoDocument]
    /\ outcome = [c \in Commands |-> "none"]
    /\ agreed = [c \in Commands |-> FALSE]

-----------------------------------------------------------------------------
(* Options *)

Empty(request) == \A f \in Fields : request[f] = Keep

(* Mutant: coordinates and types are sent as they are. *)
ValidWhateverValue(request) == ~Empty(request) /\ request[Type] # Absent

(* UpdateComputeZoneOptions.Validate *)
Valid(request) ==
    /\ ~Empty(request)
    /\ \A f \in Checked : request[f] # Bad
    /\ request[Type] # Absent

(* Mutant: an option that was not given clears its field. *)
MergeOverNothing(document, request) ==
    [f \in Fields |-> IF request[f] = Keep THEN Absent ELSE request[f]]

(* buildComputeZoneUpdate: an option replaces or clears its field, the *)
(* others are echoed.                                                  *)
Merge(document, request) ==
    [f \in Fields |-> IF request[f] = Keep THEN document[f] ELSE request[f]]

Sent(c) == Merge(base[c], asked[c])

-----------------------------------------------------------------------------
(* runComputeZoneUpdate *)

Goto(c, p) == phase' = [phase EXCEPT ![c] = p]

Ends(c, o) == Goto(c, "done") /\ outcome' = [outcome EXCEPT ![c] = o]

(* Only a checked field can be given a value that validation refuses. *)
Start(c, request) ==
    /\ phase[c] = "new"
    /\ \A f \in Fields \ Checked : request[f] # Bad
    /\ asked' = [asked EXCEPT ![c] = request]
    /\ \/ ~Valid(request) /\ Ends(c, "invalid") /\ UNCHANGED agreed
       \/ /\ Valid(request)
          /\ \/ Goto(c, "preview") /\ UNCHANGED agreed
             \/ Goto(c, "confirm") /\ UNCHANGED agreed
             \/ Goto(c, "read") /\ agreed' = [agreed EXCEPT ![c] = TRUE]
          /\ UNCHANGED outcome
    /\ UNCHANGED <<zone, edits, base, put, reported>>

Agree(c) ==
    /\ phase[c] = "confirm"
    /\ agreed' = [agreed EXCEPT ![c] = TRUE]
    /\ Goto(c, "read")
    /\ UNCHANGED <<zone, edits, asked, base, put, reported, outcome>>

Decline(c) ==
    /\ phase[c] = "confirm"
    /\ Ends(c, "aborted")
    /\ UNCHANGED <<zone, edits, asked, base, put, reported, agreed>>

(* Mutant: the preview goes the way of the command and issues its PUT. *)
PreviewSends(c) ==
    /\ phase[c] = "preview"
    /\ base' = [base EXCEPT ![c] = zone]
    /\ Goto(c, "write")
    /\ UNCHANGED <<zone, edits, asked, put, reported, outcome, agreed>>

(* PreviewUpdateComputeZone *)
Preview(c) ==
    /\ phase[c] = "preview"
    /\ base' = [base EXCEPT ![c] = zone]
    /\ reported' = [reported EXCEPT ![c] = Merge(zone, asked[c])]
    /\ Ends(c, "previewed")
    /\ UNCHANGED <<zone, edits, asked, put, agreed>>

(* getComputeZone *)
Read(c) ==
    /\ phase[c] = "read"
    /\ base' = [base EXCEPT ![c] = zone]
    /\ Goto(c, "write")
    /\ UNCHANGED <<zone, edits, asked, put, reported, outcome, agreed>>

(* No answer, an error answer, or no such zone. *)
ReadFails(c) ==
    /\ phase[c] \in {"read", "preview"}
    /\ Ends(c, "failed")
    /\ UNCHANGED <<zone, edits, asked, base, put, reported, agreed>>

Send(c) ==
    /\ phase[c] = "write"
    /\ put' = [put EXCEPT ![c] = "flying"]
    /\ Goto(c, "sent")
    /\ UNCHANGED <<zone, edits, asked, base, reported, outcome, agreed>>

(* Mutant: a PUT that got no answer is sent again. *)
FailsAndResends(c) ==
    /\ phase[c] = "sent"
    /\ \/ Ends(c, "failed") /\ UNCHANGED put
       \/ /\ put[c] \in {"landed", "lost"}
          /\ put' = [put EXCEPT ![c] = "flying"]
          /\ UNCHANGED <<phase, outcome>>
    /\ UNCHANGED <<zone, edits, asked, base, reported, agreed>>

(* Mutant: success is reported before the answer is there. *)
AnsweredEarly(c) ==
    /\ phase[c] = "sent"
    /\ reported' = [reported EXCEPT ![c] = Sent(c)]
    /\ Ends(c, "ok")
    /\ UNCHANGED <<zone, edits, asked, base, put, agreed>>

Answered(c) ==
    /\ phase[c] = "sent"
    /\ put[c] = "landed"
    /\ reported' = [reported EXCEPT ![c] = Sent(c)]
    /\ Ends(c, "ok")
    /\ UNCHANGED <<zone, edits, asked, base, put, agreed>>

(* An error answer, no answer, or one that cannot be decoded. *)
Fails(c) ==
    /\ phase[c] = "sent"
    /\ Ends(c, "failed")
    /\ UNCHANGED <<zone, edits, asked, base, put, reported, agreed>>

(* Status 301, 302 or 303: net/http repeats the request as a GET, without *)
(* the document.  What that answers is a JSON object, which is all        *)
(* UpdateComputeZone asks of an answer.                                   *)
Demoted(c) ==
    /\ phase[c] = "sent"
    /\ put[c] = "flying"
    /\ put' = [put EXCEPT ![c] = "demoted"]
    /\ reported' = [reported EXCEPT ![c] = Sent(c)]
    /\ Ends(c, "ok")
    /\ UNCHANGED <<zone, edits, asked, base, agreed>>

-----------------------------------------------------------------------------
(* The backend *)

Land(c) ==
    /\ put[c] = "flying"
    /\ put' = [put EXCEPT ![c] = "landed"]
    /\ zone' = Sent(c)
    /\ UNCHANGED <<edits, phase, asked, base, reported, outcome, agreed>>

Lose(c) ==
    /\ put[c] = "flying"
    /\ put' = [put EXCEPT ![c] = "lost"]
    /\ UNCHANGED <<zone, edits, phase, asked, base, reported, outcome, agreed>>

(* The console, or the agents. *)
OthersEdit(document) ==
    /\ edits < MaxEdits
    /\ document # zone
    /\ zone' = document
    /\ edits' = edits + 1
    /\ UNCHANGED <<phase, asked, base, put, reported, outcome, agreed>>

-----------------------------------------------------------------------------
Step(c) ==
    \/ \E request \in Requests : Start(c, request)
    \/ Agree(c) \/ Decline(c) \/ Preview(c) \/ Read(c) \/ ReadFails(c)
    \/ Send(c) \/ Answered(c) \/ Fails(c) \/ Demoted(c)
    \/ Land(c) \/ Lose(c)

Next ==
    \/ \E c \in Commands : Step(c)
    \/ \E document \in Documents : OthersEdit(document)

Spec == Init /\ [][Next]_vars

-----------------------------------------------------------------------------
TypeOK ==
    /\ zone \in Documents
    /\ edits \in 0 .. MaxEdits
    /\ phase \in [Commands -> Phases]
    /\ asked \in [Commands -> Requests]
    /\ base \in [Commands -> Documents \cup {NoDocument}]
    /\ put \in [Commands -> Puts]
    /\ reported \in [Commands -> Documents \cup {NoDocument}]
    /\ outcome \in [Commands -> Outcomes]
    /\ agreed \in [Commands -> BOOLEAN]

Lands(c) == put[c] = "flying" /\ put'[c] = "landed"

(* A PUT that lands on the document its command read changes the fields the *)
(* user named to what was asked, and no other: a contact that is set never  *)
(* clears a location.  Only an edit between the read and the landing, which *)
(* may be long after the command failed, can be undone by it.               *)
OnlyNamedFieldsChange ==
    [][\A c \in Commands :
          Lands(c) /\ zone = base[c] =>
              \A f \in Fields : \/ asked[c][f] = zone'[f]
                                \/ asked[c][f] = Keep /\ zone'[f] = zone[f]]_vars

(* The PUT as a call: not made until it is sent, over when the command says *)
(* so, and taking effect where it lands.                                    *)
Status == [c \in Commands |->
              IF put[c] = "none" THEN "idle"
              ELSE CASE outcome[c] = "ok"     -> "ok"
                     [] outcome[c] = "failed" -> "failed"
                     [] OTHER                 -> "running"]

Effects == [c \in Commands |-> IF put[c] = "landed" THEN 1 ELSE 0]

Remote == INSTANCE RemoteCall
             WITH Calls <- Commands, Writes <- Commands, status <- Status, effects <- Effects

(* The PUT asks of the pipeline below it what that promises and no more: it *)
(* is made once, lands once at most, though perhaps after the command       *)
(* failed, and never lands for a command that did not send it.              *)
PutIsOneRemoteCall == Remote!Spec

(* Nothing is written for a command that was invalid, aborted, or a dry run, *)
(* or before its user agreed.                                                *)
WritesOnlyWhenAgreed ==
    \A c \in Commands :
        put[c] # "none" => /\ agreed[c] /\ Valid(asked[c])
                           /\ outcome[c] \in {"none", "failed", "ok"}

(* A command that reports a document wrote it, unless a redirect made a GET *)
(* of its PUT ...                                                           *)
OkMeansWrittenOrDemoted ==
    \A c \in Commands :
        outcome[c] = "ok" => /\ reported[c] = Sent(c)
                             /\ put[c] \in {"landed", "demoted"}

(* ... which ComputeZoneUpdate, "the compute zone metadata written by *)
(* UpdateComputeZone", does not allow for.                            *)
OkMeansWritten ==
    \A c \in Commands : outcome[c] = "ok" => put[c] = "landed"
=============================================================================
