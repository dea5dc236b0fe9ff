------------------------- MODULE ZoneUpdate_proofs -------------------------
(* What holds of "computezone update" for any number of commands, fields *)
(* and edits.                                                            *)
EXTENDS ZoneUpdate, TLAPS

(* The invariant: a command past its question has valid options and its   *)
(* user's consent, one that sent a PUT has read the zone, one that has    *)
(* sent none is not over in a way that needs one.                         *)
Plausible(c) == Valid(asked[c]) /\ \A f \in Fields \ Checked : asked[c][f] # Bad

Consented(c) == agreed[c] /\ Plausible(c)

Control(c) ==
    /\ phase[c] \in {"confirm", "preview"} => Plausible(c)
    /\ phase[c] \in {"read", "write", "sent"} => Consented(c)
    /\ put[c] # "none" => Consented(c) /\ phase[c] \in {"sent", "done"}
    /\ put[c] # "none" => outcome[c] \in {"none", "failed", "ok"}
    /\ phase[c] \in {"new", "confirm", "read", "preview", "write", "sent"} => outcome[c] = "none"
    /\ phase[c] \in {"write", "sent"} \/ put[c] # "none" => base[c] \in Documents

Truth(c) ==
    outcome[c] = "ok" => /\ phase[c] = "done"
                         /\ reported[c] = Sent(c)
                         /\ put[c] \in {"landed", "demoted"}

Inv == TypeOK /\ \A c \in Commands : Control(c) /\ Truth(c)

-----------------------------------------------------------------------------
(* Merging validated options over a document gives a document. *)
LEMMA MergeType ==
    ASSUME NEW document \in Documents, NEW request \in Requests, Valid(request),
           \A f \in Fields \ Checked : request[f] # Bad
    PROVE  Merge(document, request) \in Documents
BY DEF Merge, Documents, Requests, Valid

LEMMA InvInit == Init => Inv
BY ZoneAssumption DEF Init, Inv, TypeOK, Phases, Puts, Outcomes, Requests, Control, Truth, Consented

LEMMA TypeStep ==
    ASSUME Inv, NEW c \in Commands, Step(c)
    PROVE  TypeOK'
<1> USE DEF Inv, TypeOK, Phases, Puts, Outcomes
<1>1. ASSUME NEW request \in Requests, Start(c, request) PROVE TypeOK'
    BY <1>1 DEF Start, Goto, Ends
<1>2. CASE Preview(c)
    <2>1. Merge(zone, asked[c]) \in Documents
        BY <1>2, MergeType DEF Preview, Control, Plausible
    <2> QED
        BY <1>2, <2>1 DEF Preview, Goto, Ends
<1>3. CASE Answered(c) \/ Demoted(c)
    <2>1. Sent(c) \in Documents
        BY <1>3, MergeType DEF Answered, Demoted, Sent, Control, Consented, Plausible
    <2> QED
        BY <1>3, <2>1 DEF Answered, Demoted, Goto, Ends
<1>4. CASE Land(c)
    <2>1. Sent(c) \in Documents
        BY <1>4, MergeType DEF Land, Sent, Control, Consented, Plausible
    <2> QED
        BY <1>4, <2>1 DEF Land
<1>5. CASE Agree(c)
    BY <1>5 DEF Agree, Goto
<1>6. CASE Decline(c)
    BY <1>6 DEF Decline, Ends, Goto
<1>7. CASE Read(c)
    BY <1>7 DEF Read, Goto
<1>8. CASE ReadFails(c)
    BY <1>8 DEF ReadFails, Ends, Goto
<1>9. CASE Send(c)
    BY <1>9 DEF Send, Goto
<1>10. CASE Fails(c)
    BY <1>10 DEF Fails, Ends, Goto
<1>11. CASE Lose(c)
    BY <1>11 DEF Lose
<1> QED
    BY <1>1, <1>2, <1>3, <1>4, <1>5, <1>6, <1>7, <1>8, <1>9, <1>10, <1>11 DEF Step

(* A step moves the command that takes it along its path ... *)
LEMMA OwnStep ==
    ASSUME Inv, NEW c \in Commands, Step(c)
    PROVE  Control(c)' /\ Truth(c)'
<1> USE DEF Inv, TypeOK, Phases, Puts, Outcomes, Control, Truth, Consented, Plausible
<1>1. ASSUME NEW request \in Requests, Start(c, request) PROVE Control(c)' /\ Truth(c)'
    BY <1>1 DEF Start, Goto, Ends, Valid, Empty
<1>2. CASE Agree(c)
    BY <1>2 DEF Agree, Goto, Ends, Sent
<1>3. CASE Decline(c)
    BY <1>3 DEF Decline, Goto, Ends, Sent
<1>4. CASE Preview(c)
    BY <1>4 DEF Preview, Goto, Ends, Sent
<1>5. CASE Read(c)
    BY <1>5 DEF Read, Goto, Ends, Sent
<1>6. CASE ReadFails(c)
    BY <1>6 DEF ReadFails, Goto, Ends, Sent
<1>7. CASE Send(c)
    BY <1>7 DEF Send, Goto, Ends, Sent
<1>8. CASE Answered(c)
    BY <1>8 DEF Answered, Goto, Ends, Sent
<1>9. CASE Fails(c)
    BY <1>9 DEF Fails, Goto, Ends, Sent
<1>10. CASE Demoted(c)
    BY <1>10 DEF Demoted, Goto, Ends, Sent
<1>11. CASE Land(c)
    BY <1>11 DEF Land, Goto, Ends, Sent
<1>12. CASE Lose(c)
    BY <1>12 DEF Lose, Goto, Ends, Sent
<1> QED
    BY <1>1, <1>2, <1>3, <1>4, <1>5, <1>6, <1>7, <1>8, <1>9, <1>10, <1>11, <1>12 DEF Step

(* ... and leaves the others where they are. *)
LEMMA OtherStep ==
    ASSUME Inv, NEW c \in Commands, Step(c), NEW d \in Commands \ {c}
    PROVE  Control(d)' /\ Truth(d)'
<1>1. /\ phase'[d] = phase[d] /\ asked'[d] = asked[d] /\ base'[d] = base[d]
      /\ put'[d] = put[d] /\ reported'[d] = reported[d] /\ outcome'[d] = outcome[d]
      /\ agreed'[d] = agreed[d]
    BY DEF Inv, TypeOK, Step, Start, Agree, Decline, Preview, Read, ReadFails, Send, Answered, Fails, Demoted, Land, Lose, Goto, Ends
<1> QED
    BY <1>1 DEF Inv, Control, Truth, Consented, Plausible, Sent

THEOREM Invariance == Spec => []Inv
<1>1. Inv /\ [Next]_vars => Inv'
    <2> SUFFICES ASSUME Inv, [Next]_vars PROVE Inv'
        OBVIOUS
    <2>1. ASSUME NEW c \in Commands, Step(c) PROVE Inv'
        BY <2>1, TypeStep, OwnStep, OtherStep DEF Inv
    <2>2. ASSUME NEW document \in Documents, OthersEdit(document) PROVE Inv'
        BY <2>2, ZoneAssumption DEF OthersEdit, Inv, TypeOK, Control, Truth, Consented, Plausible, Sent
    <2>3. CASE UNCHANGED vars
        BY <2>3 DEF vars, Inv, TypeOK, Control, Truth, Consented, Plausible, Sent
    <2> QED
        BY <2>1, <2>2, <2>3 DEF Next
<1> QED
    BY InvInit, <1>1, PTL DEF Spec

(* Every variable keeps its type; in particular the zone stays a document: *)
(* no value that validation refuses is ever stored.                        *)
THEOREM TypeCorrect == Spec => []TypeOK
<1>1. Inv => TypeOK
    BY DEF Inv
<1> QED
    BY <1>1, Invariance, PTL

(* A PUT is sent for a command whose options are valid and whose user *)
(* agreed, never for a dry run.                                       *)
THEOREM ConsentBeforeWrite == Spec => []WritesOnlyWhenAgreed
<1>1. Inv => WritesOnlyWhenAgreed
    BY DEF Inv, Control, Consented, Plausible, WritesOnlyWhenAgreed
<1> QED
    BY <1>1, Invariance, PTL

(* A reported document is the one that was sent and landed, but for a *)
(* redirect that made a GET of the PUT.                               *)
THEOREM ReportsTrue == Spec => []OkMeansWrittenOrDemoted
<1>1. Inv => OkMeansWrittenOrDemoted
    BY DEF Inv, Truth, OkMeansWrittenOrDemoted
<1> QED
    BY <1>1, Invariance, PTL

(* Only the step that lands a PUT makes it landed. *)
LEMMA LandingStep ==
    ASSUME TypeOK, Next, NEW c \in Commands, Lands(c)
    PROVE  Land(c)
<1>1. PICK d \in Commands : Step(d)
    BY DEF Next, OthersEdit, Lands
<1>2. ASSUME NEW e \in Commands, put' = [put EXCEPT ![e] = "flying"] \/ put' = [put EXCEPT ![e] = "lost"]
                                \/ put' = [put EXCEPT ![e] = "demoted"] \/ put' = put
      PROVE  FALSE
    BY <1>2 DEF Lands, TypeOK
<1>3. Land(d)
    BY <1>1, <1>2 DEF Step, Start, Agree, Decline, Preview, Read, ReadFails, Send, Answered, Fails,
                     Demoted, Lose
<1>4. d = c
    BY <1>3 DEF Land, Lands, TypeOK
<1> QED
    BY <1>3, <1>4

(* A PUT that lands on what its command read changes the named fields only. *)
THEOREM OthersKept == Spec => OnlyNamedFieldsChange
<1>1. Inv /\ [Next]_vars =>
          [\A c \in Commands :
              Lands(c) /\ zone = base[c] =>
                  \A f \in Fields : \/ asked[c][f] = zone'[f]
                                    \/ asked[c][f] = Keep /\ zone'[f] = zone[f]]_vars
    <2> SUFFICES ASSUME Inv, Next, NEW c \in Commands, Lands(c), zone = base[c], NEW f \in Fields
                 PROVE  \/ asked[c][f] = zone'[f]
                        \/ asked[c][f] = Keep /\ zone'[f] = zone[f]
        OBVIOUS
    <2>1. Land(c)
        BY LandingStep DEF Inv
    <2>2. zone' = [g \in Fields |-> IF asked[c][g] = Keep THEN zone[g] ELSE asked[c][g]]
        BY <2>1 DEF Land, Sent, Merge
    <2> QED
        BY <2>2
<1> QED
    BY <1>1, Invariance, PTL DEF Spec, OnlyNamedFieldsChange

-----------------------------------------------------------------------------
(* The PUT as a call *)

LEMMA StatusOfCommand ==
    ASSUME NEW c \in Commands
    PROVE  /\ put[c] = "none" => Status[c] = "idle"
           /\ put[c] # "none" /\ outcome[c] = "ok" => Status[c] = "ok"
           /\ put[c] # "none" /\ outcome[c] = "failed" => Status[c] = "failed"
           /\ put[c] # "none" /\ outcome[c] \notin {"ok", "failed"} => Status[c] = "running"
           /\ Effects[c] = IF put[c] = "landed" THEN 1 ELSE 0
BY DEF Status, Effects

LEMMA StatusOfCommandNext ==
    ASSUME NEW c \in Commands
    PROVE  /\ put'[c] = "none" => Status'[c] = "idle"
           /\ put'[c] # "none" /\ outcome'[c] = "ok" => Status'[c] = "ok"
           /\ put'[c] # "none" /\ outcome'[c] = "failed" => Status'[c] = "failed"
           /\ put'[c] # "none" /\ outcome'[c] \notin {"ok", "failed"} => Status'[c] = "running"
           /\ Effects'[c] = IF put'[c] = "landed" THEN 1 ELSE 0
BY DEF Status, Effects

(* What a step of a command is for its PUT. *)
Unsent(c)  == put[c] = "none" /\ put'[c] = "none"
Begins(c)  == put[c] = "none" /\ put'[c] = "flying" /\ outcome'[c] = "none"
Answers(c) ==
    /\ put[c] # "none" /\ outcome[c] = "none"
    /\ outcome'[c] \in {"ok", "failed"}
    /\ put'[c] = put[c] \/ <<put[c], put'[c]>> = <<"flying", "demoted">>
Loses(c)   == put[c] = "flying" /\ put'[c] = "lost" /\ outcome'[c] = outcome[c]
Arrives(c) == put[c] = "flying" /\ put'[c] = "landed" /\ outcome'[c] = outcome[c]

LEMMA KindOfStep ==
    ASSUME Inv, NEW c \in Commands, Step(c)
    PROVE  Unsent(c) \/ Begins(c) \/ Answers(c) \/ Loses(c) \/ Arrives(c)
<1> USE DEF Unsent, Begins, Answers, Loses, Arrives, Inv, TypeOK, Control
<1>1. ASSUME NEW request \in Requests, Start(c, request) PROVE Unsent(c)
    BY <1>1 DEF Start
<1>2. CASE Agree(c)
    BY <1>2 DEF Agree
<1>3. CASE Decline(c)
    BY <1>3 DEF Decline
<1>4. CASE Preview(c)
    BY <1>4 DEF Preview
<1>5. CASE Read(c)
    BY <1>5 DEF Read
<1>6. CASE ReadFails(c)
    BY <1>6 DEF ReadFails
<1>7. CASE Send(c)
    BY <1>7 DEF Send
<1>8. CASE Answered(c)
    BY <1>8 DEF Answered, Ends
<1>9. CASE Fails(c)
    BY <1>9 DEF Fails, Ends
<1>10. CASE Demoted(c)
    BY <1>10 DEF Demoted, Ends
<1>11. CASE Land(c)
    BY <1>11 DEF Land
<1>12. CASE Lose(c)
    BY <1>12 DEF Lose
<1> QED
    BY <1>1, <1>2, <1>3, <1>4, <1>5, <1>6, <1>7, <1>8, <1>9, <1>10, <1>11, <1>12 DEF Step

LEMMA OthersWait ==
    ASSUME Inv, NEW c \in Commands, Step(c), NEW d \in Commands \ {c}
    PROVE  put'[d] = put[d] /\ outcome'[d] = outcome[d]
BY DEF Inv, TypeOK, Step, Start, Agree, Decline, Preview, Read, ReadFails, Send, Answered,
       Fails, Demoted, Land, Lose, Ends

LEMMA RemoteStep ==
    ASSUME Inv, NEW c \in Commands, Step(c)
    PROVE  Remote!Next \/ UNCHANGED Remote!vars
<1>1. ASSUME NEW d \in Commands \ {c}
      PROVE  Status'[d] = Status[d] /\ Effects'[d] = Effects[d]
    <2>1. put'[d] = put[d] /\ outcome'[d] = outcome[d]
        BY OthersWait
    <2> QED
        BY <2>1, StatusOfCommand, StatusOfCommandNext
<1>2. \A f : /\ Status'[c] = f => Status' = [Status EXCEPT ![c] = f]
             /\ Effects'[c] = f => Effects' = [Effects EXCEPT ![c] = f]
    <2>1. \A d \in Commands : d # c => Status'[d] = Status[d] /\ Effects'[d] = Effects[d]
        BY <1>1
    <2>2. /\ Status = [d \in Commands |-> Status[d]] /\ Status' = [d \in Commands |-> Status'[d]]
          /\ Effects = [d \in Commands |-> Effects[d]]
          /\ Effects' = [d \in Commands |-> Effects'[d]]
        BY DEF Status, Effects
    <2> HIDE DEF Status, Effects
    <2> QED
        BY <2>1, <2>2
<1>3. /\ Status'[c] = Status[c] => Status' = Status
      /\ Effects'[c] = Effects[c] => Effects' = Effects
    <2>1. /\ Status = [d \in Commands |-> Status[d]]
          /\ Effects = [d \in Commands |-> Effects[d]]
        BY DEF Status, Effects
    <2>2. /\ [Status EXCEPT ![c] = Status[c]] = Status
          /\ [Effects EXCEPT ![c] = Effects[c]] = Effects
        <3> HIDE DEF Status, Effects
        <3> QED
            BY <2>1
    <2> HIDE DEF Status, Effects
    <2> QED
        BY <1>2, <2>2
<1>4. CASE Unsent(c) \/ Loses(c)
    <2>1. Status'[c] = Status[c] /\ Effects'[c] = Effects[c]
        BY <1>4, StatusOfCommand, StatusOfCommandNext DEF Unsent, Loses
    <2> QED
        BY <1>3, <2>1 DEF Remote!vars
<1>5. CASE Begins(c)
    <2>1. Status[c] = "idle" /\ Status'[c] = "running" /\ Effects'[c] = Effects[c]
        BY <1>5, StatusOfCommand, StatusOfCommandNext DEF Begins
    <2>2. Remote!Begin(c)
        BY <1>2, <1>3, <2>1 DEF Remote!Begin
    <2> QED
        BY <2>2 DEF Remote!Next
<1>6. CASE Answers(c)
    <2>1. Status[c] = "running" /\ Status'[c] \in {"ok", "failed"} /\ Effects'[c] = Effects[c]
        BY <1>6, StatusOfCommand, StatusOfCommandNext DEF Answers
    <2>2. Remote!Finish(c)
        BY <1>2, <1>3, <2>1 DEF Remote!Finish
    <2> QED
        BY <2>2 DEF Remote!Next
<1>7. CASE Arrives(c)
    <2>1. Status[c] # "idle" /\ Status'[c] = Status[c] /\ Effects[c] = 0 /\ Effects'[c] = 1
        BY <1>7, StatusOfCommand, StatusOfCommandNext DEF Arrives
    <2>2. Remote!TakeEffect(c)
        BY <1>2, <1>3, <2>1 DEF Remote!TakeEffect
    <2> QED
        BY <2>2 DEF Remote!Next
<1> QED
    BY <1>4, <1>5, <1>6, <1>7, KindOfStep

(* The PUT of "computezone update" is one call of the kind the pipeline     *)
(* below it carries out, and asks no more of it.                            *)
THEOREM PutIsRemoteCall == Spec => PutIsOneRemoteCall
<1>1. Init => Remote!Init
    BY DEF Init, Remote!Init, Status, Effects
<1>2. Inv /\ [Next]_vars => [Remote!Next]_(Remote!vars)
    <2> SUFFICES ASSUME Inv, [Next]_vars PROVE Remote!Next \/ UNCHANGED Remote!vars
        OBVIOUS
    <2>1. ASSUME NEW c \in Commands, Step(c) PROVE Remote!Next \/ UNCHANGED Remote!vars
        BY <2>1, RemoteStep
    <2>2. ASSUME NEW document \in Documents, OthersEdit(document)
          PROVE  UNCHANGED Remote!vars
        BY <2>2 DEF OthersEdit, Remote!vars, Status, Effects
    <2>3. CASE UNCHANGED vars
        BY <2>3 DEF vars, Remote!vars, Status, Effects
    <2> QED
        BY <2>1, <2>2, <2>3 DEF Next
<1> QED
    BY <1>1, <1>2, Invariance, PTL DEF Spec, PutIsOneRemoteCall, Remote!Spec
=============================================================================
