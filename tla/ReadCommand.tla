---------------------------- MODULE ReadCommand ----------------------------
(***************************************************************************)
(* One command that reads the fleet, or sets a node's tags, from its flags *)
(* to its output: the flags are judged (ReadOptions), the credentials are  *)
(* resolved (Resolution), the API is asked, one request or two at once,    *)
(* and what the answers allow is printed or written.                       *)
(*                                                                         *)
(* One answer stands for a call with its retries and time limit (ApiCall)  *)
(* and for a walk over pages (Listing).                                    *)
(***************************************************************************)
EXTENDS ReadOptions, Resolution

CONSTANTS Files, Environments   \* what a command may find when it looks

ASSUME FilesAssumption ==
    /\ Files \subseteq Config \cup {Unreadable}
    /\ Environments \subseteq Environment

VARIABLES
    phase,     \* how far the command is
    call,      \* what the user typed, --profile apart
    named,     \* --profile
    found,     \* the file and the environment, as they were read
    client,    \* the endpoint and the key of the client
    agreed,    \* the user agreed to the tags being replaced
    answers,   \* what came back, for each request that is out
    outcome,   \* how the command ended
    shown,     \* the sources whose answers the output has
    bundle     \* the file of a signed report

vars == <<phase, call, named, found, client, agreed, answers, outcome, shown, bundle>>

Phases == {"flags", "client", "confirm", "call", "wait", "write", "done"}
Answers == {"pending", "ok", "bare", "notFound", "error"}
Outcomes == {"none", "refused", "noClient", "declined", "refusedLate", "previewed",
             "failed", "printed", "written"}
Unseen == [file |-> Unreadable, env |-> [url |-> NoURL, key |-> NoKey]]

TypeOK ==
    /\ phase \in Phases
    /\ call \in Invocations
    /\ named \in Names \cup {NoName}
    /\ found \in [file : Config \cup {Unreadable}, env : Environment]
    /\ client \in [url : URLs \ InsecureURLs, key : Keys] \cup {NoClient}
    /\ agreed \in BOOLEAN
    /\ answers \in {<<>>} \cup [Requests(call) -> Answers]
    /\ outcome \in Outcomes
    /\ shown \subseteq DOMAIN answers
    /\ bundle \in {"old", "partial", "whole"}

Init ==
    /\ phase = "flags"
    /\ call \in Invocations
    /\ named \in Names \cup {NoName}
    /\ found = Unseen
    /\ client = NoClient
    /\ agreed = FALSE
    /\ answers = <<>>
    /\ outcome = "none"
    /\ shown = {}
    /\ bundle = "old"

Has(flag) == flag \in call.flags

End(how) == phase' = "done" /\ outcome' = how

-----------------------------------------------------------------------------
(* Before anything is sent *)

RefuseFlags ==
    /\ phase = "flags" /\ ~CommandTakes(call)
    /\ End("refused")
    /\ UNCHANGED <<call, named, found, client, agreed, answers, shown, bundle>>

TakeFlags ==
    /\ phase = "flags" /\ CommandTakes(call)
    /\ phase' = "client"
    /\ UNCHANGED <<call, named, found, client, agreed, answers, outcome, shown, bundle>>

(* Whether tag set asks. *)
Asks == call.command = "tagSet" /\ ~Has("dry-run") /\ ~Has("yes")

(* The file and the environment are read once, when the flags are in order. *)
BuildClient ==
    /\ phase = "client"
    /\ \E file \in Files, env \in Environments :
        LET built == NewClient(Resolve(file, named, env))
        IN  /\ found' = [file |-> file, env |-> env]
            /\ client' = built
            /\ IF built = NoClient THEN End("noClient")
               ELSE /\ phase' = IF Asks THEN "confirm" ELSE "call"
                    /\ UNCHANGED outcome
    /\ UNCHANGED <<call, named, agreed, answers, shown, bundle>>

Agree ==
    /\ phase = "confirm"
    /\ phase' = "call" /\ agreed' = TRUE
    /\ UNCHANGED <<call, named, found, client, answers, outcome, shown, bundle>>

Decline ==
    /\ phase = "confirm"
    /\ End("declined")
    /\ UNCHANGED <<call, named, found, client, agreed, answers, shown, bundle>>

(* The SDK judges the options again before it sends anything. *)
SdkRefuses ==
    /\ phase = "call" /\ ~SdkTakes(call)
    /\ End("refusedLate")
    /\ UNCHANGED <<call, named, found, client, agreed, answers, shown, bundle>>

Preview ==
    /\ phase = "call" /\ SdkTakes(call)
    /\ call.command = "tagSet" /\ Has("dry-run")
    /\ End("previewed")
    /\ UNCHANGED <<call, named, found, client, agreed, answers, shown, bundle>>

(* Mutant: a dry run is sent like any other. *)
SendAnything ==
    /\ phase = "call" /\ SdkTakes(call)
    /\ phase' = "wait"
    /\ answers' = [s \in Requests(call) |-> "pending"]
    /\ UNCHANGED <<call, named, found, client, agreed, outcome, shown, bundle>>

Send ==
    /\ phase = "call" /\ SdkTakes(call)
    /\ ~(call.command = "tagSet" /\ Has("dry-run"))
    /\ phase' = "wait"
    /\ answers' = [s \in Requests(call) |-> "pending"]
    /\ UNCHANGED <<call, named, found, client, agreed, outcome, shown, bundle>>

-----------------------------------------------------------------------------
(* The answers, in any order *)

(* Only a node's out-of-band view may come without its inventory ("bare"). *)
Answered(s) ==
    /\ phase = "wait" /\ answers[s] = "pending"
    /\ \E a \in Answers \ {"pending"} :
        /\ a = "bare" => call.command = "nodeDescribe" /\ s = "oob"
        /\ answers' = [answers EXCEPT ![s] = a]
    /\ UNCHANGED <<phase, call, named, found, client, agreed, outcome, shown, bundle>>

AllIn == phase = "wait" /\ \A s \in DOMAIN answers : answers[s] # "pending"

Arrived == {s \in DOMAIN answers : answers[s] \in {"ok", "bare"}}

(* Mutant: any view of the node will do. *)
AnyArrived == Arrived # {}

(* describe with both views takes a 404 for an answer, unless it is the     *)
(* only one there is; everything else needs every answer.                   *)
Enough ==
    IF call.command = "nodeDescribe" /\ call.source = ""
    THEN /\ Arrived # {}
         /\ \A s \in DOMAIN answers : answers[s] # "error"
    ELSE Arrived = DOMAIN answers

(* A table of sections has nothing to show without the inventory. *)
SectionMissing ==
    Has("section systems") /\ ("oob" \notin Arrived \/ answers["oob"] = "bare")

Fail ==
    /\ AllIn /\ (~Enough \/ SectionMissing)
    /\ End("failed")
    /\ UNCHANGED <<call, named, found, client, agreed, answers, shown, bundle>>

(* An answer to a request that names no source is read as an in-band one;   *)
(* the basic view of node list has both in one.                             *)
Show ==
    /\ AllIn /\ Enough /\ ~SectionMissing /\ ~Has("signed")
    /\ shown' = IF Has("section systems") THEN {"oob"} ELSE Arrived
    /\ End("printed")
    /\ UNCHANGED <<call, named, found, client, agreed, answers, bundle>>

(* os.WriteFile empties the file of that name first. *)
OpenBundle ==
    /\ AllIn /\ Enough /\ Has("signed")
    /\ phase' = "write" /\ bundle' = "partial"
    /\ UNCHANGED <<call, named, found, client, agreed, answers, outcome, shown>>

WriteBundleFails ==
    /\ phase = "write"
    /\ End("failed")
    /\ UNCHANGED <<call, named, found, client, agreed, answers, shown, bundle>>

WriteBundle ==
    /\ phase = "write"
    /\ bundle' = "whole" /\ shown' = Arrived
    /\ End("written")
    /\ UNCHANGED <<call, named, found, client, agreed, answers>>

Next ==
    \/ RefuseFlags \/ TakeFlags \/ BuildClient
    \/ Agree \/ Decline
    \/ SdkRefuses \/ Preview \/ Send
    \/ \E s \in DOMAIN answers : Answered(s)
    \/ Fail \/ Show
    \/ OpenBundle \/ WriteBundleFails \/ WriteBundle

Spec == Init /\ [][Next]_vars

-----------------------------------------------------------------------------
(* Properties *)

(* No flag is dropped without a word: when a command succeeds, each of its   *)
(* flags went into the request or was acted on, whatever it was combined     *)
(* with.  The one exception the code has is --all beside --signed: a bundle  *)
(* is fetched once (runReportInventory), and inventoryReportOptions refuses  *)
(* the page flags for unsigned CSV only.                                     *)
NoFlagDropped ==
    outcome \in {"previewed", "printed", "written"}
        => call.flags \subseteq Carried(call) \cup ActedOn(call)
                                \cup (IF Has("signed") THEN {"all"} ELSE {})

(* The rules of the commands and those of the SDK, written apart, agree: what *)
(* a command takes is not refused after the credentials were resolved and the *)
(* user was asked.  Only the tags of tag set are judged by the SDK alone.     *)
NoLateRefusal == outcome = "refusedLate" => call.command = "tagSet" /\ Has("bad tag")

(* A command that succeeds leaves nothing out by accident: where both views   *)
(* of the nodes are the default, a view is missing only when the backend said *)
(* there is none (describe) or sections of the other were asked for; a bundle *)
(* that is reported is whole.  node list with an empty --view is the          *)
(* exception: the SDK takes it for the detail view, runNodeList for the basic *)
(* one, and the answer to the only request is shown as the in-band view.      *)
ReportsComplete ==
    /\ /\ outcome = "printed" /\ call.source = "" /\ BothByDefault(call)
       /\ ~(call.command = "nodeList" /\ call.view = "")
       => \A s \in {"inband", "oob"} \ shown :
             \/ call.command = "nodeDescribe" /\ answers[s] = "notFound"
             \/ s = "inband" /\ Has("section systems")
    /\ outcome = "written" => bundle = "whole"

(* No tenant's key meets another tenant's endpoint: a named profile is used   *)
(* with its own endpoint, whatever the environment holds; otherwise a key or  *)
(* an endpoint that is not the selected profile's is the environment's own or *)
(* the production endpoint, and a stored key leaves its endpoint only for one *)
(* the environment names.                                                     *)
KeysMeetTheirEndpoint ==
    LET Owned(n) == FillURL(found.file.profiles[n])
        selected == found.file # Unreadable /\ HasCurrentProfile(found.file)
    IN  client # NoClient =>
            /\ named # NoName => found.file # Unreadable /\ client = Owned(named)
            /\ named = NoName =>
                  \/ client.key = found.env.key
                     /\ \/ client.url \in {found.env.url, DefaultURL}
                        \/ selected /\ client.url = Owned(found.file.current).url
                  \/ /\ selected /\ client.key = Owned(found.file.current).key
                     /\ client.url \in {found.env.url, Owned(found.file.current).url}

(* A node's tags are replaced only with the user's agreement or --yes, and    *)
(* never by a dry run.                                                        *)
TagsReplacedWhenAgreed ==
    call.command = "tagSet" /\ answers # <<>> => (agreed \/ Has("yes")) /\ ~Has("dry-run")
=============================================================================
