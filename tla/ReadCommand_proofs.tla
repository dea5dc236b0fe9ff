------------------------- MODULE ReadCommand_proofs -------------------------
(* What holds of a command that reads, whatever the files, the environments *)
(* and the number of flags.                                                 *)
EXTENDS ReadCommand, FiniteSetTheorems, TLAPS

-----------------------------------------------------------------------------
(* Flags *)

LEMMA FlagsOfItsCommand ==
    ASSUME NEW i \in Invocations
    PROVE  /\ i.command \in DOMAIN Flags
           /\ i.flags \subseteq Flags[i.command]
           /\ i.view \in Views(i.command)
           /\ i.source \in Sources(i.command)
           /\ "bad tag" \in i.flags => "tags" \in i.flags
<1>1. PICK c \in DOMAIN Flags :
          i \in [command : {c}, view : Views(c), source : Sources(c),
                 group : Groupings(c), output : Outputs,
                 flags : {f \in UNION {kSubset(k, Flags[c]) : k \in 0 .. MaxFlags} :
                             /\ "bad tag" \in f => "tags" \in f
                             /\ ~({"range", "start"} \subseteq f)}]
    BY DEF Invocations
<1>2. \A k \in 0 .. MaxFlags : \A f \in kSubset(k, Flags[c]) : f \subseteq Flags[c]
    BY DEF kSubset
<1> QED
    BY <1>1, <1>2

(* The commands and their flags, so that the rest need not unfold Flags. *)
LEMMA DomainOfFlags ==
    DOMAIN Flags = {"nodeList", "nodeDescribe", "nodeGroupList", "inventory", "errorReport",
                    "eventList", "eventBuckets", "xidList", "xidOptions", "nodeHealth",
                    "alertList", "alertSummary", "alertNode", "alertDescribe",
                    "nodeOptions", "zoneList", "overview", "tagList", "tagSet"}
BY DEF Flags

(* One field of Flags at a time. *)
LEMMA FlagsByCommand ==
    /\ Flags["nodeList"] = NodeListFlags
    /\ Flags["nodeDescribe"] = NodeDescribeFlags
    /\ Flags["nodeGroupList"] = NodeGroupListFlags
    /\ Flags["eventList"] = EventFilterFlags \cup PageFlags
    /\ Flags["eventBuckets"] = EventFilterFlags \cup {"max-buckets"}
    /\ Flags["xidList"] = XidListFlags
    /\ Flags["xidOptions"] = XidOptionsFlags
    /\ Flags["alertSummary"] = AlertSummaryFlags
    /\ Flags["alertList"] = AlertListFlags
    /\ Flags["alertNode"] = AlertNodeFlags
    /\ Flags["zoneList"] = ZoneListFlags
BY DEF Flags

(* One time flag of three, told without counting. *)
LEMMA OneTimeRange ==
    ASSUME NEW i, TimeRangeValid(i)
    PROVE  /\ SdkTimeRange(i)
           /\ ~Together(i, {"window", "range"})
<1>1. IsFiniteSet(TimeFlags)
    <2>1. IsFiniteSet({}) /\ IsFiniteSet({"window"})
        BY FS_EmptySet, FS_Singleton
    <2>2. IsFiniteSet({"window"} \cup {"range"}) /\ IsFiniteSet({"window"} \cup {"range"} \cup {"start"})
        BY <2>1, FS_AddElement
    <2> QED
        BY <2>2 DEF TimeFlags
<1>2. IsFiniteSet(i.flags \cap TimeFlags)
    BY <1>1, FS_Subset
<1>3. PICK x : i.flags \cap TimeFlags = {x}
    BY <1>2, FS_Singleton DEF TimeRangeValid
<1> QED
    BY <1>3 DEF TimeRangeValid, SdkTimeRange, Given, Together, TimeFlags

(* What a command takes the SDK takes, bad tags apart. *)
LEMMA RulesAgree ==
    ASSUME NEW i \in Invocations, CommandTakes(i), ~SdkTakes(i)
    PROVE  i.command = "tagSet" /\ "bad tag" \in i.flags
<1>1. i.command \in DOMAIN Flags
    BY FlagsOfItsCommand
<1>2. CASE i.command = "nodeList"
    BY <1>2 DEF CommandTakes, SdkTakes, NodeListTakes
<1>3. CASE i.command = "nodeGroupList"
    BY <1>3 DEF CommandTakes, SdkTakes, NodeGroupListTakes
<1>4. CASE i.command = "inventory"
    BY <1>4 DEF CommandTakes, SdkTakes, InventoryTakes, SdkInventory
<1>5. CASE i.command = "errorReport"
    <2>1. ErrorReportTakes(i)
        BY <1>5 DEF CommandTakes
    <2>2. "start" \notin i.flags /\ ~Together(i, {"window", "range"})
        BY <2>1, OneTimeRange DEF ErrorReportTakes, TimeRangeValid
    <2>3. SdkErrorReport(i)
        BY <2>1, <2>2 DEF ErrorReportTakes, SdkErrorReport
    <2> QED
        BY <1>5, <2>3 DEF SdkTakes
<1>6. CASE i.command \in {"eventList", "eventBuckets"}
    <2>1. EventBucketsTakes(i)
        BY <1>6 DEF CommandTakes, EventListTakes
    <2>2. SdkEvents(i)
        BY <2>1, OneTimeRange DEF EventBucketsTakes, SdkEvents
    <2> QED
        BY <1>6, <2>2 DEF SdkTakes
<1>7. CASE i.command = "xidList"
    BY <1>7, OneTimeRange DEF CommandTakes, SdkTakes, XidListTakes, SdkXidList
<1>8. CASE i.command = "xidOptions"
    BY <1>8, OneTimeRange DEF CommandTakes, SdkTakes, XidOptionsTakes, SdkXidOptions
<1>9. CASE i.command \in {"nodeHealth", "alertDescribe"}
    BY <1>9 DEF CommandTakes, SdkTakes, NodeHealthTakes, SdkNodeHealth,
                AlertDescribeTakes, SdkAlertDescribe
<1>10. CASE i.command \in {"zoneList", "tagList"}
    BY <1>10 DEF CommandTakes, SdkTakes, ZoneListTakes, TagFiltersValid, SdkTagList
<1>11. CASE i.command = "tagSet"
    BY <1>11 DEF SdkTakes, SdkTagSet
<1>12. CASE i.command \in {"nodeDescribe", "nodeOptions", "overview",
                           "alertList", "alertSummary", "alertNode"}
    BY <1>12 DEF SdkTakes
<1> QED
    BY <1>1, <1>2, <1>3, <1>4, <1>5, <1>6, <1>7, <1>8, <1>9, <1>10, <1>11, <1>12, DomainOfFlags

(* What a command takes goes into its request or is acted on, --all beside  *)
(* --signed apart.                                                          *)
LEMMA AllWalks ==
    ASSUME NEW i, "all" \in i.flags, "csv" \notin i.flags, "signed" \notin i.flags
    PROVE  "all" \in ActedOn(i)
BY DEF ActedOn, WalksPages, Given

LEMMA FlagsAccountedFor ==
    ASSUME NEW i \in Invocations, CommandTakes(i), NEW f \in i.flags
    PROVE  \/ f \in Carried(i) \cup ActedOn(i)
           \/ "signed" \in i.flags /\ f = "all"
<1>1. SUFFICES ASSUME f \notin Carried(i), ~("signed" \in i.flags /\ f = "all")
               PROVE  f \in ActedOn(i)
    OBVIOUS
<1>2. /\ i.command \in DOMAIN Flags
      /\ f \in Flags[i.command]
      /\ i.flags \subseteq Flags[i.command]
      /\ "bad tag" \in i.flags => "tags" \in i.flags
    BY FlagsOfItsCommand
<1>3. CASE i.command = "nodeList"
    <2>1. i.flags \subseteq NodeListFlags /\ NodeListTakes(i) /\ f \notin NodeListSends(i)
        BY <1>1, <1>2, <1>3, FlagsByCommand DEF Carried, CommandTakes
    <2>2. f = "all"
        BY <2>1 DEF NodeListSends, NodeListTakes, NodeOptionsValid, Given
    <2> QED
        BY <2>1, <2>2, AllWalks DEF NodeListFlags, PageFlags
<1>4. CASE i.command = "nodeDescribe"
    <2>1. f \in NodeDescribeFlags /\ NodeDescribeTakes(i)
        BY <1>2, <1>4, FlagsByCommand DEF CommandTakes
    <2> QED
        BY <2>1 DEF NodeDescribeTakes, NodeDescribeFlags, ActedOn, Given
<1>5. CASE i.command = "nodeGroupList"
    <2>1. /\ i.flags \subseteq NodeGroupListFlags
          /\ NodeGroupListTakes(i) /\ f \notin NodeGroupListSends(i)
        BY <1>1, <1>2, <1>5, FlagsByCommand DEF Carried, CommandTakes
    <2>2. f = "all"
        BY <2>1 DEF NodeGroupListSends, NodeGroupListTakes, NodeGroupOptionsValid, Given
    <2> QED
        BY <2>1, <2>2, AllWalks DEF NodeGroupListFlags, PageFlags
<1>6. CASE i.command = "inventory"
    <2>1. f \in {"all", "output-path"} /\ InventoryTakes(i)
        BY <1>1, <1>6 DEF Carried, CommandTakes, InventorySends
    <2>2. CASE f = "all"
        BY <1>1, <2>1, <2>2, AllWalks DEF InventoryTakes, Given, PageFlags
    <2>3. CASE f = "output-path"
        BY <2>1, <2>3 DEF InventoryTakes, ActedOn
    <2> QED
        BY <2>1, <2>2, <2>3
<1>7. CASE i.command = "errorReport"
    <2>1. f = "all" /\ ErrorReportTakes(i)
        BY <1>1, <1>7 DEF Carried, CommandTakes, ErrorReportSends
    <2> QED
        BY <1>1, <2>1, AllWalks DEF ErrorReportTakes, Given, PageFlags
<1>8. CASE i.command \in {"eventList", "eventBuckets", "xidList", "xidOptions", "alertSummary"}
    <2>1. "csv" \notin i.flags /\ "signed" \notin i.flags
        <3>1. CASE i.command = "eventList"
            <4>1. i.flags \subseteq EventFilterFlags \cup PageFlags
                BY <1>2, <3>1, FlagsByCommand
            <4> QED
                BY <4>1 DEF EventFilterFlags, NameFlags, TimeFlags, PageFlags
        <3>2. CASE i.command = "eventBuckets"
            <4>1. i.flags \subseteq EventFilterFlags \cup {"max-buckets"}
                BY <1>2, <3>2, FlagsByCommand
            <4> QED
                BY <4>1 DEF EventFilterFlags, NameFlags, TimeFlags
        <3>3. CASE i.command = "xidList"
            <4>1. i.flags \subseteq XidListFlags
                BY <1>2, <3>3, FlagsByCommand
            <4> QED
                BY <4>1 DEF XidListFlags, NameFlags, TimeFlags, PageFlags
        <3>4. CASE i.command = "xidOptions"
            <4>1. i.flags \subseteq XidOptionsFlags
                BY <1>2, <3>4, FlagsByCommand
            <4> QED
                BY <4>1 DEF XidOptionsFlags, TimeFlags
        <3>5. CASE i.command = "alertSummary"
            <4>1. i.flags \subseteq AlertSummaryFlags
                BY <1>2, <3>5, FlagsByCommand
            <4> QED
                BY <4>1 DEF AlertSummaryFlags, NameFlags, PageFlags
        <3> QED
            BY <1>8, <3>1, <3>2, <3>3, <3>4, <3>5
    <2>2. InPlaceOfRange(i) \cap i.flags = {} \/ ~TimeRangeValid(i)
        BY OneTimeRange DEF InPlaceOfRange, Together, TimeRangeValid
    <2>3. Given(i, TimeFlags) => InPlaceOfRange(i) \cap i.flags = {}
        <3>1. CASE i.command = "alertSummary"
            BY <1>2, <3>1, FlagsByCommand DEF InPlaceOfRange, AlertSummaryFlags, NameFlags, PageFlags
        <3>2. CASE i.command # "alertSummary"
            BY <1>8, <2>2, <3>2 DEF CommandTakes, EventListTakes, EventBucketsTakes,
                                    XidListTakes, XidOptionsTakes
        <3> QED
            BY <3>1, <3>2
    <2>4. InPlaceOfRange(i) \cap i.flags = {}
        BY <2>3 DEF InPlaceOfRange, Given, TimeFlags
    <2>5. i.command # "xidOptions" => InPlaceOfName(i) = {}
        BY <1>8 DEF CommandTakes, EventListTakes, EventBucketsTakes, XidListTakes,
                    AlertSummaryTakes, OneNameFlag, InPlaceOfName
    <2>6. f = "all"
        BY <1>1, <1>8, <2>4, <2>5 DEF Carried, EventListSends, EventBucketsSends,
                    XidListSends, XidOptionsSends, AlertSummarySends
    <2> QED
        BY <2>1, <2>6, AllWalks
<1>9. CASE i.command \in {"alertList", "alertNode", "zoneList"}
    <2>1. "csv" \notin i.flags /\ "signed" \notin i.flags
        <3>1. CASE i.command = "alertList"
            <4>1. i.flags \subseteq AlertListFlags
                BY <1>2, <3>1, FlagsByCommand
            <4> QED
                BY <4>1 DEF AlertListFlags, PageFlags
        <3>2. CASE i.command = "alertNode"
            <4>1. i.flags \subseteq AlertNodeFlags
                BY <1>2, <3>2, FlagsByCommand
            <4> QED
                BY <4>1 DEF AlertNodeFlags, PageFlags
        <3>3. CASE i.command = "zoneList"
            <4>1. i.flags \subseteq ZoneListFlags
                BY <1>2, <3>3, FlagsByCommand
            <4> QED
                BY <4>1 DEF ZoneListFlags, PageFlags
        <3> QED
            BY <1>9, <3>1, <3>2, <3>3
    <2>2. f = "all"
        BY <1>1, <1>9 DEF Carried, AlertListSends, AlertNodeSends, ZoneListSends
    <2> QED
        BY <2>1, <2>2, AllWalks
<1>10. CASE i.command = "tagSet"
    BY <1>1, <1>10 DEF Carried, TagSetSends, ActedOn
<1>11. CASE i.command \in {"nodeHealth", "alertDescribe", "nodeOptions", "overview", "tagList"}
    BY <1>1, <1>11 DEF Carried
<1> QED
    BY <1>2, <1>3, <1>4, <1>5, <1>6, <1>7, <1>8, <1>9, <1>10, <1>11, DomainOfFlags
-----------------------------------------------------------------------------
(* Clients *)

(* What is resolved is an endpoint and, where there is one, a key. *)
LEMMA ResolvedType ==
    ASSUME NEW file \in Config \cup {Unreadable}, NEW name \in Names \cup {NoName},
           NEW env \in Environment
    PROVE  Resolve(file, name, env) \in [url : URLs, key : Keys \cup {NoKey}] \cup {NoClient}
<1>1. \A p \in Profile : FillURL(p) \in [url : URLs, key : Keys \cup {NoKey}]
    BY ProfilesAssumption DEF FillURL, Profile
<1>2. \A cfg \in Config : \A n \in Stored(cfg) : cfg.profiles[n] \in Profile
    BY DEF Config, Stored
<1>3. EmptyConfig \in Config
    BY DEF EmptyConfig, Config
<1>4. ASSUME NEW cfg \in Config, NEW n \in Names \cup {NoName}
      PROVE  ResolveIn(cfg, n, env) \in [url : URLs, key : Keys \cup {NoKey}] \cup {NoClient}
    <2> DEFINE base == IF HasCurrentProfile(cfg) THEN FillURL(cfg.profiles[cfg.current])
                       ELSE [url |-> DefaultURL, key |-> NoKey]
    <2>1. base \in [url : URLs, key : Keys \cup {NoKey}]
        BY <1>1, <1>2, ProfilesAssumption DEF HasCurrentProfile
    <2>2. CASE n # NoName
        BY <1>1, <1>2, <2>2 DEF ResolveIn
    <2>3. CASE n = NoName
        <3> HIDE DEF base
        <3>1. ResolveIn(cfg, n, env) =
                  [url |-> IF env.url # NoURL THEN env.url ELSE base.url,
                   key |-> IF env.key # NoKey THEN env.key ELSE base.key]
            BY <2>3 DEF ResolveIn, base
        <3> QED
            BY <2>1, <3>1 DEF Environment, Profile
    <2> QED
        BY <2>2, <2>3
<1> QED
    BY <1>3, <1>4 DEF Resolve

LEMMA ClientType ==
    ASSUME NEW file \in Config \cup {Unreadable}, NEW name \in Names \cup {NoName},
           NEW env \in Environment
    PROVE  NewClient(Resolve(file, name, env))
               \in [url : URLs \ InsecureURLs, key : Keys] \cup {NoClient}
BY ResolvedType DEF NewClient

(* The key and the endpoint that are resolved belong together. *)
LEMMA ResolvedPair ==
    ASSUME NEW file \in Config \cup {Unreadable}, NEW name \in Names \cup {NoName},
           NEW env \in Environment,
           NEW c, c = NewClient(Resolve(file, name, env)), c # NoClient
    PROVE  /\ name # NoName => file # Unreadable /\ c = FillURL(file.profiles[name])
           /\ name = NoName =>
                \/ /\ c.key = env.key
                   /\ \/ c.url \in {env.url, DefaultURL}
                      \/ /\ file # Unreadable /\ HasCurrentProfile(file)
                         /\ c.url = FillURL(file.profiles[file.current]).url
                \/ /\ file # Unreadable /\ HasCurrentProfile(file)
                   /\ c.key = FillURL(file.profiles[file.current]).key
                   /\ c.url \in {env.url, FillURL(file.profiles[file.current]).url}
<1>1. c = Resolve(file, name, env) /\ c.key # NoKey
    BY DEF NewClient
<1>2. CASE name # NoName
    BY <1>1, <1>2 DEF Resolve, ResolveIn
<1>3. CASE name = NoName /\ file = Unreadable
    <2>1. c = ResolveIn(EmptyConfig, NoName, env) /\ env.key # NoKey
        BY <1>1, <1>3 DEF Resolve
    <2>2. ~HasCurrentProfile(EmptyConfig)
        BY ProfilesAssumption DEF HasCurrentProfile, EmptyConfig, Stored
    <2> QED
        BY <1>3, <2>1, <2>2 DEF ResolveIn
<1>4. CASE name = NoName /\ file # Unreadable
    <2>1. c = ResolveIn(file, NoName, env)
        BY <1>1, <1>4 DEF Resolve
    <2>2. CASE HasCurrentProfile(file)
        BY <1>4, <2>1, <2>2 DEF ResolveIn
    <2>3. CASE ~HasCurrentProfile(file)
        BY <1>1, <1>4, <2>1, <2>3 DEF ResolveIn
    <2> QED
        BY <2>2, <2>3
<1> QED
    BY <1>2, <1>3, <1>4

-----------------------------------------------------------------------------
(* The command *)

(* Past its flags a command has been judged; it asks the backend for tags   *)
(* only when it may; it has answers to wait for; and it ends once.          *)
Control ==
    /\ phase \in {"client", "confirm", "call", "wait", "write"} => CommandTakes(call)
    /\ phase = "call" /\ call.command = "tagSet" /\ ~Has("dry-run") => agreed \/ Has("yes")
    /\ phase \in {"wait", "write"} => answers \in [Requests(call) -> Answers]
    /\ phase = "done" <=> outcome # "none"

Promises ==
    /\ NoFlagDropped
    /\ NoLateRefusal
    /\ ReportsComplete
    /\ KeysMeetTheirEndpoint
    /\ TagsReplacedWhenAgreed

Inv == TypeOK /\ Control /\ Promises

LEMMA InvInit == Init => Inv
<1> SUFFICES ASSUME Init PROVE Inv
    OBVIOUS
<1>1. TypeOK
    BY DEF Init, TypeOK, Phases, Outcomes, Unseen, Environment, Profile
<1>2. Control /\ Promises
    BY DEF Init, Control, Promises, NoFlagDropped, NoLateRefusal, ReportsComplete,
           KeysMeetTheirEndpoint, TagsReplacedWhenAgreed
<1> QED
    BY <1>1, <1>2 DEF Inv

LEMMA TypeStep == ASSUME Inv, [Next]_vars PROVE TypeOK'
<1> USE DEF Inv, TypeOK, Phases, Outcomes, End
<1>1. CASE RefuseFlags \/ TakeFlags \/ Agree \/ Decline \/ SdkRefuses \/ Preview \/ Fail
    BY <1>1 DEF RefuseFlags, TakeFlags, Agree, Decline, SdkRefuses, Preview, Fail
<1>2. CASE BuildClient
    <2>1. PICK file \in Files, env \in Environments :
              /\ found' = [file |-> file, env |-> env]
              /\ client' = NewClient(Resolve(file, named, env))
        BY <1>2 DEF BuildClient
    <2>2. file \in Config \cup {Unreadable} /\ env \in Environment
        BY <2>1, FilesAssumption
    <2>3. client' \in [url : URLs \ InsecureURLs, key : Keys] \cup {NoClient}
        BY <2>1, <2>2, ClientType
    <2>4. found' \in [file : Config \cup {Unreadable}, env : Environment]
        BY <2>1, <2>2
    <2> QED
        BY <1>2, <2>3, <2>4 DEF BuildClient
<1>3. CASE Send
    BY <1>3 DEF Send, Answers
<1>4. CASE \E s \in DOMAIN answers : Answered(s)
    <2>1. PICK s \in DOMAIN answers : Answered(s)
        BY <1>4
    <2>2. answers \in [Requests(call) -> Answers]
        BY <2>1 DEF Answered, Control
    <2> QED
        BY <2>1, <2>2 DEF Answered
<1>5. CASE Show
    BY <1>5 DEF Show, Arrived, SectionMissing
<1>6. CASE OpenBundle \/ WriteBundleFails \/ WriteBundle
    BY <1>6 DEF OpenBundle, WriteBundleFails, WriteBundle, Arrived
<1>7. CASE UNCHANGED vars
    BY <1>7 DEF vars
<1> QED
    BY <1>1, <1>2, <1>3, <1>4, <1>5, <1>6, <1>7 DEF Next

LEMMA ControlStep == ASSUME Inv, [Next]_vars PROVE Control'
<1> USE DEF Inv, Control, Has, End
<1>1. CASE RefuseFlags \/ TakeFlags \/ Agree \/ Decline \/ SdkRefuses \/ Preview \/ Fail
    BY <1>1 DEF RefuseFlags, TakeFlags, Agree, Decline, SdkRefuses, Preview, Fail
<1>2. CASE BuildClient
    <2>1. PICK file \in Files, env \in Environments :
              IF NewClient(Resolve(file, named, env)) = NoClient THEN End("noClient")
              ELSE /\ phase' = IF Asks THEN "confirm" ELSE "call"
                   /\ UNCHANGED outcome
        BY <1>2 DEF BuildClient
    <2> QED
        BY <1>2, <2>1 DEF BuildClient, Asks
<1>3. CASE Send
    <2>1. answers' \in [Requests(call) -> Answers]
        BY <1>3 DEF Send, Answers
    <2> QED
        BY <1>3, <2>1 DEF Send
<1>4. CASE \E s \in DOMAIN answers : Answered(s)
    BY <1>4 DEF Answered
<1>5. CASE Show \/ OpenBundle \/ WriteBundleFails \/ WriteBundle
    BY <1>5 DEF Show, AllIn, OpenBundle, WriteBundleFails, WriteBundle
<1>6. CASE UNCHANGED vars
    BY <1>6 DEF vars
<1> QED
    BY <1>1, <1>2, <1>3, <1>4, <1>5, <1>6 DEF Next

(* Only the three successes matter: they are judged by FlagsAccountedFor. *)
LEMMA NoFlagDroppedStep == ASSUME Inv, [Next]_vars PROVE NoFlagDropped'
<1>1. CommandTakes(call)
        => call.flags \subseteq Carried(call) \cup ActedOn(call)
                                \cup (IF Has("signed") THEN {"all"} ELSE {})
    BY FlagsAccountedFor DEF Inv, TypeOK, Has
<1>2. CASE Preview \/ Show \/ WriteBundle
    BY <1>1, <1>2 DEF Preview, Show, AllIn, WriteBundle, Inv, Control, NoFlagDropped, Has
<1>3. CASE RefuseFlags \/ Decline \/ SdkRefuses \/ Fail \/ WriteBundleFails
    BY <1>3 DEF RefuseFlags, Decline, SdkRefuses, Fail, WriteBundleFails, End, NoFlagDropped
<1>4. CASE UNCHANGED <<call, outcome>>
    BY <1>4 DEF Inv, Promises, NoFlagDropped, Has
<1>5. CASE BuildClient
    BY <1>5 DEF BuildClient, End, Inv, Control, NoFlagDropped
<1> QED
    BY <1>2, <1>3, <1>4, <1>5 DEF Next, TakeFlags, Agree, Send, Answered, OpenBundle, vars

LEMMA NoLateRefusalStep == ASSUME Inv, [Next]_vars PROVE NoLateRefusal'
<1>1. CASE SdkRefuses
    BY <1>1, RulesAgree DEF SdkRefuses, Inv, TypeOK, Control, NoLateRefusal, Has
<1>2. CASE RefuseFlags \/ Decline \/ Preview \/ Fail \/ Show \/ WriteBundleFails \/ WriteBundle
    BY <1>2 DEF RefuseFlags, Decline, Preview, Fail, Show, WriteBundleFails, WriteBundle,
                End, NoLateRefusal
<1>3. CASE UNCHANGED <<call, outcome>>
    BY <1>3 DEF Inv, Promises, NoLateRefusal, Has
<1>4. CASE BuildClient
    BY <1>4 DEF BuildClient, End, Inv, Control, NoLateRefusal
<1> QED
    BY <1>1, <1>2, <1>3, <1>4 DEF Next, TakeFlags, Agree, Send, Answered, OpenBundle, vars

(* Both requests were out, so what Show leaves out was not there. *)
LEMMA ReportsCompleteStep == ASSUME Inv, [Next]_vars PROVE ReportsComplete'
<1>1. CASE Show
    <2>1. answers \in [Requests(call) -> Answers] /\ \A s \in DOMAIN answers : answers[s] # "pending"
        BY <1>1 DEF Show, AllIn, Inv, Control
    <2> SUFFICES ASSUME call.source = "", BothByDefault(call),
                        ~(call.command = "nodeList" /\ call.view = ""),
                        NEW s \in {"inband", "oob"} \ shown'
                 PROVE  \/ call.command = "nodeDescribe" /\ answers[s] = "notFound"
                        \/ s = "inband" /\ Has("section systems")
        BY <1>1 DEF Show, End, ReportsComplete, Has
    <2>2. call \in Invocations
        BY DEF Inv, TypeOK
    <2>3. Requests(call) = {"inband", "oob"}
        <3>1. call.command = "nodeList" => call.view = "detail"
            BY <2>2, FlagsOfItsCommand DEF Views, BothByDefault
        <3> QED
            BY <3>1 DEF Requests, BothByDefault
    <2>4. CASE Has("section systems")
        BY <1>1, <2>4 DEF Show
    <2>5. CASE ~Has("section systems")
        <3>1. s \notin Arrived /\ Enough /\ DOMAIN answers = {"inband", "oob"}
            BY <1>1, <2>1, <2>3, <2>5 DEF Show
        <3> QED
            BY <2>1, <2>3, <3>1 DEF Enough, Arrived, Answers
    <2> QED
        BY <2>4, <2>5
<1>2. CASE WriteBundle
    BY <1>2 DEF WriteBundle, End, ReportsComplete
<1>3. CASE RefuseFlags \/ Decline \/ SdkRefuses \/ Preview \/ Fail \/ WriteBundleFails
    BY <1>3 DEF RefuseFlags, Decline, SdkRefuses, Preview, Fail, WriteBundleFails,
                End, ReportsComplete
<1>4. CASE TakeFlags \/ Agree \/ Send \/ (\E s \in DOMAIN answers : Answered(s)) \/ OpenBundle
    BY <1>4 DEF TakeFlags, Agree, Send, Answered, OpenBundle, AllIn, Inv, Control, ReportsComplete
<1>5. CASE BuildClient
    BY <1>5 DEF BuildClient, End, Inv, Control, ReportsComplete
<1>6. CASE UNCHANGED vars
    BY <1>6 DEF vars, Inv, Promises, ReportsComplete, Has
<1> QED
    BY <1>1, <1>2, <1>3, <1>4, <1>5, <1>6 DEF Next

(* The client is built once, from what is found at that moment. *)
LEMMA KeysStep == ASSUME Inv, [Next]_vars PROVE KeysMeetTheirEndpoint'
<1>1. CASE BuildClient
    <2>1. PICK file \in Files, env \in Environments :
              /\ found' = [file |-> file, env |-> env]
              /\ client' = NewClient(Resolve(file, named, env))
        BY <1>1 DEF BuildClient
    <2>2. /\ file \in Config \cup {Unreadable} /\ env \in Environment
          /\ named \in Names \cup {NoName} /\ named' = named
        BY <1>1, <2>1, FilesAssumption DEF BuildClient, Inv, TypeOK
    <2>3. found'.file = file /\ found'.env = env
        BY <2>1
    <2> QED
        BY <2>1, <2>2, <2>3, ResolvedPair DEF KeysMeetTheirEndpoint
<1>2. CASE UNCHANGED <<named, found, client>>
    BY <1>2 DEF Inv, Promises, KeysMeetTheirEndpoint
<1> QED
    BY <1>1, <1>2 DEF Next, RefuseFlags, TakeFlags, Agree, Decline, SdkRefuses, Preview, Send,
           Answered, Fail, Show, OpenBundle, WriteBundleFails, WriteBundle, vars

LEMMA TagsStep == ASSUME Inv, [Next]_vars PROVE TagsReplacedWhenAgreed'
<1>1. CASE Send
    BY <1>1 DEF Send, Inv, Control, TagsReplacedWhenAgreed, Has
<1>2. CASE \E s \in DOMAIN answers : Answered(s)
    <2>1. answers # <<>>
        BY <1>2
    <2> QED
        BY <1>2, <2>1 DEF Answered, Inv, Promises, TagsReplacedWhenAgreed, Has
<1>3. CASE Agree
    BY <1>3 DEF Agree, Inv, Promises, TagsReplacedWhenAgreed, Has
<1>4. CASE UNCHANGED <<call, agreed, answers>>
    BY <1>4 DEF Inv, Promises, TagsReplacedWhenAgreed, Has
<1> QED
    BY <1>1, <1>2, <1>3, <1>4 DEF Next, RefuseFlags, TakeFlags, BuildClient, Decline, SdkRefuses,
           Preview, Fail, Show, OpenBundle, WriteBundleFails, WriteBundle, vars

LEMMA InvHolds == Spec => []Inv
<1>1. Inv /\ [Next]_vars => Inv'
    BY TypeStep, ControlStep, NoFlagDroppedStep, NoLateRefusalStep, ReportsCompleteStep,
       KeysStep, TagsStep DEF Inv, Promises
<1> QED
    BY InvInit, <1>1, PTL DEF Spec

-----------------------------------------------------------------------------
(* Every variable of a command that reads keeps its type: the client has a  *)
(* key and an endpoint a key may be sent to, whatever the file and the      *)
(* environment hold (internal/cmdutil/client.go).                           *)
THEOREM TypeCorrect == Spec => []TypeOK
<1>1. Inv => TypeOK
    BY DEF Inv
<1> QED
    BY InvHolds, <1>1, PTL

(* No command drops a flag without a word, however many flags are given:    *)
(* each is sent, acted on or refused, --all beside --signed apart.          *)
THEOREM FlagsKept == Spec => []NoFlagDropped
<1>1. Inv => NoFlagDropped
    BY DEF Inv, Promises
<1> QED
    BY InvHolds, <1>1, PTL

(* The commands and the SDK agree on which options go together, so nothing  *)
(* is refused after the user was asked but bad tags.                        *)
THEOREM RefusedEarly == Spec => []NoLateRefusal
<1>1. Inv => NoLateRefusal
    BY DEF Inv, Promises
<1> QED
    BY InvHolds, <1>1, PTL

(* A report by default covers both views of a node, or the backend said     *)
(* there is none, or the user asked for sections of one; a bundle that is   *)
(* reported is whole.                                                       *)
THEOREM Complete == Spec => []ReportsComplete
<1>1. Inv => ReportsComplete
    BY DEF Inv, Promises
<1> QED
    BY InvHolds, <1>1, PTL

(* For any files, profiles and environments a stored key is sent to its own *)
(* endpoint or to one the environment names, and a named profile is used    *)
(* alone (config.go, Resolve).                                              *)
THEOREM KeysKept == Spec => []KeysMeetTheirEndpoint
<1>1. Inv => KeysMeetTheirEndpoint
    BY DEF Inv, Promises
<1> QED
    BY InvHolds, <1>1, PTL

(* A node's tags are replaced only with --yes or after the user agreed, and *)
(* never by a dry run (internal/cmd/node/tag.go).                           *)
THEOREM TagsKept == Spec => []TagsReplacedWhenAgreed
<1>1. Inv => TagsReplacedWhenAgreed
    BY DEF Inv, Promises
<1> QED
    BY InvHolds, <1>1, PTL
=============================================================================
