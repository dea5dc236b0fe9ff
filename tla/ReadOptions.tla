---------------------------- MODULE ReadOptions ----------------------------
(***************************************************************************)
(* Which combinations of flags a read command takes, what it asks of the   *)
(* API for them, and what the SDK, which checks once more behind it, takes *)
(* (internal/cmd/*, internal/cmdutil, nvfleetint/*.go).  No variables:     *)
(* ReadCommand runs what is decided here.                                  *)
(*                                                                         *)
(* A flag stands for a flag the user gave a good value; a bad value is     *)
(* refused flag by flag and is left out.  "range" is --start with --end,   *)
(* "start" one of the two without the other; a sort field is a flag of its *)
(* own where the field matters; "bad tag" is a tag in --tags that is       *)
(* repeated or breaks the rules of the SDK.                                *)
(***************************************************************************)
EXTENDS FiniteSetsExt

CONSTANT MaxFlags   \* flags given at once, --view, --data-source and the like apart

ASSUME MaxFlagsAssumption == MaxFlags \in Nat

PageFlags == {"all", "page", "page-size"}
TimeFlags == {"window", "range", "start"}
NameFlags == {"name-search", "hostname"}   \* two names of one flag

NodeListFlags == {"agent-uuids", "hostname", "health",
                  "sort-by nodeUUID", "sort-by agentStatus"} \cup PageFlags

NodeDescribeFlags == {"section all", "section systems"}

NodeGroupListFlags == {"include-metrics", "compute-zone-names", "health",
                       "sort-by", "nodegroup-ids"} \cup PageFlags

InventoryFlags == {"sort-by nodeUUID", "sort-by hostname", "signed", "csv",
                   "output-path", "range", "start", "tags"} \cup PageFlags

ErrorReportFlags == {"csv", "step", "errors", "tags"} \cup TimeFlags \cup PageFlags

EventFilterFlags == {"component", "components", "nodegroup-ids",
                     "exclude-nodegroup-ids"} \cup NameFlags \cup TimeFlags

XidListFlags == {"nodegroup-ids", "exclude-nodegroup-ids",
                 "job-disruption"} \cup NameFlags \cup TimeFlags \cup PageFlags

XidOptionsFlags == {"nodegroup-ids", "exclude-nodegroup-ids"} \cup TimeFlags

NodeHealthFlags == {"range", "start"}

AlertListFlags == {"node", "component", "state"} \cup PageFlags

AlertSummaryFlags == {"data-source", "sort-by"} \cup NameFlags \cup PageFlags

AlertNodeFlags == {"without-psirt", "data-source", "sort-by"} \cup PageFlags

AlertDescribeFlags == {"order", "page", "page-size"}

ZoneListFlags == {"include-metrics", "zone-ids"} \cup PageFlags

(* The option lists and xidburst describe have no flag of their own.        *)
OverviewFlags == {"include-metrics"}

TagListFlags == {"prefix", "node", "nodegroup", "computezone"}

TagSetFlags == {"tags", "bad tag", "clear", "dry-run", "yes"}

Flags ==
    [nodeList      |-> NodeListFlags,
     nodeDescribe  |-> NodeDescribeFlags,
     nodeGroupList |-> NodeGroupListFlags,
     inventory     |-> InventoryFlags,
     errorReport   |-> ErrorReportFlags,
     eventList     |-> EventFilterFlags \cup PageFlags,
     eventBuckets  |-> EventFilterFlags \cup {"max-buckets"},
     xidList       |-> XidListFlags,
     xidOptions    |-> XidOptionsFlags,
     nodeHealth    |-> NodeHealthFlags,
     alertList     |-> AlertListFlags,
     alertSummary  |-> AlertSummaryFlags,
     alertNode     |-> AlertNodeFlags,
     alertDescribe |-> AlertDescribeFlags,
     nodeOptions   |-> {},
     zoneList      |-> ZoneListFlags,
     overview      |-> OverviewFlags,
     tagList       |-> TagListFlags,
     tagSet        |-> TagSetFlags]

Views(command) ==
    IF command \in {"nodeList", "nodeOptions", "nodeGroupList", "zoneList"}
    THEN {"", "basic", "detail"}
    ELSE IF command = "errorReport" THEN {"list", "graph", "overview"} ELSE {""}

Sources(command) ==
    IF command \in {"nodeList", "nodeDescribe", "nodeOptions", "inventory", "errorReport",
                    "xidList", "xidOptions"}
    THEN {"", "inband", "oob"} ELSE {""}

Groupings(command) == IF command = "errorReport" THEN {"", "error", "node"} ELSE {""}

Outputs == {"unset", "table", "json"}

Invocations ==
    UNION {[command : {c}, view : Views(c), source : Sources(c),
            group : Groupings(c), output : Outputs,
            flags : {f \in UNION {kSubset(k, Flags[c]) : k \in 0 .. MaxFlags} :
                        /\ "bad tag" \in f => "tags" \in f
                        /\ ~({"range", "start"} \subseteq f)}] :
           c \in DOMAIN Flags}

Given(i, flags) == i.flags \cap flags # {}
Together(i, flags) == flags \subseteq i.flags

-----------------------------------------------------------------------------
(* Rules that several commands share *)

ListFlagsValid(i) == ~Together(i, {"all", "page"})

TimeRangeValid(i) == Cardinality(i.flags \cap TimeFlags) = 1 /\ "start" \notin i.flags

OneNameFlag(i) == ~Together(i, NameFlags)

IncludesOrExcludes(i) == ~Together(i, {"nodegroup-ids", "exclude-nodegroup-ids"})

EventFiltersValid(i) == ~Together(i, {"component", "components"}) /\ IncludesOrExcludes(i)

(* ListNodesOptions.normalize: an omitted view is the detail view. *)
NodeOptionsValid(i) ==
    /\ ~(i.source = "oob" /\ "agent-uuids" \in i.flags)
    /\ i.view = "basic" => ~Given(i, {"health", "sort-by agentStatus"})

(* Mutant: the basic view takes the filters it does not send. *)
NodeGroupOptionsLenient(i) == i.view = "basic" => ~Given(i, {"include-metrics", "sort-by"})

NodeGroupOptionsValid(i) ==
    i.view = "basic"
        => ~Given(i, {"include-metrics", "compute-zone-names", "health", "sort-by"})

ZoneOptionsValid(i) == ~(i.view = "basic" /\ "include-metrics" \in i.flags)

TagFiltersValid(i) == Cardinality(i.flags \cap {"node", "nodegroup", "computezone"}) <= 1

-----------------------------------------------------------------------------
(* What each command takes *)

(* Two sources cannot share a JSON document, a filter or an order. *)
NodeListTakes(i) ==
    /\ ListFlagsValid(i)
    /\ NodeOptionsValid(i)
    /\ i.source = "" /\ i.view # "basic" => i.output # "json" /\ i.flags \subseteq PageFlags

NodeDescribeTakes(i) ==
    Given(i, {"section all", "section systems"})
        => /\ ~Together(i, {"section all", "section systems"})
           /\ i.source # "inband"
           /\ i.output # "json"

InventoryTakes(i) ==
    /\ ListFlagsValid(i)
    /\ "sort-by hostname" \in i.flags => i.source # ""
    /\ "signed" \in i.flags => "csv" \in i.flags
    /\ "output-path" \in i.flags => "signed" \in i.flags
    /\ "start" \notin i.flags
    /\ "csv" \in i.flags /\ "signed" \notin i.flags
           => i.output = "unset" /\ ~Given(i, PageFlags)
    /\ i.output = "json" \/ "csv" \in i.flags => i.source # ""

(* Mutant: the graph view is not told apart from the list. *)
ErrorReportTakesGraphs(i) ==
    /\ ListFlagsValid(i)
    /\ "step" \in i.flags => i.view = "graph"
    /\ "errors" \in i.flags => i.view = "list" /\ i.group = "node"
    /\ "csv" \in i.flags
           => i.output = "unset" /\ ~Given(i, PageFlags) /\ i.view = "list"
    /\ i.view = "list" => i.group # ""
    /\ i.view = "overview" => i.group = "" /\ ~Given(i, PageFlags)
    /\ TimeRangeValid(i)

ErrorReportTakes(i) ==
    /\ ListFlagsValid(i)
    /\ "step" \in i.flags => i.view = "graph"
    /\ "errors" \in i.flags => i.view = "list" /\ i.group = "node"
    /\ "csv" \in i.flags
           => i.output = "unset" /\ ~Given(i, PageFlags) /\ i.view = "list"
    /\ i.view = "list" => i.group # ""
    /\ i.view = "graph" => i.group \in {"", "error"}
    /\ i.view = "overview" => i.group = ""
    /\ i.view # "list" => ~Given(i, PageFlags)
    /\ TimeRangeValid(i)

(* resolveTagSetTags: exactly one of --tags and --clear; whether the tags   *)
(* are any good is left to the SDK.                                         *)
TagSetTakes(i) == ("tags" \in i.flags) # ("clear" \in i.flags)

NodeGroupListTakes(i) == ListFlagsValid(i) /\ NodeGroupOptionsValid(i)

EventBucketsTakes(i) == OneNameFlag(i) /\ TimeRangeValid(i) /\ EventFiltersValid(i)

EventListTakes(i) == ListFlagsValid(i) /\ EventBucketsTakes(i)

XidListTakes(i) ==
    /\ ListFlagsValid(i) /\ OneNameFlag(i)
    /\ TimeRangeValid(i) /\ IncludesOrExcludes(i)

AlertSummaryTakes(i) == ListFlagsValid(i) /\ OneNameFlag(i)

(* The time range is optional here; what is given of one must be complete.  *)
XidOptionsTakes(i) ==
    /\ Given(i, TimeFlags) => TimeRangeValid(i)
    /\ IncludesOrExcludes(i)

NodeOptionsTakes(i) == i.source = "" /\ i.view # "basic" => i.output # "json"

ZoneListTakes(i) == ListFlagsValid(i) /\ ZoneOptionsValid(i)

NodeHealthTakes(i) == "range" \in i.flags

AlertDescribeTakes(i) == "page" \in i.flags => "page-size" \in i.flags

CommandTakes(i) ==
    /\ i.command = "nodeList"      => NodeListTakes(i)
    /\ i.command = "nodeDescribe"  => NodeDescribeTakes(i)
    /\ i.command = "nodeGroupList" => NodeGroupListTakes(i)
    /\ i.command = "inventory"     => InventoryTakes(i)
    /\ i.command = "errorReport"   => ErrorReportTakes(i)
    /\ i.command = "eventList"     => EventListTakes(i)
    /\ i.command = "eventBuckets"  => EventBucketsTakes(i)
    /\ i.command = "xidList"       => XidListTakes(i)
    /\ i.command = "xidOptions"    => XidOptionsTakes(i)
    /\ i.command = "nodeHealth"    => NodeHealthTakes(i)
    /\ i.command = "alertSummary"  => AlertSummaryTakes(i)
    /\ i.command = "alertDescribe" => AlertDescribeTakes(i)
    /\ i.command = "nodeOptions"   => NodeOptionsTakes(i)
    /\ i.command = "zoneList"      => ZoneListTakes(i)
    /\ i.command = "tagList"       => TagFiltersValid(i)
    /\ i.command = "tagSet"        => TagSetTakes(i)
    /\ i.command \in {"alertList", "alertNode"} => ListFlagsValid(i)

-----------------------------------------------------------------------------
(* What the SDK takes, for the options the command hands it *)

(* normalizeEventTimeRange *)
SdkTimeRange(i) == Given(i, {"window"}) # Given(i, {"range"}) /\ "start" \notin i.flags

SdkErrorReport(i) ==
    /\ i.view = "list" => i.group # ""
    /\ i.view = "graph" => i.group \in {"", "error"}
    /\ i.view = "overview" => i.group = ""
    /\ "csv" \in i.flags => i.view = "list"
    /\ "errors" \in i.flags => i.view = "list" /\ i.group = "node"
    /\ "step" \in i.flags => i.view = "graph"
    /\ "start" \notin i.flags /\ ~Together(i, {"window", "range"})

SdkInventory(i) == "start" \notin i.flags /\ ("signed" \in i.flags => "csv" \in i.flags)

SdkEvents(i) == EventFiltersValid(i) /\ SdkTimeRange(i)

SdkXidList(i) == IncludesOrExcludes(i) /\ SdkTimeRange(i)

SdkXidOptions(i) == IncludesOrExcludes(i) /\ (Given(i, TimeFlags) => SdkTimeRange(i))

SdkNodeHealth(i) == "range" \in i.flags

SdkAlertDescribe(i) == "page" \in i.flags => "page-size" \in i.flags

SdkTagList(i) == Cardinality(i.flags \cap {"node", "nodegroup", "computezone"}) <= 1

(* normalizeTags *)
SdkTagSet(i) == "bad tag" \notin i.flags

SdkTakes(i) ==
    /\ i.command = "nodeList"      => NodeOptionsValid(i)
    /\ i.command = "nodeGroupList" => NodeGroupOptionsValid(i)
    /\ i.command = "inventory"     => SdkInventory(i)
    /\ i.command = "errorReport"   => SdkErrorReport(i)
    /\ i.command \in {"eventList", "eventBuckets"} => SdkEvents(i)
    /\ i.command = "xidList"       => SdkXidList(i)
    /\ i.command = "xidOptions"    => SdkXidOptions(i)
    /\ i.command = "nodeHealth"    => SdkNodeHealth(i)
    /\ i.command = "alertDescribe" => SdkAlertDescribe(i)
    /\ i.command = "zoneList"      => ZoneOptionsValid(i)
    /\ i.command = "tagList"       => SdkTagList(i)
    /\ i.command = "tagSet"        => SdkTagSet(i)

-----------------------------------------------------------------------------
(* What is asked of the API *)

(* The flags whose value is in the parameters of the request: not all of     *)
(* them in a basic view, or where a window takes the place of a time range.  *)
NodeListSends(i) ==
    i.flags \ ({"all"} \cup (IF i.view = "basic" THEN {"health"} ELSE {}))

NodeGroupListSends(i) ==
    i.flags \ ({"all"} \cup (IF i.view = "basic" THEN {"health", "compute-zone-names"} ELSE {}))

InventorySends(i) == i.flags \ {"all", "output-path"}

ErrorReportSends(i) == i.flags \ {"all"}

InPlaceOfRange(i) == IF "window" \in i.flags THEN {"range", "start"} ELSE {}

InPlaceOfName(i) == IF Together(i, NameFlags) THEN {"hostname"} ELSE {}

EventListSends(i) == i.flags \ ({"all"} \cup InPlaceOfRange(i) \cup InPlaceOfName(i))

EventBucketsSends(i) == i.flags \ (InPlaceOfRange(i) \cup InPlaceOfName(i))

XidListSends(i) == i.flags \ ({"all"} \cup InPlaceOfRange(i) \cup InPlaceOfName(i))

XidOptionsSends(i) == i.flags \ InPlaceOfRange(i)

AlertListSends(i) == i.flags \ {"all"}

AlertSummarySends(i) == i.flags \ ({"all"} \cup InPlaceOfName(i))

AlertNodeSends(i) == i.flags \ {"all"}

(* describe's sections are cut out of the answer. *)
NodeDescribeSends == {}

ZoneListSends(i) == i.flags \ {"all"}

TagSetSends(i) == i.flags \ {"dry-run", "yes"}

Carried(i) ==
    {f \in i.flags :
        /\ i.command = "nodeList"      => f \in NodeListSends(i)
        /\ i.command = "nodeDescribe"  => f \in NodeDescribeSends
        /\ i.command = "nodeGroupList" => f \in NodeGroupListSends(i)
        /\ i.command = "inventory"     => f \in InventorySends(i)
        /\ i.command = "errorReport"   => f \in ErrorReportSends(i)
        /\ i.command = "eventList"     => f \in EventListSends(i)
        /\ i.command = "eventBuckets"  => f \in EventBucketsSends(i)
        /\ i.command = "xidList"       => f \in XidListSends(i)
        /\ i.command = "xidOptions"    => f \in XidOptionsSends(i)
        /\ i.command = "alertList"     => f \in AlertListSends(i)
        /\ i.command = "alertSummary"  => f \in AlertSummarySends(i)
        /\ i.command = "alertNode"     => f \in AlertNodeSends(i)
        /\ i.command = "zoneList"      => f \in ZoneListSends(i)
        /\ i.command = "tagSet"        => f \in TagSetSends(i)}

(* The pages are walked only where rows are decoded. *)
WalksPages(i) == "all" \in i.flags /\ ~Given(i, {"csv", "signed"})

(* The flags the command itself acts on. *)
ActedOn(i) ==
    {f \in i.flags :
        \/ f = "all" /\ WalksPages(i)
        \/ f \in {"section all", "section systems"} /\ i.output # "json"
        \/ f = "output-path" /\ "signed" \in i.flags
        \/ f \in {"dry-run", "yes"}}

(* Commands whose default is both views of a node. *)
BothByDefault(i) ==
    \/ i.command \in {"nodeDescribe", "inventory"}
    \/ i.command \in {"nodeList", "nodeOptions"} /\ i.view # "basic"

(* The requests of a command, by the source each of them names; "" leaves   *)
(* the choice to the backend.  node list looks at the --view as typed.      *)
Requests(i) ==
    IF /\ i.source = ""
       /\ \/ i.command \in {"nodeDescribe", "inventory"}
          \/ i.command = "nodeOptions" /\ i.view # "basic"
          \/ i.command = "nodeList" /\ i.view = "detail"
    THEN {"inband", "oob"} ELSE {i.source}
=============================================================================
