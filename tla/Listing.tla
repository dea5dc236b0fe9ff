------------------------------- MODULE Listing -------------------------------
(***************************************************************************)
(* List commands with --all, for one source or both: FetchAllRawPages      *)
(* (internal/cmdutil/paginate.go) walks the pages of an endpoint while the *)
(* backend's rows may change, WriteBothSourceTables (sources.go) does so   *)
(* for both sources at a time and prints when both are in.                 *)
(*                                                                         *)
(* Fetching one page is a step: retries and failures inside it are         *)
(* ApiCall's.  Rows are opaque.                                            *)
(***************************************************************************)
EXTENDS Naturals, Sequences, SequencesExt

CONSTANTS
    Rows,
    InitialRows,   \* the row sequences a source may start with
    SourceOrder,   \* the sources, in the order they are printed
    PageSize,
    MaxPages,
    MaxChanges     \* bound: changes of the backend during the command

Sources == ToSet(SourceOrder)

ASSUME ListingAssumption ==
    /\ PageSize \in Nat \ {0}
    /\ MaxPages \in Nat \ {0}
    /\ SourceOrder \in Seq(Sources) /\ IsInjective(SourceOrder)
    /\ \A q \in InitialRows : q \in Seq(Rows) /\ IsInjective(q)

VARIABLES
    backend,    \* the rows each source has now
    endpoint,   \* how each source's endpoint speaks of further pages
    fetched,    \* completed pages of each source
    items,      \* what was merged from them
    total,      \* the total the last page reported, 0 when it reported none
    fetch,      \* "running", "done" or "failed", for each source
    printed,    \* the sources whose table is out
    result,     \* "none", "ok" or "error"
    initial,    \* history: the rows each source had at first
    changes     \* history: what happened to each source's rows since

vars == <<backend, endpoint, fetched, items, total, fetch, printed, result, initial, changes>>
world == <<backend, endpoint, initial, changes>>

(* An endpoint reports hasMore, or the SDK derives it from the counters, or *)
(* neither is there, with or without a total.  A silent one leaves out the  *)
(* hasMore it should report, which the SDK reads as false; a stuck one      *)
(* ignores the page it is asked for and always has more.                    *)
Endpoints == {"flag", "counts", "total", "bare", "silent", "stuck"}

Changes == {"append", "insert", "delete"}

Init ==
    /\ backend \in [Sources -> InitialRows]
    /\ endpoint \in [Sources -> Endpoints]
    /\ fetched = [s \in Sources |-> 0]
    /\ items = [s \in Sources |-> <<>>]
    /\ total = [s \in Sources |-> 0]
    /\ fetch = [s \in Sources |-> "running"]
    /\ printed = <<>>
    /\ result = "none"
    /\ initial = backend
    /\ changes = [s \in Sources |-> <<>>]

-----------------------------------------------------------------------------
(* The endpoint's side *)

Lesser(a, b) == IF a < b THEN a ELSE b

PageOf(rows, k) == SubSeq(rows, k * PageSize + 1, Lesser((k + 1) * PageSize, Len(rows)))

PageServed(s) ==
    PageOf(backend[s], IF endpoint[s] = "stuck" THEN 0 ELSE fetched[s])

TotalServed(s) == IF endpoint[s] \in {"bare", "stuck"} THEN 0 ELSE Len(backend[s])

(* Mutant: a one-based page number is expected, the last page is missed. *)
HasMoreFromOneBasedCounts(page, count) == count > 0 /\ (page + 2) * PageSize < count

HasMoreFromCounts(page, count) == count > 0 /\ (page + 1) * PageSize < count

(* What the page says of further ones: TRUE, FALSE, or nothing at all. *)
HasMore(s) ==
    CASE endpoint[s] = "flag"   -> {(fetched[s] + 1) * PageSize < Len(backend[s])}
      [] endpoint[s] = "counts" -> {HasMoreFromCounts(fetched[s], Len(backend[s]))}
      [] endpoint[s] = "silent" -> {FALSE}
      [] endpoint[s] = "stuck"  -> {TRUE}
      [] OTHER                  -> {}

ChangesLeft == FoldFunctionOnSet(LAMBDA q, n : n + Len(q), 0, changes, Sources) < MaxChanges

Change(s, kind, rows) ==
    /\ ChangesLeft
    /\ result = "none"
    /\ backend' = [backend EXCEPT ![s] = rows]
    /\ changes' = [changes EXCEPT ![s] = Append(@, kind)]
    /\ UNCHANGED <<endpoint, initial, fetched, items, total, fetch, printed, result>>

(* Rows are opaque: any one that never was there will do. *)
FreshRow(s) ==
    LET fresh == Rows \ (ToSet(backend[s]) \cup ToSet(initial[s]))
    IN  IF fresh = {} THEN {} ELSE {CHOOSE r \in fresh : TRUE}

BackendChanges(s) ==
    \/ \E r \in FreshRow(s) :
          \/ Change(s, "append", Append(backend[s], r))
          \/ Change(s, "insert", <<r>> \o backend[s])
    \/ \E i \in DOMAIN backend[s] : Change(s, "delete", RemoveAt(backend[s], i))

-----------------------------------------------------------------------------
(* FetchAllRawPages *)

(* Mutant: a full page is taken for the last one when the total is unknown. *)
EndsWithAnyPage(page, merged, count, more) ==
    IF more # {} THEN more = {FALSE} ELSE TRUE

(* A reported hasMore decides; without one the total does, or a short page. *)
IsLastPage(page, merged, count, more) ==
    IF more # {}
    THEN more = {FALSE}
    ELSE \/ count > 0 /\ Len(merged) >= count
         \/ Len(page) < PageSize

FetchPage(s) ==
    /\ fetch[s] = "running"
    /\ fetched[s] < MaxPages
    /\ LET page   == PageServed(s)
           merged == items[s] \o page
       IN  /\ items' = [items EXCEPT ![s] = merged]
           /\ total' = [total EXCEPT ![s] = TotalServed(s)]
           /\ fetched' = [fetched EXCEPT ![s] = @ + 1]
           /\ fetch' = [fetch EXCEPT ![s] =
                 IF IsLastPage(page, merged, TotalServed(s), HasMore(s)) THEN "done" ELSE @]
    /\ UNCHANGED <<world, printed, result>>

(* What was merged so far is thrown away. *)
Fails(s) ==
    /\ fetch' = [fetch EXCEPT ![s] = "failed"]
    /\ items' = [items EXCEPT ![s] = <<>>]
    /\ UNCHANGED <<world, fetched, total, printed, result>>

(* Mutant: the limit is reached and nothing is done about it. *)
StopsSilently(s) == FALSE /\ Fails(s)

TooManyPages(s) ==
    /\ fetch[s] = "running"
    /\ fetched[s] >= MaxPages
    /\ Fails(s)

PageFails(s) ==
    /\ fetch[s] = "running"
    /\ fetched[s] < MaxPages
    /\ Fails(s)

-----------------------------------------------------------------------------
(* WriteBothSourceTables *)

(* Mutant: a source is printed when it is in. *)
WriteWhenIn(s) ==
    /\ result = "none"
    /\ fetch[s] = "done"
    /\ s \notin ToSet(printed)
    /\ printed' = Append(printed, s)
    /\ UNCHANGED <<world, fetched, items, total, fetch, result>>

(* wg.Wait *)
AllFetched == \A s \in Sources : fetch[s] # "running"

ReportFailure ==
    /\ result = "none"
    /\ AllFetched
    /\ \E s \in Sources : fetch[s] = "failed"
    /\ result' = "error"
    /\ UNCHANGED <<world, fetched, items, total, fetch, printed>>

Write(s) ==
    /\ result = "none"
    /\ AllFetched
    /\ \A t \in Sources : fetch[t] = "done"
    /\ s = SourceOrder[Len(printed) + 1]
    /\ printed' = Append(printed, s)
    /\ result' = IF printed' = SourceOrder THEN "ok" ELSE "none"
    /\ UNCHANGED <<world, fetched, items, total, fetch>>

WriteFails ==
    /\ result = "none"
    /\ \A t \in Sources : fetch[t] = "done"
    /\ result' = "error"
    /\ UNCHANGED <<world, fetched, items, total, fetch, printed>>

-----------------------------------------------------------------------------
Fetch(s) == FetchPage(s) \/ TooManyPages(s) \/ PageFails(s)

Work == (\E s \in Sources : Fetch(s) \/ Write(s)) \/ ReportFailure \/ WriteFails

Next == Work \/ \E s \in Sources : BackendChanges(s)

(* Each request ends (ApiCall!CallsEnd), so each goroutine makes progress, *)
(* and so does the one that waits for them.                                *)
Spec ==
    /\ Init /\ [][Next]_vars
    /\ \A s \in Sources : WF_vars(Fetch(s))
    /\ WF_vars(Work)

-----------------------------------------------------------------------------
TypeOK ==
    /\ backend \in [Sources -> Seq(Rows)]
    /\ endpoint \in [Sources -> Endpoints]
    /\ fetched \in [Sources -> 0 .. MaxPages]
    /\ items \in [Sources -> Seq(Rows)]
    /\ total \in [Sources -> Nat]
    /\ fetch \in [Sources -> {"running", "done", "failed"}]
    /\ IsPrefix(printed, SourceOrder)
    /\ result \in {"none", "ok", "error"}
    /\ initial \in [Sources -> Seq(Rows)]
    /\ changes \in [Sources -> Seq(Changes)]

Listed(s) == fetch[s] = "done" /\ endpoint[s] \notin {"silent", "stuck"}

(* When the backend stood still, a listing is the backend's rows: no page  *)
(* is missed, none is read twice, whatever the endpoint says of further    *)
(* pages; and a reported total is the number of items, as consumers check. *)
StableListingExact ==
    \A s \in Sources :
        Listed(s) /\ changes[s] = <<>> => /\ items[s] = backend[s]
                                          /\ total[s] \in {0, Len(items[s])}

(* When rows were only appended meanwhile, none of the first ones is missed *)
(* or listed twice.                                                         *)
GrowthKeepsRows ==
    \A s \in Sources :
        Listed(s) /\ ToSet(changes[s]) \subseteq {"append"} => IsPrefix(initial[s], items[s])

(* A failure of either source prevents all output, however late it comes. *)
NoOutputUnlessAllFetched ==
    printed # <<>> => \A s \in Sources : fetch[s] = "done"

(* The command ends, even when an endpoint always has more. *)
ListingEnds == <>(result # "none")
=============================================================================
