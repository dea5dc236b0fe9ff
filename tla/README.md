# nvfleetint: TLA+ specifications and proofs

`nvfleetint` is the command line client of Fleet Intelligence, and `nvfleetint/`
the Go SDK under it. It has no server and no threads of its own worth the name;
what makes it hard is that several of its processes share one configuration
file, that its requests cross a network that fails, and that what it reads from
the backend is old by the time it is used. The modules here are about that.

## The system

| Part | Code | State | Operations | Modelled in |
|---|---|---|---|---|
| Profiles | `internal/config/config.go` (types, mutators, `Normalized`) | current profile, map of name to URL and key | add, update, remove, use, normalise | `Profiles`, `ProfileStore` |
| Lock file | `config.go` `withConfigLock`, `acquireLock` | lock file and its age | create, test age, remove stale, poll, give up, release | `ConfigLock` |
| Atomic write, auth commands | `config.go` `Edit`, `writeFileAtomic`; `internal/cmd/auth/auth.go`; `internal/cmdutil/prompt.go` | `config.yaml`, temporary files, the command's snapshot and answers | snapshot, questions, lock, reload, plan, write, sync, rename, unlock | `ConfigEdit` |
| Request pipeline | `nvfleetint/client.go`, `responselimit.go`, `baseurl.go` | per call: attempt, deadline, hop, connection, body budget | send, retry, redirect, time out, read, close | `RemoteCall`, `ApiCall` |
| List paging, two sources | `internal/cmdutil/paginate.go`, `sources.go`, `nvfleetint/pagination.go` | items merged so far, pages fetched | fetch a page, decide, stop, print | `Listing` |
| Compute zone update | `nvfleetint/computezone.go`, `internal/cmd/computezone` | the zone at the backend, the document read | read, merge, confirm, put, preview | `ZoneUpdate` |
| Credential resolution | `config.go` `Resolve`, `internal/cmdutil/client.go`, `nvfleetint/baseurl.go` | none (reads file, flags, environment) | choose profile, URL, key; refuse an insecure URL | `Resolution`, `ReadCommand` |
| Read commands, node tags | `internal/cmd/{node,report,alert,event,xidburst,nodegroup,tag,...}`, `internal/cmdutil/{flags,sources}.go` | flags, client, answers, a bundle on disk | judge flags, resolve, ask, one request or two, print or write | `ReadOptions`, `ReadCommand` |
| SDK resources | `nvfleetint/{node,report,alert,event,xid,tag,...}.go` | none | validate options, choose parameters, convert answers | `ReadOptions` (options and parameters) |
| Upgrade, releases | `internal/updatecheck`, `internal/cmd/release`, `install.sh`, `install.ps1` | the directory of the binary, its `.old` files, published releases | look up, compare, check, ask, move aside, install, restore, discard | `Versions`, `Upgrade` |
| Report verification | `nvfleetint/verify` | none | one call into sigstore-go | not modelled |
| Flag parsing, errors, output | `cmd/nvfleetint`, `internal/cmdutil`, `internal/output` | none | parsing and formatting | not modelled |
| API client | `internal/generated` | none | generated | not modelled |

How they interact. A command resolves credentials from the configuration file
(shared with every other running `nvfleetint`), builds an SDK client, and makes
calls through the request pipeline: a list command one per page, for both
sources at a time where no source was named; an update a read and a write. Only
the auth commands write the configuration. The command and the SDK judge the
options of a call separately, the command before it resolves and asks, the SDK
just before it sends. The pipeline is a stack of wrappers around `http.Client`:
the generated client calls the limiting doer, that the timeout doer, that the
retrying doer; redirects are judged inside `http.Client`, and the body is read
by the parser after all of them returned. An upgrade runs the target release's
installer script in the directory of the binary it was started from, beside
whatever else runs there.

Hard behaviours, with their lines, are the `hazards` of `PROJECT.json`. In
short: commands racing for the lock and for a stale lock; kills and power
losses between two file system calls; consent and plans made from a snapshot
that is old at the time of the write; retries of requests that were already
carried out; redirects that carry the key along or change the method; bodies
that end badly after the doers returned; connections nobody gives back; rows
that move between two pages; PUTs of a document that was read earlier, or that
land after their command gave up; flags that are dropped in some combination
with others; a key beside an endpoint it does not belong to; an upgrade that
fails, is interrupted or meets another one half way.

What makes each part correct:

* profiles: the selection is empty or stored after every write, no write
  switches tenants, one write touches one profile, no key is blanked;
* lock: exclusive, not orphaned, recoverable, and every waiter gives up;
* auth commands: each write is the command's request applied to what the file
  held at that moment, the file is whole at all times, keys are destroyed by
  consent only, no temporary file with keys stays behind;
* pipeline: a write is carried out once at most, the key reaches its own origin
  only, nothing is parsed short, connections come back, every call ends;
* paging: nothing is missed or doubled while nothing is removed, nothing is
  printed unless everything is in, the walk ends;
* zone update: the named fields change and no other, what is reported was
  written, nothing is written without agreement;
* credential resolution: a key never meets an endpoint it was not paired with,
  the documented overlay of the environment apart;
* read commands: each flag is used or refused, and refused before the user is
  asked; what is shown as both views of a node is both; tags are replaced by
  consent only;
* upgrade: some working binary remains, a failed upgrade leaves the old one in
  place, a reported one is there, and it is the release that was asked for;
  notices follow semantic versioning.

## Modules

```
Profiles              operators on configurations: the four mutators, Normalized,
   |                  what an auth request means (Accepted, Applied)
   +-- ProfileStore   abstract: the store changes by one accepted request at a time
   |        ^
   |        | implements (Store == INSTANCE ProfileStore WITH store <- file)
   +-- ConfigEdit --- ConfigLock
            auth commands over the lock protocol
RemoteCall            abstract: what a caller can count on, whatever the network does
   ^        ^
   |        | implements (Remote == INSTANCE RemoteCall WITH status <- ..., effects <- ...)
   |     ApiCall      one call of the SDK, several at a time over a bounded pool
   | its PUT is one
ZoneUpdate            read-merge-put on one zone
Listing               pages and sources; a page is one ApiCall

ReadOptions           which flags go together, for command and SDK; what is sent
   |        Resolution ---- Profiles     whose key goes where
   |            |
   +--------- ReadCommand                one command from flags to output

Versions              release versions, their order, and SemVer's
   |
Upgrade               upgrades of the binaries of one directory
```

`*_proofs` hold the theorems (those of `ConfigLock` are at the beginning of
`ConfigEdit_proofs`), `MC*` the instances TLC checks. Operators whose comment
begins "Mutant" change one definition the way a slip in the code would; no
specification uses them. They show that a property can fail.

### Profiles, ProfileStore

`Config` is the YAML file as a value: an absent entry is `NoProfile`, the empty
string `NoName`, `NoKey` or `NoURL`. `AddProfile`, `UpdateProfile`,
`RemoveProfile` and `UseProfile` are the methods of `config.Config`;
`Normalized` is what `saveToPath` writes. A request is what a command carries
into the lock (its arguments and the answers it was given), `Accepted` the
checks its mutation makes under the lock, `Applied` what `Edit` writes.
`ProfileStore` lets one accepted request happen at a time. Names and keys are
opaque; name validation and YAML syntax are left out.

### ConfigLock, ConfigEdit

One action per file system call. In `ConfigLock`, `lock` is the creator of the
lock file on the disk, `stale` the creators whose file is older than
`lockStaleAfter`, `late` the waiters past `lockTimeout`. `Stat` and
`RemoveStale` are two steps, and both `RemoveStale` and `Release` delete by
path, whoever created the file. `Crashable`, `Slow` and `PowerFails` say which
processes may be killed, which may hold the lock longer than `lockStaleAfter`,
and whether the power may go. `recoverers` and `breached` are history.

`ConfigEdit` adds the command around it: snapshot and questions before the lock
(`AuthAdd`, `AuthRemove`, `AuthUse`), then load and plan again under it
(`LoadAndMutate`), temporary file, write, sync, rename, unlock. `file` is what
a reader sees, `flushed` says that its contents are on the disk, `older` is the
set of contents the directory may still hold: `writeFileAtomic` syncs the file,
not the directory, so a power loss may undo renames. It may thus undo a change
a command reported; it leaves a whole file all the same. Prompt retries are
abstracted to the answer that is accepted or to a refusal, the target of a
symlink to the file itself; that consent was given is `consented`, and the
warning shown is that of the snapshot.

### RemoteCall

What the code above a call relies on: a call begins, it may take effect once if
it is a write, before or after its caller has given up, and it ends once, with
a result that is final. It does not promise that a call which succeeded took
effect, because after a redirect it may not have (the finding about 301, 302
and 303). `ApiCall` implements it with `Status`, the outcome of a call as its
caller sees it, and `applied`; `ZoneUpdate` relies on no more than it for its
PUT, with `Status` from the command's phase and `Effects` from `put`. So what
`zone_update` shows of reads, merges and PUTs does not depend on a kinder
network than the one `ApiCall` copes with.

### ApiCall

A call goes `idle - asking - flight - judge - (backoff - asking) - body - over`.
`judge` is where `retryingDoer` looks at a response or an error; after `Return`
only the parser is left, so errors of the body reach no doer. `Redirect` is
`guardRedirect` and `withRedirectGuard`; for the headers net/http copies, the
model assumes the worst, that all of them are copied on every hop.
`MayApply` is the server carrying a write out, which it may do whether or not
an answer arrives. `conns` are connections in use; `PoolSize` bounds them per
origin. `Read` is `limitedBody.Read` offering one byte more than there is room
for. Bytes are counted, never looked at; JSON decoding, jitter, TLS settings
and headers other than `Authorization` are left out. `FetchSigningKey` is the
same call with a smaller `Limit`.

### Listing

`FetchPage` is one turn of the loop of `FetchAllRawPages`, `IsLastPage` its
three ways to end. `endpoint` is how an endpoint speaks of further pages:
`hasMore` (`flag`), derived from the counters (`counts`), not at all with or
without a total (`total`, `bare`; no endpoint of the SDK is like that today, the
loop handles them), left out although it should be there (`silent`), or always
true (`stuck`). `BackendChanges` moves rows between two pages. The goroutines
of `WriteBothSourceTables` are the sources, `AllFetched` is `wg.Wait`.

### ZoneUpdate

`asked` is `UpdateComputeZoneOptions` with `Keep` for nil and `Absent` for an
empty string, `Merge` is `buildComputeZoneUpdate`. Documents are flat, because
the code leaves out a contact or location without fields. The PUT is sent once;
`put` is what became of it, and it may land after its command failed. `Demoted`
is a 301, 302 or 303, after which net/http sends a GET in its place.

### ReadOptions, Resolution, ReadCommand

`ReadOptions` has no variables. An invocation is a command, its `--view`,
`--data-source`, `--group-by` and `--output`, and a set of flags, each of which
stands for a flag with a good value: bad values are refused one by one and are
left out, except a tag that only the SDK can judge. `CommandTakes` is what the
command's own rules allow (`NodeListTakes`, ..., one operator per command, with
the shared ones beside them), `SdkTakes` what the `normalize` functions of the
SDK allow of the options the command hands over. `Carried` are the flags whose
value is in the request's parameters, `ActedOn` those the command itself acts
on, and `Requests` the sources that are asked.

`Resolution` is `Resolve` and `NewClient` over a `Config` of `Profiles`, a
`--profile` and the two environment variables. `InsecureURLs` are those
`ValidateBaseURL` refuses.

`ReadCommand` runs one command: `flags - client - (confirm -) call - wait -
(write -) done`. The file and the environment are read once, in `BuildClient`,
and are any of `Files` and `Environments`, since auth commands may write
before. `Answered` takes answers in any order; one answer is a call with its
retries (`ApiCall`) or a walk over pages (`Listing`). `Enough` is what
`node describe` and the others need of two answers. A signed report is written
with `os.WriteFile`, which empties the file first: `OpenBundle` and
`WriteBundle` are two steps.

### Versions, Upgrade

A `Version` is what `parseVersion` makes of a text; identifiers keep their text
apart from their value, because the code compares texts to find where two
prereleases differ and values to order them. `Compare` is the code's order,
`Precedes` the one of Semantic Versioning 2.0.0, stated separately.

`Upgrade` has one directory with two names: `nvfleetint`, which the installers
write, and a versioned name beside it, of which `nvfleetint` may be a link.
`files` and `aside` are their contents and those of their `.old` files, `image`
is where the file is that a command runs from, `writing` the command whose
installer has `nvfleetint` open. A command goes `idle - lookup - check - ask -
download - aside - verify - copying - copied - finish - over`, with `restore`
for an installer that failed. `windows` chooses the platform: only there is the
running binary moved aside and put back, and only there does the system refuse
to delete or overwrite a file that is in use (`Held`; this, and that a rename
is allowed, is the operating system's behaviour and not the repository's).
Elsewhere `install` removes the old file before it copies. Ctrl-C ends a
command together with its installer (`Interrupt`), and releases are published
meanwhile (`Publish`). Downloading, checking and unpacking are one step that
may fail, since they happen in a directory of the installer's own.

## What TLC checks

Bounds are the constants of the `.cfg` files; no state constraint is used.
Deadlock is not checked where every command ends and nothing happens after
that; the abstract store always goes on, and there it is.

| Run | Instance | Shows |
|---|---|---|
| `profile_store` | 3 names, 2 keys, 2 URLs, every initial file | selection repaired, never switched by a write; other profiles untouched; keys kept |
| `edit_commands` | 2 commands, 2 names, 2 keys, 1 may be killed | `ConfigEdit` implements `ProfileStore`; writes apply to the latest contents, keys lost by consent only, no stray temporary file; started commands end |
| `edit_recovery` | 3 commands, 1 may be killed, power losses | exclusion until a live holder's lock is deleted as stale; that takes two recoverers; the file never becomes torn |
| `edit_two_recoverers` | 3 commands, 1 killed | **violated**: a lost update (below) |
| `api_call` | a GET and a PUT, 3 attempts, 1 redirect, 1 connection per origin, bodies of up to one unit beyond the limit, origins with another port and another scheme | nothing is applied twice, sent in the clear or to another origin with the key, or parsed short; connections come back; calls end; `ApiCall` implements `RemoteCall` |
| `api_body_reset` | the same | **violated**: a reset in the body is not retried |
| `listing` | 2 sources of up to 4 rows in pages of 2, at most 3 pages, one change | StableListingExact, GrowthKeepsRows, NoOutputUnlessAllFetched, ListingEnds |
| `zone_update` | 2 updates, 1 edit by others, a checked and an unchecked field of 2 values | OnlyNamedFieldsChange, WritesOnlyWhenAgreed, OkMeansWrittenOrDemoted; the PUT is a `RemoteCall` (PutIsOneRemoteCall) |
| `zone_demoted` | the same | **violated**: success is reported and nothing was written |
| `read_commands` | 19 commands, every view, source, grouping and output, up to 3 flags; 7 files, 4 environments, any `--profile` | NoFlagDropped, NoLateRefusal, ReportsComplete, KeysMeetTheirEndpoint, TagsReplacedWhenAgreed |
| `upgrade` | 2 upgrades, both platforms, 3 releases of which 2 ship installers, every initial directory | KeepsABinary, FailureUndone, NothingElseInstalled, UpgradeDelivers, NoticesTrue |
| `upgrade_renamed` | 1 upgrade, the same releases | **violated**: "Upgraded", and the binary that was run is not |

Why the bounds are enough. A breach of the lock takes a dead creator, two
recoverers of which the first becomes the holder: three processes, and so does
a lost update. Two names and two keys tell "this profile" from "another" and
"this key" from "another". Three attempts are the code's own number; one
redirect shows every rule about a hop, since each is judged against the first
origin and the one before; a pool of one is the tightest that can be exhausted.
Pages of two over zero to five rows meet an empty list, a full and a short last
page, and a row that crosses a page. Two updates meet each other at every point
of read and write. No rule about flags relates more than three of them, the
view, source and output apart; the files of `read_commands` hold two tenants,
one of them without a URL, with a plain http one or without a key, a selection
whose profile is gone, and a torn file, and the environment is a third tenant's,
so that every mixture of two is told apart. Two upgrades meet at every point of
an installation; the three releases differ in one prerelease identifier that is
a number on one side and a word on the other, and in having one at all.

Properties TLC was used on while the proofs were found, and which the theorems
now state for every value of the constants, are not run again: the types of
`ProfileStore`, `ConfigEdit`, `ApiCall`, `Listing` and `Upgrade`, that a removal never selects
another profile (`RemovalNeverSelects`), and that a read gives up on a passing
failure of the round trip only after its last attempt or when its time is up
(`FailsOnlyAfterAttempts`).

Fairness. A started auth command goes on (`WF(Work(p))`) and the clock
advances to its lock deadline: both are what an operating system gives a
process; nothing is assumed of users at a prompt, of killed commands, or that a
waiter ever wins the lock, so `CommandsEnd` rests on the deadline. A call's
timer fires and the client takes its own next step (`WF(Unaided(c))`); the
server owes nothing. A page is fetched or fails, because calls end, and the
goroutine that waits goes on. `ReadCommand` and `Upgrade` state no fairness:
their properties are about what a step may do, and that a command ends is a
property of its calls and of the user at its prompt.

### Findings

* `acquireLock` tests the age of a lock file and removes it by path in two
  steps. After a killed command, two waiters can both find its file stale; the
  second removes the lock the first has just taken, and one write is lost.
  `Edit` says concurrent commands cannot overwrite each other's changes.
* The CLI contract says GETs are retried for transient network failures; a
  connection that breaks in the body ends the call at its first attempt.
* `UpdateComputeZone` takes any 200 with a JSON object for success. After a
  301, 302 or 303 that is the answer to a GET: a document is reported as written
  that was not.
* `UpgradePlan` says that `ExecutablePath` is the binary that will be replaced,
  links resolved. Only its directory is handed on, and the installer writes
  `nvfleetint` there: a binary under another name stays as it was, and a link
  is overwritten with a file. "Upgraded" is reported all the same.

### Exceptions the properties name

These are deliberate or harmless enough that a property carves them out, in its
comment, rather than call the code wrong:

* `report inventory --csv --signed --all` fetches once; `--all` has no effect,
  though `docs/cli.md:191` has it fetch all pages, and unsigned CSV refuses it
  (`NoFlagDropped`).
* `node list --view ""` is judged as the detail view by the SDK and sent as one
  request by the command (`ReportsComplete`).
* Whether a tag is well formed is judged by the SDK alone, after the prompt
  (`NoLateRefusal`).
* A key of the environment is laid over the stored endpoint, and a stored key
  may go to an endpoint of the environment, as documented
  (`KeysMeetTheirEndpoint`).
* A signed bundle that cannot be written leaves a partial file, and the failure
  is reported (`ReportsComplete`).
* Off Windows `install` removes the old binary before it copies the new one, so
  an interrupt there may take the last one (`KeepsABinary`).
* Two prereleases whose first difference is how a number is written, 01 and 1,
  are taken for the same version whatever follows. SemVer forbids leading zeros
  (`NoticesTrue` is about versions without them).
* Rows that are removed while a list is walked shift the ones behind them, and
  an endpoint that leaves out `hasMore` is listed one page deep
  (`StableListingExact`, `GrowthKeepsRows`).

## What is proved

TLAPS checks these for every value of the constants that satisfies the named
assumptions (`ProfilesAssumption`, `LockAssumption`, `EditAssumption`,
`ApiAssumption`, `ListingAssumption`, `ZoneAssumption`, `MaxFlagsAssumption`,
`ResolutionAssumption`, `FilesAssumption`, `ReleasesAssumption`,
`UpgradersAssumption`), for any number of commands, calls, names, sources, rows,
fields, flags and releases. `PROJECT.json` lists them under `theorems`.

* `ProfileStore_proofs`: type correctness and the five action properties. The
  invariant is the type; the work is in lemmas about the mutators
  (`Profiles_proofs`: what each returns for the named profile and for the
  others).
* `Profiles_proofs` also proves two things a user may rely on:
  `OrderIrrelevant`, commands on different profiles are accepted and leave the
  same profiles in whichever order they get the lock (the selection may differ:
  the first of two new profiles is selected), and `RepeatIsHarmless`, a command
  given a second time changes nothing.
* `ConfigEdit_proofs`, the lock: `LockInv` adds to the type who owns the lock: a critical
  process holds its own file unless the protocol was breached, and a file on
  the disk belongs to a critical or dead process. `RecoveryInv` adds, for
  holders that are never slow, that stale files are those of the dead and that
  a process about to remove one either looks at a stale file or has company;
  hence `BreachNeedsTwoRecoverers`.
* `ConfigEdit_proofs`, the commands: `EditInv` joins the lock's invariant with where a command
  is (`PlaceInv`), that what is written is whole (`WholeInv`), that a draft is
  the request applied to the current file until a breach (`PlanInv`: nobody
  else can have renamed since it was loaded), and consent. The file stays whole
  with any kills and power losses. For the rest the power stays on, and what is
  proved is where the refinement of `ProfileStore` ends:
  - with any kills and slow holders, each step of the file is one accepted
    request, and no key is lost unasked, as long as no running command's lock
    has been removed (`StoreUntilBreach`, `ConsentUntilBreach`);
  - without slow holders that takes two commands at a stale lock, so
    `EditImplementsStore`, `NoLostUpdate` and `ConsentRequired` hold of every
    behaviour in which at most one ever recovers a lock, with any kills. This
    is a hypothesis on the behaviour (`[]OneRecoverer`), and two theorems meet
    it: `TwoCommands` (two processes, both of which may be killed anywhere) and
    `UnkilledCommands` (any number, none killed, so that nothing is ever
    stale). Three processes and a kill are the finding of `edit_two_recoverers`:
    the bound is the exact one.
  - `CommandsAreBounded`, for finitely many processes: once a command's lock
    deadline has passed, or it is in, each of its steps uses up one of at most
    3N + 10. A waiter may go back to the creation of the lock file for each
    file it removed, of which there are no more than processes, and that is the
    3N. The variant `StepsLeft` counts them.
* `ApiCall_proofs`: the invariant of a call says where the key may be, that a
  request that may be sent again is not a write or was not applied, how much
  of the body was delivered in each phase, and how many attempts a failure has
  behind it; `NoConnectionLeaks` is inductive as it stands. `CallIsRemoteCall`
  is the refinement: each step begins, goes on with, or ends a call, or lets it
  take effect, and the last only while it has not. `CallsAreBounded` counts
  down the attempts, hops and reads a call has left: it is over after
  `MaxAttempts * AttemptSteps + 1` steps, whatever the servers do.
* `Listing_proofs`: `Walk` says that, while rows are at most appended, the items
  are the backend's first rows, `fetched * PageSize` of them until the walk is
  over; `LastPageIsTheEnd` shows for each kind of endpoint that a page that is
  not the last one is full, and that the last one ends where the backend does.
  `Stood` adds the total, which a later append makes wrong, and `Order` that a
  table is missing until the command ends, without which the printing order
  would not be inductive. `NoOutputUnlessAllFetched` is inductive by itself.
  `ListingIsBounded`: each step of the command uses up a page or a table of
  which there are finitely many, and until it is over it is never stuck.
* `ZoneUpdate_proofs`: `Control` ties a PUT to consent, valid options and a
  document that was read; `Truth` ties a report to the document sent. The
  action property follows from `LandingStep`: only `Land` makes a PUT landed.
  `PutIsRemoteCall` proves that the PUT is a `RemoteCall`.
* `ReadCommand_proofs`: the work is in lemmas about the rules. For each command,
  `FlagsAccountedFor` shows that flags it takes are carried or acted on,
  `RulesAgree` that the SDK takes what it takes; `ResolvedPair` says which pairs
  of key and endpoint `NewClient` lets through. `Control` then carries those
  judgements from the flags to the end: past its flags a command has been
  judged, a tag request has been agreed to, answers are those of its requests.
* `Upgrade_proofs`: `OrderIsSemVer` proves that the code's comparison is the
  precedence of semantic versioning for versions without leading zeros, and
  `OrderIsTotal` that it is a total order on them. `LoneUpgradeReplaces` says
  what is left of the claim `upgrade_renamed` refutes: a lone upgrade of a
  binary called `nvfleetint` does replace it. The
  invariant says that a command's file is where its image is (`Running`), that
  on Windows two commands are never past the move aside with the same binary
  (`Alone`: the backup would otherwise be taken for one's own), that a file open
  for writing is the broken one (`Opened`), that the target is the release
  asked for (`Selected`), and that the installed file is the target's or another
  command's doing (`Delivered`). The action properties follow from it step by
  step.

Only model-checked: liveness (`CommandsEnd`, `CallsEnd`, `ListingEnds`), since
the prover does not reason about fairness and ENABLED. Of each the part without
fairness is proved (`CommandsAreBounded`, `CallsAreBounded`,
`ListingIsBounded`): that steps, if they are taken, are finitely many. That the
scheduler takes them is the assumption, and that the two together give the
liveness property is what TLC checks.

## Not modelled

* The generated API client (`internal/generated`, more than half of the
  repository's lines) is one request builder and one decoder per operation,
  with no state and no decision that the modules could tell apart.
* The conversion of answers to SDK values and of those to tables, CSV and JSON
  is sequential copying, field by field. A field copied to the wrong place is a
  matter for a unit test; a model of it would be the program over again.
* The JSON of a merged listing and the page numbers beside it (`OneIndexRawPage`,
  `OneBasedPage`): what numbers a backend reports is not in this repository.
* Flag registration, parsing of values, wording of errors, exit codes.
* The signature check is one library call into sigstore-go.
* YAML, JSON, TLS and net/http's own state are taken to work. The lock on file
  systems without atomic exclusive creation is outside the code's claims.
* The release scripts, the test harness and the skills are not part of the
  program.

For these reasons the modules stand for the part of the code that decides and
changes state, and not for most of its lines.

## What could follow

* A composition of `ConfigEdit` and `ReadCommand` in which `Files` is the file
  being edited; since a command reads the file once and renames are atomic, it
  would add no state to what `BuildClient` may find.
* `Restore` and `Finish` of `Upgrade` under fairness: an upgrade that is not
  interrupted ends.
