# TLA+ models of @carbonenginejs/tools-core

This directory holds TLA+ specifications of the stateful parts of tools-core, the
TLC configurations that check them on small instances, and TLAPS proofs of their
most important properties for every instance. `PROJECT.json` maps each definition
to the lines of JavaScript it stands for.

Check a run with `tlc -config BuildCacheFallback.cfg MCBuildCache.tla`, and a
component's proofs with `tlapm <Component>Proofs.tla`: `BuildCache`,
`EsiSession`, `PayloadStore`, `CachePrune`, `OverlayStore`, `SdeInstall`,
`Topics` and `ResourcePool` have one.

Contents: 1 the system, 2 the plan and its state, 3 how the code becomes TLA+, 4 the
modules, 5 the runs, 6 fairness, 7 the proofs, 8 where the code and its comments
disagree, 9 what is not modelled.

## 1. The system

tools-core is a Node package: a library that acquires EVE Online client data
(resource indexes and payloads by content address, prepared SDE databases), an
HTTP service over it, and command-line tools that share its directories. Every
JavaScript process runs one callback at a time; what makes it hard is what happens
between two `await`s, and several processes (service, harvest, builders, prune)
that share files without locks.

### Components with state

**Build cache** (`src/internal/CjsToolBuildCache.js`, `src/sde/CjsToolSdeRepository.js`,
`src/proxy/CjsToolHttpProxy.js`). *State*: maps keyed by target and build (open SDE
sources, resource sources, composers that retain them), lists of current builds per
target and facet, last use of each group, the number of active handlers, one sweep
promise. *Operations*: Run, Start and its timer, Sweep, CreateMap, SetIdentity,
MarkCurrent, Close; OpenTarget of the repository; the composers of the proxy.
*Interactions*: every HTTP handler runs inside `Run`; the repository shares one
opening between callers and renames its entry when a fallback answered; composers of
any target may retain a source. *Hard*: a source may be closed only when no handler
uses it, openings and renamings resume after awaits, a close may fail, shutdown may
meet a sweep. *Correct when*: no source is used after, or leaked before, its close;
entries name the build they serve; budgets and idle times hold; every blocked
request and Close end. A Close that finds a sweep failing is the exception: it is over
before all is closed (section 8).

**EVE session** (`src/auth/`). *State*: one token file, a temporary file per process,
`#refreshing`, the pending logins; at EVE, the one live refresh token. *Operations*:
Get with its retry, the shared refresh, Write (open, fill, rename, clean up), login
and callback. *Interactions*: the service, the SKINR harvest and the login callback
write one file. *Hard*: EVE rotates the token on use, so an answer, a process or a
write lost at the wrong moment strands the session. *Correct when*: the live token is
on disk, on its way there, or went with an answer, a process or a write that failed;
the record keeps whose session it is, if its login could tell; calls end.

**Payload store** (`src/cache/CjsToolCache.js`, `src/indexing/CjsToolIndexSource.js`,
`src/indexing/CjsToolIndex.js`, the addressed routes of the proxy,
`bin/cjs-tools-cache-prune.js`). *State*: files named by content address, raw or
`.gz`; `#inflight` downloads. *Operations*: fetch by path, fetch of generated
payloads, read by address, read by compressed address with migration, a builder's
write, prune. *Hard*: reads look for two files one after the other while a migration
moves a payload from one to the other; nothing is hashed twice; downloads are shared.
*Correct when*: of what index rows vouch for, nothing unproven is ever stored, or sent
as what it is; a payload some build references never disappears, nor is reported
absent while it is there.

**Build authority and the prune** (`src/build/`, `CjsToolIndex.ResolveTargetBuild`,
`bin/cjs-tools-cache-prune.js`). *State*: an append-only observation log shared by
processes, each with its own view of it; the operator's pins and holds; what one run
of the prune has found out. *Operations*: Resolve, Discover, Record, Decide, KeepSet,
the prune's reading of indexes, walk and removal. *Interactions*: services and tools
append to one log; the prune trusts KeepSet with what it deletes. *Hard*: stale views,
unreachable upstreams, an append cut short, payloads shared between builds and
targets. *Correct when*: the log records what upstream had and forgets no
line that has its end; no payload that a target must keep is removed.

**SDE acquisition and install** (`src/sde/CjsToolSdeArchive.js`,
`CjsToolSdeDatabase.js`, `CjsToolSdeRepository.#Open`). *State*: per build one
database file, beside it temporaries and retired files of random names; open handles;
the kept promise of the latest build. *Operations*: open a prepared build, fall back to
an older one, fetch the archive, fill a new database in one transaction, link or
rename it into its place, retire what was there, restore it. *Interactions*: services
prepare what they are asked for and a command prepares too, on one directory.
*Hard*: no name is locked, so each look at one may be wrong when it is used; SQLite
locks the file it imports into and keeps a journal beside it, which a rename of the
file leaves where it was; a process may die, or a clean-up fail, between two renames.
*Correct when*: no half-filled database ever has a build's name, unless it was moved
away from its journal; nothing newer than asked is served; what is left behind stops
nobody.

**Index stores** (`src/indexing/CjsToolIndexOverlayStore.js`; the generated and the
supplied stores replace one file). *State*: overlays, each a directory with a manifest
and an index, one store of payloads they share, hidden stages and backups.
*Operations*: Import, Revise, Replace, Migrate, each of which ends in a swap by
renames with a rollback; OpenTarget. *Interactions*: tools publish while services
open. *Hard*: an opening reads two files of a directory by path while renames move it;
a rollback meets what another placed, and may fail in its turn. *Correct when*: a name
always means one whole overlay whose payloads are stored; a failed publication loses
no copy.

**Held reads** (`src/market/`, `src/identity/CjsToolPublicIdentity.js`,
`CjsToolIndexBuildResolver.#ResolveCached`, `CjsToolSdeArchive.ResolveLatest`).
*State*: maps from key to a read under way or its answer, an expiry, a size limit.
*Operations*: ask, share, keep, fail, evict. *Hard*: an entry may be evicted, expire
or be replaced while its read is under way; some failures are answers. *Correct when*:
no answer is served past its time, one read serves all who ask meanwhile, a failure is
not inherited (the names of characters are the exception, section 8).

**Bounded fetch and prefetch** (`src/internal/CjsToolBoundedFetch.js`,
`src/prefetch/CjsToolPrefetch.js`, the loads of `CjsToolIndexSource`). *State*: per
read its race of work, deadline and signal; the workers' cursor and counts; the
shared loads. *Hard*: what loses a race goes on; a cancelled stream looks like one at
its end; an adapter may ignore every signal. *Correct when*: a part never passes for
the whole, nothing is kept past the deadline, a report says what is so, calls end.

**Skills and fittings** (`src/skills/CjsToolSkills.js`, `src/fitting/`). *State*: none
kept; a walk's own tables, and the fit that goes from one text to the next. *Hard*:
any graph of prerequisites, cycles included; four ways to write one fit. *Correct
when*: the plan agrees with the closures, every demand is named, a fit keeps its
entries, and their amounts wherever the text can say them.

**Publishers** (`src/shader/CjsToolShaderBuilder.js`, `src/library/`). *State*: one
published directory or file, swapped in as an overlay is.

### Components without state worth a model checker

Data transformations of one input (SDE build pipeline, audio, character, skin, SOF
and weapon builders, schema emitter), floating-point evaluation (dogma, industry,
map geometry), immutable registries and readers (targets, types, icons,
localisation, FSD, Black). Their correctness is about data.

## 2. The plan and its state

| # | Module | Subject | Abstract specification | State |
|---|---|---|---|---|
| 1 | `BuildCache` | cache, repository openings, handlers, shutdown | `SourceLease`, by refinement | checked, proved |
| 2 | `EsiSession` | token file, refresh, login, crashes | the live token is never forgotten | checked, proved |
| 3 | `PayloadStore` | content-addressed files, downloads, migration, prune | a payload is stored or not | checked, proved |
| 4 | `BuildAuthority`, `CachePrune` | observation log, policies, KeepSet; the prune that trusts it | what a run must keep (`Protected`) | checked, proved |
| 5 | `OverlayStore` | publication and opening of overlays, crashes | a name is one whole overlay | checked, proved |
| 6 | `SdeInstall` | prepare, install, fall back, crash | a place is whole or free | checked, proved |
| 7 | `HeldReads` | held answers with sharing, expiry and eviction | one read for all, no stale answer | checked, proved |
| 8 | `BoundedFetch`, `ResourcePool` | one bounded read; workers that share loads | a report says what is so | checked, proved |
| 9 | `SkillPlan`, `Fitting` | prerequisites; fits as texts | closures as reference; the fit that went in | checked, proved |

`CachePrune` composes `BuildAuthority` with a store of whole payloads; `PayloadStore`
has the two forms of each, and takes what a prune keeps as the constant `Kept`.
`ResourcePool` composes the reads of `BoundedFetch` with the loads of an index source
and the workers over them. `Topics` puts the three services of the HTTP topics that
share nothing into one run, and their proofs into one module. Every safety property
and every action property that a run checks is a theorem; liveness is not. What is
worth doing next: a refinement of `PayloadStore` to a store of payloads, and one of
`SdeInstall` to a place that is whole or free; the generated and supplied stores.

## 3. How the code becomes TLA+

- An action is the code between two awaits: JavaScript interleaves nowhere else. A
  helper called synchronously is part of its caller's action.
- Builds, targets, payloads and tokens are model values or small numbers. What an
  answer holds is left out; which answer it is, is kept.
- A definition named `X_Bug`, or `X_` and what it forgets, stands before `X` and is
  `X` with a plausible bug. Nothing uses it: replacing `X` by it breaks a property,
  which shows that the property depends on what the code does.
- EVE, remotes, the disk and other processes are external: every answer they may give
  is a disjunct, the failure included.
- Histories (`lost`, `missed`) say what happened; no guard reads them.

## 4. The modules

### `BuildCache`, `SourceLease`, `MCBuildCache`, `BuildCacheProofs`

| Code | TLA+ |
|---|---|
| `Run`: wait for the barrier, count the handler in | `Enter` |
| its `finally`: count out, wake the sweep, check the budgets | `Finish` |
| `OpenTarget`: join a cached opening, or start one | `JoinSource`, `StartSource` |
| the opening settles | `OpenSucceeds`, `OpenFails` |
| its callers resume: `SetIdentity`, `MarkCurrent`; or drop the key | `Adopt`, `AdoptFails` |
| a composer is built around the sources the handler holds | `Compose` |
| resources are opened; the service resolves its builds | `OpenResources`, `ResolveBuilds` |
| the timer; `Sweep` awaits the drain, retires what expired | `TimerSweep`, `AwaitDrain`, `StartRetiring` |
| `#Retire` drops references, then closes; the budget loop | `Retire`, `CloseOne`, `RetireOldest`, `FinishSweep` |
| `Close` | `CloseStart`, `CloseSweep`, and the end of a sweep |

Handles are recycled slots for SDE sources, so a source's number says nothing of its
age. Requests blocked behind a sweep are admitted in `FinishSweep`, because their
reactions are microtasks that run before any other callback. Loading resources and
building a composer are one step each: what they await is not in the cache. The
oldest unit is chosen among equals nondeterministically, which covers every order
JavaScript's maps may have. Idle times saturate at `MaxAge`, past which nothing
compares them. `SourceLease` promises callers of the cache that a source is lent only
while open and closed only when nobody holds it; `ImplementsLease` maps a source that
is closing to a closed one. A budget counts pairs of a target and a place in its list,
so that a proof can compare two sets.

### `EsiSession`, `MCEsiSession`, `EsiSessionProofs`

| Code | TLA+ |
|---|---|
| `Get` reads the record; the retry after a 401 reads it again | `Get`, `ReadAgain` |
| the access token is still good | `UseStored` |
| `#AccessToken` joins `#refreshing` or starts it | `AwaitRefresh` |
| the request's answer, with the retry | `Answered` |
| `Refresh` at EVE, refused, or its answer lost | `Spend`, `Refused`, `AnswerLost` |
| `#Refresh` reads the record back and merges its token | `ReadBack` |
| `Write`: open `wx`, fill, rename; `catch` removes | `OpenTemp`, `FillTemp`, `RenameTemp`, `CleanUp` |
| login begins; its callback stores the new session | `BeginLogin`, `Callback` |
| the process ends | `Crash` |

A refresh token is a login and a version; EVE accepts the last version only. Whether
an access token is still fresh is a question of time and so a choice; so is, with
`MayKeep`, whether EVE rotates at all. The access token of a login in `Nameless` tells
no character (`describeToken` answers null), and the record it stores names nobody.
Where the merge follows EVE's answer without touching anything another step can see,
the two are one step. The temporary's name holds the process's number, so two writers
of a process have one: what is being filled names its writer, and who opened the
other's fills and renames what is there. `Owner` is the process a writer belongs to.

### `PayloadStore`, `MCPayloadStore`, `PayloadStoreProofs`

| Code | TLA+ |
|---|---|
| `Fetch` joins or starts the job of one resolution | `Fetch`, `Settle` |
| the job: cache, request, check, write if absent | `ReadCache`, `Download`, `DownloadFails`, `CheckStored`, `StoreRaw` |
| a generated payload: the raw file or 503 | `FetchGenerated`, `ReadGenerated` |
| `/resfiles/<address>`: raw, else the gzip unpacked | `AskPlain`, `ReadRaw`, `ReadCopy` |
| `/resfiles/<address>.gz`: gzip, else made from the raw file | `AskCompressed`, `ReadGz`, `ReadSource`, `CheckCopy`, `StoreCopy`, `Unlink` |
| and when that found nothing, the file as it is stored | `ReadBare` |
| the audio builder's write; the prune; the end of the service | `Publish`, `Prune`, `Restart` |

A file holds the bytes its address names ("whole") or bytes nobody compared with it
("unproven"): a download is checked against what its index row declares, and a source
whose row for an address declares no MD5 is in `Unchecked`, for which any bytes pass
and are taken for unproven. `Vouched` are the addresses of which that is true of no
source. A write is one step because it renames a complete temporary of a random name,
which nobody else can see; it may fail, and so may the removal of a raw file.
Addresses that a persistent overlay answers never reach the store.

### `BuildAuthority`, `CachePrune`, `MCCachePrune`, `CachePruneProofs`

| Code | TLA+ |
|---|---|
| `ResolveTargetBuild(target, "latest")`: ask, read the log, append, decide | `Ask`, `ReadLog`, `WriteLog`, `Resolved` |
| `CjsToolBuildPolicy.Decide` | `Decide` |
| `CjsToolBuildAuthority.open` reads the log for one run | `Open` |
| `#Discover`: the resolution, then the authority's own record | `Discover`, `DiscoverFails`, `Discovered`, `RecordFails` |
| `KeepSet`'s loop; its refusal | `Keeps`, `KeptBuilds`, `Refuse` |
| `main` of the prune looks the answer up and reads each index | `Kept`, `OpenIndex`, `OpenFails` |
| the walk; the removals; the end of the process | `Walk`, `Remove`, `Done` |
| a service stores a payload; upstream changes | `Store`, `PublishBuild` |

`BuildAuthority` is what every process does with the log, `CachePrune` adds the one
that prunes. A log is what is asked of it: the last line of a target and the set of
builds its lines name, of the resources facet. A line cut short by a full disk or a
crash leaves a `tail`: a fragment nobody can read, or a line that is whole but for its
end, which is read like any other (`Readable`). Either swallows the next line appended
to it, so that a build that was readable is so no longer. A process
that resolves `latest` may be some minutes behind upstream, because it holds the
answer. A crash of the prune before it removes anything is a run that does not go on;
among the removals it is `Done`. `Requests` tells the targets a run names from those it
writes exactly as the registry does. The authority and the resolution it calls share
one data directory, as they do unless `--data` separates them.

### `OverlayStore`, `MCOverlayStore`, `OverlayStoreProofs`

| Code | TLA+ |
|---|---|
| a call begins, with what it was given | `Begin`, `Check`, `Look` |
| what Revise and Migrate read first | `ReadManifest`, `ReadIndex` |
| payloads into the shared store; the live tree into the stage | `StoreImported`, `StoreRevised`, `StoreMigrated`, `MoveTree` |
| Revise reads what is there once more | `Compare` |
| an import's only rename | `PublishImport` |
| Replace renames its copy in the copy's own index and manifest | `NameIndex`, `NameManifest`, `Named` |
| `#SwapDirectory`: look, retire, place, restore, drop | `Probe`, `Retire`, `Place`, `Restore`, `Drop` |
| the backup goes back, if it is there and its place is free | `PutBack` in `Restore`, `Recover` |
| each operation's own way back | `UndoRevise`, `UndoReplace`, `UndoMigrate`, `Recover` |
| `OpenTarget`: list, then manifest and index of each | `List`, `OpenManifest`, `OpenIndex` |
| the process dies at any await | `Crash` |

A directory is what its two files say: a manifest names the overlay and the set of
payloads, an index lists a set. A rename moves it whole, and may fail or find the name
taken; so may a write, a removal, and a rename on the way back. `halted` are the calls
that ended half way, because they died or because undoing failed too. A removal takes
the whole directory or nothing; one that fails and leaves only a hidden stage, which
no reader lists and nothing refers to, is left out. Stages and backups (hidden) and a
replacement's copy (not hidden) have a random part in their names, so they are named
by the call that made them. A file that is being written in place is `Torn`. An
overlay that was migrated goes on as another, which may be migrated in its turn:
`Heirs` are the names it may have become, closed under migrations. That matters: with
the names of one migration only, `NeverWithoutCopy` holds for the instance of the run
and is false of larger ones, which the attempt to prove it showed.

### `SdeInstall`, `MCSdeInstall`, `SdeInstallProofs`

| Code | TLA+ |
|---|---|
| a call is made, to open or to prepare a build | `Begin` |
| `#Open` looks, opens, verifies | `Look`, `OpenReadOnly`, `CheckBuild` |
| the newest prepared build that is not newer; the fallback | `Prepared`, `FallBack` |
| the archive; an old database is opened, or a new one created | `Fetch`, `Probe`, `Reopen`, `Create` |
| one transaction | `Import`, `Fill` |
| `InstallDatabase`: link, or retire and swap; its way back | `Link`, `Retire`, `Swap`, `Restore`, `Drop` |
| what a call leaves; its return | `Clean`, `Return` |
| the process dies at any await | `Crash` |
| SQLite, external: a file being imported into is locked; a journal with no lock is refused read-only and played back by a writable opening | `Locked`, `Hot`, `PlaysBack` |

A file is told from its names, for SQLite keeps writing the file it opened wherever
that goes, and opening a free name creates an empty one (`OpenOrCreate`). An import
commits or leaves nothing as long as its rollback journal stays beside it. The journal
goes by the name of the place, not of the file: who retires a file that is being
imported into (it is busy, which `Reopen` cannot tell from invalid), or whose import
died, leaves the journal to the file that is placed there next, and who opens that one
for writing makes a mixture of the two (`Mixed`, which opens, or `Filling`, which does
not). `adrift` are the builds to which that happened. Links, renames, removals and the
rename back may fail; `unswapped` are the builds of which a call took the old file away
and put none there, `left` says who died or could not remove a name, `hurt` whose own
work met a failure. Initially a place may be free, whole, invalid or hold another build
(`FoundFiles`).

### `HeldReads`, `SkillPlan`, `Fitting`, `Topics`, `MCTopics`, `TopicsProofs`

| Code | TLA+ |
|---|---|
| a call finds a fresh answer; a read under way; neither | `AskHeld`, `AskShared`, `AskUpstream` |
| upstream answers; its answer is held, the limit applied | `Observe`, `Keep` |
| the read fails, in the four caches that drop it and in the rate's | `Fail`, `FailRate` |
| `#IdentifyName` and `#PostNames` make null of a POST that failed | `Swallow` |
| those who shared the read resume | `Wake` |
| `#Direct`; `#Closure`'s loop; `Requirements` | `Direct`, `AskClosure`, `VisitClosure`, `NextRound`, `AnswerClosure` |
| `Plan`'s loop and its answer; `#Outline` | `AskPlan`, `VisitPlan`, `NextRound`, `AnswerPlan`; `Chains`, `Drawn` |
| `ParseDna`, `ParseEft`, `FromEsi`, `Normalize` | `ReadText`, `Quantities`, `ReadEft`, `EsiParts`, `Normalize` |
| `FormatDna`, `FormatEft` | `WriteDna`, `WriteEft` with `FormatDna`, `FormatEft` |

The five caches differ in when an answer's time begins, in whether there is a limit,
in what a failure deletes and in whether an outlived read is still shared; a behaviour
is of one of them. The names are a cache of their own beside the identities:
`Unknown`, the null of a question that failed, is held like an answer. What a type
requires is chosen freely in `PlanInit`. A walk is one visit a step and what is left
of a round is a set: the code visits it in the order of its lists, the model in any,
since what a walk answers could depend on that order. A fit starts as any record and
goes through any chain of texts; `Chosen` takes the entries at some places of a list,
in its order, as `filter` does.

### `BoundedFetch`, `ResourcePool`, `MCResourcePool`, `ResourcePoolProofs`

| Code | TLA+ |
|---|---|
| `request` in its `run`; the answer or the error | `Request`, `Answer`, `AnswerFails` |
| `readBytes`: refused by its length, or read | `Refuse`, `ReadBody` |
| a chunk, the end, an error of one of the three kinds of body | `TakeChunk`, `BodyEnds`, `BodyFails` |
| a cancelled reader says it is done; what is cancelled stops | `CutShort`, `Cancelled`, `Stopped` |
| the deadline; the caller's signal | `Timeout`, `CallerGoes` |
| a load of an index source: cache, network, check and write | `FindCached`, `StartFetch`, `Store`, `LoadFails` |
| a worker takes an entry, counts it, tells of it, fails, ends | `Take`, `Count`, `Told`, `Fail`, `WorkerEnds` |
| the report | `Report` |

`loop` is where the work is, `run` how its race stands: the race may be over while the
work goes on. A reader looks at the signal before it awaits a chunk and not after; a
chunk that had come just before the signal fell is added to its list before it throws,
which nobody sees and the model leaves out. A body is a reader, an iterable that can
be destroyed or one that cannot; chunks have a size, since the limit counts bytes.
What a report adds up is compared with the number of all bytes there are (`Bytes`),
each told by its entry.

## 5. The runs

| Run | Instance | Shows |
|---|---|---|
| `build_cache_fallback` | two requests, one target, builds 1 and 2, three handles; closing succeeds | openings, aliases, budgets and the barrier, when a request for build 2 may be answered by build 1 |
| `build_cache_targets` | two requests, two targets, two handles; closing may fail | no composer of either target refers to a closing source; Close leaves nothing; the refinement of `SourceLease` |
| `build_cache_liveness` | one request, two sources of two targets and a resource, over a budget of one entry; closing may fail | blocked requests and Close are answered; a quiet service closes everything and the budget is restored when handlers drain, but for a Close that a failing sweep cut short |
| `esi_session` | two calls of the service, one of the harvest, two logins of which one names nobody, two versions of each token, failures and crashes | the live token survives every interleaving, the identity too until the nameless login; every call ends |
| `payload_store` | two requests; a downloaded, a generated and an unreferenced payload, the last one stored unchecked, from any initial store | nothing a row vouches for is stored or sent unproven; what is kept is neither lost nor denied; all requests end |
| `cache_prune` | two targets, one of which moves between two builds and may be pinned or held; two payloads, one shared; one service, one prune; a disk that may fill | the log records upstream and forgets no line that has its end; no run removes what it must keep |
| `prune_spelling` | the same without rules, and a run that names its target in another case | disagreement 1 |
| `overlay_store` | two calls of any of the four operations, two names, one reader, two sets of payloads of different size; whatever touches the disk may fail | what a name means is consistent, no copy is lost, a quiet store opens unless a way back failed, an opening serves what is stored |
| `overlay_interrupted` | one migration, which ends at any await | disagreement 2 |
| `sde_install` | two processes at once and one after them, that open or prepare either of two builds, found in any state; imports that others meet, journals left beside a place, a disk that may fail | no partial place, no build ahead, a clean store at rest, a next call that is served, each but for what it names: a journal left behind, a clean-up that failed |
| `topics` | four callers of two keys in a cache that holds one, in each of five caches; prerequisites of three types; fits of two entries | fresh, shared and not inherited answers; plans agree with closures; a fit keeps its entries |
| `resource_pool` | two workers, three entries of two resources, bodies of up to two bytes, a signal | whole bodies, nothing past the deadline, an exact report, every call ends |

*Why these bounds are enough.* Two requests suffice for the cache: one to hold a
source and one to be blocked, to share an opening, or to keep a sweep draining; the
handlers do not otherwise tell each other apart. Two builds make a fallback, three
handles an alias (a request for 2 answered by 1, beside 1 itself, with one to open
anew), two targets a foreign composer, and `MaximumBuilds = 1` with two identities
puts every sweep at its limit. For liveness a sweep must fail to close one source
while another's turn has not come, which takes two sources; one request suffices to
open both. `MaxAge` is the longest idle time, after which nothing changes. For the
session, two callers in one process share and miss a refresh and one in another
process races them; two logins let a refresh meet another's record, two versions let a
token be spent that was rotated away. One of the logins is `Nameless`, so that its
record and the other's meet. For the store, a migration and the request that meets it
are two requests; more payloads would not meet each other, for no step touches two.
The one that nobody keeps is stored unchecked, beside two of which no row leaves
anything unsaid. For the prune, one observer suffices for another writer with another
view: it may have been told any build upstream ever named, and its line may come
between any two steps of the prune. Two builds let upstream go forward and back; a
window of 1, the tool's default, makes the newest, the pinned and the served build
differ; the second target is there because a payload of its build is shared with the
other's, so that one target's failure endangers the other's files. Two lines make one
when the first has lost its end, and a third is appended to that.

For the overlays, two publications meet at every pair of steps and a third would only
do to either what the other does; two names are a replacement's source and
destination; the reader opens while both move. For the SDE, two processes race and
the third, which starts when they are over, is the one that must find its way in what
they left; two builds are a fallback. Two processes also suffice for one to find the
other's import under way, retire its file and leave its journal. This is the largest
instance, twelve million states. For the held reads, with one place and two keys
an entry is evicted with its read under way, the four callers are that read, the one
that evicts it, the second read of the same key and one that shares either; a
lifetime of 1 in a clock of 2 lets a promise expire while it is pending and another
be asked for. Three skills make a diamond of two depths and every cycle of up to
three; at most four requirements in all and at most two slots per type leave room for
two slots of one skill; `MaxDepth = 3` is the code's cap, made small so that it cuts.
Two entries of three types are a pair in one slot, in different slots, and a module
beside cargo. Two workers share a load of the entry that is in the list twice; the
larger resource takes two chunks, so that a part of it exists.

*What is deliberately nondeterministic*: which of equally old units goes first, how
long anything takes, what EVE, a remote, a stream and a disk answer, when another
process runs or ends.

## 6. Fairness

Liveness is checked under the weakest fairness the code justifies. Promises settle
and microtasks run (weak fairness of each continuation); an opening, a close and a
disk operation end; a download and a request to EVE are bounded by their timeouts
(`CjsToolBoundedFetch`), so an answer or a failure comes; the sweep timer fires and
time passes. A handler makes finitely many calls, so one that gets control again and
again returns: strong fairness of `Finish`. Nothing is assumed of clients (no request
need come), of processes that crash, or of the prune. `BudgetRestoredWhenDrained`
and `QuietServiceClosesSources` state their condition on the clients as a premise:
handlers that overlap for ever keep a sweep draining for ever.

That a download is bounded is not only assumed: `resource_pool` shows it. There the
network, the adapter behind `fetch` and the streams owe nothing at all; only timers
fire, what is runnable runs, and `onProgress` returns. `PoolEnds` follows from that.

## 7. The proofs

Each proof module shows an inductive invariant by one step per action, and takes its
theorems from it (`TopicsProofs` has one for each topic); the constants are only what
the `ASSUME` says. The type invariants are proved rather than run, each as part of the
inductive one.

**`BuildCacheProofs`**: `IInv = TypeOK /\ Safety /\ EveryEntryTracked /\
CloseIsFinal`. The properties are not inductive alone. That a handler's source is open
needs that no handler runs while sources close (`BarrierExcludesHandlers`) and that
only running handlers hold any (`OnlyHandlersHold`). That retiring an entry closes
nobody else's source needs `OneEntryPerSource`. That no open source leaks needs that
every opening is awaited by a handler which still finds it under its key
(`OpeningsAwaited`, `AwaitedIsCached`), although a failed opening deletes a key
without looking whose it is. That entries are named right needs the same for the time
between a settled opening and its callers' resumption (`EntryNamesServedBuild`,
`OpenServesIdentity`). That Close leaves nothing needs that all that is cached belongs
to a group a sweep can find (`EveryEntryTracked`), and that nothing is cached any more
from the moment Close's own sweep has retired every group, whatever openings and
sweeps it met (`CloseIsFinal`). That a sweep ends within its budgets follows at the
step that ends it, which changes nothing a budget counts, or in Close has nothing left
to count. Proved for any requests, targets, builds, handles and policy numbers:
`TypeCorrect`, `HandlersUseOpenSources`, `RetirementIsExclusive`,
`ReferencesStayOpen`, `OpenSourcesAreOwned`, `EntriesAreAccurate`, `AliasesClose`,
`CloseIsComplete`, `SweepRestoresBudget`, and `Refinement` (each step is a step of
`SourceLease` or a stutter).

**`CachePruneProofs`**: `KeepsProtected` speaks of the step that removes a file, and
what makes that step harmless was decided many steps before. `IInv` carries it
there: each target resolved so far has an answer that holds all it must
(`AnswersAreWhole`), which needs that the answer of upstream being recorded is of the
target whose turn it is (`TurnsAreTaken`); each kept index has been read or is still
to be, and nothing read is doomed (`IndexesAreRead`). That the log records upstream
needs that every answer on its way to the log is one its target had (`ToldWasHad`), and
so does a line that lost its end, since it is read. What `LogOnlyGrows` says of a step
follows from what the readable builds are: those of the whole lines, which only grow,
and that of such a line.
That a target which knows a build keeps one needs that a finite set of builds has a
newest (`TopIsThere`). Proved for any targets, builds, rules, observers, payloads,
indexes and window: `TypeCorrect`, `LogIsOfUpstream`, `LogOnlyGrows` and
`PruneKeepsProtected`. The last one assumes `WrittenExactly`, that a run names its
targets as the registry does; disagreement 1 is what happens otherwise.

**`PayloadStoreProofs`**: `IInv` adds to the properties that a request which has
missed nothing finds the second file when it did not find the first, and removes the
raw file only when its copy is there (`FoundLater`), and that what is on its way to a
file of an address all rows vouch for has been checked (`HandsAreClean`). Of an address
that a row names without its MD5, and of an answer whose gzip is not labelled,
`StoreIsProven` says nothing. Proved for any requests, sources, addresses and unchecked
rows: `TypeCorrect`, `StoreIsProven`, `AbsenceIsHonest` and, as an action
property, `KeptSurvives`.

**`EsiSessionProofs`**: that the live token is on disk cannot be shown of the record
alone, for a record is written from one that was read before. The invariant follows
the newest token of each login instead: it is in the file, in the hands of the refresh
that rotated it, in a write or in `lost` (`TokenInv`), and every older token that is
anywhere is older than that. It needs which phase each call, refresh, login and write
is in and what it holds there, that a temporary being filled belongs to one writer
(`Filling`), and that every record on its way to the file has a name, unless a login
was made that names nobody (`WhoIsKnown`). Proved for any clients, callers, logins and
rotations: `SessionIsSane` (the invariant, `TypeOK` in it), `IdentityStays` and
`LiveTokenStays`. The last one assumes that EVE rotates on every refresh (`~MayKeep`),
as the code's comment says it does: where EVE may answer without rotating, a slow
refresh of another process can put an older token back.

**`OverlayStoreProofs`**: payloads are stored before an index that lists them is
anywhere, so `Kept` holds of every directory a reader can meet, also between the two
files it reads. That a rename brings under a name only what carries it needs what each
call holds at each of its places (`HeldInv`) and what may be under its own names then
(`PhaseInv`). That no copy is lost (`CopyInv`) is about payloads rather than files: an
overlay without its tree is one whose tree a migration holds in its stage (`TreeInv`),
what a call stages has its payloads (`FreshInv`), and each name ever in place has a
copy under it or under an heir (`Safe`); heirs of an heir are heirs, which carries a
copy through a chain of migrations. That a store at rest opens (`QuietInv`) is about
the ways back: while nothing is under a name, the call that took it away is still
going to rename, or has `halted` and its backup has the overlay (`InPlace`, `Lent`); a
tree that is missing is with a migration that will put it back or has halted
(`Awaited`). Proved for any calls, readers, names and payloads, wherever calls
fail or die: `StoreIsSane`, `TypeCorrect`, `NamedStays`, `OpenedStays`, `CopiesStay`,
`QuietStoreStays`.

**`SdeInstallProofs`**: the invariant (`SafeInv`) says that names, files, handles and
journals are a build's own (`NamesAreOwn`, `FilesAreOwn`, `HandlesAreOwn`,
`JournalsAreOwn`) until a file is moved from beside a journal, and that a file has no
name before it is made (`UnmadeIsNowhere`). So whatever comes into a place until then
came whole: a file is written by the call that makes it, by an import that has it open,
or by a journal played back (`Written`), and as an import's file is locked there is one
import a build (`ImportLocks`). A build that is `adrift` stays so, and of its
place nothing more is said (section 8). `RestIsClean` needs what each call
still owes the disk at each of its places (`LeftInv`), and that a build which was
reached keeps a place that opens (`ReachedStays`). `NextIsServed` needs what the calls
before it may have left, which is fixed while a call is alone (`AloneInv`). Proved for
any calls, builds and failures: `StoreIsSane`, `NeverPartial`, `NeverAhead`,
`RestIsClean`, `NextIsServed`.

**`TopicsProofs`** has an invariant for each topic, as a topic that is not served stands
still.

*The reads* (`ReadsInv`): who reads a key is the one its entry names, unless the limit
or the clock has taken the entry from it (`Owns`); an entry that names a reader holds
until a lifetime after that one asked (`HeldFor`), so that a second read of a latest
build begins only once the first has outlived its answer. `FailureIsNotInherited` says
that whom a new caller would wait for is still reading, and that no failure is held but
the null of a name, for one lifetime at most. Proved for any callers,
keys, limit and lifetime: `AnswersStayYoung`, `ReadsAreShared`,
`FailureIsNotInherited`, of `HeldReads`; `TopicsServeReads` carries them to `Topics`.

*The skills* (`SkillInv`): what a walk has found is demanded by its target or by
something else it found, at that depth and that level, and whatever those demand is
found or still to be visited. When nothing is left to visit, that fixes the answer. The
plan and a closure are compared through it: a skill that one has and the other lacks,
or has deeper, would have a shallowest instance, and what demands that one is
shallower still (`PlanHasClosures`, `ClosuresHavePlan`; `LeastNumber`, that a set of
numbers has a least one, is the only induction). Proved for any prerequisites, cycles
included, any cap and any order of the visits: `PlanStays`, `DemandsStayNamed`.

*The fits* (`FitInv`): a record follows the first one entry by entry, what is fitted
has a slot, and a text is one written of the record. A text has each place of the
record once (`Arranges`), so it has the same entries, and as a DNA the same amounts; an
EFT may cut what could be fitted to one of each. Each group of it is in the
order of the record (`ChosenIsOrdered`, `TextIsSorted`), and as reading puts a type
into its own slot, each group of what is read is the group that was written
(`SlotsStay`), hence the same DNA. How many a record has of an item is the number of
pairs of a place and a unit (`Amount`), so that two records are compared by a
bijection of their places rather than by a sum. Proved for any types, slots and
lengths: `ItemsAreKept` and, as an action property, `DnaComesBackWhole`.

**`ResourcePoolProofs`**: a read's bytes, its reader and the state of its race agree at
every step, so the end of a cancelled reader is never taken for that of a body; a
resource is in the cache only whole, and a worker that counts an entry has it there.
The sum is the number of bytes of the entries counted so far (`SumInv`): no two workers
hold one entry, so each is counted once. Proved for any reads, workers, list and
limits: `ReadsAreSane`, `WholeBodies`, `DeadlineHolds`, `EveryEntryIsReported`,
`ReportAddsUp`.

*Only model-checked*: the liveness properties (`BlockedIsAnswered`,
`QuietServiceClosesSources`, `BudgetRestoredWhenDrained`, `GetEnds`, `RequestsEnd`,
`PoolEnds`), for liveness under fairness and ENABLED are out of the proof system's
reach. So is what a fold or a recursive function computes for every input; where a
property needed a sum, the number of a set's members says the same.

## 8. Where the code and its comments disagree

Each is the counterexample of one run; `PROJECT.json` quotes the comments.

1. *An empty keep-set is refused*: KeepSet answers under the registry's names, the
   prune looks up the target as it was typed; with `--only-targets --target EVE` no
   index is read, nothing refuses, and every payload goes
   (`NeverPrunesAgainstNothing`).
2. *An interrupted run costs a re-hash rather than an overlay*: Migrate renames the
   live payload tree into its hidden stage before the swap; a process that dies
   between leaves the overlay without it (`InterruptedRunCostsNoOverlay`).

Observed while modelling, without a run of their own:

- *Session.* Two token writes of one process meet on one temporary name; both may fail
  and a rotated token with them. A caller that read the record before another's
  refresh settled spends a token that EVE has rotated away. A refresh merges its token
  into the record of a login that completed meanwhile, whose character may be another
  (`CjsToolHttpProxy.js:2539` reads the character before the call, too). A login whose
  access token cannot be read stores a session that names nobody
  (`CjsToolEveSso.js:127-144`).
- *Payloads.* A request that looks for the gzip just before, and for the raw file just
  after, another's migration answers with the gzip unlabelled. A generated payload
  whose raw file was migrated is answered 503 by its path. The addressed route strips
  one `.gz`, and the store admits addresses that end in another (:1495). "A cached
  payload is either complete or missing" (`CjsToolCache.js:107`) holds of what its row
  declares: without size or checksum any bytes are stored
  (`CjsToolPayloadCheck.js:56-65`).
- *Downloads.* The in-flight key leaves out the caller's signal
  (`CjsToolIndexSource.js:365`), so who started a shared download can call it off for
  all. The bodies of refused responses are not cancelled. When a prefetch rejects, its
  other workers go on.
- *Builds.* `ResolveTargetBuild` gives `Decide` no cached build, so a hold never holds
  (`CjsToolIndex.js:295`). An append that fails in `#Discover` makes KeepSet decide as
  if upstream had been silent (`CjsToolBuildAuthority.js:341`). A line cut short
  swallows the next process's (`CjsToolBuildObservations.js:179`); one that lost only
  its end is read until then and no more afterwards, although a build that is never
  written down is called unknowable (:25-34). A build that a prune
  discovers is recorded twice.
- *Shutdown.* A failing sweep makes `Close` reject before a sweep of its own
  (`CjsToolBuildCache.js:209`), with the timer gone, and sources that were not due stay
  open. The liveness properties name this exception (`"cut short"`).
- *Overlays.* Replace prepares its copy under a visible name; a process that dies while
  it rewrites the copy's manifest (`CjsToolIndexOverlayStore.js:933`) leaves an overlay
  there that cannot be read, and opening the target fails from then on. When a rename
  fails and the rename back fails too (:880-883, 946, 622), nothing returns to it: the
  overlay is in a hidden backup that no opening lists, and nobody died.
- *SDE.* "Answer from the newest prepared database" (`CjsToolSdeRepository.js:336`)
  fails when that is the build asked for, which another process has prepared since. A
  database that another process is importing into is busy, and `WriteDatabase` takes
  any failure to open for an invalid file and retires it
  (`CjsToolSdeArchive.js:202-205`). Its rollback journal stays beside the place and is
  played back into the file put there next, so for such a build the import is not
  "atomic" (`CjsToolSdeDatabase.js:91`), nor are its contents only replaced (:114). The
  rename back (:344) and the removals (:320, :351) may fail without a crash; the names
  stay and nothing takes them away. The command looks at no build and may print that of
  a file put there for another.
- *Names.* A POST that fails is answered null, and `Resolve` holds the null for its
  lifetime (`CjsToolPublicIdentity.js:306-307, 318-329, 208-212`), although "the next
  caller should get a real attempt" (:129).
- *Skills.* "Deepest first is trainable" (`CjsToolSkills.js:242-244`) does not hold: a
  skill is listed at its shallowest depth, which is no topological order, and
  Requirements' "Sorted deepest last" is the reverse of it.
- *Fittings.* EFT drops the quantity of what is fitted and reads spare modules back as
  fitted (`CjsToolFittingCodec.js:303-340`): a stack, `type;2` of a DNA, comes back as
  one module, although losing modules in silence is what the reader refuses (:77,
  306-308) and a test says that emitted EFT reads back to the same fit
  (`test/fitting-codec.test.js:208`). FromEsi's "where a flag is absent or
  unrecognised the type decides" (`CjsToolFitting.js:135`) does not happen: only the
  flag decides.

## 9. What is not modelled

The components section of `PROJECT.json` says of each part whether and why. Most of
the package's lines are transformations of one input into one output, without state
that outlives a call and without a second actor: the SDE build pipeline, the audio,
character, skin, SOF, weapon and shader builders, the schema emitter and its helpers,
the conversion scripts, the maps. A model of them would restate tables and string
handling, and an instance small enough for TLC would hold none of the data that makes
them go wrong; the fixtures of the tests are the better check. That is why the mapped
share of all lines is small although the parts with state are covered. Dogma,
industry and the map's geometry are floating point. The library artifacts and the
shader publication repeat shapes that are modelled, with one writer: a temporary that
is renamed (`StoreRaw` of `PayloadStore`), a directory swapped by renames
(`OverlayStore`).

Within the modelled parts: what answers hold, routing and parsing of requests;
`Verify` and its gate, which no code of the package turns on, `StaleRules`, `Cadence`
and the polling schedule; the prune's per-build directories and its ledger;
conversions (`<address>.<suffix>`), index files and custom outputs (replaced whole,
the last writer wins); ImportRemote, which prepares an Import's input, and the
overlays' translation markers; own exports of the SDE and its queries; an
SDE opening that finds another playing a journal back, and the rebuilding of query
indexes after an import (`upgradeQueryIndexes`); `readBytes` with a caller's signal and
no timeout (`CjsToolBoundedFetch.js:151-156`), which nothing in the package uses; several
requests that make one identity lookup; how numbers, names and flags are spelled in
a fit's texts.
