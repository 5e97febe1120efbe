# Formal models of vampire

vampire is a caching proxy for PyPI, npm and Cargo: a single async process that
keeps artifacts and metadata on local disk, shares one upstream fetch between
concurrent requests, and bounds its disk use, its upstream work and its buffered
memory. This directory holds TLA+ models of its concurrent core, of its startup and
of what its listeners accept, TLC runs that check them on small instances, and
TLAPS proofs for instances of every size.
Source paths below are relative to the repository's own `src/` (`cache.rs`,
`proxy.rs`, ...) and `docs/`.

## Inventory

| Component | State | Operations | Interacts with |
|---|---|---|---|
| `Inflight` cell (`cache.rs`) | outcome under a mutex, a `Notify` | `wait_for_outcome`, `finish_cached/response`, `fail` | fetch, cleanup guard, waiting requests |
| Artifact path (`cache.rs`, `proxy.rs`) | inflight map, pins, permits, `<key>.part`, `<key>` | lookup/join/lead, fetch task, `commit_artifact`, handoff | detached task per flight; janitor through pins and a capacity-one channel |
| Eviction (`cache.rs`) | `eviction_lock`, running total | `evict_files_to_bound` by the janitor, inline after metadata writes, at startup | every published file, pins |
| Metadata path (`cache.rs`, `proxy.rs`) | inflight map, permits, unique temporaries | revalidate, rewrite, `store_metadata` | runs inside the leader's request; upstream versions |
| Admission (`cache.rs`, `proxy.rs`, `npm.rs`) | `upstream_semaphore`, `metadata_memory_semaphore` | try-acquire, reserve, release with the last clone of a body | metadata, search, audit, cold HEAD, artifact leaders |
| Cache directory (`cache.rs`) | marker file, advisory lock | claim, lock, clean stale and legacy files | other vampire processes |
| Packed entry format (`cache.rs`) | footer of a file | `read_footer`, `footer_geometry`, `serialize_meta` | every reader |
| Routes (`cargo.rs`, `pypi.rs`, `npm.rs`, `routes.rs`) | none of their own; their keys name cache entries | path validation, upstream URLs, HTML/JSON rewriting | metadata and artifact paths, the rewritten pages of earlier runs |
| Git gateway (`git.rs`) | none | filter, forward, stream | git client only |
| Clients (`state.rs`) | none | redirect policy, timeouts | every fetch |
| Config and entry points (`config.rs`, `main.rs`, `app.rs`) | settings, three listeners | parse, validate, bind, serve | cache directory, other processes |
| Stats, failure log | counters | counting, logging | |

What is hard here: handlers are dropped at any `await` when a client goes away,
and drop guards then finish the work in detached tasks; file operations run on a
blocking pool and outlive the future that asked for them; checks (`load`,
`is_pinned`) and the actions based on them are separated by awaits; the janitor's
channel has room for one request; a process may end anywhere and several may be
started on one directory; one upstream resource has many spellings, and what one
function emits (a link, a key, a footer) another one has to accept, perhaps in a
later run with other settings. `PROJECT.json` lists these points as hazards, each with
its line and the properties that watch it.

## Modules

| Module | Models | Role |
|---|---|---|
| `OneShot` | what an `Inflight` cell promises | abstract specification |
| `Inflight` | `Inflight`, its waiters, the fetch, the cleanup guard | implements `OneShot` |
| `InflightProofs` | | proofs |
| `ArtifactCache` | artifact requests, flights, files, pins, janitor, crash and restart | |
| `MCArtifactCache`, `ArtifactCacheProofs` | | instances, proofs |
| `MetadataCache` | metadata leaders and followers, `store_metadata`, guards, late file operations | |
| `MCMetadataCache`, `MetadataCacheProofs` | | instances, proofs |
| `Admission` | the two semaphores and everyone who competes for them | |
| `MCAdmission`, `AdmissionProofs` | | instance, proofs |
| `CacheDirectory` | settings, listeners, marker, lock and startup cleanup, several processes | |
| `MCCacheDirectory`, `CacheDirectoryProofs` | | instance, proofs |
| `EntryFormat` | the bytes of a packed entry and `read_footer` | pure operators |
| `EntryStore` | both kinds of publication, both kinds of scan and readers on one directory | uses `EntryFormat` |
| `MCEntryStore`, `EntryStoreProofs` | | instance, proofs (of `EntryFormat` too) |
| `Paths` | path validation, upstream URLs, rewriting of links | pure operators |
| `GitGateway` | what the Git listener forwards | pure operators |
| `Frontend` | routes, cache keys, redirects, restarts under another address | composes `Paths` and `GitGateway` |
| `MCFrontend`, `FrontendProofs` | | instance, proofs (of `Paths` and `GitGateway` too) |
| `FiniteSums` | | lemmas: sums over finite sets, induction |

The operators named `Mut...` are faulty variants of the definition that follows
them. No specification uses them; substituting one for its original must break
the property it is listed with in `PROJECT.json`.

### How state and actions correspond to the code

A step is what a task does between two awaits, or one file operation. A request
leads at most one flight, so the flight, its `Arc<Inflight>`, its fetch task and
the file it writes are named by the leading request: reference counts become
questions about who still stands where (`Holds`, `InflightAlive`, `BytesAlive`).

*Inflight.* Creating the `Notified` future (`Register`), the critical section
(`Check`) and the wake-up are separate steps; `complete` is two (`Complete`,
`Notify`). The fetch can be dropped only at an await (`DropFetch`), never between
storing the outcome and notifying.

*ArtifactCache.* `Lookup`, `Load`, `JoinLate`/`Refuse`/`Lead` are the
double-checked locking of `lookup_or_start_artifact`. `FetchOk` ...
`DropLeader` are `run_artifact_fetch`; `Append` is the part of `commit_artifact`
up to the rename: the appended footer is `pending` until `FooterLands`, because
the file is dropped without a flush. `DropPins` is the destructor of
`PublishedEntry` and part of whichever step drops the last clone. `Abort` drops
the fetch future (runtime shutdown, panic) and `CleanTemp`, `CleanFail`,
`CleanFinish` are the task of its guard. `JanitorWakes` ... `ScanEnds` are the
janitor and `evict_files_to_bound`; after a `Crash`, the same scan ends
`CacheStore::new`. `InlineBegins` is the same scan run by `store_metadata` under the
lock, `InlineCut` the disconnect that drops it, and `LateRemoval` the `remove_file`
that the blocking pool still had then. Of metadata entries only their bytes are known
(`MetadataBytes`), anew in each scan.

*MetadataCache.* Bodies are abstracted to the version of the upstream document,
and a validator identifies the version. `LeaderLeaves` drops the whole fetch with
its client: permit and lock return, both guards spawn, and a create or rename
already handed to the blocking pool becomes `late`. The permits are shared with the
artifact path: `ArtifactBegins` and `ArtifactEnds` take and return one.

*Admission.* Lengths are in MiB, as reservations count them. A reservation is
dropped when nothing can reach its bytes any more: handler, outcome in a living
`Inflight`, or an undelivered response. Storing is only a step that may fail.
`RewriteEnds` assumes that a rewritten body keeps to `output_bound`: the code checks it
against the 128 MiB limit only, and a test (`rewrite_bound_covers_short_pypi_index_links`)
asserts the estimate.

*CacheDirectory.* `Start` is `Config::from_env`, `Bind` the three listeners in the
order of `main`, and what follows `CacheStore::new`. A setting is what parsing left
of its variable. A file name is abstracted to what the name matchers make of it
(entry, legacy, temporary, other); `fs::write` of the marker is two steps. A process
that fails or stops gives back its listeners and its lock.

*EntryStore.* A file is the sequence of its bytes and keeps its identity (the
writer) when it is renamed, replaced or unlinked, as an open file does. `Commit`
leaves the last four bytes to `LengthLands`. `Open`, `Size`, `Footer` and `ReadBody`
are the awaits of `load` and of what is done with its result; the size a reader was
told may be old when it reads. `List`, `Examine`, `RemoveVictim` are the awaits of
`evict_files_to_bound`, for the janitor or the store that holds `lock`. `Cut` drops
a store at any await; a rename or removal in the blocking pool then happens without
the lock (`LateRename`, `LateRemoval`).

*Paths, Frontend.* A path is a sequence of segments of characters; a character has
a form (raw, `%XX`, `%xx`, malformed) and a class, chosen so that the tests of
`routes.rs`, the scheme rule and the path rules of the `url` crate treat the members of
a class alike. Two things that crate does are left out: it makes slashes of backslashes
and drops tabs and newlines. Request paths are tested for these characters before they
come to it, and the path of a link that names a host is taken as the crate has read it.
The `url` crate is external (`UrlPath`, `HasScheme`); `Resolved` takes
the segments one by one, as it does, and a dot segment takes back the one before. A handler is one
step of `Frontend`, and the cache a map from keys to entries that eviction may
shrink at any time; `Restart` keeps it and changes the public address.

*GitGateway.* Segments are names out of a set, with the sets of those that hold a
percent sign or a backslash, look like a scheme or hold what a URL has encoded; the
last two are what `join_url` refuses when everything else was accepted.

### Abstractions to keep in mind

- In `ArtifactCache` and `MetadataCache` eviction takes entries in any order, a
  superset of mtime order. `ArtifactCache` has both kinds of scan and their lock, but of
  metadata only the bytes; `MetadataCache` has inline scans of metadata entries only.
  `EntryStore` has the order, both kinds of entry and both scans, without the flights.
- Entry sizes depend on the key only in those two; removal of temporary files is assumed to
  succeed in `ArtifactCache` and `MetadataCache` (`"remove"` faults concern
  entries), not in `CacheDirectory`.
- A create or a rename of an aborted artifact task that lands late, after the cleanup
  has removed `<key>.part`, is not modelled (such a task is dropped only when its
  runtime ends); for metadata, where disconnects make both common, they are.
- `recv`, lock and drain of the janitor are one step in `ArtifactCache`, two in
  `EntryStore`.
- Unlinking and renaming are atomic in `EntryStore`, and an open file stays readable.
- In `CacheDirectory` the run stands in for 64 bits with 8 and for the factor of a
  million with 10; the proof is for any width.
- `redundant`, `strayed`, `began`, `cut`, `raced`, `starved` and `found` are history variables: no
  action reads them.

## Runs

| Run | Instance | Shows |
|---|---|---|
| `inflight` | 3 waiters, 2 results | no lost wake-up, refinement of `OneShot`, every waiter returns |
| `artifact_sharing` | 2 requests beside an older entry, room for one entry, 2 permits, 2 inline scans that may be cut, listing and removal faults | `SingleFlight`, `PinnedHandoff` |
| `artifact_recovery` | 2 requests, aborts, an inline scan that may be cut, read and write faults, 2 crashes | `TypeOK`, `TempOwned`, `PermitAccounting`, `BoundWhenQuiet` |
| `artifact_liveness` | 2 requests for an artifact larger than the bound, one abort, an inline scan that may be cut | `EveryRequestEnds`, `BoundRestored` |
| `artifact_handoff` | 2 requests | **violated**: `PinnedThroughHandoff` |
| `metadata_safety` | 3 requests, 2 keys, 2 permits, an artifact fetch that takes one, all faults, one upstream change | `Freshness`, `SingleFlight`, `PermitAccounting`, `LeftoversOnlyWhenCut`, `TypeOK` |
| `metadata_liveness` | 3 requests, 2 keys, 2 permits (two leaders contend for the eviction lock), an artifact fetch that takes one (a leader can be refused), entries larger than the cache | `EveryRequestEnds` |
| `metadata_bound` | 2 requests | **violated**: `BoundWhenQuiet` |
| `admission` | 2 metadata requests, search, audit, HEAD; 2 permits, 4 MiB, bodies to 2 MiB | `MemoryBounded`, `AllReturned`, `SomebodyFits`, `TypeOK` |
| `directory` | 2 processes, 2 starts each, six settings, one file of each class | `ReadyBeforeClaim`, `LiveWritesKept`, `UnownedUntouched`, `ForeignKept`, `TypeOK` |
| `entry_store` | 3 old entries, one of them torn, in three orders of age; an artifact and a document published again; one reader; room for two entries; all faults | `ReadsAreWhole`, `MissesHaveReason`, `BoundWhenUncut`, `EvictsOnlyWhenOver`, `OldestFirst`, `TypeOK` |
| `frontend` | some 80 requests and 70 links in all forms and classes of characters, 2 public addresses, 2 entries, 5 redirect chains, some 130 Git requests | `NoAliases`, `AnswersMatch`, `LinksPointHere`, `LinksResolve`, `GitFetchesOnly` |

Run one with `tlc -config <cfg> <module>`; `PROJECT.json` names both.

**Bounds.** Two requests for one key give leader and follower, and two flights in a row;
a third on another key makes metadata leaders compete for permits and for the eviction
lock. With two entries of size one and room for one, every second publication evicts.
Whether an inline scan has to remove an artifact depends on the bytes of metadata it
finds, none or enough to exceed the bound; one whose removal outlives it, and one more
beside it, meet every step of two flights. One crash can hit any step and the second one
the recovery from the first. One upstream change separates stale from fresh. In
`admission` two full reservations exceed the budget and one fits. In `directory` two
settings share a port, one uses a port twice and one is 4 over the largest byte count.
In `entry_store` the body of one artifact looks like an entry itself, and whether
anything has to go depends on which publication a scan has seen. In `frontend` two
entries are what an alias, a collision or a stale page needs. `entry_store` has one new
writer of each kind; requests to the janitor that fall together, and a store that
follows a cut one whose rename is late, are left to the proofs, which are for any
number. Named bounds: `MaxCrashes`, `MaxStores`, `MaxArtifactFetches`, `MaxVersion`,
`MaxStarts`, `MaxEntries`, and the sets `Abortable` and `IOFaults`. Symmetry permutes
only requests for the same key (or the two processes) and is used in safety runs only;
the views leave out values that no later step or property looks at.

**Fairness.** Weak fairness only, and only on what the program itself drives: the
tokio runtime polls ready tasks, the package client's total timeout
(`state.rs`, `build_package_client`) ends every exchange with upstream, the
blocking pool runs what it was handed. Clients need not arrive or leave, and no
fault, abort or crash is ever forced. The eviction lock needs no strong fairness
in a run with finitely many requests.

### What the violated runs show

- `artifact_handoff`: a request whose `load` missed just before a publication leads
  a second flight after the first has finished. Its pin replaces the first one in
  the map and its drop leaves the entry unpinned while a waiter of the first flight
  has not opened it. There is one other way: an inline scan of a metadata store is cut
  short by a disconnect while its `remove_file` is with the blocking pool, and the
  removal happens after the file was published anew and pinned. `PinnedHandoff` shows
  that there is no third.
- `metadata_bound`: the eviction scan of `store_metadata` belongs to the leader's
  request; a disconnect after the rename cancels it and nobody asks for another.
  `LeftoversOnlyWhenCut` shows the bound holds when no store is cut short.

### Observations without a run of their own

- `commit_artifact` drops the file without `flush`, so an artifact is renamed into
  place before its last write has landed (`store_metadata` does flush).
  `docs/specs/requirements.md:79` ("All cache entries are published as a single atomic
  file") promises more than that. `MissesHaveReason` is what the code keeps: a reader
  misses a file only if it lacked its length when the reader asked for its size, and
  whatever has its length by then is found. `load` reports such a file as missing, and
  if the last write fails it stays so until it is fetched again or evicted.
- A `File::create` still in the blocking pool can run after the drop guard has
  removed the path; the temporary file then stays until the next start.
  `LeftoversOnlyWhenCut` shows that a cut store is the only way.
- A store that is cut short releases `eviction_lock` although a rename or removal it
  has begun is still in the blocking pool. `PinnedHandoff` and `BoundWhenUncut` name
  what that can cost, a pinned entry and the bound; `ReadsAreWhole` and `Freshness`
  hold all the same.
- A scan that lists an artifact before its last write has landed counts it four
  bytes short, so the cache may stay that much over its bound.
- A scan beside which an artifact is published (it holds no lock) may remove an entry
  although the files fit: it subtracts the sizes it listed. Hence `raced` in
  `EvictsOnlyWhenOver`.
- Links whose path begins like the scheme of a URL (`x:/...`), and links below
  `/simple/` that are no project page, are rewritten and then refused with 404 when a
  client follows them; `LinksResolve` names both as exceptions.
- The working set of an npm rewrite (twelve times the body plus its output bound)
  exceeds the 1 GiB budget from about 75 MiB on, so larger packuments under the
  128 MiB limit are always answered with 503.
- A process that ends between creating and writing the marker leaves an empty one,
  which every later start refuses as unowned.

## Proofs

TLAPS proves every invariant and action property of the passing runs, for every
value of the constants that satisfies the assumptions of the module; the runs show
them on an instance. Liveness is left to the runs, but for the part of it that is
safety: nobody waits for something that nobody will do. Each proof of an invariant has one
step per action.

**Assumptions.** `ConstantsAssumption` of each module gives the constants their types
and keeps the model values apart (`OutcomesAreDistinct` for `Inflight`). Beyond that:
`Keys` and the `Reqs` of `Admission` are finite, because the sums over them are (a
process has finitely many requests and files); paths of requests and links have at
least one segment, and a chain of redirects is a finite sequence (`Frontend`);
`MetasAssumption` says that serialized metadata ends in printable characters and is no
longer than `MAX_META_LEN`. Times of old files are arbitrary, so the clock of an
earlier run may have been ahead.

**Two theorems have a hypothesis.** `ArtifactCacheProofs.BoundIsRestored` assumes that
the janitor can list the cache and remove files (`IOFaults` without `"list"` and
`"remove"`, as in the run): with a failing disk the bound cannot hold.
`EntryStoreProofs.BoundIsRestored` starts from a cache within its bound: that is how
`CacheStore::new` leaves it, unless a removal fails, and nothing is asked of the
janitor before the first publication. `Init` of `EntryStore` allows any old entries, so
that the other theorems cover a start over the bound too.

- `InflightProofs`: `TypeCorrect`, `WakeupsAreNotLost`, `CellIsOneShot`. The
  invariant adds to `TypeOK` and `NoLostWakeup` that an outcome is there exactly
  when a completer is past its store, that only one of fetch and guard notifies, and
  that what a waiter has is the outcome; the last part makes every step a step or a
  stutter of `OneShot`.
- `ArtifactCacheProofs`: `TypeCorrect`, `FlightsAreSingle`, `TempsAreOwned`,
  `PermitsAreConserved`, `HandoffIsPinned`, `BoundIsRestored`,
  `WaitersAreAttended`. `SingleFlight` becomes inductive with the correspondence
  between requests, flights and tasks (`BaseInv`). Upon it rest independent parts: who
  owns a temporary file in each phase of the process, including the startup cleanup; the count of permits, where a step changes
  the set of permit holders by at most one element; the handoff argument, that the
  pin of a flight is in the map while a waiter may still open the entry, unless a
  redundant flight of the key exists, that a scan about to remove a file has
  seen no such pin, and that only a removal whose scan was cut takes a file
  otherwise (`strayed`); and the bound (`BoundInv`): every pin has a holder who will ask
  for a scan when it lets go, a scan under way, inline or not, has counted every file in
  what it has read, and so either a scan is to come (`Pending`) or the files fit (`Kept`).
  `WaitersAreAttended` says that a waiting request has its outcome there, or a task
  that has yet to complete the flight; it needs that a flight is completed before it
  leaves the map.
- `MetadataCacheProofs`: `TypeCorrect`, `FlightsAreSingle`, `PermitsAreConserved`,
  `AnswersAreFresh`, `LeftoversAreExplained`, `FollowersAreAttended` (as above, with
  the leader or its guard for the task). Freshness needs that every value under
  way (result, outcome, answer) is at least the version at which its flight began,
  and that upstream versions only grow. Leftovers need that the lock holder's total
  is the sum of what it listed and has not removed, and that a store which is not cut
  scans after its rename.
- `AdmissionProofs`: `TypeCorrect`, `MemoryIsBounded`, `EverythingReturned`,
  `NotEverybodyStarves`. The heart is an equation: free memory and the sum of all
  reservations make up the budget, free permits and their holders the permits.
  `MemoryIsBounded` then needs that a reservation covers what its owner has in
  memory at every stage, for as long as a clone of the bytes lives;
  `EverythingReturned` that who is at rest has reserved nothing; and
  `NotEverybodyStarves` that a request that was refused holds nothing any more, so
  that the last one to be refused would have had the whole budget.
- `CacheDirectoryProofs`: `TypeCorrect`, `LiveWritesAreKept`, `UnownedIsUntouched`,
  `ForeignIsKept`, `StartsAreReady`. The invariant adds that owners hold the lock,
  that only serving processes write and only to temporary files, and that in a
  directory to be refused every walk still has an unrecognised file ahead of it.
  `StartsAreReady` needs that a process holds as many of its listeners as it has bound
  so far and that its settings passed validation, for any `Mega` and `MaxU64`.
- `EntryStoreProofs`, the format: `PackedIsRead` (what is packed is read back) and
  `UnfinishedIsInvalid` (a file without its last four bytes is refused, whether or
  not they land between the two reads). Both rest on the layout of a concatenation
  and on `MetasAssumption`: four printable characters read as a length exceed
  `MAX_META_LEN`. Readers: `ReadersGetWholeEntries`, `MissesAreExplained`. The
  invariant says that a file that was begun is what its writer packs, with or without
  the length, the latter only for artifacts; that what stands at a path was written
  for its key; and for a reader at each await, and after a miss, what it knows of the
  file it has open.
  Scans: `TypeCorrect`, `EvictionsAreNeeded`, `OldestGoesFirst`, `BoundIsRestored`. A
  scan's total is compared with the bytes that are there: what it listed, less what
  it removed, is no more than the files unless a publication raced with it, and no
  less than the files that stay unless another scan is to come.
- `FrontendProofs`: `ResourcesAreHeldOnce`, `AnswersAreAsAsked`,
  `RewrittenLinksLeadHere`, `RewrittenLinksResolve`, `OnlyFetchesGoToGitHub`. The
  invariant on the state is short: what is filed under a key is `Sound` for it, also
  across restarts. The work is in the operators, for paths of any length and any
  spelling. Every route accepts a resource only under its normal spelling
  (`UpstreamIsResource`), which makes keys of one resource equal. A path without dot
  segments goes through the `url` crate with nothing but its characters encoded
  (`ResolvedWithoutDots`, by induction on the segments), that encoding and the normal
  spelling commute (`SpellingsCommute`), and what the rewriters emit is free of dot
  segments; hence following a rewritten link gives back the resource
  (`FileLinkResolves`, `PageLinkResolves`).

**Induction.** The library's induction theorems have predicates as parameters, which
the provers cannot instantiate. `FiniteSums` states induction over the subsets of a
finite set and over the naturals for *sets* of sets and of numbers, from
well-foundedness, and derives from them the defining equation and the laws of
`SumFunctionOnSet`; `FrontendProofs` derives the defining equation of `Resolved` in the
same way.

**Only model-checked**: liveness (`EveryWaiterReturns`, `EveryRequestEnds`,
`BoundRestored`; the prover has no fairness rules), and the two violated runs. What
is proved of them is that they cannot fail for want of somebody to act:
`NoLostWakeup`, `WaitersAreAttended`, `FollowersAreAttended`, and `BoundIsRestored`.

## Not modelled

How links are found in HTML and JSON, the limit on rewritten output (`Admission` has
its effect on memory), response headers, statistics and logging: formatting without
state that anything depends on. The allowlist of npm search queries and Cargo's
`config.json`: single tests of one request. The streaming of Git responses with its
idle timeout: one loop of the HTTP library. Hash keys are taken as collision free.

## Plan

1. *Done*: `Inflight`, `ArtifactCache`, `MetadataCache`, `Admission`,
   `CacheDirectory`, their runs and the proofs above.
2. *Done*: `EntryFormat` and `EntryStore` (eviction shared by both kinds of entries,
   readers), `Paths`, `GitGateway` and `Frontend`, settings and listeners in
   `CacheDirectory`; the proofs about the format, the readers and the start.
3. *Done*: the remaining invariants and action properties of the runs as theorems:
   `Admission`, the bounds on the cache, the types of `MetadataCache` and `EntryStore`,
   eviction order, `Frontend`.
4. An abstract specification of the cache as its clients see it, and the artifact path
   shown to implement it.
