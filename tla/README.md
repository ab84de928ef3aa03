# LogStream Portal: specifications and proofs

The portal lets the owner of a workload account fork some of its log sources
into a Kinesis stream or an SQS queue of their own. Each fork is a row of the
database, a resource and an IAM read role in AWS, and a route with its output on
the Cribl leader. This directory models the backend (`backend/app`), which is
where those four must agree, and the script that configures the fleet whose
sources the portal discovers (`scripts/seed_cribl.py`).

## 1. Inventory

| Part | State | Operations | Talks to |
|---|---|---|---|
| fork lifecycle, `streams/service.py` | tables `streams`, `stream_sources` | create, add, remove, delete, retry, approve / reject, reapply | catalog, provisioner, roles, pipeline |
| database, `db.py` | one sqlite file, one connection, autocommit, no lock | statements; a partial unique index on the name of a stream that is not deleted; UNIQUE (stream, source) | every part |
| provisioner, `streams/provisioner.py` | Kinesis streams, SQS queues | create (with a waiter), delete | AWS |
| access roles, `aws/access_roles.py` | one role with one policy for each stream | create, delete | IAM |
| Cribl client, `cribl/admin.py` | none of its own; the leader's outputs, route table, commits, two version fields | apply: list, upsert, splice, delete stale, commit, deploy, await, roll back | leader |
| builders, `cribl/objects.py` | none | a route and a destination per stream; refuse unsafe tags | - |
| catalog, `catalog/service.py`, `uc_client.py` | none; Unity Catalog's tables | get_tree: build, save, load, merge | Unity Catalog, cache, `discovered_sources` |
| snapshot, `catalog/cache.py` | `catalog_snapshot.json`, a bundled seed | save, load | disk |
| discovery, `cribl/discovery.py`, `catalog/sync.py` | table `discovered_sources`, one thread | poll, upsert | leader |
| application, `main.py`, `routes/` | which requests are under way | handlers; resync at startup | all |
| peek, `streams/peek.py` | none; a Kinesis shard, an SQS queue | peek, flow badge | AWS, beside the producer and the consumer |
| seeding, `scripts/seed_cribl.py` | the leader's working configuration, its commits | seed_logging, seed_fleet | leader, beside the poller and operators |
| session, catalog view, access bundle, configuration | none | reads | - |
| frontend, infrastructure, other scripts | none that the backend depends on | - | - |

**Why it is hard.** The handlers are plain functions, so FastAPI runs them on a
thread pool: two requests overlap at every statement and at every call to AWS or
the leader, and nothing takes a lock. A reapply reads the database and takes
seconds to reach the workers. Every outside call may fail before or after its
effect; the process may be killed between any two steps; the workers fetch a
deployed version later than the leader shows it.

**What correct means**, part by part:

* lifecycle: no source is routed that nobody entitled asked for, or that needed
  an approval and has none; each stream is served or flagged; what is deleted
  stays deleted and leaves nothing behind; the leader converges to the database;
  every request is answered;
* Cribl client: routes that are not the portal's survive, no version points at
  an output it lacks, success means deployed, failure restores, calls end;
* catalog: no answer lists a source as it never was, a fresh answer is current
  and shows no source under two names;
* discovery: what the fleet collects is found in the end, with its volume,
  whatever fails; what is being seeded is never half there, for the nodes or for
  a round of the poller; a seed run that succeeds has seeded;
* peek: the latest events, in order, in bounded time, at no consumer's cost.

`PROJECT.json` lists the hazards one by one, each at its line.

## 2. Modules

| Module | Models |
|---|---|
| `Pipeline` | the contract of `CriblAdmin.apply`: a call is a few steps on the fork routes of the leader's table, its deployed version and the workers' version |
| `StreamService` | the fork lifecycle with the database, AWS and the catalog's listings; uses `Pipeline` (INSTANCE) as its leader |
| `CriblAdmin` | `apply`, one step per REST call, with outputs, numbered commits, polls and others' routes; implements `Pipeline` |
| `Listings` | the contract of `CatalogService.get_tree`: which answers the catalog may give |
| `Catalog` | get_tree on several threads and the snapshot file; implements `Listings` |
| `Discovery` | the seed script, the leader's working configuration, operators, and the portal's poller with its table |
| `Peek` | a peek at a Kinesis shard or an SQS queue, with the producer and the consumer at work |
| `StreamServiceProofs` | theorems of `StreamService`, for any number of threads |
| `StreamServiceSyncProofs`, `StreamServiceSerialProofs` | those about a reapply that nothing overlaps, and about requests served one at a time |
| `CriblAdminProofs`, `CriblAdminSerialProofs` | theorems of `CriblAdmin`, for any number of callers and for one |
| `CatalogProofs`, `DiscoveryProofs`, `PeekProofs` | theorems of these modules |
| `MCStreamService`, `MCCriblAdmin`, `MCCatalog`, `MCDiscovery`, `MCPeek` | small instances for TLC |

`StreamService` is composed with the contracts of its two big neighbours:
`Pipeline` is its leader, and every answer it acts on is one of
`Listings!Answers`. `CriblAdmin` and `Catalog` are shown to implement these.

A definition whose comment starts with *Mutant* is a plausible bug. No
specification uses it; it stands beside the definition it would replace, and
each property of a passing run has one that breaks it.

### StreamService

`req[t]` is what thread `t` is doing: the operation, its program counter and the
locals that outlive a step (`ref` is `resource_ref` as get_stream read it,
`live` and `want` are reapply's). One step is one SQL statement or one outside
call, which is the grain at which requests interleave:

* create: `StartCreate` (name check, `_resolve`), `Insert`, `Provision`,
  `GoLive`, `Mint`, `PutPolicy`, `Record`, `InsertMember` for each source, reapply;
* add: `StartAdd`, `InsertMember`..., reapply; remove: `StartRemove`, `Remove`, reapply;
* delete: `StartDelete`, `MarkDeleted`, reapply, `DelPolicy`, `DelRole`, `DelResource`;
* retry: `StartRetry`, `Provision` and `GoLive`, or `Relive`; then `Reread`,
  `Mint`... if there is no role, reapply;
* approve: `StartApprove`, `ApproveLookup`, reapply; a rejection is one statement;
* reapply: `ReadLive`, `Collect` for each stream, then the steps of `Pipeline`;
* handlers: `FlagError`, `FlagApply`, `NoteRole`, `NoteResource`.

`Fault` holds the failures of outside calls, `Crash` the death of the process,
`Startup` the resync, which ends before the first request is served. A request
that is turned away before it changes anything has no step: its conditions are
the guards of the `Start` actions.

Abstractions. A route is a pair of a stream and a source, so a stream's filter is
the set of its pairs. A sqlite statement is atomic (the connection is in
autocommit mode and sqlite serialises). The name check and `_resolve` are one
step, and so are get_stream and `_resolve` of add: the statement after them
tests the name, or the row, again. The catalog answers in one step, with any
tree that `Listings` allows: each name as it has been listed at some time, old
or new. A name and an identity differ: `Sources` are the names a source may be
asked for by (its Unity Catalog name, or `cribl://...` while only the discovery
knows it), `IdentityOf` gives the tuple that the route's filter selects, so one
stream may hold a source twice, gated differently. `Unsafe` are the sources
whose tags `Member` refuses. The failure of an apply is free when another call
is under way, when the workers have not fetched, and when nothing was changed, so
that the commit comes back without an id (`Interference`); otherwise it takes
from the budget of faults. That nothing was changed is read off the fork routes:
the table is that of the deployed or of the running version. An outside call that
fails may have had its effect. An answer of the leader that is not the JSON
expected (KeyError) is not modelled. Of the history variables, `seen` keeps what
each request resolved for which stream, and a request's `noted` that its delete
has put a failed teardown into last_error.
An INSERT and the `lastrowid` it yields are one step; on one connection that all
threads share, sqlite3 does not promise that (`service.py:63`).

### Pipeline and CriblAdmin

`Pipeline` keeps what a caller of `apply` can tell apart. Its three
configurations are sets of fork routes: `table` (uncommitted), `deployed`
(`configVersion`) and `running` (`deployedVersion`). `CriblAdmin` has the REST
calls: listing, upserts and deletions of outputs one by one, GET and PATCH of
the one route table, commits by number, polls to a deadline, and the rollback to
`previous`, an arbitrary one of the two versions, or none. The leader is
external; what it refuses is what the comments of `admin.py` say (an output that
a route points at cannot be deleted; a commit without changes may come back
without items). `ImplementsPipeline` is the refinement: outputs, polls and
others' routes are hidden, and a commit stands for the fork routes it holds.

### Listings and Catalog

`Listings` keeps which names have ever been listed how (`listed`), and the answer
each thread holds. An answer may be any tree whose every entry is in `listed`:
entries of different age side by side are allowed, an entry that never was true
is not. In `Catalog` a source is its identity (account, workload, name) and has
two names, Unity Catalog's and the discovery's. A reader's step is one call to
Unity Catalog or one operation on the file; `Open` truncates it and `Write` fills
it, so it is torn in between, and may stay torn when two writers overlap. A disk
that fails leaves the file as it was, or cut short (`WriteFails`). The
rows of `discovered_sources` come at any time (`Discover`); how they come is
`Discovery`. The history variables `listed` and a reader's `during` serve the
properties and the refinement only. The account of a schema, read from its first
table, and the views `scope_tree` and `annotate` are left out. A crash loses the
readers and keeps the file and the table.

### Discovery

`config` is the leader's working configuration, by object, `deployed` what the
nodes run. `seeder.pc` walks through `Calls`, the list of REST calls that main()
makes in its fleet mode: POSTs and a splice for the logging group, an upsert of
the output, of each source's pipeline and then its input, a splice of the route,
and a commit and a deploy for each group. A call may fail with or without its
effect, which ends the run; `Upsert` is a POST and perhaps a PATCH. An operator
may change or remove any object and release a group at any moment (`Edit`,
`Release`). The poller reads inputs, then pipelines (`ReadInputs`,
`ReadPipelines`), and upserts what it recognises row by row. `Stop` sets the
event of main's shutdown, `Exit` follows the join or its timeout. An object is
in one of three versions: absent, as specified, or edited; an edited input has
another volume, an edited pipeline lacks the identity tags. The logging group's
fork routes are `CriblAdmin`'s subject.

### Peek

Records are numbered; `Bodies` says in turn what they hold (a header, events,
blank lines, text that is no JSON), and `DecodeEvents` which events they give.
A Kinesis peek is describe, iterator, then pages of up to `PageSize` records; a
page may be shorter than what is there, or empty. The producer writes, and old
records expire, between any two calls. An SQS peek is one receive; the consumer
receives, deletes, and loses messages to the visibility timeout. The owner may
delete the stream meanwhile, and each call may fail (the 502 of `peek_stream`).

## 3. Runs

Passing runs (the number of states is that of the instance in the `.cfg`):

| Run | Properties | Instance |
|---|---|---|
| `streamservice_gate` | RoutedOnlyIfGranted, SoloApplySyncs | 2 threads, an admin and two consumers, a source with two names and one that no catalog lists, answers of any age, requests of create, add, remove, approve, a change of listing; 0.84 million states |
| `streamservice_lifecycle` | TypeOK, LiveHasRef, SoloApplySyncs | 2 threads, 2 streams of one name, both types, 3 requests of create, retry, delete, a fault, a crash; 1.4 million |
| `streamservice_serial` | FlaggedOrRaised, RecordedRoleExists, SoloApplySyncs, FlaggedOrServed, NoOrphans, DeletedStaysDeleted | 1 thread, all operations of an admin, 3 requests, 2 streams of 2 names and both types, lagging workers, requests for either of two sources or for one of them twice, the other sensitive and refused by Member, a fault, a crash; 1.3 million |
| `streamservice_liveness` | EveryRequestEnds | 2 threads, all operations of an admin, a sensitive source, lagging workers, a crash, 3 requests; 0.34 million |
| `cribladmin_concurrent` | TypeOK, OthersKept, ImplementsPipeline, EveryCallEnds | 2 callers, 2 forks, 2 filters, a fault or an abort; 0.11 million |
| `cribladmin_serial` | NoDanglingRoute, SuccessMeansDeployed, OthersKept | 1 caller, 3 calls, 2 faults, an edit by an operator; 0.4 million |
| `catalog_concurrent` | TypeOK, FreshIsCurrent, ImplementsListings | 2 readers, 2 changes of the world, a fault, a crash; 0.37 million |
| `discovery_seed` | TypeOK, NoInputUntagged, SuccessMeansSeeded, NoSourceSkipped, DiscoveredAtLast | a source, 2 seed runs, a failure, 2 edits or releases, a stop or a kill; 0.61 million |
| `peek_reads` | TypeOK, LatestShown, NoGaps, PeekEnds, ConsumerNotStarved | 5 records of 3 kinds, 3 pages of 2, limits 2 and 3; 12 thousand |

What the properties say, in short (each is stated above its definition):

* **RoutedOnlyIfGranted**: every route in the leader's table, in the deployed
  version and on the workers was asked for, on that stream, by somebody entitled
  to it and in scope of the source, and the request found the source standard, or
  an admin approved that very pair. It survives stale snapshots and rollbacks to
  old versions because legitimacy, once given, is history: what has been taken
  away again (a removed source, a deleted stream) may be routed a while longer.
* **SoloApplySyncs**: an apply that no request overlapped and that succeeds
  leaves exactly the database's fork set deployed, whatever was there before.
* **LiveHasRef**, **RecordedRoleExists**: what the row says exists.
* **FlaggedOrRaised**, **FlaggedOrServed**, **NoOrphans**, **DeletedStaysDeleted**
  and RecordedRoleExists speak of requests served one at a time. With two threads
  some of them fail: a stream that another request's older snapshot dropped is not
  flagged (`stale_snapshot`), a delete may be undone (`resurrection`).
  * FlaggedOrRaised: between requests a visible stream is flagged, or is live with
    its resource and its role, or has been left half-made by a crash and shows it
    in its row (still 'provisioning', or without an ARN).
  * FlaggedOrServed: a request that ends at its reapply, answered or with a 502,
    leaves its own stream flagged or live with resource, role and the deployed
    routes of all its active sources; and if the apply succeeded, every stream. It
    says no more, because a failed apply may take routes away from the streams of
    others (see the lag below), and a create that ends with an IntegrityError
    leaves rows that are not routed: both last until the next apply that succeeds.
  * NoOrphans: a delete that went through its teardown and itself noted no failure
    has left neither role nor recorded resource, also of a stream that was flagged
    before it, and of a mint that had failed half-way.
* **SuccessMeansDeployed**, **NoDanglingRoute** hold of calls of `apply` one at
  a time, **OthersKept** and **ImplementsPipeline** of concurrent ones as well.
* **ImplementsListings**: through outages, torn files, crashes and overlapping
  writers, no answer lists a source as Unity Catalog, the seed or the discovery
  never did. RoutedOnlyIfGranted needs no more than that of the catalog.
  **FreshIsCurrent**: an answer that is not stale is true of each source at some
  moment of its call, and shows none under both its names.
* **NoInputUntagged**: no node runs an input without its pipeline, whoever
  commits half a seed run. **NoSourceSkipped**: no round of the poller passes
  over a source it caught in the middle of its seeding. Both rest on orders
  (pipeline before input, inputs read before pipelines) that no test fixes.
  **SuccessMeansSeeded** holds of a run no operator disturbs, over any debris.
* **LatestShown**, **NoGaps**: what a peek shows, when it has not used up its
  pages, ends with the latest events the shard held at its last call; it is in
  order and has no hole. **ConsumerNotStarved**: a queue that is watched without
  end still empties.
* **EveryRequestEnds**, **EveryCallEnds**, **DiscoveredAtLast**, **PeekEnds**:
  liveness.

**Bounds.** `MaxRequests` (2 or 3) is enough for the interesting sequences:
create, then two more that overlap, or create, delete, create again. Two threads
give every pair of steps in either order; the model has no step that reads more
than one other thread. `MaxStreams` 2 gives one name to a deleted and a new
stream. `MaxRows` is never reached. `MaxFaults`, `MaxCrashes`, `MaxChanges`
bound the environment; each run names its own (only `gate` has a source
reclassified, only `serial` and `liveness` have every operation). `gate` has one
stream: with two it is out of TLC's reach, and the theorem is for any number.
`liveness` has no budget of faults, for it needs three requests (an approval whose
row a third request removes): two requests that disturb each other reach every
handler of an exception as well, with the resource in use, the role or its policy
changed under them, the apply failed. `MaxPolls`
stands for the 30-second deadline. One source is enough in `discovery_seed`:
each source's pair of calls touches only its own two objects, and the order of
the calls of one pair, against each other, the poller, a commit and a failure, is
what the properties depend on; two runs are a failed one and its repeat.
`peek_reads` has more records than a page and pages enough for a short, an empty
and a full one; with 3 pages of 2, a peek also runs out of pages. Symmetry is
over threads, readers or names, which occur only as values that are compared; no
liveness run uses it.

**Fairness.** Only steps of the program are fair. A worker thread that has taken
up a request goes on with it, and each outside call returns, because every REST
call has a timeout and boto3 has its own; `WF_vars(Step(t) \/ Startup(t))` says
so, `WF_vars(Step(c))` the same of `apply` and `WF_vars(Step)` of a peek. The
poller waits at most its interval: `WF_vars(Poll)`. For ConsumerNotStarved the
consumer of the queue is assumed to go on polling (WF of its receive) and not to
fail for ever on a message it gets again and again (SF of its delete). Neither
the workers' fetch nor any failure or recovery of the outside is fair.

### Violations

Each of these runs states what a document, comment or test says, and ends in a
counterexample. The quotes are in `PROJECT.json`, `findings`.

| Run | What the code does |
|---|---|
| `streamservice_stale_snapshot` | two requests reapply at once; the older snapshot may win, and no stream is flagged |
| `streamservice_resurrection` | a delete during a create is undone by the create |
| `cribladmin_lag` | with lagging workers the rollback may go back one version too far |

The lag has a consequence for requests served one at a time: a failed request's
rollback to the workers' older version takes away the fork that the request
before it had deployed and been answered for. That stream is not flagged; its
routes come back with the next apply that succeeds (FlaggedOrServed).

### Other divergences met while modelling

The models have these behaviours; no run is kept for them.

* In an outage a reader may meet the snapshot that another has just truncated
  (`cache.py:14`), take it for corrupt and serve the seed, or a 503, although a
  good tree had been saved; the design of 2026-06-11 (line 200) promises 'the
  last-good catalog snapshot'.
* `seed_cribl.py` calls itself 'Idempotent: deterministic ids, upserts' (line 3),
  but a second run stops at the first plain POST of seed_logging (line 94)
  while its input exists, and never comes to seed_fleet.
* A seed run splices the logging group's table as it read it (line 100): a fork
  route that the portal adds or drops before the PATCH is undone, although the
  comment wants to 'keep any existing fork_* / other routes'.
* A peek stops after five pages: on a shard with a longer backlog it shows the
  end of those pages and not 'the latest' events (design of 2026-06-12, line 125).
* A source named twice in one create or add: the second INSERT meets UNIQUE
  (`db.py:36`), nobody catches the IntegrityError, the first row stays active
  and the reapply is skipped.
* Kinesis' `create_stream` succeeds and its waiter fails (`provisioner.py:19`):
  `resource_ref` stays NULL and every retry meets ResourceInUse, although the
  tests expect a retry to recover.
* An admin retries a consumer's stream: `_mint_role` (`service.py:192`) records
  the account of the caller as the consumer, where the design says the owner's.
* A role left half-made keeps its trust when somebody else retries
  (`access_roles.py:73`), while the row records the account of the latter; the
  access bundle then shows a trust policy that the role does not have.
* A source with a refused tag in any live stream makes `delete_stream` raise
  ValueError after the status is 'deleted' and before the teardown
  (`service.py:118`); the owner cannot call it again.
* The resource a failed delete left behind, called harmless at `service.py:131`,
  makes the next create of that name and type fail.
* A route that an operator adds between the GET and the PATCH of the route table
  is lost (`admin.py:82`). OthersKept therefore claims only the archive routes.

## 4. Theorems

Each is proved for every value of the constants that the named ASSUMEs of its
module allow (any number of threads, users, sources, streams, requests, seed
runs, records, failures and crashes), and states a property that a run of
section 3 checks. Every safety property and every refinement of the passing runs
has one. TLC checked each inductive invariant below on the instance of its
module's run before it was proved. A theorem that needs more than the ASSUMEs
says so in its hypotheses, which are named below.

`StreamServiceProofs`:

* **TypeCorrect**: `Spec => []TypeOK`. TypeOK alone is not inductive: a step
  indexes `streams` with `req[t].sid`, which the type lets be any number.
  `TypeInv` adds `Actor`: past its first step, a request has a stream id, and a
  user unless it is the startup resync.
* **RoutedOnlyIfGrantedHolds**: `Spec => []RoutedOnlyIfGranted`. The routes on
  the leader come from places the property does not speak of, so `GrantInv`
  says the same of them all: of what a request has resolved and not yet
  inserted (`GrantReqs`, with `OwnerInv`: the request's user may act on its
  stream, for the owner of a stream never changes once it has one), of each row
  that is or may become active (`GrantRows`), and of every set of routes in
  flight, in a thread's `want` and in a call's `want`, `prev` and `commit`
  (`GrantHeld`). Since `seen` and `approvals` only grow (`Grown`), what is
  legitimate stays so; `Frame` and `Frames` dispose of the steps that touch
  none of it.
* **LiveHasRefHolds**: `Spec => []LiveHasRef`. `RefInv` adds that a request at
  `relive`, which makes a stream live on the strength of a row read earlier, is
  on a stream that has its resource_ref, which no step takes away (`RefsGrow`).

`StreamServiceSyncProofs`:

* **SoloApplySyncsHolds**: `Spec => []SoloApplySyncs`. While a request is solo
  no other takes a step (`Alone`), the leader's call is that of its own reapply
  (`Coupled`), and reapply writes neither streams nor rows; so what it has
  collected, handed over, patched, committed and deployed is at each step the
  fork set of the database (`Synced`). Nothing is assumed of what the leader
  held before, of rollbacks, or of the workers' lag.

`StreamServiceSerialProofs` assumes `OneThread`: requests are served one after
the other. Calls still fail, apply rolls back, the process is killed.

* **RecordedRoleExistsHolds**, **DeletedStaysDeletedHolds**, **NoOrphansHolds**:
  `RoleInv` says which requests may be in the middle of making a stream (create
  and retry of one that is not deleted) and of taking one down (a delete whose
  row says so), and what a half-made or half-deleted role looks like then
  (once delete is past the role, it is gone or the delete has noted a failure).
* **FlaggedOrRaisedHolds**, **FlaggedOrServedHolds** need nothing else: the workers
  may lag, sources be named twice, `Member` refuse any of them. `SafeInv` holds
  across crashes: visible streams have names and so resources of their own
  (`NameInv`, `ResourceInv`), status 'error' comes with a last_error (`ErrInv`),
  every reapply is solo (`SoloInv`). Until the first crash `RaisedInv` says that a
  visible stream that no request is making is flagged, or live with its ARN. After
  it a visible stream that is not half-made in its row is, by `ErrInv`, flagged or
  live, and with RoleInv and ResourceInv it has what that promises. That a solo apply which succeeds has
  deployed the routes of the database is `SyncInv`, of SoloApplySyncsHolds.

`CriblAdminProofs`:

* **TypeCorrect**: `Spec => []TypeOK`.
* **OthersKeptHolds**: `Spec => []OthersKept`. Every table, in the leader, in a
  call and in a commit, is a block of fork routes and then others' routes that
  begin with the archive's (`SplitAt`); what the splice makes of such a table
  (`SplicedIs`) is such a table again. `OtherRoutes` therefore enumerates the
  indices it keeps; `WantAssumption` says that a call asks for finitely many routes.
* **ImplementsPipelineHolds**: `Spec => ImplementsPipeline`. Each REST call is a
  step of `Pipeline` or a stutter, also when calls interleave, fail, are cut
  short or roll back. `Pipeline` is the leader of `StreamService`, so
  RoutedOnlyIfGrantedHolds holds with `apply` beneath it.

`CriblAdminSerialProofs` assumes `OneCaller`. With two callers, and without any
failure, TLC finds both properties violated.

* **NoDanglingRouteHolds**, **SuccessMeansDeployedHolds**: `SerialInv` says what
  each REST call has brought about (`Progress`): the outputs are there before
  the routes are patched, the stale ones go after that, and the commit that is
  deployed holds just the routes and outputs asked for, whatever debris of
  earlier calls was there.

`CatalogProofs`:

* **TypeCorrect**: `Spec => []TypeOK`.
* **FreshIsCurrentHolds**: `Spec => []FreshIsCurrent`. `FreshInv` says of each
  reader (`Fresh`) that what it has read so far, for the schemas it has done,
  was true at some moment of its call; `during` only grows, so a change of the
  world does not undo that, and the merge keeps it.
* **ImplementsListingsHolds**: `Spec => ImplementsListings`. `TrueInv` says that
  every part of a tree that is kept anywhere (by a reader, in the file, in the
  seed) has been listed so. With FreshInv, each step of `Catalog` is a step of
  `Listings` or a stutter. Since RoutedOnlyIfGrantedHolds assumes no more of the
  catalog than `Listings`, the gate is proved with the catalog's cache beneath it.

`DiscoveryProofs`:

* **TypeCorrect**: `Spec => []TypeOK`.
* **NoInputUntaggedHolds**, **NoSourceSkippedHolds**: `UntouchedHeld` says of each
  source that no operator touched that its input is nowhere (leader, nodes, the
  seeder's commit) without its pipeline, that the pipeline is there when the
  seeder is about to write the input, and when a round of the poller has read
  it. Which call stands where in `Calls`, for a specification of any length, are
  lemmas (`CallsAre`, `PipelineFirst`).
* **SuccessMeansSeededHolds**: `Progress` says what the calls that a run has made
  left behind; a commit comes after the writes of all it is to hold
  (`CommitLast`), a deploy after its commit (`DeployLast`).

`PeekProofs`:

* **TypeCorrect**: `Spec => []TypeOK`. `CallsFit` adds that only the consumer ever
  has a message in flight, and that a peek makes the calls of its stream's type.
* **LatestShownHolds**, **NoGapsHolds**: `ReadInv` says that what a peek has
  gathered are the events of the set of records it has read, which holds all that
  the shard still has below the iterator; `AnswerInv` the same of an answer, and
  that with pages left this set ends with the shard. The events of a set of
  records are a concatenation over a range (`FlattenSeq`, a recursive function).
  What it yields is shown by the least counterexample (`LeastOf`), which needs no
  induction rule: that the function exists (`FlattensExist`), is in order with the
  elements of its parts (`FlattenFacts`), and that pages add up (`EventsSplit`).

**Only model-checked**: liveness under fairness, which is out of the prover's
reach: EveryRequestEnds, EveryCallEnds, DiscoveredAtLast, PeekEnds,
ConsumerNotStarved; and the violations, which are counterexamples. The proofs
about one thread or one caller say nothing of two: there the properties fail, as
the runs of section 3 show, or, for RecordedRoleExists, FlaggedOrRaised and
NoOrphans, are not claimed.

## 5. Not modelled, and why

* scope_tree, annotate, the catalog view, list views, the access bundle's text,
  the counter behind an SQS flow badge: reads without state. A peek whose stream
  is deleted, and created again under its name, between the check of its row and
  its calls (`routes/streams.py:95`) is not modelled either.
* Session: a signed cookie; the user of a request is given.
* columns, aliases, sort orders, log texts: no property
  tells them apart.
* Migrations of the database; frontend; Terraform; `seed_edge` (standalone Edges,
  each configured by itself), `seed_catalog.py` (DDL; `Catalog` has its effect as
  a change of Unity Catalog) and the teardown script.
* Half-successful mutation inside one sqlite statement: sqlite is atomic.

## 6. Plan

Done: `Pipeline`, `StreamService`, `CriblAdmin`, `Listings`, `Catalog`,
`Discovery`, `Peek`; the theorems above.

1. The teardown with two threads: a resource torn down under a new stream of
   the same name, and what still holds of NoOrphans then.
2. `sqlite3`'s shared `lastrowid` (`service.py:63`) as a choice of what an INSERT
   may return while others insert.
3. Proofs: the refinements are proved one by one; what is left is what they say
   together, a proof that StreamService over `CriblAdmin` and `Catalog` themselves
   keeps its gate.
