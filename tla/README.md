# TLA+ verification of mergiate-core

mergiate-core is a multi-tenant business core in Go over PostgreSQL: documents
with a workflow and numbered series, organizations, parties, products, access
control, attachments and comments, with an audit log, a transactional outbox
that feeds an in-process event bus, webhooks and pluggable modules. This
directory holds TLA+ models of the parts of it whose correctness depends on
interleaving, failure and order, the TLC configurations that check them, and
TLAPS proofs of the most important results.

`PROJECT.json` is the index: components, runs, the source lines behind every
definition, hazards, findings and theorems.

## Inventory

| component | state it keeps | operations | what is hard | what makes it correct |
|---|---|---|---|---|
| document engine | documents, lines, transitions | CreateDocument, TransitionDocument | reads outside the transaction, races on the status and on the number | row, event and audit entry appear together; numbers unique; the history is a path of the workflow |
| transactions (`pkg/database`) | the open transaction in the context | WithTx | failure between statements, lost commit answers | all or nothing |
| audit log | `audit_logs` | Create, List | only through the transactions of the writers | one entry for each change |
| outbox and worker | `outbox_events`, batch in memory | Create, FetchPending, MarkPublished, MarkFailed, poll and trigger | rival processes, crashes, failed UPDATEs, retry limit | at-least-once delivery, bounded retries, nothing forgotten |
| event bus | subscriptions | Subscribe, Publish | handlers that fail or panic, subscriptions that come late | each matching handler runs, one failure fails the event |
| webhooks | endpoints, deliveries, one goroutine for each delivery | register, enable, disable, delete, dispatch, post, retry | endpoint changes during delivery, shutdown | no post after success, honest log, termination |
| sequence engine | the counter row of a series | AcquireNextNumber, create, update, delete, preview | row lock, calendar boundaries, time zones, reconfiguration | no number twice, no unexplained gap |
| organizations | the parent of each organization | Create, Update, GetTree | check and write in separate statements | no cycles; the tree answer is the rooted part |
| rate limiter | buckets of timestamps | Allow, cleanup, Close | three unsynchronised steps in Allow, cleanup against use | limit for each window, bounded memory, safe Close |
| application lifecycle | worker context, servers, pool | New, Start, Shutdown | order of start, two shutdown paths, requests in flight | subscribers before publishers, RPCs end before modules, Start returns |
| module registry | modules, dependency order, a mutex | Register, InitAll, RegisterPermissions, BindSubscriptions, ShutdownAll | random map order, cycles, partial initialisation | one order, dependencies first, shutdown in reverse |
| identity and access | users, memberships, roles, grants, tokens | register, log in, switch tenant, assign, remove | several statements without a transaction, stale claims | unique keys, roles as assigned, no access after revocation beyond the token's life |
| service accounts and API keys | accounts, keys, usage columns | create, update, delete, revoke, validate | stale write-back, validation on a copy, a goroutine that writes late | a revoked key stays revoked and lets nobody in |
| attachments and storage | file rows, stored files, links | upload, download, attach, detach, delete | two systems, compensation, short bodies, crashes | no row without content and no content without row, except where a step was cut |
| communication | comments, notifications | comment, delete, list, mark, timeline | one transaction over four tables, cascades, several reads for one answer | all or nothing, no answer without its parent, true timelines |
| custom fields | definitions, values of an entity | create, update, delete, set values | definitions read and values written in two statements | values obey the definitions they were checked against |
| products and units | units, conversions, products, variants | create, update, convert | pre-checks that race, stale updates, search over a graph | unique codes, shortest conversion, updates kept |
| parties, addresses and contacts | parties, roles, addresses, links | create, update, add, remove, list | swallowed errors, two inserts without a transaction, paging | initial roles, owned addresses, complete walks |
| tenants and bootstrap | tenants, seeded roles and permissions | create, update, seed | interrupted, repeated and rival seedings | a seeding that reports success has left everything in place |
| delivery layers, config, migrations, generated code | none | — | — | see below |

Components meet at these points. The usecases write their outbox event and
audit row in the aggregate's transaction (`DocumentEngine`). The worker of each
process polls the same table and publishes on the bus of its process
(`OutboxRelay`). The webhook dispatcher is one subscriber of that bus; it hands
each event to goroutines that outlive the publish (`WebhookDelivery`). The
document engine draws numbers from the sequence engine in a transaction that
commits before its own (`SequenceEngine`). In `DocumentEngine` that number is
therefore any number, a used one included. Comments write their event and audit
row the same way, and the timeline of an entity reads comments, attachments and
the audit log (`Communication` extends `Attachments`). The application binds the
modules to the bus before it starts the worker (`AppLifecycle`), which is what
`OutboxRelay` assumes of a running process. The seeder of `Bootstrap` fills
roles with the same repository call as the administrators of `AccessControl`.

## Modules

* `DocumentEngine` — CreateDocument and TransitionDocument, one action for each
  statement. `pc[r]` is where a request stands, `tx[r]` the tables its open
  transaction has written, and `status`, `lines`, `history`, `outbox`, `audit`
  the committed rows. A request that fails anywhere (`Fail`) drops its `tx`;
  `Commit` applies it and may lose its answer. Locks of PostgreSQL are guards
  (`RowLocked`, `KeyLocked`). Amounts and lines are abstracted to "the line is
  refused"; the UUID of a document is the request that creates it.
* `EventDelivery` — the abstract specification: what a subscriber of the outbox
  can count on.
* `OutboxRelay` — any number of processes, each with a bus and a worker.
  `batch[w]`, `cur[w]`, `todo[w]` and `bad[w]` are the local variables of
  ProcessBatch and Publish. It implements `EventDelivery`: a row is `closed`
  when it is published and `open` while pending or failed, and an acceptance is
  a handler that returned nil.
* `WebhookDelivery` — endpoints, fan-out and one retry loop for each (dispatch,
  endpoint). `posts[g]` records the outcome of each POST. Shutdown is two steps:
  the context is done (`Cancel`), later the process is gone (`Exit`).
* `SequenceEngine` — one series. A template is the set of tokens it shows and a
  number is the value of each of them, so two numbers are equal exactly when
  they read the same. Calendar sizes are constants. `LocalOffset` is the distance of the
  process's zone from UTC.
* `OrgHierarchy` — Create and Update as the statements they are.
  CheckCircularReference and BuildTree are operators over the parent function.
* `RateLimiter` — one key. Buckets are numbered so that a request may hold one
  the map no longer has. The ticker's phase is arbitrary: a purge may start at
  any time.
* `AccessControl` — users, memberships, roles and tokens. A call stands for the
  row it creates; `arg` holds its parameters and locals. Logging in is four
  statements and a signature; a request is the middleware chain over the claims.
* `ApiKeys` — service accounts and keys. A request copies key and account,
  decides, and leaves the usage to a goroutine.
* `AppLifecycle` — New, Start and the two shutdown paths, with the registry.
  Module names are numbers in the order in which strings sort; the dependency
  graph is chosen initially, cycles and missing names included.
* `Bootstrap` — the seeder statement by statement, CreateTenant, UpdateTenant.
* `Attachments`, `Communication` — file store and table; comments with their
  staged transaction (`staged`), the lists and the timeline. A body is its
  length, any up to `MaxBody` whatever size was announced. A page of
  notifications has its limit, offset and unread_only. What a deletion takes
  along (`Below`) is the least set closed under answers.
* `Parties`, `Catalog`, `CustomFields` — the master data. A conversion factor is
  its logarithm, a unit code is letters and case, a page size is a number as the
  repository's `max(limit, 20)` sees it, with 20 scaled down to `DefaultPage`.
* `MC*` — values of the constants for TLC, and symmetry sets.
* `*Proofs` — the proofs: `DocumentEngineProofs`, `OutboxRelayProofs`,
  `WebhookDeliveryProofs`, `SequenceEngineProofs`, and one module for each
  combined run: `AccessProofs`, `LifecycleProofs`, `RecordsProofs`,
  `MasterDataProofs`.

Definitions whose comment starts with "Mutant" are variants with a plausible
bug. They are part of no specification; each shows that the property named
beside it in `PROJECT.json` can fail.

Statements that sqlc generates are operators of their own (`InsertUser`,
`SetProduct`, `StoreOrg`, ...), and the usecase actions call them under the
conditions that the code and the schema put around them.

`raced`, `overlapped`, `disturbed`, `torn`, `crossed`, `broken` and `cut` are
history variables: they record that two operations overlapped or that one broke
off, and no action reads them. With them a property can say that overlap is
the only way to go wrong.

## Runs

| run | instance | result |
|---|---|---|
| `doc_engine` | 2 creates, 2 transitions, 2 numbers, fair | coupling, uniqueness and workflow hold; every request is answered |
| `doc_lifecycle` | 1 create, 2 transitions | **violated**: an overlapping transition leaves the workflow |
| `outbox_rivals` | 2 events, 2 processes, 1 handler and the webhooks, 1 fault, 2 retries, fair | delivery refinement, retry bound; every event settles for good; published and held by nobody is final |
| `webhook_delivery` | 2 dispatches, 1 endpoint, 1 stop, 1 fault, fair | posting, retrying and logging are right; every goroutine ends |
| `seq_series` | 2 requests, 2 administrators, policies of every kind, across a year's end, fair | unique between administrative writes, no gap; every request is answered |
| `seq_daily_default` | daily reset, default template | **violated**: duplicate on the next day |
| `org_cycle` | 2 organizations, 2 updates | **violated**: overlapping updates make a cycle |
| `limit_window` | 3 requests, limit 2 | **violated**: cleanup removes a bucket in use |
| `access` | 2 registrations, 2 role creations, 2 administrators, 1 session; 1 key, 2 editors, 2 requests; 3 Allow calls, limit 2 | unique keys, roles as assigned, revocation in time, coherent tokens; no entry on a closed key; limit unless calls overlap |
| `lifecycle` | any dependency graph of up to 3 modules, 1 RPC; 2 seeders, 1 creation, 2 tenant updates, 1 lost error; fair | order and lifetimes right, Start returns; seeds complete and unique |
| `records` | 1 upload, 2 file calls, 1 link, 2 faults, bodies up to 2; 3 comments, 1 deletion, 2 readers, pages up to 2 at offsets up to 1, 2 audit entries | table and store agree unless a step was cut; comments atomic; lists and timelines true |
| `master_data` | 3 parties, 1 walk; 3 units, 3 conversions, 2 products, 2 variants; 2 definitions, 1 entity; 3 organizations, 2 updates | unique codes, updates kept unless they overlap, shortest conversions, complete walks, acyclic unless raced |

A violated run checks one sentence of the documentation or of a comment; the
finding in `PROJECT.json` quotes it.

The last four runs each cover several components that share no state. Their
variable `scene` chooses, at the start, which of them a behaviour is about, so
that the state space is a sum and not a product. A *cast* in the MC module says
which calls may take part together in a scene: it leaves out combinations of
calls that touch different tables, and never a step of a call that takes part.

A run's properties are conjunctions of named parts where the parts say one thing
together. The parts are definitions of their own, and are the names to prove:

| run | property | parts |
|---|---|---|
| `webhook_delivery` | `RetriesUntilAnswered` | `NoPostAfterSuccess`, `ExhaustedOrStopped` |
| | `LogIsFaithful` | `LogIsTrue`, `UnloggedOnlyIf` |
| `access` | `AccessSchema` | the three type invariants, `UniqueKeys`, `KeysHaveAccounts` |
| | `AccessAsAsked` | `RegisteredIsMember`, `RoleAsAssigned` |
| | `TokensAreTrue` | `RevocationTakesEffect`, `TokenCoherent` |
| | `KeyRowsAreTrue` | `StatusAsDecided`, `UsageIsTrue` |
| | `LimiterSound` | `WindowLimitUnlessRaced`, `NothingForgotten`, `BucketBound` |
| `lifecycle` | `LifeSchema` | the two type invariants, `OneOfEach` |
| | `OrderIsRight` | `OrderIsLeast`, `CyclesAreReal` |
| | `StopsInOrder` | `DependenciesOutlive`, `RpcsEndFirst` |
| | `NewAllOrNothing` | `ModulesHearEverything`, `OnlyInitLeavesBehind` |
| | `TenantAsLeft` | `SeedComplete`, `TenantStatusAsDecided` |
| `records` | `RecordsSchema` | the two type invariants, `AttachmentsHaveFiles` |
| | `StoresAgree` | `RowHasContent`, `ContentHasRow`, `ServedAsRecorded` |
| | `ThreadsSound` | `AnswersHaveParents`, `DeletedByAuthors` |
| | `AnswersAreTrue` | `PageAgreesWithTotal`, `TimelineIsTrue` |
| `master_data` | `MasterSchema` | the four type invariants, `UnitCodesDiffer`, `SkusUnique`, `SelectHasOptions` |
| | `AsAsked` | `InitialRolesGiven`, `AddressesHaveOwners`, `PartyAsAsked`, `ProductAsAsked`, `OptionsAsAsked`, `DeletedStaysDeleted` |
| | `HierarchySound` | `AcyclicUnlessRaced`, `TreeIsRootedPart` |

The type invariants of `WebhookDelivery` and `SequenceEngine` are in no run: they
are the first conjunct of the inductive invariants, and proved (`TypeCorrect` in
either proof module).

The models also contain behaviour that the properties above allow on purpose,
and a reader should know of:

* an event whose handler fails `MaxRetries` times is fetched no more.
  `EventuallySettled` counts it as settled;
* an event published before the webhook dispatcher has subscribed, or while its
  endpoints cannot be listed, is published with no dispatch.
  `PublishedWasHandled` is about module handlers only;
* an attempt in flight at shutdown is posted and its row refused, because the
  POST ignores the context and the INSERT uses it. `UnloggedOnlyIf` says this,
  a deleted endpoint and a database error are the only reasons;
* a process outside UTC compares the calendar of two zones in ShouldReset, and a
  change of policy leaves `last_reset_at`: both can restart a counter inside a
  period whose numbers were given. `UniqueWithinEpoch` speaks of one
  configuration and `seq_series` sets `LocalOffset` to 0;
* two concurrent calls of the limiter's Close both find the channel open, and the
  second close panics: one call tests, the other tests, both close. The shutdown
  goroutine of Start and App.Shutdown can be these two. `RateLimiter` has the
  steps; with two closers the state `panic` is reached;
* a failing Init leaves the modules before it running (`OnlyInitLeavesBehind`
  says that nothing else does), and HTTP requests may reach a module that has
  been shut down, because the modules go before the HTTP server;
* a seeder that died half way through a role leaves it half filled, and later
  runs take it for complete: `SeedComplete` excepts such roles;
* a body is compared with its announced size only if that is positive
  (`pkg/storage/local/local.go:81`). With an announced size of 0 a body of any
  length, beyond the size limit too, is stored under a row that records 0, and
  the download handler puts that 0 into Content-Length. `ServedAsRecorded`
  excepts it. The upload handler announces the size of the part it received, so
  other callers of the usecase are meant;
* a lost answer to the INSERT of a file makes the compensation delete the content
  of a row that exists: `RowHasContent` excepts files whose upload was cut;
* pages of parties, products and documents asked for smaller than 20 overlap;
  `WalkMeetsAll` says that a walk still meets every party that was there all
  along, unless a creation between count and rows pushed one off the last page;
* `ListPartiesByRole` has no DISTINCT while its count has;
* the timeline does not lower-case the entity type as the writers do, so only a
  request in lower case sees everything;
* ListNotifications returns the number of unread notifications beside a page
  that, unless `unread_only` is asked for, is taken from all of them: the handler
  calls it `unread_count`. It is no total of such a page, and
  `PageAgreesWithTotal` says how the two relate in either case. An offset
  beyond 32 bits turns negative, and the query refuses it;
* administrators cannot delete comments of others: DeleteComment answers
  ErrForbidden to everybody but the author, while
  `docs/communication-and-notifications.md:128` says that users with
  administrative permissions can delete any comment. `DeletedByAuthors` says what
  the code does;
* a required text may be empty and a JSON field takes any JSON value, while
  `docs/custom-fields.md` says "non-empty if required" (:58) and "Valid JSON object
  or array" (:64). `ValuesObeyRules` says what `validator.go` enforces, and of
  definitions that have not changed since the check;
* `RpcsEndFirst` is about calls of the gRPC server. Connect RPCs are HTTP requests
  and, like these, may outlive the modules;
* `ExhaustedOrStopped` lets a delivery give up early after any shutdown of the
  process, not only one that met it in its wait;
* of swallowed errors and overlapping updates (the initial roles of a party, the
  permissions of a role, rows written back from an older copy, the usage of a
  key) the properties except the case itself: they say that it is the only way to
  a row other than the one asked for. The entries in `PROJECT.json` note this;
* a conversion factor below the column's precision is accepted, stored as zero
  and never used;
* values of a deleted or inactive definition stay until the next set, and a
  definition created again under the same code inherits them;
* overlapping Allow calls store timestamps out of order. `BucketBound` holds
  all the same.

Bounds. Two requests of a kind are enough for a race; where a third could make
a chain of them (organizations, comments, conversions, the limiter) there are
three, and for documents `PathFollowed` and `NumbersUnique` cover any number. Two
processes are enough for rival marks. One fault allows a crash or a lost UPDATE
at any point; attachments have two, so that a compensation can fail too. Bodies of
0, 1 and 2 bytes are shorter than, as long as and longer than what is announced,
and 2 is beyond the size limit of 1. Two notifications of a user fill a page of one
and leave one at offset 1; one reader lists notifications at a time. Three
organizations allow a cycle through a middle one, three units a conversion over
two edges beside a direct one, three modules a dependency chain with a bystander.
A token lives one tick of two, so that it expires within a run. Clock bounds
reach past two boundaries of the smallest period in use. Symmetry is declared on
sets whose elements no definition tells apart, in runs without liveness; calls
that are numbered instead start in the order of their numbers.
`CHECK_DEADLOCK FALSE` stands where the model has finitely many calls and may
stop: webhooks, the limiter and the four combined runs. The other modules have an
explicit step for "everything is answered".

## Fairness

`DocumentEngine`: a handler whose next statement can run runs it; PostgreSQL
grants a free lock. `Fail` and the arrival of requests get no fairness.
`OutboxRelay`: the ticker wakes an idle worker for ever, a process that stopped
is started again, handlers return. Crashes and database errors are bounded by
`MaxFaults`: nothing settles under errors that never stop. `WebhookDelivery`:
POSTs end within the client's timeout, timers fire, a process told to stop does.
`SequenceEngine`: a transaction ends and a waiting one gets the lock; the
number of requests is finite, so weak fairness is enough. `AppLifecycle`: Start
and each shutdown path go on when they can, RPC handlers return and so does
module code (GracefulStop and ShutdownAll wait for them without a limit of their
own). HTTP requests get no fairness: server.Shutdown gives up after its timeout,
and `StartReturns` holds because of that.

## Proofs

All of the following hold for every value of the constants; `tlapm` checks each
leaf.

*Document engine* (`DocumentEngineProofs`), from `RequestsDisjoint`:
`TypeCorrect`, `Coupled`, `NumbersUnique` and `PathFollowed`. The properties
speak of committed rows and are not inductive. The invariant adds what an open
transaction holds at every stage (`TxByStage`), that nothing shows before the
commit (`HiddenBeforeCommit`), that a transition in flight has a committed
document (`MoveLoaded`), and that a number is held from its insert on, not from
its commit on (`NumbersHeld`). A write, a rollback and a commit each have a
lemma; every action is one of them or one of a few control steps. `PathFollowed`
adds that a document nobody raced on has at most one transition in flight
(`AloneInFlight`), whose reading is current (`ReadingCurrent`): its commit
extends the path by one edge.

*Outbox relay* (`OutboxRelayProofs`), from the assumptions on the configuration
and a finite set of processes: `TypeCorrect`, `PublishedHandled`,
`RelayImplementsDelivery` and `RetryBounded`. MarkPublished is right because of
what Publish has done since it copied its targets (`ProgressSound`), and that is
complete because the bus of a running process holds every module handler
(`BusReady`). The refinement uses the same invariant: a mark is `Close`,
`Reopen` or a stutter, a handler that returns is `Accept` or a stutter. The
retry bound is inductive once the holders of an event are counted with its
retries (`HoldersBound`). `PublishedStays` proves the action property
`PublishedIsFinal`: FetchPending takes pending and failed rows only, and a mark
needs a holder.

*Webhooks* (`WebhookDeliveryProofs`): `TypeCorrect`, `RetriesRight` and
`LogFaithful`, for any number of dispatches, endpoints, stops and faults. What a
goroutine may do next depends on what it has posted, so the invariant fixes
`posts[g]` by stage: every post but the last was refused, and how many there are
follows from the place in the loop (`PostsByStage`). `Started` ties a
goroutine to its dispatch, and `StopCounted` a lost one to a stop, which is what
"gave up because of a shutdown" needs.

*Sequence engine* (`SequenceEngineProofs`), for any calendar of whole days,
months and years, from positive start values and increments: `TypeCorrect`,
`NoGap` for every configuration, and `UniqueNumbers` under `LocalOffset = 0`.
`NoGap` needs that the draft under the row lock follows on the row
(`DraftCurrent`, `LockHeld`) and that the counter is some increments past its
start (`CounterSound`). `UniqueNumbers` is about the calendar: within an epoch
the pair of period and value only grows. What was issued is at or before the row
(`IssuedBeforeRow`), what the holder of the lock has computed is after it
(`LockedAfterRow`), so two requests differ in one of the two (`IssuedApart`),
and a template that shows both shows the difference. With an offset the
hypothesis is needed: the remark on zones above is the counterexample.

*API keys, limiter, access control* (`AccessProofs`): three inductive
invariants, one for each component.
`KeyInv` (`KeysGuardEntry`, `KeyRowsRight`) says of a request that would be let in
now that its key was usable at some moment since it arrived (`OpenSeen`), and of an account
without overlapping updates that one update at most is in flight (`OneUpdate`).
`LimiterInv` (`LimiterIsSound`) bounds a bucket always; while no two calls
overlap, its timestamps are sorted, every admitted request that is still recent
has a timestamp of its own there (`AllCounted`, an injection, so that the bound on
the length of the bucket is the bound on the window), and a bucket the cleanup is
about to remove holds nothing recent (`PurgeSound`).
`AccessInv` (`AsAskedAlways`, `TokensTrueAlways`) fixes the locals of every call
by its place. Of a token under construction it says when each role and permission
read was last held (`HeldSince`); of a role, that whoever is filling it is alone
or it is marked (`OneFiller`).
`AccessSchemaAlways` joins the three.

*Lifecycle and bootstrap* (`LifecycleProofs`): `LifeInv` describes the loop of
ResolveOrder (the queue is what is ready and not resolved, the in-degree counts
what a module still waits for) and the two shutdown paths by what each has passed;
`OrderAlwaysRight`, `AlwaysStopsInOrder` and `NewAlwaysAllOrNothing` follow for
every dependency graph. `BootInv` proves `TenantAlwaysAsLeft`: what
a run has passed is in place (`RunPlace`), and a role that is not marked broken is
filled by one run at a time, holds what that run has given it so far, and is empty
or complete when nobody is at it (`FillRole`). `LifeSchemaAlways` joins
both.

*Attachments and comments* (`RecordsProofs`): `AttachInv` gives, for each place
of an upload, download or deletion, what it knows of row and content, and of a
body that was copied that it has the announced size unless this is 0
(`StoresAlwaysAgree`). `CommentInv` says what the transaction of a comment has
staged at each stage (`StageAt`) and that all of it or nothing is committed
(`Posted`, with `NotesDiffer`: one notification for each user); that the parent
of an answer that is being written is held (`ParentKept`); that a deletion under
way was allowed (`RemoverOk`); and what a reader has collected (`ReaderOk`). The notifications are a finite set,
so that those of a page and those unread can be counted against each other
(`PageFitsUnread`).
From it `AlwaysPostedTogether`, `ThreadsAlwaysSound`, `AnswersAlwaysTrue`,
`RecordsSchemaAlways`.

*Master data* (`MasterDataProofs`): `MasterInv` is one invariant for each of the
four components. Parties, products and field definitions share an argument: an
update carries a row it read before, and what it carries stays true of the table
unless another update of the row is in flight, in which case the row is marked
(`PartyCallOk`, `OverwriteOk`, `RewriteOk` and the `...Apart` parts). Values of an
entity are checked at versions of the definitions (`Checked`): they fit whatever
is still at that version. For the organizations, "no cycle" is stated without
walks: every set of rows has a row whose parent is outside it (`Grounded`).
CheckCircularReference's walk that ends without meeting the target yields a set
closed under parents that holds the new parent and not the target (`Clear`), and
a write under such a set keeps the rows grounded. `WalkIs`, `LevelsAre` and
`TreeRooted` connect the recursive functions of the model (the walk upwards, the
levels of BuildTree downwards) with these sets. From it `MasterSchemaAlways`,
`MasterAsAskedAlways`, `ValuesAlwaysObeyRules`, `HierarchyAlwaysSound`.

`ConvertAlwaysShortest` needs no more of the reachable states than their types: it
is a proof of the breadth-first search itself, for every set of rows.
`Distance(a, v, n)` says that the nearest path has n conversions, `Expanded` are the
units taken off the queue. Before every turn (`SearchInv`) the neighbours of
expanded units have been seen, the target is not among the expanded, and for some m
the queue holds units at distance m and then units at m + 1, each once and with the
factor of a shortest path (`Frontier`), while everything up to m has been seen
(`SeenUpTo`). A unit seen for the first time from distance m is therefore at m + 1
(`NewIsNext`), and when the last unit at m has left, all of m + 1 has been seen,
because it borders on expanded units (`FrontierMoves`). Every turn expands one
more unit, so the search is over after as many turns as there are units
(`SearchEnds`): with the target in front, at its distance, or with an empty queue,
and then the seen units are closed under conversions and the target is not
reachable (`EmptySearch`).

`WalksAlwaysMeetAll` counts the rows of the list. `Tally` is how many rows the n
oldest parties have; since the newest come first, `Before` (the rows ahead of a
party's first) is the whole tally minus its own (`ListIs`). `WalkInv` says of a
client between two pages that every party of the start that it has not seen has a
row and at least (page - 1) * size rows before it. Creations and new roles only
raise `Before` (`TallyGrows`, `AheadStays`), whatever the client has read so far. A
page of max(size, 20) rows shows whoever is ahead by less than that
(`PageShows`), so the rest stays ahead of the next page, and on a last page that
agrees with its total nobody is left. The proof shows that only the last page has
to agree; `WalkMeetsAll` asks for no more.

The theorems of the last two modules are about `RecordsSpec` and `MasterSpec`, and
those of `AccessProofs` and `LifecycleProofs` about the components' own
specifications: every call may take part, with no scene and no cast. The runs
check restrictions of these. The assumptions are those of the modules: sets of
calls are disjoint, the null value is nothing else, bounds are numbers, a set is
finite where the proof counts it.

Three techniques recur. The induction theorems of the library take an operator and
cannot be used, so induction over numbers goes by a least counterexample: a set
of numbers that is not empty has a least element (`SetInduction` and
`BoundedInduction` in `MasterDataProofs`, and a least-element lemma in
`AccessProofs` and `LifecycleProofs`). The same lemmas stand in for the library's
theorem on recursive functions: `RecursionExists` gives a function that starts with
a value and follows a table of steps, and each recursive function of the master
data (`WalkIs`, `LevelsAre`, `PathsAre`, `ExpandIs`, `SearchIs`, `TallyIs`,
`RowsAre`) is shown to be that one. And a step lemma comes in two halves: what moves, by the
action; what stands still, by one lemma for all actions (`PartySteps`,
`CatalogQuiet`, `RegistersKeep`, ...).

Every safety property of the passing runs, invariant or action property, is a
theorem. Only model-checked are the five liveness properties
(`EveryRequestAnswered`, `EventuallySettled`, `DispatchEnds`,
`EveryAcquireAnswered`, `StartReturns`): they rest on fairness, and `ENABLED` is out
of the prover's reach.

## Not modelled

* Contents: amounts, payloads, names, signatures, password hashes. Money and
  quantity are sequential arithmetic without state.
* Reads that only answer, except where a property is about an answer put together
  from several of them (timelines, notifications, pages, the tree, tokens).
* Tenancy as a parameter: each model is one tenant; the tenant check of a request
  is in `AccessControl`.
* The HTTP and RPC handlers, which decode, call one usecase and encode;
  configuration and protobuf code. Migrations appear as the unique indexes and
  foreign keys the usecases rely on.
* A retention or archive of the outbox, which does not exist in the code.

## Plan

The components above are all modelled, and every safety property of the passing
runs is proved. What could follow:

1. Action properties that the inductive invariants already contain: a revoked key
   stays revoked, a committed comment keeps its author, a published number is
   not given back.
2. The two hazards without a property: an error while webhook endpoints are listed
   is swallowed (nothing in the code says what should happen to the event), and
   Close of the rate limiter, which two shutdown paths may call at once.
