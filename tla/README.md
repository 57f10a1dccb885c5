# TLA+ models and proofs for logistics-coordinator

The repository is the backend and the app of a service that sends clergy to
members who call for help: a member sends a *flare*, the nearest branch gets
it, and both follow its status. Its README promises that this works through
long network outages (`README.md:6`, `:14`, `:17`, `:23`): conflict-free
replication of flares, an outbox with exponential backoff, a pool of SQLite
connections behind an HTTP API.

This directory holds TLA+ modules of the parts of the code with concurrency,
failures or an order that matters, TLC configurations that check them on small
instances, and TLAPS proofs of their main properties for all instances. Paths
below are relative to the repository.

    tlc -config MCOutboxQueue_shared.cfg MCOutboxQueue      # a run
    tlapm OutboxQueueProofs.tla                             # a proof

`PROJECT.json` lists runs, theorems, the hazards the properties are aimed at,
and for each definition the lines of code it stands for.

## 1. Inventory of the system

| Component | State | Operations | Module |
|---|---|---|---|
| `crates/crdt_engine` | a `CRDTState` per replica: flares by id, a vector clock | `apply` an operation, `merge` a state, clock comparisons | PeerClock, FlareCrdt, FlareReplicas |
| `crates/sqlite_embedded` queue and sync client | table `outbox_queue` | `enqueue_op`, `process_queue`, `mark_synced`, `mark_sync_failed`, `push_changes`; `pull_changes` is a stub | OutboxQueue, WorkQueue |
| `backend_api` sync endpoints | the server's own `outbox_queue` | `push_changes` stores; `pull_changes` answers with nothing new | SyncEndpoint, OfflineSync |
| `backend_api` flare endpoints, app's `FlareProvider` | tables `flares`, `branches`; the r2d2 pool; the app's last answer | `submit_flare`, `get_flare_status`; `submitFlare` | FlareSubmission |
| `backend_api` member accounts | table `members`, the map `OTP_STORE` | `register_member`, `verify_otp`, `login` | MemberAccounts |
| `backend_api` clergy accounts | tables `clergy_users`, `regions` | `bootstrap_admin`, `create_regional_admin`, `create_branch_clergy`, `login`, `list_clergy`; `issue_token_handler` | ClergyAccounts |
| tokens and delegation (`auth/{jwt,roles,delegation}.rs`, `middleware/auth.rs`) | none (signed tokens) | `issue_token`, `validate_token`, `verify_delegation_chain`, `build_delegation_chain`, the extractor `AuthenticatedUser` | SessionTokens |
| clergy content (`handlers/{clergy,branches}.rs`) | pickup points, events, alerts, photos, branches | create, list, update, delete: one statement each | BranchContent |
| optimistic lists of the app (`mixins/optimistic_operation.dart`, four `*_manager.dart`, two editors) | the list on the screen, requests under way, the form | add, delete, retry, roll back, reload | OptimisticLists |
| flare tracking and session of the app (`flare_provider.dart`, `my_flares_screen.dart`, `auth_provider.dart`, `api_client.dart`) | the flares in memory, the stored token | submit, a refresh every 30 seconds, log in, log out | FlareTracking |
| `geoh3_index`, `crypto_core` | none (a memo of a pure function) | distances, travel times, signatures, key derivation | not modelled |
| screens, FFI stub, unrouted handlers | fields of one screen | presentation | not modelled |

**How they interact.** The app calls the backend over HTTP and may lose a
request or an answer. Each handler is an `async fn` that never yields (the one
await, of `find_nearest_branch` in `submit_flare`, is of a function without
any): it runs on one worker thread of the runtime to its end, blocks in `pool.get()`, and
issues SQL statements with no transaction around them, so the handlers of other
threads run between any two statements. The backend's database and `OTP_STORE`
are the shared state. The sync client and `POST /api/v1/sync/push` are made for
each other, but nothing joins them: `push_changes` of the client marks its batch
as synced without a request, and `syncPush` of the app posts a list its caller
hands it. The CRDT engine is what both ends are meant to do with the operations
and states they exchange.

**What is hard in it**, component by component, and what makes it correct:

- *Replication.* Operations and states arrive late, twice, out of order or
  never; two peers write one flare at the same time. Correct: a replica never
  goes back, holds nothing that nobody wrote, never mixes two versions of a
  flare, and peers that heard the same agree.
- *Outbox.* A task dies in the middle of its batch; an error of `mark_synced` is
  ignored; two tasks take the same rows; the backoff is read in one statement and
  written in another and its integer is finite. Correct: an operation leaves the
  queue once, through a task that was handed it, order is lost only through a
  failure, no row is handed out while it waits or after it was synced, every
  failure is counted and waits do not shrink, and what left the queue is with the
  backend (the last is not so).
- *Flare submission.* `submit_flare` holds one connection while
  `find_nearest_branch` waits for another; connections to the app break while
  the handler runs; taps repeat. Correct: the pool recovers, nothing but these
  calls can exhaust it for everybody, and an answer is true.
- *Accounts.* A look-up and an insert are two statements and a failed look-up
  counts as "not there"; codes live in memory and are removed before the row is
  updated; an INSERT is put together with `format!`; a hierarchy of creators is
  checked at one moment and written at another, and tokens are also had without
  logging in. Correct: one account per email, one global admin, a token only for
  the verified, verification only by a code sent in time, a code that was used is
  gone, and everybody who logged in makes only whom he may.
- *Lists of the app.* A list is changed before the server answers, and changed
  back at an index remembered across the request; each success starts a reload
  and reloads overtake each other; the form is read after an await; adding again
  is offered while nothing keeps another add from running. Correct: when nothing
  is under way the list is the server's, and no item is shown twice on the way.
- *Following a flare.* Whose a flare is is decided by the token it came with, who
  may ask by the token at that moment, and tokens expire in between; the timer
  asks again without waiting for answers, and only about one flare. Correct: the
  sender may follow the flare while the token lasts, the screen never says more
  than the table, and in the end says the same.
- *Delegation chains.* The checks of neighbours, of the last issuer and of the
  length must together keep a chain from widening a role.

## 2. The modules and the code

Each module names in its header what it leaves out. Operators whose comment
starts with "Faulty form" are not part of a specification: each is a plausible
bug in the definition after it, and replacing that definition by it makes TLC
find a property violated (`mutants` in `PROJECT.json`).

### Replicated flares: `PeerClock`, `FlareCrdt`, `FlareReplicas`, `LatestWins`

`PeerClock` is `clock.rs`. A missing entry of the map reads as 0 in the code, so
a clock is a total function. `FlareCrdt` is `op.rs` and `merge.rs`: one operator
per arm of `apply`'s match (`InsertPickup`, `UpdateStatus`, `AssignClergy`,
`CompletePickup`) on the entry of one flare, `Apply`, and `Merge`. A flare the
replica does not have is the entry `NoFlare` with stamp -1, below every real
one. Timestamps, completion proofs and signatures are left out because `apply`
does not look at them; `eta_seconds` always changes together with the assignee.

`FlareReplicas` puts a `CRDTState` at each peer. The engine does not say how
peers talk, so the module has the two ways `sync.rs` is made for: operations
(`Deliver`: any issued operation, at any time, any number of times) and whole
states (`SendState`, `MergeState`: a state in flight stays there, so it may
arrive late, twice or never). `OpSpec`, `StateSpec` and `Spec` are the first, the
second and any mix. The engine does not choose stamps either (`Op::new` takes any):
`UniqueStamps` and `CarefulIssuers` say whether the caller does. No property that
holds relies on them; only the two runs that end in a counterexample set them, to
show that careful callers do not help.

`LatestWins` is the abstract promise: a register per peer and flare that only
takes stamps somebody wrote and only moves up. `FlareReplicas` implements it
under the mapping `LW` (`seen` is the stamp of the entry, `written` the stamps of
the issued operations).

### The outbox: `OutboxQueue`, `WorkQueue`, `SyncEndpoint`, `OfflineSync`

A row's id is its place in the table; `next_retry_at` is kept as the time left
to wait, counted down by `Tick`. Each SQL statement is one step: `ProcessQueue`
is the SELECT with its ORDER BY and LIMIT (rows with equal stamps come in any
order), `MarkSynced` the UPDATE of `push_changes` on the next row of its batch,
which may fail unnoticed, `ReadRetryCount` and `WriteRetry` the two statements of
`mark_sync_failed`, `RetryNotWritten` its failure. `Crash` forgets what the tasks
hold. `Backoff` has the wrap of `2u32.pow` in a release build. `push_changes`
sends nothing ("simulated success") and never calls `mark_sync_failed`, which is
exported and called by the tests of the repository: any task may call it, for any
row. `tried` is history.

`WorkQueue` is the abstract promise of a work queue: what it accepted is pending
until somebody it was handed to settles it, and only what is pending and not put
off is handed out. `OutboxQueue` implements it under the mapping `Queue` (`pending`
is the rows without `synced_at`, `waiting` those whose `next_retry_at` is to come,
`held` the batches), with any number of tasks. The promise does not say that
anything was sent.

`SyncEndpoint` is the handler of `POST /api/v1/sync/push`: it enqueues each posted
operation in the backend's own table without looking whether it has it, and marks
the row in a second statement whose error it ignores. `OfflineSync` puts it beside
the client's queue; what is posted is any list of the client's operations, since
in the code nothing ties it to the batches.

### Flare submission: `FlareSubmission`

`pc[t]` is the place of a runtime thread in its handler, `holds[t]` its
connections. `TakeFirst` and `TakeSecond` are the two `pool.get()` of
`submit_flare` and `find_nearest_branch`, `TimeOut` their error after
`connection_timeout`, `NearestFound` / `NearestFails` / `InsertFlare` /
`InsertFails` the statements, and `Return` the answer. The request may be lost before a
thread takes it (`LoseRequest`), and the connection to the app may break or time
out at any moment after that, while the handler runs on to its end
(`BreakConnection`): the app then has no answer, and the row may be stored later.
The outcomes "failed" and "lost" are told apart by the model only; the app shows
both alike (`flare_provider.dart:40-44`), so no property says what trying again does.
`AcceptOther`, `TakeOnly`, `ReturnOther` stand for every handler that uses one
connection. On the app's side `Tap` posts once per tap: `submitFlare` has no
queue, no retry and nothing that stops a second tap. Which branch is nearest is
not modelled (any may be). Members are not told apart: an `Attempt` is a tap.

### Accounts: `MemberAccounts`, `ClergyAccounts`

A `Request` is one call of a handler, and the ids it draws (`Uuid::new_v4`) are
named after it. Statements and lock sections are the steps.
`MemberAccounts`: `Register` (the SELECT, which may be wrong by failing),
`InsertMember` (UNIQUE on `canonical_id` refuses the second), `InsertSpliced` (the
statement is made with `format!`, so a quote in the form makes it another one: it
may leave the row out, or set status and email of any rows it touches, which
`altered` records), `StoreOtp`,
`Verify` (a copy of the entry is compared), `ClearOtp` (removed under a second
lock), `UpdateMember`, `ReadName`, `Login`, and `Restart`, which empties
`OTP_STORE` and kills requests but keeps the table. The table is the one the
statements are written for: the CREATE TABLE of `db.rs:82-91` lacks the columns
`email`, `name`, `role` and `verification_status`, so on a database made by
`init_database` alone every registration fails. `ClergyAccounts`: `Bootstrap`
and `InsertGlobalAdmin`; `CreateRegional`, `InsertRegion` and
`InsertRegionalAdmin` (two inserts with no transaction); `CreateClergy`, `Permit`
and `InsertBranchClergy`; `Login`. That emails of clergy are UNIQUE is from
`migrations/001_initial_schema.sql:20` of `sqlite_embedded` and from
`crates/backend_api/clergy_dump.sql`. A caller comes with a token of `login`, for a
row and with its role, or with one of `issue_token_handler`, for any subject and
role (`Tokens`); the handlers cannot tell them apart, and `login` in the token is
history for the property.

### What branches publish: `BranchContent`

`handlers/clergy.rs`, one operator per handler that `main.rs` routes, each one
step because each is one SQL statement: inserts, updates and deletes by their
`WHERE` clause (`DeletePhoto` goes by url and takes every copy; a delete that
matches nothing answers OK), and the four lists with their conditions on
`is_active` and on time. `GetAllBranches` is `handlers/branches.rs`. The four
tables are one sequence of rows with a kind, so that ids are never used twice;
that calls keep the tables apart is then a property (`OneListAtATime`) and not a
matter of form. No code that runs creates the four tables
(`migrations/001_initial_schema.sql` is not executed, and its `event_date TEXT`
does not fit the handler's `i64`), so the model takes the columns the statements
name.

### The app's lists: `OptimisticLists`

The mixin `OptimisticOperation` with the pickup points manager as its user, on
top of `BranchContent` (EXTENDS; `Elsewhere` is every call of everybody else). An
add goes `TapAdd` or `TapRetry` (form checked), `ShowAdded` (after the haptic
feedback: the item on top, the request made from the form as it is *then*),
`ServeAdd`, `AddSucceeds` (form cleared, reload) or `AddFails` (rolled back, RETRY
offered). A delete goes `TapDelete`, `StartDelete` (index remembered),
`ServeDelete`, `DeleteSucceeds` or `DeleteFails` (inserted at that index) or
`DeleteFailsUnseen` (the index no longer exists: `insert` throws and nobody is
told). A request may fail without effect (`RequestFails`) or have its effect and
be told failed (the answer is lost, in `ServeAdd` and `ServeDelete`). A reload is
`StartLoad`, `ServeLoad`, `ServeLoadEmpty` (`get_pickup_points` answers with an
empty list when its SELECT fails, `clergy.rs:232-249`), `LoadLost`, `LoadArrives`.

`_getId` is declared in the mixin's library and defined in the manager's, and Dart
keeps names with an underscore apart by library: as the code stands the mixin's
method has no implementation, and every optimistic delete on a list that is not
empty throws (`DeleteThrows`). `bound` says whether the two are one; the model
explores both, so that the properties also speak of the code as it is meant.
`trouble` is history: the named ways in which a list can go wrong. The properties
say that there is no other.

The managers of events, alerts and photos repeat the pickup points manager (with
photos an item is its url, so two copies of a picture have one id);
`branch_editor.dart` and `service_times_editor.dart` use only the add half.

### Tokens: `SessionTokens`

Pure functions: `TokenLifetime`, `IssueToken`, `VerifyDelegationChain`,
`BuildDelegationChain`, `ValidateToken`, `AuthenticatedUser`. A token is its
claims, a chain the roles of its issuers; time counts half days.

### Following flares: `FlareTracking`

`token` is `access_token` in the app's storage, `shown` the provider's `_flares`,
`calls` the requests under way, `flares` the table with owner and status.
`ServeSubmit` is the part of `submit_flare` that decides whose a flare is
(`flare.rs:83-89`: the token's subject, or nobody without a token that is
accepted), `GetFlareStatus` the handler with its check (`flare.rs:158-165`).
`TimerFires` is a tick of the screen's timer: the first flare in the list that is
not "resolved". `RefreshArrives` looks the flare up again after the await, as the
code does. `Login`, `Logout`, `Restart` are what changes the token and the
memory. `Advance` is external: no code in the repository changes a flare's status.
`late` and `carried` are history.

## 3. What the runs check

Runs that pass (counts are distinct states):

| Run | Instance | Shows |
|---|---|---|
| `mixed` (88 k) | 2 peers, 1 flare, stamps {1,2} that may collide, 2 operations, 2 applies per clock entry, 1 state in flight, no caller discipline | `QueuedIsUnassigned`, `Provenance`, `UnconditionalOpsStick`, and `ImplementsLatestWins`: replicas only move forward, to versions somebody issued, however operations and states mix |
| `state_exchange` (714 k) | 2 peers, 2 flares, 3 operations whose stamps may repeat, 2 states in flight | `StampIdentifiesVersion` (two entries with one stamp differ only if two operations on the flare carry it), `MergeConverges` (merging is associative, and commutative but on those entries), `ClockReflectsKnowledge` (a clock that is after another knows at least as much of every flare) |
| `outbox_shared` (87 k) | 2 tasks, 2 rows, retry counts to 4, 3-bit integer, backoff capped at 3, crashes | `OvertakenOnlyWhenPutOff`, `ImplementsWorkQueue`, `BackoffGrows` |
| `flare_wedge` (83 k) | 3 threads, 2 connections, 3 taps, fairness | `WedgedOnlyByWaiters`, `AnswersAreTrue`, `ThreadsComeBack` |
| `member_accounts` (338 k) | 4 requests, 2 emails | `OneMemberPerEmail`, `TokenMeansVerified`, `VerifiedByCode`, `CodeLostOnlyByFailure`, `UsedCodeIsGone` |
| `clergy_hierarchy` (424 k) | 3 requests, 3 emails, one the bootstrap's, tokens of `login` and of `issue_token_handler` | `OneGlobalAdmin`, `OneClergyPerEmail`, `HierarchyHolds` |
| `optimistic_lists` (1.4 M) | 2 branches, 3 rows, 3 operations of the user or others, one text besides the blank, 2 times | `SettledListIsServers`, `NothingShownTwice`, `NoBlankRows`, and of the server alone `OnlyUpdateRevives`, `OneListAtATime` |
| `flare_tracking` (689 k) | 1 member, 1 login, 2 flares, 2 requests at once, tokens that last 1 of 2 units of time, fairness | `SenderMayFollow`, `NeverAhead`, `BackOnlyWhenOvertaken`, `ReachedSettles` |

Each component's `TypeOK` is checked in one of them.

*Why the bounds are enough.* `mixed` has a collision of stamps, an operation
that arrives before the one it depends on, one applied twice, and a state that
overtakes an operation; proofs remove its bounds. `state_exchange` needs two
flares so that a clock can be ahead for one flare and behind for another, and two
states in flight besides the replicas so that merging in two orders means
something; three operations leave one for a collision of stamps. In
`outbox_shared` two rows suffice because every property is about one or two rows
(the LIMIT then never cuts; `InOrder` is proved for any), the second wait
reaches the cap, and the failures go past the width of the integer. `flare_wedge` has fewer connections than threads, which is
what wedging takes. Four requests are two registrations of one email with two
verifications. Three are a bootstrap, a region and clergy in it, or two rivals
for an email and one more; a caller with a token of `issue_token_handler` needs
none of the first.
`optimistic_lists` has three operations because an add, a delete and whatever
starts the reload that meets them is what each trouble takes, and the second
branch is for the clauses that keep branches apart. `flare_tracking` has two
flares so that a newer one stands before an older one, two requests so that one
answer overtakes another, and a token that is accepted at first and then not.
Peers, flares, workers, requests and emails are interchangeable, hence the
symmetry sets; they are not used where liveness is checked. Every counter has a
named bound in a guard (`MaxOps`, `MaxApplies`, `MaxWire`, `MaxRows`,
`MaxRetries`, `MaxCalls`, `MaxTime`, `MaxFlares`, `MaxLogins`), and where those bounds, a finite set of requests or
attempts or a process that is done leaves nothing to do, deadlock is not
checked. `flare_wedge` checks it: other requests keep coming.

*Fairness.* Two modules have a liveness property. In `FlareSubmission`, `FairSpec` asks for
weak fairness of each thread's own work: `pool.get()` returns after
`connection_timeout` at the latest, so a waiting thread always has an enabled
step, statements end, and the operating system runs all threads. Nothing is
assumed of the app, of arrivals, or that a connection is found before the
timeout. In `FlareTracking` every request ends some day, with an answer or an
error (weak fairness per request); the timer of an open screen never stops
(`Timer.periodic`; strong fairness, because the places for requests are a bound of
the model that submissions may use up); and of refreshes made again and again
some get through (strong fairness of `GetFlareStatus`: no polling shows
anything over a line that loses everything). Not assumed: that any one request
gets through, that answers keep their order, that anybody logs in. The screen is
taken to stay open and nobody to pull it for ever: pulling starts the 30 seconds
anew (`my_flares_screen.dart:821`) and fetches nothing.
No fairness is assumed anywhere else; in particular nothing in the
repository calls `push_changes` on a schedule, so no property says that a queued
operation is ever sent.

### Where the code and its documents disagree

Four runs end in a counterexample to what a document or a comment says:

- `ops_out_of_order` (`SameOpsSameFlares`): an insert that arrives after an
  update of the same flare is dropped (`merge.rs:38`). The peer keeps location
  "unknown" under the same stamp as everybody else's entry, so no merge repairs
  it, although both peers applied the same operations.
- `server_status` (`ServerStatusWins`): "server-wins for status transitions"
  (`README.md:14`) is not in the code: the higher stamp wins, whoever sent it.
- `outbox_overflow` (`BackoffNeverShrinks`): the 32nd failure of a row makes
  `2u32.pow` wrap to 0 and the wait with it (`queue.rs:108`; a debug build
  panics). With waits capped at an hour that is after about 22 hours offline.
- `offline_push` (`SyncedWasStored`): `push_changes` marks its batch as synced
  without a request (`sync.rs:72`), so the operations leave the queue and never
  reach the backend. `sync.rs:52` says "Push local changes to server",
  `README.md:6` "500 queued flares synced after 72hr network loss".

Seen while modelling, without a run of their own: with equal stamps `merge` keeps
its own entry and looks neither at the peer nor at the vector clock
(`merge.rs:122`), and `Op::new` takes any stamp, so two writers that stamp alike
never agree. `MergeConverges` names this case as the only one, and `state_exchange`
reaches it; a repeated operation moves the
vector clock again, so after operations are repeated `is_after` no longer means
"knows more" (which is why `ClockReflectsKnowledge` is stated for the exchange of
states); two verifications with one code that are both between the comparison and
the removal both succeed, though the code is meant to be cleared after use
(`auth/handlers.rs:254`; `UsedCodeIsGone` says that none that begins later does);
a member whose code was lost can neither verify nor register again, and neither can
one that waited 300 seconds: `CodeLostOnlyByFailure` says that only a failure takes
the entry from `OTP_STORE`, and counts an expired entry, which stays there, as kept;
`issue_token_handler` asks for no token (`main.rs:64`), so `HierarchyHolds` can say
who made an account only of creators that logged in; a quote in a name or an email
makes the INSERT of `register_member` another statement, which the properties of
`MemberAccounts` except (`altered`); `create_branch_clergy` drops the
region when a global admin asks (`admin.rs:233-247`); a region whose admin could
not be inserted stays behind (`admin.rs:163`); with two tasks on one queue a
retry count can go back, since `mark_sync_failed` reads and writes it in two
statements (`BackoffGrows` is about writes over the count that was read).

Of the app and the tokens: each `trouble` of `OptimisticLists` may leave a wrong list on
the screen until something reloads it, and nothing does so after a failure. These
are the hazards of the optimistic lists themselves, and they do occur: a rollback
at an index that has gone stale, reloads that overtake each other, a RETRY during
another add. The properties of the list therefore promise nothing once the trouble
in question has come up; what they show is that nothing else goes wrong. The
timer goes by "resolved", while `flare_model.dart:46-47` and the engine end at
"completed" or "expired", so a newest flare that is completed, or that its sender
may not follow any more, keeps all older ones from ever being refreshed; "Create an
account to track status" (`flare.rs:117`) is the wrong way round, since an anonymous
flare can be followed only without an account; an expired token makes a member's
flare anonymous, without a 401, so "Session expired" (`api_client.dart:161-163`) is
never reached from `submit_flare`; pull-to-refresh and "Flare cancelled" call
nothing (`my_flares_screen.dart:814-835`); `RequireRole` compares a level with itself
(`middleware/auth.rs:149`); `issue_token_handler` answers with a `token_jti` and an
`expires_at` that are not the token's; `build_delegation_chain` has no caller, so
every chain in use is empty; `AuthService.saveAuthData` has none either.

## 4. What is proved

All proofs are checked by TLAPS, for all values of the constants that satisfy
the modules' named assumptions. They say nothing of TLC's bounds: the bounds are
guards, and the theorems hold with any.

| Module | Theorems |
|---|---|
| `PeerClockProofs` | `IncrementIsAfter`, `AfterIsStrictOrder`, `MergeIsLeastUpperBound`, `MergeClocksIsSemilattice` |
| `FlareReplicasProofs` | `TypeCorrect`, `QueuedUnassigned`, `EntriesHaveProvenance`, `UnconditionalStick`, `EngineImplementsLatestWins`, `StampsIdentify`, `ExchangeConverges`, `ClocksReflect` |
| `OutboxQueueProofs` | `TypeCorrect`, `InOrder`, `NotTakenAgain`, `FailuresCounted`, `QueueImplementsWorkQueue` |
| `FlareSubmissionProofs` | `TypeCorrect`, `PoolWedgedOnlyByWaiters`, `EnoughConnections`, `AnswersTold` |
| `MemberAccountsProofs` | `TypeCorrect`, `OneMember`, `TokensAreForVerified`, `VerifiedHadCode`, `UsedCodesGone`, `CodeKept` |
| `ClergyAccountsProofs` | `TypeCorrect`, `OneClergy`, `OneAdmin`, `Hierarchy` |
| `OptimisticListsProofs` | `TypeCorrect`, `NoDuplicates`, `NeverBlank`, `GoneStaysGone`, `SettledList`, `OneChange` |
| `FlareTrackingProofs` | `TypeCorrect`, `SenderFollows`, `ScreenBehindTable`, `BackOnlyByOvertaking`, `AcceptedChainDescends`, `BuiltChainIsAccepted` |

*FlareReplicas.* Two lemmas about the conflict resolution carry everything:
`ApplyFacts` (what each arm leaves of an entry) and `NewerFacts` (what a round of
`merge` leaves). `EntryOrigin` says where an entry after a step comes from: a known
state, or `apply` to a known state. `Provenance` is inductive by that.
`StampsIdentify` is about the exchange of states, whatever the stamps: two entries
of a flare with one stamp are the same, or the issued operations hold two on that
flare with that stamp (`Clash`). It is inductive together with `Provenance`: an
entry an operation has just written has the stamp of that operation, and any other
with it was written by another one. Where there is no clash, merging is taking the
maximum of a linear order, so it commutes; it associates in any case, since the
higher stamp wins and the first of equals stays (`ExchangeConverges`). That states
are exchanged cannot be dropped: `ops_out_of_order` is the counterexample.
`ClocksReflect` needs no assumption on stamps. `ClockReflectsKnowledge` alone is not
inductive: it says nothing of two concurrent states, whose merge may be after a third.
Two facts make it so. `OwnCountIsHighest`: nobody counts more operations of a peer
than that peer. `KnowledgeHasCarrier`: for what a state knows of a flare there is a
peer whose count brought it, so that any state with that count or more knows as
much. A peer that issues is its own carrier, being alone with its new count; a merge
has the carrier of the entry it takes. `StateSpec` is needed: when operations are
delivered, a count may stand for other operations than those that were counted.
The refinement maps a step that issues to `Write` or `Hear`, all others to `Hear`
or a stutter.

*OutboxQueue.* `OvertakenOnlyWhenPutOff` speaks of what was tried. `OrderInv` adds
where the order comes from and what can spoil it: a row waits only after a failure
was counted (`WaitIsRetry`), what is synced was tried (`SyncedWasTried`), and in
every batch an earlier operation that nothing excuses comes first or was tried
(`BatchInOrder`). The batch a task reads has this because the query takes the least
stamps among all rows that are due (`SelectInOrder`); excuses are kept, since no
step takes a count back to zero or an id out of `tried`.
`QueueImplementsWorkQueue` needs besides the types that a batch holds no row
twice (`BatchOnce`), so that a task that is done with a row does not hold it any
more. It maps `Enqueue` to `Accept`, `ProcessQueue` to `HandOut`, `MarkSynced` to
`Done` whether or not the row was settled before, `WriteRetry` to
`PutOff` (to `Release` when the wrapped backoff is 0), `Tick` to
`Release` of the rows whose time has come, `Crash` to `GiveAllBack`, the rest to a
stutter.
`NotTakenAgain` says of the concrete queue what `HandOut` says of the abstract one,
up to the moment a row is marked: that it is still unsynced and due. It assumes one
task (`Alone`), and must: a second one may sync or put off what the first has read.
`FailuresCounted` holds for any number of tasks and failures: a write over the count
that was read adds one, and below the width of the integer the wait it sets is at
least that of the count before (`BackoffMonotone`). `OutboxAssumption` includes
that the powers of two below the width are naturals that grow, which the provers
cannot derive.

*FlareSubmission.* `WedgedOnlyByWaiters` follows from `TypeOK`, which fixes how many
connections a thread holds at each place: with the pool empty and no thread past
its last `pool.get()`, each connection is held by a thread that waits for its
second, and the map from connections to those threads is injective.
`EnoughConnections` is its reading for operators: a pool with more connections
than the runtime has threads is never wedged. The code has 10 connections and as
many threads as the machine has cores. `AnswersAreTrue` is inductive with `OneRun`:
an attempt is in the inbox or run by one thread, never both, and has no row and
no answer until then, though its connection may be broken already.

*MemberAccounts.* The invariant adds `PastComparison`: codes exist only for stored
members, and a request past the comparison works for a stored member whose code
was sent in time. `TokenMeansVerified` needs it at `ReadName`, `VerifiedByCode` at
`UpdateMember`. All three except members in `altered`: `SplicedStep` says that what
an INSERT that is another statement does to rows and status is in there.
`UsedCodeIsGone` needs `MadeOnce`: an entry is made by the last step of the request
that registers the member, which is over when the entry is first seen, so after its
removal nothing makes it again; and `Unanswered`, that only answered requests have
tokens.
`CodeLostOnlyByFailure` is inductive with `TypeOK` alone: what takes an entry away, or
lets go of a request that holds the member, verifies it or counts it as hurt.

*ClergyAccounts.* `HierarchyHolds` has two parts: `Placed`, for every account whatever
token its request came with, and `MadeByRight`, for those whose creator logged in;
with a token of `issue_token_handler` the creator may be anybody, also one without
a row. The invariant adds `PendingPlaced`: what a request is about to
insert is already as well placed as what is in the table, at every statement of
its handler. It is stable because rows and regions only grow and an account in
the table does not change. `OneGlobalAdmin` follows from `OneClergyPerEmail`,
since a global admin has the one email of the bootstrap.

*OptimisticLists.* `NothingShownTwice` needs to know where ids come from.
`ScreenInv` adds that every id on the screen or in an operation is a row's or the
temporary id of an add that has been shown (`IdsKnown`), that an answer under way
lists no row twice (`AnswersOfRows`), and that a delete whose index may still be
trusted (`calm`) has its item off the screen (`CalmIsOff`): a roll-back when nothing
has touched the list brings back an item that is not there.
`NoBlankRows` is inductive with `OneAdd`: without a RETRY during an add at most one
add is under way, so nobody clears the form between its check and its use.
`GoneStaysGone` is about the server: `RowsStep` says what a call of anybody does
to the rows, time only takes rows off their lists, and what is not an update of the
table of points leaves a row off its list (`KeptStaysOff`). So a step that brings a
point back is an `UpdatePickupPoint` of that very point that sets `is_active`
(`RevivesItsPoint`), and nothing else comes back at all.
`OneListAtATime` follows from which table and which branch a call writes: a row of
another kind or another branch is in none of the lists that may change
(`Apart`). `SettledListIsServers` says nothing until all is quiet; `SettledInv` says what
must hold on the way. Every reload but the last may be stale, so it speaks of the
last one: if no success has still to ask for a reload, what the last one brings is
the server's list. When it has arrived, the screen is `Faithful`: the server's points
in their order, and ids of adds under way anywhere among them; a point that is
missing is being deleted; and rolling back any delete that met no change since
gives such a list again. At rest no add and no delete is left to explain a
difference.

*FlareTracking.* `OwnerInv` ties a flare's owner to the token it came with: nobody
only if that token was none or is not accepted any more, which is stable because
tokens only expire. Hence a refusal of that same token means it has expired.
`StatusInv` adds to `NeverAhead` that answers under way are not ahead of the table
either (statuses only advance), that no flare is on the screen twice, and that an
answer that is not `late` brings at least what is shown (`AnswersBring`), which is
`BackOnlyWhenOvertaken`. `AcceptedChainDescends` says of chains of any length that
in an accepted one each issuer is strictly more powerful than the next and than the
token's role, and `BuiltChainIsAccepted` that a chain built from an accepted token
is accepted for exactly the roles its holder may delegate: the limit of five never
decides.

*Only model-checked:* `ThreadsComeBack` and `ReachedSettles`, because liveness under
fairness is beyond the prover. The inductive invariants above were model-checked on
the instances of the runs before they were proved.

## 5. Not modelled, and why

- `geoh3_index` and `crypto_core` are floating-point geometry and thin calls into
  libraries; the cache in `eta.rs` memoises a pure function of its key.
- JWT encoding and signatures are library code. Passwords are compared by SQL.
  Revocation has no list (`middleware/auth.rs:97`), and token constraints,
  `issue_temp_token`, `can_create` and `check_role` have no caller that is routed.
- Screens, themes and widgets are presentation; `bridge.dart` is a stub. The
  managers of events, alerts and photos and the two editors repeat what
  `OptimisticLists` models; typing into the form while an add starts is left out.
- Of the app's session, what fields `AuthProvider` copies from an answer: only the
  stored token matters to another component.
- `handlers/auth.rs`, `crates/handlers/clergy.rs` and `login` of `handlers/clergy.rs` are not
  routed.
- `pull_changes` (client and server) and `proximity.rs` are stubs without effect, and
  `get_nearby_branches` reads the verified branches and changes nothing.
- A restart of the backend during `submit_flare` is, for the app, a connection that
  breaks; that the pool starts anew is left out.
- A sender. No code in the repository sends what the client's queue holds, so nothing
  is said of how an operation would arrive, arrive twice or be acknowledged.

## 6. Plan

Done: 1 replication, 2 outbox, 3 flare submission, 4 member accounts, 5 clergy
accounts, 6 branch content with the app's lists, 7 tokens and chains, 8 flare
tracking, and proofs of every invariant, action property and refinement the
passing runs check. Left:

9. The photo manager, whose ids are urls and so not unique, as a second user of the
    mixin.
10. An abstract specification of the account directory (who may become what, and by
    whose act) that `MemberAccounts` and `ClergyAccounts` implement.
