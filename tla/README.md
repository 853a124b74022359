# Termivar: a TLA+ model of its scheduling, accounting and decision core

Termivar is a command line tool, and a set of Rust libraries, for bounded web
assessments. What makes its core hard is not any single computation but the promises it
makes about *bounds, ownership and truthfulness* while several parties act at once: a task
is executed by one worker at a time although workers die and answers get lost; a scan never
sends more requests or reads more bytes than its budget although several collectors spend
it together; a verdict rests on what really happened although callbacks, polls and
cancellations arrive in any order; a report says what is on the disk although any call may
fail.

This directory holds the specifications of those promises.

| Module | What it is | Builds on |
| --- | --- | --- |
| `TaskLifecycle` | abstract: what the coordinator promises about one task | |
| `Coordinator` | the `distributed` coordinator: tasks, leases, queue, workers, recovery | implements `TaskLifecycle` |
| `ResultAggregator` | the result store beside the coordinator whose receipts it takes | `Coordinator` |
| `CoordinatorProofs` | the coordinator's inductive invariants; what one command may do, and what follows: queue, fences, acknowledgements, recovery order, the refinement; then the result store's invariant and theorem | `ResultAggregator`, `FiniteSums` |
| `RequestAccounting` | the accounting broker of a scan and the metered collector that spends it | |
| `RequestAccountingProofs` | its inductive invariants and theorems | `RequestAccounting`, `FiniteSums` |
| `FiniteSums` | lemmas: induction on finite sets, and what a sum over one computes | |
| `OastProvider` | the self-hosted callback provider behind its listener | |
| `OastAdapter` | the scanner's side of one provider session | `OastProvider` |
| `XmlReview` | the XML external-entity review over adapter and provider | `OastAdapter` |
| `OastProofs` | the inductive invariants of provider, adapter and review, and their theorems | `XmlReview` |
| `ReportBundle` | publication of a report bundle, one step per file-system call | |
| `ReportBundleProofs` | its inductive invariants and theorems | `ReportBundle` |
| `SessionLifecycle` | abstract: the life of a decision session | |
| `AttackPlanner` | the planner's selection, as operators | |
| `DecisionPolicy` | knowledge, experience, session and adaptation, as operators | `AttackPlanner` |
| `DecisionState` | knowledge, session and experience, and how they are seen by `SessionLifecycle` | `DecisionPolicy` |
| `DecisionLoop` | the decision loop and runner, with other writers of the knowledge base | `DecisionState`, implements `SessionLifecycle` |
| `WebRuntime` | the web decision runtime: loop, budget, defense, cancellation | `DecisionState`, implements `SessionLifecycle` |
| `DecisionProofs` | the inductive invariants of loop and runtime, lemmas about planner and policy, and their theorems | `DecisionLoop`, `WebRuntime`, `FiniteSums` |
| `OrchestratedRun` | one run of the lab orchestrator with its cleanup obligation | |
| `OrchestratedRunProofs` | its inductive invariant and theorems | `OrchestratedRun` |
| `LegacyRunner` | the legacy phase runner and its report | |
| `LegacyRunnerProofs` | its inductive invariant and theorems | `LegacyRunner` |

`MC*` modules and their `.cfg` files are the instances for TLC. `PROJECT.json` maps every
definition to the source lines it models, and lists the hazards each property is for.

Each module's type invariant is a conjunct of the first invariant of its run; the
properties named below in *italics* are conjuncts of the checked definition before them.

## 1. Inventory

Paths are under `src/crates/`; `scanner` is `termivar-scanner/src`.

| Part | State | Hard because | Correct when |
| --- | --- | --- | --- |
| Coordinator (`scanner/distributed/`) | task records, queue, workers, counters behind one mutex; a revision | callers hold revisions, leases and fences across calls; workers die; bulk recovery | a lease is exclusive and dies with its deadline or its worker's generation; counters, queue and slots agree; every attempt ends |
| Result aggregator (`scanner/distributed/results.rs`) | task → (receipt, bytes), a revision, a byte total | lost answers, conflicting storers, recovered attempts | one result per task, of the attempt that completed it; answers stay true |
| Request accounting and metered collector (`scanner/runtime_budget.rs`, `scanner/http_evidence/request_broker.rs`) | counters, receipts, one read gate, a lease per request in flight | stale preflights, stalled peers, dropped futures, the chunk that crosses the threshold | no dispatch beyond the budget; overshoot under one chunk; every dispatch and byte audited |
| Native OAST provider (`termivar-oast/src/{state,server}.rs`) | sessions with deadlines, callbacks, events by cursor, a semaphore | callbacks race polls and cleanup; admission is refused at saturation; requests are dropped while they wait | a page called complete is; following cursors skips nothing |
| OAST client and adapter (`termivar-oast/src/client.rs`, `scanner/native_oast_provider.rs`, `scanner/oast.rs`) | lifecycle, cursor, attempts, correlations, permit | answers are lost; an abandoned request is served later; cancellation at any await | what it reports as observed is exactly what happened; every session is cleaned up |
| XML external-entity review (`scanner/web_runtime/xml_external_entity_runtime.rs`) | facts gathered over three legs | callbacks arrive during any later step | verdicts are founded; the session is closed on every path; the review ends |
| Report bundles (`termivar-cli/src/report_bundle.rs`) | a directory, ownership flags, the commit flag | any call fails, kills, power loss, other users of the directory | a manifest means a complete bundle; nothing foreign is removed |
| Decision loop and runner (`scanner/decision_loop/`, `decision_runner.rs`), experience, adaptive pipeline, planner, rules, verification, knowledge base | session, experience, knowledge, three stores written one after the other | others write knowledge between any two steps; a call fails half-way; hosts repeat old commands | the stores tell one story; nothing stale is committed; calls return |
| Web decision runtime (`scanner/web_runtime.rs`), defense (`scanner/defense/`) | session, usage, defense ledger, broker snapshot | cancellation, deadline, limits and defense at every await | the report is true; nothing forbidden is dispatched; the run returns |
| Lab orchestrator (`termivar-exploit/src/orchestration.rs`) | lifecycle, evidence, usage, cleanup obligation, a cancellation generation | cancellation between any two of seven reads; executors that fail or answer late | a mutation is always answered for; no verdict is better than earned |
| Legacy phase runner (`scanner/runner.rs`, `scanner/context.rs`, `termivar-core/src/run_report.rs`) | steps, outcome ledger, events | a biased race of cancellation, phase and timer; rollback of a failed phase | the report is accepted and complete; the run ends |
| Event bus, plugins and Lua, proxy relay, artifact scanner, reporting, comparison, command line, passive reviews, core types, tooling | | | not modelled, see section 11 |

How they interact: every HTTP request of a scan goes through request accounting; the web
runtime drives the decision loop and hands its reports to rendering, whose output the
bundle publication commits; the reviews use the OAST adapter, which speaks to a provider on
another machine; completion receipts of the coordinator go to the result aggregator; the
phase runner publishes on the event bus.

**What is hard to test** is listed line by line as the hazards of `PROJECT.json`: stale
tokens presented after somebody else acted; bounds several actors approach together;
off-by-one at deadlines, retry limits and thresholds; bulk commands; lost answers and
replays; work that ends by being dropped; a peer that stalls while holding a gate; two
stores written one after the other; kills between two file-system calls; cancellation
between a check and what it guards.

## 2. Coordinator

**Atomicity.** All clones share one mutex and no command awaits, so a command is one action.
The interleaving is between *callers*. A refused command returns an error and leaves the
state alone, which is a stuttering step, so an action is the accepted case of a command and
its guard is the conjunction of all early returns (a command with several accepted outcomes
has one action per outcome: `FailTaskRetry`/`FailTaskExhausted`, `CancelLeased`/
`CancelQueued`, and the replay of a command already done).

**Tokens.** `issued` remembers every lease ever granted and actions take *any* of them, so
a lease can be presented at every later point, also after recovery, retry or its worker's
death. Queue fences likewise range over every version a caller may have seen (`QueuedFences`).
`acks` remembers what callers were told. These are history: no guard of a command reads
`acks`, and `issued` only bounds which tokens exist.

**Revision.** It is only compared for equality and grows at every commit, so it is modelled
by `current`, the set of callers whose observed revision is still the coordinator's: a
commit leaves only its own caller in it, a snapshot adds one.

**Abstractions.** One load stands for the three utilisations (the code takes their maximum
for the capacity and compares them one after the other between workers); ids, tags and
display timestamps are left out, and so are the validators of their format; exhaustion of
the `u64` counters is left out. Loops over tasks are one step because the state is locked
and the preflight has decided everything before the first change: `TypeOK` and
`WorkerCountersMatchLeases`, which are proved, say that none of the checked subtractions in
the apply phase can fail half-way.

**Bounds of the model**, in guards: `MaxTime` (callers' clock) and `MaxGeneration`
(reactivations).

### Runs

* `coordinator`: 2 tasks, 1 worker with 2 slots, 1 retry, times 0..2, generations to 3.
  `CountersMatchRecords`, `OwnershipMatchesStatus`; `StateIsSound` (*`TypeOK`*,
  *`QueueMatchesRecords`*: the queue holds exactly the queued records, in order;
  *`AttemptsAreFenced`*: attempts, retries and leases issued agree; and
  `WorkerCountersMatchLeases`, here with several leases lost at once); `AcksAreTruthful` (a
  replay is acknowledged only for the attempt it belongs to); `RecoveryKeepsLeaseOrder`;
  `ImplementsLifecycle` (every task lives as `TaskLifecycle` says).
* `coordinator_workers`: 1 task, 2 workers, generations to 3. `WorkerCountersMatchLeases`,
  `FencesAdvance`, `CompletedByLiveOwner`, `OnlyHolderEnds` (a completion, cancellation or
  failure is accepted only for the lease on record, the last one granted, so no token of an
  earlier attempt ends the task it was for; the mutant knows a lease by its worker alone).
* `coordinator_ends`: 1 task, 1 worker, 2 callers. `LeasesEnd`: every attempt whose worker
  stays silent ends; `TasksEnd`: every task that outlives its ttl ends.

*Why these bounds.* Two tasks and two slots are what the order of recovery, the queue order
and bulk release need; a task that is granted, lost, granted again and lost for good
needs one retry; with times 0..2, a lease of 1 and a task ttl of 2 there are moments
before, at and after every deadline. Two workers are what a hand-over needs; three
generations are registration, going offline and coming back. One caller suffices for
safety, since any caller can refresh its revision at any moment and commands do not depend
on who sends them; the liveness run has two, because there the other caller can win the
race for the revision. Tasks are symmetric in the safety runs; no symmetry is used for
liveness.

*Fairness.* Recovery is caller-driven and no background thread runs it (`docs/distributed.md`,
"Retry and recovery"), so progress can only be promised to a host that runs a maintenance
loop. `LiveSpec` says just that: the maintainer keeps taking snapshots (weak fairness) and,
whenever again and again it holds the current revision at the last time of the model,
recovers and expires (strong fairness, since other callers' commits disable it in between).
Nothing is assumed of workers. That the maintainer gets its turn again and again is an
assumption about the host: the library gives no caller precedence, and two callers could
overtake a maintenance loop for ever. `LeasesEnd` is checked where the queue may hold every active
task, the default limits; where it may not, recovery can be refused and expiry is the way
out.

*Deadlock* is not checked: when all tasks have ended and the bounds are reached every
further command is refused.

### What is proved

`CoordinatorProofs` proves, for all constants satisfying the assumptions (valid limits as
`validate_limits` demands; finite sets of tasks and workers; `None` no token):

* `TypeCorrect`: `[]TypeOK`, so no unsigned counter is decremented below zero;
* `OwnershipCorrect`: `[]OwnershipMatchesStatus`;
* `CountersCorrect`: `[]CountersMatchRecords`;
* `WorkerSlotsCorrect`: `[]WorkerCountersMatchLeases`.

The inductive invariant `IInv` is the conjunction of the four: none is inductive alone.
That a slot counter stays a natural number needs that it counts leases; that it counts
leases needs that leases sit exactly at the leased and running records; and a bulk command's
counters need finiteness and types. All commands that take tasks away from where they are
(complete, cancel, fail, recover, deregister, prune, expire) are reduced to one idea, *a set
`S` of active tasks is retired and a subset `E` of it ends* (`TasksRetire`,
`WorkersRelease`), so the cardinality argument is made once (`RetireSets`,
`RetireCounters`, `RetireWorkers`, `RetireStep`). Then there is one lemma per action.

The second half of the module goes on from there, under the same assumptions:

* `StateSound`: `[]StateIsSound`; `AcksTruthful`: `[]AcksAreTruthful`;
* `FencesMonotonic`, `CompletionIsOwned`, `EndsAreTheHolders`, `RecoveryOrdered`: the action
  properties `FencesAdvance`, `CompletedByLiveOwner`, `OnlyHolderEnds`,
  `RecoveryKeepsLeaseOrder`;
* `LifecycleRefinement`: `ImplementsLifecycle`, for every task.

The argument is again one idea for all commands. `CommandShape` says what *any* accepted
command may do: each record stays or moves in one of five ways (`RecordsMove`: granted,
started, queued again, ended, or submitted), at most one lease is granted (`NoGrant` or
`OneGrant`), tasks leave and enter the queue with new ordinals in the order of the leases
they lost (`QueueMoves`), new answers are true when given (`AnswersAreTrue`), worker
generations do not fall (`WorkersMove`), and completion is in time and leaves a receipt
(`CompletedInTime`). One lemma per action shows its shape (`NextShape`), and everything else
is derived from the shape alone. The inductive invariant `FInv` adds to `IInv` the queue
(`QueueMatchesRecords`), attempts by status (`AttemptsMatchStatus`: `AttemptsAreFenced` is
not inductive, since a grant needs to know what a queued task has spent and a requeue what
a leased one has), the leases ever issued (`LeasesAreCounted`), the truth of every
acknowledgement in a form that names its record (`AcksAreRecorded`), and that a completed
record keeps its receipt (`CompletionsHaveReceipts`). For the refinement a record maps to
its phase and its number of grants, and each way a record may move maps to one step of
`TaskLifecycle` or to none.

Only model-checked: the two liveness properties.

## 3. ResultAggregator

The store has its own mutex and revision; `store_result` is one step beside the whole of
`Coordinator`, so receipts come only from completions the coordinator really made. Any
storer that was told of a completion may present its receipt with any bytes, hold a stale
revision (`fresh` are the storers that hold the current one), lose the answer and try again
(`told` is one arbitrary answer that was received, which stands for all of them).
`aggregate_results` is a read and is modelled as an operator over every request of up to
two tasks. Epochs: the code leaves keeping results of different coordinators apart to its
caller, so one is modelled.

Run `result_store`: 2 tasks, no retries, 2 storers, results of sizes that fill and overflow
the store. `StoreIsTruthful` (*`StoredIsOfCompletion`*, *`AnswersStayTrue`*,
*`TotalIsExact`*, *`AggregatesFit`*); `DeliveryEnds`: whoever holds a receipt is answered,
assuming that a storer keeps reading the revision and presenting its result, and that not
every answer is lost. A storer needs the revision for no longer than one call, and others
run out of results to store, so weak fairness suffices.

The last part of `CoordinatorProofs` proves `StoreTruthful`, `[]StoreIsTruthful`, for every
coordinator and store. A storer takes a receipt long before it stores a result, so `SInv` says of every
job, stored result and answer that it is of a completion *as the records are now*
(`JobsAreOfCompletions`, `StoredUnderOwnTask`, `AnswersStayTrue`); that the coordinator's
later commands keep this is `CompletionsStay`, from `FInv` and `CommandShape`. The exact
total is a sum over the stored tasks, and its change by one result is `TotalInsert` of
`FiniteSums`. `DeliveryEnds` is model-checked only.

## 4. RequestAccounting

**Atomicity.** A step is one critical section of the state mutex, or the code between two
awaits of a collector. A collector goes `idle` → `prepared` (holds a preflight, possibly
stale) → `requesting` → `reading` (waits for the gate) ⇄ `gated` (holds it, awaits a chunk)
→ `closing` → `idle`. From any of the in-flight phases the peer may fail, the request
timeout may fire, or the future may be dropped; dropping the lease writes the receipt.

**The peer** is any: it declares a length or none, delivers chunks of 0 to `MaxChunk` bytes,
ends, fails or stalls. **Requests** have a stage (passive or active) and a body size; a
request without budget is refused and its collector returns.

**Abstractions.** Action ids, elapsed times and the breakdown of the passive counter by
origin are left out (no limit reads them), saturation is not modelled since the limits stop
the counters long before. Dispatched requests, which the budget bounds, are the only source
of growth, so no model bound is needed beyond the constants.

### Run

`request_accounting`: 2 collectors, 2 requests, 3 response bytes, chunks 0..2, body limit 2,
1 receipt kept, 1 active verification, 1 request body byte. Two collectors are what a race
for the last request, the gate or the threshold needs; two requests overflow one receipt and
end in either order; three bytes with chunks of up to two are reached exactly and passed;
the body limit is below the session's.

* `DispatchesWithinBudget`: although preflights are stale by design.
* `OneCrossingChunk`: the session threshold is passed by less than one chunk.
* `DispatchesAreAudited`: every dispatch is live, in a receipt or counted as omitted, under
  a number of its own.
* `ResponsesAreAccounted`: *`CrossingIsAttributedOnce`* and *`CrossingIsNoticed`* (at most
  one request is blamed for the crossing, and an audit in which every request completed
  means there was none), *`BytesAreAudited`*, *`RetainedWithinAllowances`* (memory held for
  bodies), *`UntruncatedIsWhole`* (a body not marked as truncated is complete).
* `DispatchesEnd`: under weak fairness of the request timeout and of dropping the lease. The
  code justifies both: `tokio::time::timeout` wraps head and body, the wait for the gate
  included, and a lease is dropped at the end of the call without awaiting anything. Nothing
  is assumed of the peer.

*Deadlock* is not checked: a spent budget refuses everything.

### What is proved

`RequestAccountingProofs` proves, for any finite set of collectors and any budget, zeros
included: `TypeCorrect`, `BudgetHolds` (`[]DispatchesWithinBudget`), `OvershootBounded`
(`[]OneCrossingChunk`), `AuditComplete` (`[]DispatchesAreAudited`) and
`ReadsStopAtThreshold` (`NothingAfterCrossing`: once the threshold is passed nothing is
charged or dispatched any more).

`OneCrossingChunk` is not inductive: a chunk arrives one step after the check that allowed
the read. The strengthening is `ReadsAuthorised`, *a collector waiting for a chunk under
the gate still has session bytes left*, which other collectors preserve only because nobody
charges bytes without the gate (`GateHeld`: the gate's owner is the one collector in
phase `gated`). `DispatchesAreAudited` needs `Sequenced`: all numbers given out are below
the next one, so a new one is fresh. `IInv` is the conjunction of these with the theorems'
own properties; there is one lemma per action.

`ResponsesAccounted` (`[]ResponsesAreAccounted`) rests on a second invariant, `AInv`. A
threshold is reached from below, where no lease and no receipt says so yet, by the one
reader that holds the gate: that is `CrossingIsAttributedOnce`, and needs that a lease about
to be closed carries an outcome its receipt repeats (`LeasesAreSound`, lease by lease and
phase by phase). What is kept in memory adds up only because kept bytes are bounded by
charged ones (`KeptIsCharged`), not by the threshold alone. The byte audit is two sums, over
live leases and over receipts, and closing a lease moves an entry from one to the other.
Sums are over finite sets and are proved about with the lemmas of `FiniteSums`. One
assumption is added, `OutcomeAssumption`: `None` is not an outcome.

Only model-checked: `DispatchesEnd`.

### Two observations

* A collector whose body is cut because *another* one crossed the session threshold is
  receipted `Completed`, with the body marked as truncated; certificate-transparency lookups
  receipt the same situation as `ResponseBudgetReached`. `CrossingIsNoticed` is therefore
  about the request that crossed, not about those it cut short.
* `native_oast_provider.rs:855` charges bytes without taking the gate. The bound of one
  chunk then rests on that exchange running alone, which is how the product runs it; it is
  not part of the model.

## 5. OAST: provider, adapter, review

### OastProvider and OastAdapter

`OastProvider` has one step per arrival of a request (admitted against the semaphore or
refused), per critical section of the one lock, per timeout or disconnect that drops a
request waiting for that lock, and per unit of time. `register`, `allocate`, `poll`,
`cleanup` and the callback endpoint are each one critical section; every authenticated
management operation also sweeps the sessions past their retention, as in the code. A callback refused admission still waits
for the lock to set its session's sticky incomplete mark. Time appears as distance to a
deadline (`life`, `keep`). A session's event vector is kept as the cursor of each callback's
event, which loses nothing because a callback has at most one event and events are only
pushed.

`OastAdapter` is the scanner's end: one mutable borrow, so one request outstanding; an
operation is its checks and dispatch, then the answer (or loss) with everything it commits.
A request the adapter gave up on stays with the provider, may be served later, and its answer
reaches nobody. Nothing is retried, as in the code. Byte limits and the parent's budget are
one nondeterministic refusal of a dispatch (`RequestAccounting` models them).

Run `oast_adapter`: 1 session, 2 connections against a concurrency limit of 1 (so a callback
or an abandoned request is in flight beside the current one and saturation happens), 2
callbacks, pages of 1 event, 3 polls, 7 requests, 1 unit of lifetime and of retention.
Connections are symmetric. The view drops what the last operation returned and the receipts,
which no step and no checked property reads.

* `PagesAreWhole`: *`CompletePageIsWhole`* (a page called complete, asked for at any cursor,
  leaves out no callback that was answered), *`CursorsAreDense`*, *`PagesSkipNothing`*.
* `ObservationsAreExact`: *`CursorMatchesSeen`*, *`SeenIsWholeAndTrue`*: what the adapter has
  accepted is exactly the events up to its cursor, through lost answers and rejected pages.
* `SessionIsAgreed`: *`PollBudgetsAgree`* (the provider never refuses a poll the adapter
  believes it has), *`SessionOutlivesPermit`*, *`VerifiedCleanupIsFinal`*,
  *`CleanupIsAffordable`*.

`OastProofs` proves all three for every finite set of sessions, any connections, any number
of callbacks, events and polls and any page size: `PagesWhole`, `ObservationsExact` and
`SessionAgreed`; and `ProviderPagesWhole`, `PagesAreWhole` of the provider alone (`Spec`),
whatever its clients send. `SessionAgreed` has one hypothesis, `GrantIsAmple`: the host
grants at least `max_callbacks + max_polls + 2` requests. `CleanupIsAffordable` needs it (the
other three conjuncts do not), and the code leaves that choice to the host.

*The provider.* A request does one of a few things to each session record (`RecordStep`),
and each keeps the record whole (`Whole`): dense cursors, an event for every answered
callback unless the record says that it may lack some, and retention that outlasts life.
That a page is a stretch of consecutive cursors (`PageIsStretch`), although the code takes
the first so many events after the cursor, is a bijection between events and numbers
(`StretchIsCounted`); pages that skip nothing follow.

*The adapter.* None of the properties is inductive: an accepted page must have been true
when it was served, and still be true when it arrives, callbacks, timeouts and the
adapter's own abandoned requests in between. `AInv` says so of the one request waited for
(`CallInStep`, `AnswerHolds`, `PageHolds`), and of the abandoned ones what they can still
do: at most one registration, and never after its session was known (`OneSession`); no poll
that was not charged (`PollsAreCharged`: polls charged by the provider and polls waiting for
its lock together are at most the attempts); no cleanup unasked (`SessionLives`). Every step
the adapter has no part in has one shape (`Serves`, `CallSettles`), so what it may not
disturb is shown once (`BackgroundKeeps`). TLC checks `AInv` on the instance of the run.

### XmlReview

`execute_review`: register, three callbacks, a preflight poll, three legs of posting a
document and polling, cleanup on every path, classification. Callbacks arrive at any moment.
Run `xml_review`: one connection, 2 polls a leg (so that a leg ends early or uses them up),
3 callbacks, pages of 3.

* `VerdictIsFounded`: *`PositiveIsFounded`* (`Repeated` only if candidate and replay really
  were answered, nothing before the preflight page was served, nothing of a later document by
  the last page of the leg before, the control never; everything sent; the session gone),
  *`NegativeIsFounded`* (`NoCallback` only if nothing was answered before the last page),
  *`SessionIsAlwaysClosed`*.
* `ReviewEnds`, under weak fairness of time, of the review's own steps and of abandoning an
  operation whose deadline has passed (`dispatch_wire` selects on it); posting a document
  ends, as `DispatchesEnd` shows. Nothing is assumed of provider or target.

*Deadlock* is not checked in either run: a closed session or an ended review stops.

*Observation.* `docs/internals/xml-external-entity-review.md:120-122` asks for
"post-dispatch callback events". The code establishes that an event was not there when the
last page *before* the dispatch was served; a callback fetched between that page and the
dispatch counts as the document's. `PositiveIsFounded` states what the code establishes. The
window needs a target that fetches a callback it was not yet sent, so this is a remark about
the wording, not a finding.

The last part of `OastProofs` proves `VerdictFounded`, `[]VerdictIsFounded`, for every number
of polls a leg and everything else the adapter's theorems leave open. Its hypothesis
`ReviewLimits` is the configuration `execute_review` builds (three callbacks, one preflight
poll and three legs of them, twelve requests). The review reads a page and concludes many
steps later, so its invariant `RVInv` adds to `AInv` what the facts gathered so far are
worth: they are part of what the adapter has seen, they hold everything that was answered
when the last page of each leg was served, and unless a leg was contaminated that is nothing
of a later leg (`FactsAreSeen`); documents go out in order, so `target_complete` means all
three (`SentInOrder`). `AwaitsItsCall` and `CleanupReturns` tie the review's step to the one
operation its adapter has under way and say what a returned cleanup means; that a closed
adapter between operations has no session is a conjunct of `LifecycleInStep`.
Steps of adapter, provider and world change none of the facts (`AdapterAlone`), each step of
the review goes on or to the cleanup (`MovesOn`, `TerminalKeeps`, `StopKeeps`), and only
`AfterCleanup` concludes (`ClassifiedFacts`). TLC checks `RVInv` on the instance of the run.
`ReviewEnds` is model-checked only.

## 6. ReportBundle

One step per file-system call with the flag assignments that follow it: reserve the
directory and take its identity; for each of `html`, `json`, `manifest` create, identify,
write, sync, link, verify and free the temporary name; sync the directory before the
manifest and after it; on failure, abort or drop, verify the directory and each tracked path
and remove what is ours. Every call may fail, a write having left part of the file behind;
`Kill` and `PowerLoss` come between any two steps (after a power loss
every subset of the unsynchronized names may have reverted and unsynchronized contents are
partial); someone else may replace, remove or add files and the directory. Verifying a path
and using it is one step: `docs/reporting.md` excludes races within it. The directory itself
is replaced only while the scan runs, before publication or cleanup starts: the final
`remove_dir` checks no identity (the cleanup did so when it began) and relies on the same
exclusion. Directory synchronization is the Unix one.

Run `report_bundle` (up to 2 paths changed by others, enough to disturb a payload and its
temporary name, or two files):

* `ManifestMeansComplete`: wherever our manifest is visible, kills and power losses
  included, it and both payloads are whole.
* `ForeignIsSpared`: no step of the program touches a file or directory of someone else.
* `CommittedIsKept`: once the manifest is visible, no step takes a final name away.
* `ResultIsTruthful`: *`ReportIsTruthful`* (what the caller is told is so),
  *`NothingLeftBehind`* (left alone, an uncommitted publication leaves no directory).

*Deadlock* is not checked: a publication ends.

`ReportBundleProofs` proves `TypeCorrect`, `ManifestComplete`, `CommittedKept` and
`ForeignSpared` for any number of paths changed by others. `ManifestMeansComplete` is not
inductive: that a payload is whole when the manifest appears was decided many calls
earlier. `IInv` adds `PayloadsInOrder` (which payloads are finished, and on disk, when a
later file is worked on), `LinkedIsSynced` (a file is linked only once synchronized),
`CommitIsFlagged` (the flag is never behind the link it stands for) and
`WholeWhenCommitted` (the claim, and the same of what a power loss would leave). There are
two lemmas per action, one for types and one for the rest. `ForeignSpared` adds
`CleansItsOwn`: past its first check the cleanup works in the directory it reserved.

It also proves `ResultTruthful` (`[]ResultIsTruthful`), with `RInv`: what may have been
reported at which step (`ReportedInStep`), that a file done with has no temporary name
(`TemporariesGone`), that while nobody interferes every name in the directory is one the
ownership flags track (`EveryNameIsTracked`), and that the removal works through the tracked
names in its order (`RemovedInOrder`), so that nothing is left when it reaches the
directory.

## 7. DecisionPolicy, DecisionLoop

`DecisionPolicy` holds what the loop computes, as operators: what a hypothesis becomes,
which plan the planner selects (`AttackPlanner`: closure of prerequisites in identity order,
candidates in utility order, cost against the budget, the defense filter), which rule of the
adaptive pipeline wins and what its directive does, failure streaks and the suppressions
learned from them, the session's transitions.

In `DecisionLoop` a call holds session and experience exclusively; the knowledge base is
written by others between any two acquisitions of its lock, and those are the model's steps:
the rules engine's optimistic apply loop, planning on a snapshot, committing the plan,
executing, submitting evidence and applying an outcome. A call may fail at every step. The
host may drive any command it was ever given (`commands`), suppress actions by policy or by
defense, and halt. Other writers observe, reason and verify; none takes a conclusion back.
The public `upsert_hypothesis` could (it does not preserve a terminal state, and
`StoresAgree` would not survive it), but of the product only phases of the legacy runner call
it, on the knowledge base of their own scan context, and that of a runtime is handed out "for
audit and reporting" (`web_runtime.rs:1696`).

Run `decision_loop`: 2 actions with a hypothesis each, one action that only adds knowledge;
3 rules in the shapes of the standard policies; 2 cycles, 3 transitions, 1 schedule, a
failure limit of 1, 2 apply attempts, so that limits are met early.

* `StoresAgree`: *`ExperienceMatchesLedger`*, *`ExperienceMatchesKnowledge`*, *`LimitsHold`*.
* `OutstandingIsLive`: *`OutstandingIsUnrecorded`*, *`OutstandingIsNotSuppressed`*,
  *`EvidenceIsForOutstanding`*.
* `NothingStaleCommits`: *`ConcurrentWriteAborts`*, *`ConclusionsAreFinal`*,
  *`PlannedIsCurrent`*.
* `ImplementsLifecycle`: the loop implements `SessionLifecycle`.
* `CallsReturn`, under weak fairness of the call's next step: a call runs to its end in its
  caller's thread, and an executor returns or fails. Nothing is assumed of other writers.

*Restriction:* the rules are ones that escalate passive outcomes only, as every standard
policy does; the pipeline itself does not ask that of a rule, and for others
`OutstandingIsUnrecorded` does not hold. The restriction is `EscalatesPassiveOnly`.

### What is proved

`DecisionProofs` proves, for any planner graph, any policy of valid rules, any limits and any
other writers of the knowledge base: `StoresConsistent` (`[]StoresAgree`), `CommitsAreCurrent`
(`NothingStaleCommits`), and under the hypothesis `EscalatesPassiveOnly` `OutstandingLive`
(`[]OutstandingIsLive`) and `LoopRefinesLifecycle` (`ImplementsLifecycle`). Assumed of the
constants is what the constructors check (`PlannerAssumption`: prerequisites are registered
and acyclic; `DecisionPolicyAssumption`: rule fields in range, identities unique).

`LInv` is the inductive invariant (`LoopInvariance`). Besides the types of knowledge, session
(`Sound`: within every limit, and awaiting the case of its last cycle), experience and call it
has `SnapshotIsTrue` (a snapshot that counts as current is the knowledge as it is), `CallFits`
(the call in progress is one for the session and the experience as they are: a plan about to
be committed is one a planner could make on its snapshot, an outcome about to be applied is of
the case the session awaits, not yet observed, and the session that follows it is one the
pipeline allows), `ExperienceMatchesLedger`, `ExperienceMatchesKnowledge` and
`OutstandingIsNotSuppressed`. The properties are not inductive because they relate what a call
decided at one step to stores it writes at a later one, after others have written; `CallFits`
is what makes the decision carry over. `OutstandingLive` needs the history as well:
`Chronological` (no outcome is of a later cycle than the session's, none of the session's own
while it awaits passive evidence) and `OutcomesDiffer` (two outcomes of one cycle are the
passive and the active one of its case).

What the steps compute is stated once, as lemmas about the operators: which rule wins
(`WinnerWins`), what a directive and an outcome may make of a session (`TransitionShape`,
`ConclusionShape`), and what a plan may (`PlannedShape`). The last goes through the planner:
the closure of prerequisites exists because the graph is acyclic and finite
(`ClosureExists`), and its folds are followed by an invariant of a fold (`FoldInvariant`).
`CallsReturn` is model-checked only.

## 8. WebRuntime

`analyze` over `DecisionPolicy`: bootstrap, then plan, check, dispatch, execute, judge. A
step is what runs between two looks at cancellation and deadline, which arrive anywhere. The
executor sends requests of up to `ChunkBytes` bytes, is refused at a limit, answers, fails or
hangs; every response may raise the defense level. The subject's knowledge is written by this
run only, so a call of the loop is one step here (`DecisionLoop` has the interleavings).

Run `web_runtime`: 3 actions (an active verification, a passive and a local one) and the one
ranked first, which the host does not support, on one hypothesis, the rules the runtime installs, 3 cycles, 4 requests, 2 response bytes, 1 active
verification, 2 attempts of an action, 1 turn without progress; defense responses that
proceed, back off and halt. Every limit of the budget ends some run of the instance but
that on attempts, which the installed rules cannot reach: they try an action at most twice.

* `ReportIsTrue`: *`ReportMatchesSession`*, *`TerminalFollowsOutcomes`* (a natural end is
  complete, to be reviewed or exhausted as the outcomes say), *`EvidenceIsReported`*.
* `RunStaysPermitted`: *`CommandIsPermitted`*, *`BudgetHolds`*. `CommandIsPermitted` shows
  that the check before dispatch never has to give a command up: the suppressions are read
  again for every continuation.
* `RunIsOneLife`: *`RunImplementsLifecycle`* (`SessionLifecycle` again), *`StopEndsRun`* (a
  stop ends the run though its executor hangs), *`WorkIsFinite`* (without a stop it ends
  unless an executor hangs). Fairness is only that the runtime's own task is scheduled.

`DecisionProofs` also proves `ReportsAreTrue` (`[]ReportIsTrue`), `RunsStayPermitted`
(`[]RunStaysPermitted`) and `RunRefinesLifecycle` (`RunImplementsLifecycle`), for any actions,
hypotheses, limits, defense responses and executors. Two hypotheses are about the
composition: `OnlyWebRules`, the pipeline holds the rules `web_runtime.rs` registers, and
`FewActions`, no more actions are registered than a `u16` counts. The second is there because
a continuation rule has `u16::MAX` applications: each suppresses another action, so with fewer
actions than that the rules are never used up, and an outcome always finds the rule that
`TerminalFollowsOutcomes` relies on.

The invariant `WInv` (`RunInvariance`) says where the session stands at each step of `analyze`
and that its rules are not used up (`SessionFits`); that every receipt is the bootstrap's, one
of a judged turn or the one to be judged (`ReceiptsCounted`); that the representative cases
are those of the outcomes (`CasesFollow`); that progress, requests, bytes and attempts are
within the budget (`WithinProgress`, `BrokerHolds`, `AttemptsHold`); that the command in hand
is permitted by host and defense as they are now (`CommandIsPermitted`); and what the report
claims (`ReportHolds`). A report is true at the end only because these were kept in step at
every await before it. `StopEndsRun` and `WorkIsFinite` are model-checked only.

## 9. OrchestratedRun

`authorize` and `execute` of one run. The code reads the cancellation generation at seven
places; every stretch between two reads, or between a read and an executor call, is one
action, and the host may cancel between any two. An executor is the set of answers the code
tells apart. The lifecycle's refusal of a transition is modelled as reaching `panicked`.

Run `orchestrated_run`: every contract (cleanup or none, independent evidence or not,
minimum 1 or 2, proving steps worth 1 or 2 references), budgets that are exactly enough, one
short and ample, 2 references, 2 cancellations (before and during the cleanup).

* `MutationIsAnsweredFor`: *`TransitionsAreLegal`* (no `expect` can panic between attempt and
  cleanup), *`MutationIsAccountedFor`*, *`CancellationStopsWork`* (at most the one
  verification whose two reads the cancellation fell between), *`AuthorizedIsAffordable`*.
* `VerdictsAreEarned`: *`CompletionIsEarned`*, *`CleanupIsUndisturbed`*,
  *`VerdictSurvivesCleanup`*.

That a run ends is not a property: `run` is straight-line code whose only waits are the
executors' answers, around which it has no timeout. *Deadlock* is not checked: a run ends.

`OrchestratedRunProofs` proves `MutationAnswered` (`[]MutationIsAnsweredFor`) and
`VerdictsEarned` (`VerdictsAreEarned`) for every set of plans and grants, any manifest, any
finite set of references and any number of cancellations. Assumed of the constants: plans
are contracts in which cleanup is demanded exactly of reversible effects
(`PlansAssumption`), and budgets are amounts (`BudgetsAssumption`). Both properties speak of
a run that has ended; `OInv` follows the run there, with one conjunct per thing the code
carries from step to step: where the lifecycle stands (`LifecycleInStep`), the failure met
(`FailureInStep`), who owes a cleanup (`ObligationInStep`), the calls and evidence spent
(`CallsInStep`, `EvidenceInStep`), what was authorized (`PlanIsCovered`), what a
cancellation may still let through (`CancellationInStep`) and what impact was verified with
(`ProofInStep`). That the last cleanup step can be paid for needs three of them together:
what is spent is at most the cost of the phases passed, and the grant covers all phases.

Left out: seven of the twelve budget dimensions, which are summed and compared in the same
way; the identity binding of grants, applicability and digests; saturation of the
generation. A plan requires cleanup exactly when its side effect is reversible, which the
manifest's contracts and risk class demand of each other.

## 10. LegacyRunner

`run_pipeline`: each phase is polled in a biased race against cancellation and timer. A phase
commits a batch of reports, stays pending, or returns in one of the ways the runner tells
apart; the token is read once per poll, so a phase being polled runs on after a cancellation.
The context's outcome ledger is rolled back when a phase does not succeed, and the assembled
report passes through the checks of `RunReport::new`.

Run `legacy_runner`: up to 4 phases against a limit of 3 steps, one that may commit two
reports, one custom, one that may commit one; 4 outcomes, exactly as many as these phases can
report. All of it is reached: a refusal for too many phases, batches of each size, and every
end of a phase before and after a commit.

* `RunIsAccountedFor`: *`ReportIsAccepted`* (no report the runner assembles is rejected),
  *`OutcomesAreOfSucceeded`*, *`EveryPhaseHasAStep`*, *`EventsMatchSteps`*.
* `RunEndsPromptly`: *`CancellationIsPrompt`* and *`RunEnds`*, assuming that the run is
  polled, its timer fires, and a polled phase returns to the select.

`LegacyRunnerProofs` proves `RunAccountedFor` (`[]RunIsAccountedFor`) for any number of
phases, steps and outcomes. Assumed is what `record_legacy_verification_reports` takes
(`LegacyRunnerAssumption`): at most two reports of the SQL phase, of which there is one, and
one of others. Its hypothesis is `RoomForOutcomes`: the registered phases are fewer than
`MAX_RUN_REPORT_OUTCOMES`.

What the report is checked for was decided phase by phase, so `LRInv` follows each thing that
is checked through the loop: the steps (`StepsInStep`: all but the last that ran let the loop
go on, what follows it is skipped, and why), the flags the stop code is chosen by
(`FlagsInStep`: `StepFailed` is what is left when no flag is set, and then some step has
failed), the outcomes and the ledger (`OutcomesInStep`: the same verified outcomes in the
same order up to the checkpoint, and behind it only the batch of the phase in hand, which is
what a rollback cuts off; hence no outcome twice), their number (`OutcomesFit`) and the
events (`EventsInStep`). `SettleKeeps` is the end of a phase, in one lemma for each of them;
`ReportAccepted` goes through the classification case by case. TLC checks `LRInv` on the
instance of the run.

`CancellationPrompt` proves `CancellationIsPrompt`, the safety half of `RunEndsPromptly`,
without that hypothesis. `RunEnds` is model-checked only.

*Observation.* `MAX_RUN_REPORT_STEPS` and `MAX_RUN_REPORT_OUTCOMES` are both 4096. With 4096
phases registered, all successful with findings and the SQL phase with two reports, 4097
outcomes are assembled after all effects have happened, and `RunReport::new` refuses the
report. `RoomForOutcomes` excludes just this; no document says that so many phases are
supported, and the built-in composition is nowhere near it.

## 11. Limits of this development

**Not modelled, and why.** The map covers the control core, which is a small part of a
repository of some 430 000 lines. The bulk is parsing, fingerprinting and classification of
HTTP, TLS and file bytes (the reviews and `http_evidence`), rendering and re-reading reports
(`reporting*`, `comparison/`), argument and credential input (`termivar-cli`), and
release and architecture tooling (`xtask`): sequential functions of data with no state that
outlives a call, whose correctness is about formats. A small-instance state machine says
nothing about them that their tests do not. Further:

* the *event bus* publishes in three unlocked steps; on the scan path it has one publisher,
  the phase runner, whose events `LegacyRunner` records. Concurrent use by other hosts is
  not modelled;
* *plugins and Lua*, the *proxy relay*, the *artifact scanner*, *monitoring and persistence
  helpers*: optional or host-side, little more than I/O;
* the other *assessment reviews* are compositions of collector calls (modelled in
  `RequestAccounting`) and classification;
* two provider sessions competing for capacity: the sweep and retention are in
  `OastProvider`, but an instance with two sessions is too large beside the adapter.

**Only model-checked.** Liveness and fairness are out of TLAPS's reach. So is induction in
the form the library states it, with a predicate as parameter; `FiniteSums` states it with a
set instead (a set of numbers that has 0 and each successor of its members has them all),
which is what makes the sums of the accounts provable. Every safety property of the runs has a
theorem. What TLC alone checks is the liveness of each module (named in its section), and with
it the second half of the properties that join a safety and a liveness claim: `RunIsOneLife`
(the theorem is `RunRefinesLifecycle`) and `RunEndsPromptly` (the theorem is
`CancellationPrompt`).

No disagreement between the code and its documentation was met in the modelled parts.

## 12. Plan

1. **Done**: the modules above, their runs, and the theorems of the eight proof modules.
2. Proofs left: none of the safety properties. The liveness properties need another prover.
3. Models worth adding: the event bus under concurrent publishers; the exchange at
   `native_oast_provider.rs:855` sharing a broker with metered collectors; a second provider
   session in an instance without the adapter.

## 13. Running it

In this directory:

    tlc -workers 2 -config MCCoordinator.cfg MCCoordinator
    tlapm CoordinatorProofs.tla

and likewise for the other configurations and proof modules. `MCCoordinatorWorkers.cfg` and
`MCCoordinatorLive.cfg` belong to `MCCoordinator`; every other configuration has a module of
its name. The longest runs (`xml_review`, `decision_loop`, `web_runtime`) take two to three
minutes with two workers, `coordinator` two; `DecisionProofs` takes several minutes, the other proof modules
one or two each.
