# A verification development for Aegis and Sifa

TLA+ modules of the programs in this repository, the TLC configurations that check
them on small instances, and proofs that TLAPS checks for every instance. Nothing in
the programs depends on this directory.

The repository holds two independent systems:

* **Aegis** (`src/aegis`): HR automation behind a governance gate. A FastAPI process,
  or several replicas, on one PostgreSQL database; every request is one transaction.
* **Sifa** (`src/sifa`): a recommendation service. One process with threads, a
  registry of rankers, and a SQLite state directory it restarts from.

## 1. Inventory

### Aegis

| Component | State | Operations | What is hard | What makes it correct |
|---|---|---|---|---|
| governance gate (`governance/`) | none; a policy per tenant | `evaluate` | the order of denials and approvals | an irreversible action is never simply allowed |
| workflow runtime (`agents/`) | a run: status, attempts and approver of each step | `start`, `advance`, `approve`, `reject`, `resolve_external`, `retry` | long sequences of legal calls; retries after decisions; a batch that goes on after a failure | steps wait for what they require; a person behind every irreversible action; attempts bounded; decisions final |
| run requests (`api/app.py` over `RunRepository`) | run and step rows | one transaction per call | the run is loaded without a lock; tools act before the commit; crashes | every stored status has its evidence; requests end |
| decision ledger (`PersistentLedger`, `ledger/record.py`) | rows with sequence, link, hash | `append` | concurrent writers, savepoints, roll backs | one unbroken chain that only grows at its end |
| signatures, evidence, verification | signatures, the signing key of each server | `sign_unsigned`, `verify`, evidence export | replicas get the key one by one; exports read page by page | a sound ledger is never reported as tampered with |
| attrition model versions (`ModelRepository`) | versions, gate, the active one | train, activate, rollback, score | concurrent activation, reading in two statements | at most one active version, never a blocked one |
| API keys and tokens (`ApiKeyRepository`, `auth/tokens.py`) | keys, `not_before` | issue, rotate, revoke, revoke tokens, exchange | write skew, a token minted after a revocation, clock granularity | an ADMIN key remains; ended tokens stay refused |
| alert outbox (`ops/alerts.py`, `ops/checks.py`) | alerts, attempts, dedupe keys | check, queue, deliver, mark | overlapping passes, a death before the commit | a stamp is final; every alert is delivered or given up |
| sign-in limiter (`_FailureLimiter`) | failure times per client | check, record | check and record are separate | bounded tries; a lockout ends |
| calendar (`integrations/`) | booked slots | book | two bookings of one slot | nobody is booked twice, nobody refused without a clash |
| four-fifths test, model gate (`bias/`, `verification/`) | stored reports | test, score | boundaries in doubles; a rule that lowers after another has decided | the report is the rule's and the ledger's; worse findings never raise the gate |
| screening and anonymisation | stored verdicts | screen, look up | spellings of fields, thresholds of numbers | the prompt is clean; what is answered is stored |
| workforce, skills, sentiment | alerts and ledger entries of warnings | simulate, match, forecast, report, warn | off by one in months and rankings; small groups; overlapping warnings | least hires; ready people first; withheld groups silent; one alert per warning |
| provisioning, demo, migrations, console | | scripts and a user interface | | |

Calls between them: the API builds an `AgentRuntime` per request from the tenant's
policy, the tool registry and a `PersistentLedger` bound to the request's session;
the runtime asks the gate, calls tools, and appends to the ledger; model, key,
calendar, fairness and warning requests append to the same ledger, and several of
them take the same per-tenant advisory lock.

### Sifa

| Component | State | Operations | What is hard | What makes it correct |
|---|---|---|---|---|
| model registry (`registry/models.py`) | versions and stages | register, transition, rollback | restoring archived versions; per-version saves | one live version, one canary |
| rollout (`serving/platform.py`, `monitoring/guard.py`) | two serving windows | promote, serve, guard, advance, rollback | the stage is read before the lock is taken; a crash between saves | only a canary the guard has judged goes live |
| feedback and counters | impressions, feedback, counters | serve, feedback, switch of outcome mode | separate transactions of one call; duplicates; late clicks | a click is credited once; successes within trials |
| state directory (`persistence/`, `_cold_build`, `_restore`) | database, artifact files, a fingerprint | build, mark, restore, move aside | a crash between a file and its hash; data that changed | what is marked can be restored; unless the data changed under an unfinished first build, it is of one data set |
| scheduler (`serving/scheduler.py`) | outbox, last retraining, drift key | drift check, retrain, deliver | beside operators, the guard and crashes; answers that are late, lost or not HTTP | an alert that was seen to arrive is not posted again in one life; alerts settle |
| start of the process (`serving/api.py`, `demo.py`) | platform, error, thread | build, warm up, publish, answer | requests look at three variables one by one | one platform, watched; a start ends |
| benchmark jobs, limiter, roles (`serving/api.py`, `auth.py`) | jobs, lock, windows | start, work, poll | eviction; a thread that cannot be started | one at a time; a polled job is there |
| feed policy (`serving/pipeline.py`, `policy/`) | a list in the making | rank, freshen, cap, diversify, explore | stages that undo each other | no repeats, capped, best first, a plain control |
| feature store (`features/`) | dated rows | write, as-of reads, joins | rows in any order | no feature from the future |
| vector index, retrieval (`index/`, `retrieval/`) | a layered graph | add, search, retrieve | pruning, keys added again | links on both sides; what can be linked is found |
| learning, statistics | numerical | | floating point | |

### Hazards

`PROJECT.json` lists forty, each with the line where it bites and the property that
would catch it. Four of them no property catches, because the code does not exclude them:
the action of a tool repeated after a crash, an alert given up after five tries, the
lock of the benchmark jobs lost when a thread cannot be started, and data that changes
while the very first build of a state directory is unfinished; the promises about
calls, alerts, jobs and the state directory are stated up to these. Others that are real and not in that list:
a token minted after the revocation of the key it was asked for with
(`aegis/api/app.py:514`); a node of the index all of whose neighbours have dropped it, which
no search finds (`sifa/index/hnsw.py:195`; the search property is stated for indexes in
which nobody has a link too many); meetings of no or negative length
(`integrations/calendar.py:120`); after a restart the
ranker that answers when nothing is live may be one that is withdrawn later
(`sifa/serving/platform.py:270`); a crash between the guard's rollback and its alert
leaves a rollback nobody is told of (`platform.py:420`); the limiters read the clock
before they take their lock (`sifa/serving/auth.py:120`); a feature that is constant
in the reference has no bins and never drifts (`verification/drift.py:65`); prose
under a field spelt "Notes" is passed on (`anonymization/engine.py:146`; the property
`PromptIsClean` states that boundary, and that values that are no texts pass); answers to two scenarios of one name replace
each other (`api/analytics.py:575`); an aspect one person mentioned is reported with
that person's score (`sentiment/analysis.py:219`).

## 2. Plan

Done, in the order of importance: the gate, the runtime and its proofs; the ledger
and its proofs; run requests; model versions; keys; alerts; the limiter and the
calendar; signatures and evidence; the fairness and fidelity rules; screening;
workforce, skills and sentiment; Sifa's registry and rollout, feedback, state
directory, scheduler, start and jobs, feed, features and index.

Every module that interleaves has its theorems, in eight modules of proofs (section 5).
No module has a RECURSIVE operator: a loop of the code is a recursive function of its
rounds. What is left to TLC alone is liveness.

## 3. Modules

### GovernanceGate, WorkflowRun (pure)

`GovernanceGate` is `governance/`: action types, the irreversible ones, restricted
domains, policies with the checks of `__post_init__`, and `Evaluate`, split into the
denials and the reasons for a person. A confidence is a whole percentage, an optional
one a set of at most one; role names and reasons are left out. `WorkflowRun` is
`agents/workflow.py`: a run is a record of functions over step positions (`status`,
`attempts`, `approver`), with the derived run status, the runnable steps, and what
invoking a tool does to a step. The definition of the workflow is a constant with the
assumption its constructor checks (a step requires earlier steps only). Contexts and
results are left out: no guard reads them, apart from the refusals of a retry's
amendments, which are refusals like any other.

### AgentRuntime

One run, one request at a time. A request is one operation followed by the loop of
`advance()`, and the loop is modelled step by step:

| Code | Model |
|---|---|
| `start` + `advance` | `Init`, phase `"advancing"` |
| `ready = run.runnable_steps()` | `CollectReady` |
| `_execute` of the next step, by verdict | `ExecuteAllowed`, `ExecuteHeld`, `ExecuteDenied` |
| `_invoke`: no tool, failure, success | `InvokeStep`, `\E answer \in ToolAnswer(s)` |
| end of the loop; failed run after a batch | `Settle`; `AfterStep` |
| `approve`, `reject`, `resolve_external`, `retry` | the actions of that name |
| `_record` | `Record`, on the `trail` of the step |
| a tenant provisioned again with another posture | `StorePolicy` |

`calls` is a history variable: who approved each execution of a step's tool.

### RunRequests

The same operations on a stored run, by concurrent requests (`Request`). A request
loads the committed rows (`Load`), applies its operation to its copy in memory, takes
the tenant's advisory lock when it first records something (`"locking"`,
`AcquireLock`), goes on in `advance()`, saves the whole copy and commits, with its
ledger entries (`Commit`). It may die at any point (`Crash`): the rows roll back, the
tool's effect (`calls`) does not. `save()` writes every column of every step: the
session's identity map holds rows weakly, so the rows `load()` read are read again by
`save()` and set from the copy. `overlapped` and `crashed` are history variables that
say how far the serial promises extend.

### LedgerAppend, AppendOnlyLog

Writers are transactions that append and then commit or roll back. `append` is split
where other transactions can come in between: the lock (`LockTenant`), the read of
the head (`ReadHead`), the insert in a savepoint (`Insert`), the conflict on
`(tenant, sequence)` (`Conflict`, `GiveUp`). READ COMMITTED is what is modelled: a
statement sees committed rows and its own, and an insert waits for another
transaction's uncommitted row with the same key (`MayInsert`). `Advisory` is FALSE on
a database where `lock_tenant` does nothing. A hash is a fresh number (SHA-256 taken
to be injective). `AppendOnlyLog` is what readers are promised, and `LogGrows` states
that the table, read in the order of its sequence, implements it.

### ModelGovernance

The versions of one tenant's attrition model. A call is a transaction, its `pc` names
the statement that comes next: train is `BeginTraining`, `LockTenant`, `TakeNumber`,
`InsertVersion` and then, unless it was blocked, `activate()` (`ReadVersions`,
`Retire`, `Raise`), `AppendLedger`, `Commit`; activate and rollback begin otherwise
and share the rest; score is `BeginScoring` and `KeepScore`. Two things of the
environment decide what overlapping calls do and are modelled: what an SQLAlchemy
session believes of a row it holds (`seen`: the first read wins, and an attribute set
to that value is not written), and whom a statement waits for in PostgreSQL
(`WaitsFor`: row locks, entries of the partial unique index `uq_model_one_active`
that may still be rolled back, the advisory lock), with `BreakDeadlock` ending one
transaction of a circle. The verdict of a training is a choice of `PASS`, `WARN`,
`BLOCK`; `Unverifiable` names the versions whose stored signature fails. Training
numbers, the alert queued with a verdict and the score rows themselves are left out:
`scores` keeps which version made a score and which one it is labelled with.

### SifaRegistry, SifaRollout

`SifaRegistry` is `registry/models.py` as operators on a sequence of stages: which
moves `transition` allows (`MayMove`), what it and `rollback` make of the versions
(`Moved`, `RolledBack`). `SifaRollout` is the platform around it. One operation holds
the platform's lock (`op`) and goes on statement by statement, where a statement is
one transaction of the store with the change in memory that precedes it:

| Code | Model |
|---|---|
| `promote_candidate` | `Promote`, `EnterShadow`, `EnterCanary`, `ResetCanaryWindow`; a refusal in between is `Refuse` |
| `rollback` | `Rollback`, `SaveSecond` if a version was restored, `ResetCanaryWindow` |
| `advance_canary` | `Advance`, `SaveSecond`, `SwapWindows` |
| `recommend` | `ServeCanary` / `ServeLive` (reads the registry without the platform's lock), `Record` |
| `_enforce_guard` | `EnforceGuard` |
| the process dies, `_restore` | `Restart`, between any two of the above |

A window is a bag of outcomes; the click-through rule of the guard is exact (in
integers), calibration and latency are a free choice of the guard. `overtaken` is a
history variable: a request was recorded after its canary had left, or a crash cut an
operation short; then the canary's window may hold another version's requests.

### AccessKeys, SignInLimiter, CalendarBooking, AlertOutbox

Four services of Aegis whose requests overlap. In each the `pc` of a request, attempt
or pass names its next statement, transactions are READ COMMITTED, and an UPDATE writes
the columns the request changed.

| Code | Model |
|---|---|
| `create_key`, `rotate_key`, `revoke_key`, `revoke_key_tokens`, `exchange_key_for_token` | `AccessKeys`: `Begin...` (the reads and refusals), the update, `CommitKeys`; `Accepts` is the check of a presented token, with its time of issue in milliseconds |
| `_FailureLimiter.check`, `record_failure` around the resolution of a key | `SignInLimiter`: `Check`, `Succeed`, `RecordFailure`, `Answer429`; `Later` is time, kept as the age of each failure |
| `PersistentCalendar.book` | `CalendarBooking`: the advisory lock, `Look` at the committed slots, the inserts, the commit; a clash is an answer and keeps the lock to the end |
| `run_checks` with `_raise` and `_clear`, `deliver_pending`, `mark` | `AlertOutbox`: one transaction per condition, one for all deliveries, which writes attempts from what it read |

`raced`, `overlapped` and `together` are history variables: the promises named
`Serial...` hold as long as nothing has overlapped, which is all the code gives.
`Services` states what two of the four promise in the same words. The failures of
`SignInLimiter` are ages, oldest first, and one statement of the limiter drops those that
are out of the window (`Recent`). Attempts, passes, calls, requests and items are finite sets
of any size.

### LedgerEvidence, AdverseImpact, FidelityGate, Screening

`LedgerEvidence`: servers with and without the key (`Start`, `Stop`), appends,
`sign_unsigned` (a selection, then a commit), `verify`, and packs read page by page with
the head in a statement of its own. A page is named by its places: the k-th row of it is
the one that has k - 1 matching rows before it, which is what `ORDER BY` and `LIMIT` give.
Entries are a signature and a time; links are in `LedgerAppend`.
`AdverseImpact`: `four_fifths_test` with its ledger entry and its stored report beside other
appends. Rates are fractions, compared exactly; where two are exactly four fifths apart, a
constant (`RoundsDown`) lists the pairs whose quotient of doubles is below 0.80. `FidelityGate`: the steps of `assess_model`, probes
counted by kind, and the lowering after it. `Screening`: `anonymize`, `assert_clean`,
the prompt, both scorers, the parser and the stored verdict. A value that is no text
(`odd`: a number, a list) under a date's or a prose's name is passed on unchanged, and a
number under a date's name is a signal the deterministic model scores.

### WorkforcePlan, SkillMatching, SentimentWarning, Sums

`WorkforcePlan` is `simulate` month by month and `hires_required` trial by trial, in
units small enough for every quotient to be whole: rates are quarters, and `Lot` is a number
that every ramp of the scenarios divides. What is compared with a demand or a target is
rounded to thousandths first, as in the code. The cohorts that ramp are the last
ones, since the list is in the order of their start. `Sums` has sums and powers as
recursive functions, which can be reasoned about. `SkillMatching` has the four
requests as steps from an idle state; `int()` of a product of doubles is the floor, or one
less where a constant (`RoundedDown`) lists the product. `SentimentWarning` has the reports with the minimum
size of a group, with the score of an aspect taken from the words near it, and the warning as
two overlapping transactions with the ledger's lock and the alert's dedupe key.

### SifaFeedback, SifaState

`SifaFeedback`: `recommend` up to its impression, `record_feedback` and `set_outcome_mode`,
one transaction of the store per step with the memory it goes with (`memory`, `saved`),
and crashes. A window is its whole past, of which the deque holds the last
`WindowSize`. `SifaState`: files and hashes written one by one, the fingerprint that marks
a build, `_restore`, and state moved aside when the data changed; `mixed` remembers
that the data changed while the very first build was unfinished. `SerialServesItsData` is
stated up to that: then the code does serve other data (section 4).

### FeedPipeline, FeatureStore, VectorIndex

`FeedPipeline` takes one list from call to call, for every ranking, author and draw of
the bounds; an item is picked or explored per step. A sort is an order of the places
(`InOrder`), and what a call keeps of a list keeps its places, as in Python's stable sort
and list comprehensions. `FeatureStore` is `write`, `_as_of`, `point_in_time_join` and
`assert_no_leakage`. `VectorIndex` is `hnsw.py` with its greedy descent, layer search,
neighbour selection and pruning, over points of a line no two of whose distances are
equal; the level of a node is a choice. A descent or a search of a layer is given as many
rounds as there are nodes: each round reaches or expands another node, or changes
nothing. Layers are linked independently of each other, each as a function from nodes to
neighbours.

### SifaScheduler, SifaBoot, SifaBenchmark

`SifaScheduler`: one tick, step by step, beside an operator's promotion, the guard and
restarts. A post has three outcomes: an answer that is seen (`PostSeen`); none, or one that
is not 2xx, whether the webhook took the alert or not (`PostUnseen`); and one that is not
HTTP, whose exception `deliver` does not catch (`PostGarbled`), which leaves the alert
unmarked and ends the tick. `posted` counts what the webhook took, seen and unseen apart.
`SifaBoot`: the boot thread and the looks of a request at platform, error
and thread, each a step. Every `save_version` is a step of its own: the four of a first
build before its directory is marked, and those of the demo's history, where v1 is archived
before v2 is live; the process may die between any two. `SifaBenchmark`: rate limit, role, lock, list, thread, work, release.

## 4. Runs

Four runs pass. Each takes modules that share no state as *parts*: a behaviour chooses one
part, runs it, and leaves the others as they start, so that states add up and do not
multiply; interaction between the modules is inside the parts (the gate and a workflow
inside the runtime, the ledger's lock inside requests and versions, the registry inside
the rollout). Invariants of a part are stated together under one name, defined at the
end of its module as the conjunction of its type invariant and its promises.

| Run | Properties | Bounds, and why they are enough |
|---|---|---|
| `decisions` | `IrreversibleNeedsPerson`, `StartedAfterDependencies`, `TrailTellsStatus`, `IdleIsSettled`, `DecisionsAreFinal`, `RunAdvanceReturns`; `EvidenceHolds`; `ImpactIsTold`; `GateIsSound`; `ScreeningIsClean`; `PlanIsSound`; `MatchesAreSound`; `WarningsAreSound`; `SchedulerIsPrecise`, `AlertsSettle`; `BootIsConsistent`, `JobsAreKept`, `OperationEnds` | four steps with two branches, one awaiting a provider, one optional without a tool, the last irreversible; four policies; 2 attempts instead of 3: a failure, a retry and a retry refused (the theorems hold for any number). Two servers and 3 entries in packs of pages of one: a key that comes in the middle, a batch that is not the last. All sizes of two groups up to `MaxTotal`, which is 5: the least at which exactly four fifths rounds down (3/5 against 3/4); and three small groups. Records with every set of fields, spellings and values that are no text. PSI at 9, 10, 24 and 25 hundredths: both sides of each threshold; ten features and five probes as in the code. Four months, ramps of none to three (`Lot` 6). Rates of attrition in tenths, with the three products of up to ten people that doubles truncate one lower. Roles of up to 20 levels, where a bonus outweighs a level. In Sifa: two features, of which one may drift alone (`SomeDrifts`), 2 tries, 2 upheavals (a drift, a due retraining, an operator, a restart), answers of a webhook seen, unseen or garbled at every post; two callers and one death, between any two of the thirteen saves of the stored versions; two clients, one kept job, one request per window, one thread that cannot be started |
| `requests` | `StatusIsWitnessed`, `RequestsKeepTheRun`, `RequestsEnd`; `VersionsAreGoverned`, `CallsEnd` | two request slots, 5 requests (`MaxServed`): a first failure, two retries and two approvals fit. Two calls at a time on versions, four in all (`MaxCalls`): two versions, two overlapping activations and a scoring beside one, and a training and an activation that wait for each other; version 2 fails its signature |
| `services` | `ChainIntact`, `LogGrows`; `KeysKeepTheirPromise`; `LimiterHolds`; `CalendarIsConsistent`; `AlertsAreBounded`; `NothingIsTakenBack`, `RefusedForAReason`, `ServicesEnd` | two at once in each. 3 keys, 3 moments, one token; 3 failures in windows of two units; meetings of up to two of two hours for two attendees; one condition that is cleared, 2 tries, one fault or turn (`MaxEvents`), an earlier alert in the table; 4 rows ever inserted, 2 attempts per append instead of 5, with the lock and without |
| `sifa` | `RolloutIsConsistent`, `RolloutMovesOn`; `FeedbackIsCounted`; `StateIsRestorable`; `FeedIsFair`; `FeaturesAreOfTheirTime`, `RowsKeepToTheirTime`; `IndexIsNavigable` | two requests in progress and 4 in all, 3 versions: live, archived, canary; the guard looks after every 2 requests and wants 2, instead of 25 and 300. Two feeds of two items, a window of one, one crash and one switch. Two data sets, 4 starts. 7 items for a feed of 5, so that what is left out matters; authors are chosen for six, and the last has none. 3 rows, moments 0 to 3. 4 nodes, M = 2 and Ef = 2, one move: more links than a layer allows, and fewer than would lose a node |

The bounds end behaviours and a part may have nothing to do, so deadlock is not checked;
that nobody waits for ever is what the liveness properties say.

### Findings

Eight runs find a statement of the repository violated. Five of them check the
component's module itself with a configuration of its own; the others are one part of a run
above. Each is about what a document, a comment or the name of a test says:

* `spent_once`: two approvals overlap; one hold for approval extends the offer twice.
  `_mutate_run` loads without `SELECT ... FOR UPDATE` and takes the tenant's lock only
  when it first records.
* `labels`: an activation commits between the two reads of a scoring; the score is
  kept in the history under a version that did not make it.
* `one_serves`: an activation of the version that is active already overlaps the
  activation of another; the first then switches the other off and writes no flag of
  its own, and no version is active.
* `last_admin`: two revocations each count the other's key; no ADMIN key is left.
* `shadow` (a bug): a promotion while a canary runs moves the new version to shadow
  before it is refused, and leaves it there. No operation of the platform moves a
  version out of shadow, so every later promotion, the scheduled ones included, is
  refused with "advance or roll it back first".
* `late_click` (a bug): a feed served before the outcome mode was switched is clicked
  after the counters were reset; successes exceed trials and the sequential test raises.
* `experience` (a bug): a number of years of at most one is taken for a share, so that one
  year of experience scores higher than two.
* `four_fifths`: a group of three selected of five is exactly at four fifths of one of three of
  four, and 0.6 / 0.75 is below 0.80 in doubles: it is flagged, while
  `test_exactly_four_fifths_passes` says, of 0.4 / 0.5, that it passes.

Besides, a process that dies between a tool's action and the commit leaves an action
without a ledger entry; it is inherent in tools that act outside the transaction, and
`RequestsKeepTheRun` is stated up to such crashes.

Two more properties are stated up to what the code does and its documents do not say. An
answer of the webhook that is not HTTP raises an exception that `deliver` does not catch
(`scheduler.py:97`), before the attempt is counted: the same alert heads every later tick, and
those behind it are neither sent nor given up, while `scheduler.py` promises that a webhook
that is down only delays an alert; `AlertsSettle` asks for answers that are HTTP from some
moment on. And when the process dies in the first build after the file of v1 is recorded,
and the data changes, the next build finds no fingerprint to set anything aside by
(`platform.py:289`), keeps the old file because there is one, and marks the directory with
the new data: after one more restart the ranker of the old data serves. The README of Sifa
(line 83) says that the database is set aside when the data changed; `StateIsRestorable` asks
that it did not change so early.

### Fairness

No client, operator, provider or new request owes anything, and nothing is assumed of
crashes or failures. What the code's own threads do is fair:

| Module | Fairness | Why |
|---|---|---|
| `AgentRuntime` | weak, of the loop of `advance()` | a plain loop of one thread |
| `RunRequests` | weak, of an accepted request's operation and loop; strong, of being granted the advisory lock | PostgreSQL grants it in the order it was asked for |
| `ModelGovernance` | strong, of a call's next statement; weak, of breaking a circle of waits | lock queues; `deadlock_timeout` |
| `LedgerAppend`, `AccessKeys`, `CalendarBooking`, `AlertOutbox` | strong, of the next statement of what has begun | lock queues; a transaction that may do more commits in the end |
| `SignInLimiter` | weak, of each attempt and of time | the clock goes on |
| `SifaScheduler` | weak, of a tick's next step, whatever the webhook answers, and of the guard's alert | one thread, statements that return |
| `SifaBoot` | weak, of the boot thread; strong, of a request's next look | a mutex other requests take too |
| `SifaBenchmark` | weak, of the job's thread and of a request | plain code |

The other modules state no liveness.

## 5. Proofs

`AgentRuntimeProofs` proves of `AgentRuntime`, for every workflow, policy, confidence
source and tool registry that satisfy `DefinitionAssumption` and `RuntimeAssumption`:
`TypeOK`, `StartedAfterDependencies`, `DecisionsAreFinal`, `AttemptsBounded`,
`TrailTellsStatus`, `IrreversibleNeedsPerson` and `IdleIsSettled`. The first step is
an inductive invariant of the types and the batch (`IInv`: the steps in hand are
pending and have what they require); each property then has its own strengthening:
attempts count calls and leave one when a step is pending or held (`AttemptLeft`),
holds outnumber calls by one while a step awaits approval (`HoldLeft`), an untouched
step has no entries, and so on. `IrreversibleNeedsPerson` rests on the lemma that the
gate never answers ALLOW for an irreversible action, whatever the policy.
`TighterNeverLooser` says that the gate is monotone: a policy that allows less, or an action
that asks for more with less confidence, never receives a laxer answer.

`LedgerProofs` proves of `LedgerAppend`, for any number of writers, any number
of retries and entries, with or without the lock: `LedgerTypeOK`, `ChainIntact`,
`QueuedNotRacing` and the refinement `LogGrows`. The inductive invariant says that
rows in open transactions continue the committed table without a gap, that two open
transactions never hold rows of the same sequence, that a head in hand with the lock
held is the head, and that hashes in use are below the counter. Of `LedgerEvidence` it
proves `EvidenceHolds`, for any servers, clocks, entries and page and pack sizes. `KeySense`
says who has a key signs, that signed entries follow all others while the key and servers
without it were never mixed, and that a migration that runs alone has every unsigned entry
in hand. `ExportSense` says that the rows of an export are entries of the ledger and stay so
while it grows, and that they are consecutive when the whole ledger is wanted or the
entries' times are in order: a page is an initial part of what matches (`PageIs`), and
what matches then begins right after the last row read and has no gap (`PageFollows`).

`RunRequestsProofs` proves `StatusIsWitnessed`, `RequestsKeepTheRun` and, in no run,
`IrreversibleNamesPerson`, for any number of requests, steps and crashes. A request's
copy of the run is judged with the ledger it would commit: the committed entries and its
own. Then every step of a request falls into one of few kinds of change to a copy, its
entries and the calls (`StepKinds`), and the invariants are about kinds, not about the
thirty actions. `WitnessInv` (each status of a copy has its entry in that ledger) holds
whatever overlaps, because the ledger only grows. What holds as long as requests follow
one another is `SerialInv`: at most one request is on its way and its copy began as the
rows (`Alone`), rows and copy are what the ledger tells (`TellsInv`), and every call has
its hold and its attempt (`PaidInv`).

`ModelGovernanceProofs` proves `VersionsAreGoverned`. The rows that open transactions
write are disjoint (`GovInv`); one call at most has raised a flag, and it has switched off
every other row that is active; a new row is the successor of the last one, taken under
the lock. The bound on versions counts those begun with those that calls still owe.

`ServicesProofs` treats four components. *Calendar*: who is past looking holds the lock,
so what it saw is still there when it inserts; `ClashesAreReal` says that a refusal is about
a meeting that stands. *Limiter*: the failures kept are oldest first, those of the window
(`Recent`) are all the wrong attempts of the window, and their number with the attempts
being resolved is bounded by the limit and the number of attempts. *Keys*: the tokens of a
key that was not raced end at the moment its row says, and one request at a time ends them
(`EndsInOrder`); while removals do not overlap, what a removal has found is still so when
it commits (`AloneRemoving`). `RevokedIsFinal` has no such condition. *Alerts*: the number
of alerts is bounded by a potential, the alerts plus what passes under way and the turns of
the conditions may still add; a pass that overlaps none has read what is stored, and counts
its tries (`TriesCounted`).

`SifaProofs` proves `RolloutIsConsistent`, `RolloutMovesOn`, `StateIsRestorable`,
`FeaturesAreOfTheirTime`, `RowsKeepToTheirTime`, `FeedIsFair` and `IndexIsNavigable`.
For the rollout: memory and the store are one save apart, and which save is told by
the operation in progress (`RegistryInv`); each has at most one version per stage; a
window's count with the requests being served is at most what was served (`WindowInv`);
the canary's window is the canary's unless it is about to be cleared (`CanaryInv`). For the state
directory: a stored row always has the hash of its file; the tower's hash is that of its
file except between the two writes of a build that is not yet marked; an unmarked directory
has at most one row; all of it is of one data set unless the data changed during
the first build (`mixed`), in which case the code serves other data. A corollary is that a marked directory is never refused. For the feature
store: rows are in the order of their times and, of one time, the last one written first
(`StoreInv`); so what the cutoff and the two bisections cut off are initial and final parts
of the rows (`CutoffIs`, `PlaceIs`), and the row at which a read stops is the newest, and of
those the one written first (`NewestIsRead`). A written row changes a read only within its
ttl, because at every other moment the rows that the read may use are the same set. An
example has a row it may know, and that row is never removed. For the feed: whatever
order a finite set has, its members are listed by it, each once, because the numbers of
members before them are all different and fewer than there are (`InOrderIs`); so the sort
lists what it was given (`BestFirstIs`), and of what the cap keeps the last one of an author
has fewer than the cap before it (`CappedIs`). Something is left as long as fewer than
`Size` are chosen (`SomeIsLeft`, by the pigeonhole principle); while only scores count, and
always for the control, what is picked is the next of the list (`PickIsNext`). The
exploration fraction is less than a half, so the slots are at most every second place
(`SlotsIs`) and the first is never explored; an author has no more places in the feed than
in the ranked list, because the feed shows nothing twice (`ShownIsRanked`). For the
index: a loop has a course (`LoopExists`), so that a set no link leaves is not left by a
descent or a search (`DescendIs`, `SearchLayerIs`), in particular not the nodes of a layer. What
links on both sides, between nodes of the layer and within the limit survives each
link that is made and each one that is dropped (`LinkedIs`). With at most 2M + 1 nodes
nobody has a link too many and none is dropped, so no set of nodes is closed on the lowest
layer but the whole (`Connected`); a search that may keep as many as there are nodes expands
another one each round until the set is closed (`SearchIsExhaustive`), and so finds all.

`OperationProofs` proves `SchedulerIsPrecise`, `BootIsConsistent`, `JobsAreKept` and
`FeedbackIsCounted`. Scheduler: what a tick has in hand is undelivered until it marks it; what the webhook took is
paid by attempts, by restarts and by the one about to be marked (`PostSense`); and the
alerts with those that are owed (`Owed`) are at most one more than the upheavals. Start: a
request builds only when the thread is dead and left no platform, one builds at a time, and
the stored versions are a beginning of one story, save by save. Jobs: whoever is between the lock and its release is its only
owner, and the listed jobs are the newest, consecutive.

Feedback: trials are bounded by the feeds recorded;
successes, with the one pending, by the clicked feeds and the clicked impressions; rewards by
the pairs of feed and item, and they are the feedback when nothing crashed. The
store is one transaction behind memory and the holder's step says which (`SavedSense`);
windows agree on what the deque keeps (`WindowSense`). That successes stay within trials
while no feed outlives a switch needs more than it says: successes, the pending one and
every feed and impression that may still be clicked are within trials
(`SuccessSense`), in memory and in the store. Credited impressions are the clicked
ones except for the one in hand (`CreditSense`).

`DecisionProofs` proves `ScreeningIsClean`, `ImpactIsTold`, `GateIsSound`, `MatchesAreSound`,
`PlanIsSound` and `WarningsAreSound`. Screening: what is kept of a record is clean however its fields are
spelled (`AnonymizedIsClean`), and the deterministic model's score is at most one because
each share of a requirement is (`ShareIs`). Four fifths: the code compares every group
with one reference only, the first of the highest rate. Rates are fractions, which compare as
products; that one is not higher is transitive (`Crosswise`), so there is a highest one
(`HighestExists`, `ReferenceIs`), and a group that is below four fifths of any group is below four fifths of
that one (`TestedIs`); the reports and the ledger agree because the lock keeps the entry's
place (`ImpactInv`). Gate: the counts that a finished assessment has (`Complete`) leave
two numbers of probes and two of features, for each of which the score is linear in
the reports; a worse report keeps the counts and lowers a sum (`TurnedProbe`,
`TurnedDrift`), and a lower sum never scores higher (`LowerScoresLower`). Matches: a
sum is a recursive function. That its definition has a solution (`RecursionExists`) follows
from beginnings of every length that agree, and every induction is over a set of numbers
(`Induction`): its least missing member would refute it. So sums are what they are called
(`SumIs`); the levels earned are fewer than those asked for when one is missed (`SumAtMost`,
`MatchIs`), and a stable sort of the two
matches a request compares lists second what does not go first (`SecondIsNotAhead`). Plans: the
headcount of the loop is the closed form because sums scale (`HeadsAre`); its cohorts are
those of the last months, each thinned by the months since (`CohortsMove`); they and the
tenured are everybody once, because a sum splits (`CapacityIs`). The search looked at every
smaller number (`TooFew`), and those hired in the last month have not left yet, so as
many as the target are enough (`PlanStep`). Sentiment: what
is told of a group is made of its own responses (`GroupsAlike`), so reports of surveys that
agree on the groups large enough are the same (`ReportsAlike`), whatever the sums are; one
early warning at a time is past the ledger's lock, and whether its findings were told
before stays true until it commits (`SentimentInv`).

The assumptions are those the modules declare: nonempty bounds, fixed names that are not
members of the sets they are used beside, finiteness where something is counted, a
workflow as its constructor accepts it. Where an argument needs a least or a first
element (the first version of a stage, the oldest failure), the natural numbers' order
is well founded by a theorem of the library.

The bounds of the runs (`MaxFeeds`, `MaxCalls`, `MaxTotal`, `Lot` and so on) are constants of
any size. What the theorems do fix is what the modules fix: the kinds of fields of
`Screening` and its three signals, the ages and caps of `FeedPipeline`, the three groups of
the four-fifths test and of a survey, totals below 2^24, two skills, roles of at most twenty
levels in all, rates of attrition in quarters, ramps of 0 to 24 months and whole demands in
`WorkforcePlan`. `StateAlwaysRestorable` says that what is marked is of one data set for behaviours
in which the data did not change while the very first build was unfinished, and that it is
never refused for all. `SchedulerAlwaysPrecise` does not count alerts a webhook takes and
answers in something that is not HTTP.

Proved for every instance and in no run are `TypeOK`, `AttemptsBounded`, `LedgerTypeOK`,
`QueuedNotRacing`, `TighterNeverLooser` and `IrreversibleNamesPerson`. Only model-checked are
the liveness properties (`RunAdvanceReturns`, `RequestsEnd`, `CallsEnd`, `ServicesEnd`,
`AlertsSettle`, `OperationEnds`), which are out of the prover's reach.

## 6. Not modelled

The components marked `not_modelled` in `PROJECT.json`: training and the features of the
attrition model, the console, Sifa's offline evaluation tool. Numerical code is left out
throughout (p-values, the PSI of given numbers, learning, statistics, the sequential
test's numbers), because TLC has no reals and the rules that use the numbers are what can go
wrong: the numbers are choices. Text is left out (recognising words and names, the
wording of prompts, summaries and reasons), and so are migrations, seeding, e-mail
transport, time zones, pagination of lists, and the caller's authentication where no rule
depends on it. The verification endpoints of `api/analytics.py` store their reports as the
four-fifths test does, which `AdverseImpact` models, and are not repeated.
