# BidScope in TLA+

BidScope (`src/README.md`) answers procurement questions: a request becomes a
*run*, a LangGraph workflow parses it, asks for confirmation, retrieves notices,
synthesizes a report, checks its citations and delivers it online and as DOCX.
The backend is `src/backend/src/bidscope` (abbreviated `b/` below). Several
processes, the API's and the subscription scheduler's, share one PostgreSQL
database, one LangGraph checkpoint store and one object store, and any of them
may die, lose a connection or be cancelled at every `await`. This directory
models what they share and how they take turns.

## 1. The system and its parts

| Part | Source | State | Operations | What makes it correct |
|---|---|---|---|---|
| Run ownership and recovery | `b/api/dependencies.py`, `b/graph/executor.py` | `query_runs.status`, `execution_token`, `updated_at`; a session-level advisory lock per run; a heartbeat task per execution | start, confirm, retry (claims), the owner's fenced updates, heartbeat, repairs, cancellation, startup sweep | one owner, results only from the owner, final statuses final, no run stuck |
| Graph execution | `b/graph/executor.py` | the thread's checkpoint, `run_events`, the locals of `execute()` | drive or resume the graph, append events, fenced checkpoint writes, reconcile, reset | both stores agree when a run has an outcome; the event cursor is exact; only the owner appends; no late write takes the place of the owner's checkpoint |
| Query workflow | `b/graph/builder.py`, `nodes.py`, `state.py` | `RunState` | twelve nodes, conditional edges, interrupt and resume | only validated reports are delivered; a completed run has a report; the synthesis loop ends |
| Report delivery | `b/delivery/*`, `b/api/routes/reports.py` | report rows, object store, `docx_status` | persist, export, retry of an export | an attached document exists |
| Evidence and review | `b/evidence/*`, `b/delivery/reports.py`, `b/api/routes/reports.py` | claims, citations, verdicts | validate, verify, sanitize, persist, show | claims rest on evidence of their own notice; verdicts stay with their claims |
| Run API and capacity | `b/api/routes/runs.py`, `b/api/dependencies.py` | slots, task table, idempotency keys, shutdown flag | POST, confirm, retry, detached task, shutdown | slots counted exactly; a run scheduled once |
| Event stream | `b/api/routes/events.py` | one generator per connection, connection counter | open, poll, marker, disconnect, resume | events in order with none left out; streams end |
| Subscriptions | `b/subscriptions/*`, `b/api/routes/subscriptions.py` | schedule, failure counter, seen items, inbox | tick, run an occurrence, diff, pause, resume | an occurrence is consumed once, by a run that delivered; inbox events once per change |
| Snapshot import | `b/snapshots/*`, `b/persistence/repositories.py` | bundles, notices, versions, evidence, payload objects | inspect, import, short-circuit | imports are atomic and happen once; rows name objects that are stored |
| Source ingestion | `b/ingestion/*` | advisory lock, cursor with version, acquisition runs | fetch with retries, materialize, import, advance | the cursor never passes a page that was not imported; every run ends |
| Backup and restore | `b/backup.py` | backup directories, restore targets | create, verify, prune, restore | a verified backup resolves; a successful restore is whole; retention keeps the newest |
| Retrieval | `b/retrieval/*`, `b/graph/nodes.py` | the candidates, duplicate groups and evidence of a run | filter, recall, fuse, deduplicate, verify evidence | only what the filters admit; no list is overruled; the duplicate rules are symmetric |
| Models, configuration, observability, evaluation, web client | `b/llm`, `b/config.py`, `b/evaluation`, `src/web`, ... | | | see section 8 |

How they interact. An HTTP handler (or the scheduler) *claims* a row and calls
`_execute_run`, which takes the advisory lock, starts a heartbeat, and calls
`executor.execute()`. That drives the graph; each superstep's node events go to
`run_events` in a transaction with the ownership fence, and LangGraph writes the
checkpoint in the background through `FencedCheckpointSaver`; a call that is cancelled
or raises may leave such writes behind. The last node
writes the report and the DOCX. The owner then records the outcome, again
under the fence, and releases the lock. Event streams poll the rows from
outside. Repairs (`retryable`) come from the owner, its heartbeat, a
cancellation handler or another process' startup sweep. What a run searches is
written by importers: the ingestion worker, which pages through the source
under a lock of its own, and the command line. Backups are taken beside all of
it, from two databases and the object store, one after the other.

Hard behaviours: two stores with no common transaction; fences that are checked
in one transaction and relied upon in another; crashes and cancellations between
any two statements; resumption from a checkpoint that may lag behind the
rows; results of an execution that has lost its run; a pool of slots that is
filled by one task and emptied by another; a reader that polls two
tables. `PROJECT.json` lists them under `hazards`, each at its line, with the
properties that watch it.

## 2. Modules

| Module | Models | Composes |
|---|---|---|
| `RunLifecycle` | the abstract promise about a run's row: taken by one execution, concluded by it only, handed back by anybody, final when concluded | |
| `RunOwnership` | the row, the lock, claims, fences, heartbeats, repairs, cancellation, crash, sweep | implements `RunLifecycle` |
| `RunOwnershipProofs` | theorems about `RunOwnership` | |
| `RunExecution` | `execute()`, the checkpoint saver, `run_events`, reconciliation | instance of `RunOwnership` over shared variables |
| `RunExecutionProofs` | theorems about `RunExecution` | instance of `RunOwnershipProofs` |
| `QueryWorkflow` | nodes, edges, retries, report row, DOCX | assumes one execution at a time (`OneGraphAtATime`) |
| `QueryWorkflowProofs` | theorems about `QueryWorkflow`, `Retrieval` and `ReportReview` | extends all three |
| `ReportReview` | a draft on its way to rows and lists | |
| `RunService` | handlers, slots, tasks, shutdown | abstracts an execution as `RunLifecycle` does |
| `RunServiceProofs` | theorems about `RunService` | |
| `EventStream` | server, wire and client of an event stream | sees the run as `RunExecution` shows it: gapless events, then a status |
| `EventStreamProofs` | theorems about `EventStream` | |
| `SubscriptionContract` | the abstract promise of a subscription: occurrences are consumed in order, each by a report and together with its inbox events; failures are counted, and enough of them pause it | |
| `SubscriptionCycle` | ticks of several schedulers, occurrence lock, scheduled run, diff, failure counter, operator, importer | implements `SubscriptionContract`; sees a run as `RunLifecycle` shows it |
| `SubscriptionCycleProofs` | theorems about `SubscriptionCycle` | |
| `CronSchedule` | the weekday field of a cron expression as operators, against what crontab means by it | checked with `SubscriptionCycle` |
| `ImportContract` | the abstract promise of an import: a bundle arrives whole or not at all, once, and stays | |
| `SnapshotImport` | `import_bundle` as a transaction of several statements, who waits for whom, deadlocks | |
| `SourceIngestion` | ingestion workers, their lock, pages, retries, cursor and run rows; the operator's imports | extends `SnapshotImport`; implements `ImportContract` |
| `SourceIngestionProofs` | theorems about `SourceIngestion` and, in it, `SnapshotImport` | |
| `Backup` | create, verify, prune and restore beside a system that writes and is migrated | |
| `BackupProofs` | theorems about `Backup` | |
| `Retrieval` | the search, the fusion of its lists, duplicate decisions, evidence; importers beside it | |
| `MC...` | constants of the model-checking runs | |

Operators whose comment begins with "Fault:" are wrong variants of the
definition that follows them, with the kind of error a change to the code could
make. They are used to see that a property notices; nothing else refers to them.

### How the models correspond to the code

`map` in `PROJECT.json` names the lines of every definition. In short:

- **RunOwnership.** A slot in `Executions` is one call that ends in
  `_execute_run`; `pc` is where it stands: `context` (retry loads the
  checkpoint), `claimed`, `entering`, `active` (inside the graph), `committing`,
  `repair`, `releasing`, `unwinding`, `cancelled`, `crashed`. Each action is one
  database statement or one decision between two. Every update of the row is
  `UPDATE ... WHERE status = 'running' AND execution_token = mine`
  (`FencedUpdate`, `FencedRepair`); `Claim` is the update that draws a token.
  `LockDrops` is the end of the session that holds the lock, of a dead process or,
  with `LockMayDrop`, of a live one. The sweep is split where the code releases
  its transaction (`SweepScan`, `SweepLock`, `SweepFlip`, `SweepUnlock`).
- **RunExecution.** `cp` is the durable checkpoint (position, event offset at
  which the attempt began, events, the attempt that wrote it), `rows` is
  `run_events`, `work[e]` the locals of a call, `background[t]` the checkpoint
  writes of attempt `t` that are not over, `moved` a history variable. `PutFence`
  and `PutWrite` are the two transactions of `aput`. They belong to an attempt and
  not to a call: where the graph ends or raises by itself it waits for them
  (`Drained`), but `execute()` iterates `graph.astream` without closing it
  (`executor.py:546`, `builder.py:107`), and when its body raises or is cancelled
  the writes go on, past the repair and the unlock, until their fence refuses
  them. The saver reads the checkpoint with the greatest id, so a late write of an
  earlier attempt does not hide a newer one (`Newer`). `StartStream` reads the
  checkpoint a second time, as `astream` does. `Reconciles`,
  `HasGap`, `Conflicts`, `HasTrailing` are the branches of
  `_reconcile_event_cursor`. The graph is a line of `Steps` supersteps with a
  pause after `PauseAt`.
- **QueryWorkflow.** `Step` has one disjunct for each node; the retrieval
  nodes that only set a status share one (`Proceed`). `mem` is the state in memory, `cp` the
  durable one, which follows at its own pace (`Checkpoint`). `Start`, `Confirm`,
  `Retry` supply the inputs the service supplies. An export is a process of its
  own, in the node or in the HTTP retry, with a step for each read, put and
  attach.
- **ReportReview.** A draft is a sequence of items, each with a notice and
  claims that cite span hashes. `Validate` is `validate_report`; `Judge` and
  `VerifierFails` are one verifier call; `Sanitize` keeps known references;
  `Persist` resolves evidence and verdicts into rows; `MainList` and
  `ReviewList` are what the JSON report shows, and `Namesakes` the claims that
  the key (notice, ordinal) does not tell apart. The specification is `ReviewSpec`
  over `reviewVars`: the names do not clash with those of `QueryWorkflow`, so that
  one module can extend both. The same holds of `RetrievalSpec` in `Retrieval`.
- **RunService.** `at[h]` is where a handler stands, `task[k]` the detached task
  of a run, `reserved` the slot counter. `Insert` is the insert with
  `ON CONFLICT`, after the lookup that `Post` made; `ClaimCancelled` is the
  shielded claim of a request that is cancelled; `Shutdown` cancels tasks.
- **EventStream.** `at[c]` is where the generator stands; the list query, the
  yields, the status query and the sleep are separate steps. `ParseLastEventId`
  maps ids that are not numbers to -1.
- **SubscriptionCycle.** `status`, `next` and `failures` are the row (the last two
  live in its settings document); occurrence `k` is the `k`-th instant of the cron
  expression, and its run, lock and report are indexed by it. `pc[w]` is where the
  tick of worker `w` stands: `listed` (has read the due occurrence), `locked`,
  `create`, `execute`, `driving` (inside the graph), `confirm`, `gate`, `diff`,
  `fail`, `release`. `copy[w]` is the counter in the object it read, `view[w]` the
  latest versions it compares. `Consume` is one transaction in the code: events,
  seen items, counter and next occurrence. A notice's `Published` contents share a
  value where their normalized fields are the same; `versions[n]` holds the order
  in which the evidence rows of each version come back.
- **CronSchedule.** A token of the field is a record of its start, end and step;
  `ExpandToken` spells it out as names or refuses it, `Normalize` does the list.
  `SchedulerDays` is what APScheduler, for which Monday is 0, makes of the names,
  and `Meant` what crontab means by the token. The two are compared for every
  token (`TokensKeepTheirDays`) and for pairs (`ListsAreUnions`) by assumptions
  that TLC evaluates in the run `subscriptions`.
- **SnapshotImport.** `imp[p].step` is the statement process `p` is at: `find`
  (the idempotency key), `select` and `insert` (the bundle), `import` (the import
  row), `payload` and `notice` for each notice, `commit`. What a transaction has
  written is in its own record until `Commit`; `Blocks` says who waits for a row
  or a unique key of whom, and `Unblock` is PostgreSQL killing one of a cycle of
  waiters. A bundle that is too large, damaged or that no longer parses ends in
  `Begun`.
- **SourceIngestion.** `pc[w]` follows `run_once`: `open` (cursor and run row),
  `fetch`, `import`, `advance`, `finish` or `commit`, `release`. `job[w]` is what
  the run has in memory, the loaded cursor's version and counter among it, because
  `FOR UPDATE` does not refresh an object that the session already holds. The
  source is a feed of pages that come out one by one.
- **Backup.** `cli[c].step` is where a command stands; `backups[b]` is a directory
  with its dumps and files, `target` what the restores have made. A dump is taken
  at one instant. The object files are copied in one step, `CopyObjects`, although
  the code copies one after the other: nothing is ever deleted from the store, so a
  copy that takes its time only has more in it. `BeginPut`, `EndPut`,
  `WriteCheckpoint` and `InsertRow` change the system between any two steps. `skewed` are the roles whose revision
  was read after a migration that the dump had not seen.
- **Retrieval.** `at` is the query or node the run is at; `Commit` and `Embed` are
  the importers. `Fused` orders by exact sums of the reciprocal ranks.
  `ResolvePair` compares one ordered pair of candidates by the rules of
  `classify_duplicate`, and asks the model where they do not decide.

## 3. Runs

| Run | Question | Bounds |
|---|---|---|
| `ownership` | Do claims, fences, heartbeats, repairs and sweeps keep one owner, record only the owner's results, implement `RunLifecycle` (final statuses stay final), and always let go of the row? | two executions, one sweep, two tokens, live sessions may lose the lock |
| `execution_locked` | While the lock is kept, and calls may leave checkpoint writes behind: is one execution in the graph at a time, are an outcome and its events in both stores, is the owner's event cursor exact, and does no late write take the place of the owner's checkpoint? | three supersteps with a pause after the first, three tokens, two writes in the background |
| `execution_lock_lost` | Is `run_events` gapless, in order and written by owners even when the lock is lost under a live owner? | two supersteps, two tokens, one write |
| `workflow_delivery` | Is only a validated report delivered, does completion imply a report, does the loop stay within the recursion limit, is an attached document stored? | three executions, `recursion_limit` 16 and one synthesis retry, as in the code |
| `review_contract` | Do delivered claims rest on stored evidence of their own notice, and is a claim held back exactly by the last verdict on a claim of its notice and ordinal? | two items, of one notice or of two, with two claims each, two notices, three spans (own, shared, made up) |
| `service` | Are slots counted exactly, never exceeded and always given back; is a run scheduled once? | two handlers, two keys, two slots |
| `stream` | Are events sent in order with none left out, do streams of a stopped run close? | two clients on one connection slot, three events |
| `subscriptions` | Is one worker at a time with an occurrence, is `SubscriptionContract` implemented, does the inbox agree with the seen items, is every due occurrence delivered or the subscription paused? | two schedulers, two occurrences, one notice with three contents (two alike), pause after two failures, resumed up to three, one fault |
| `ingestion` | Does the cursor pass imported pages only and never go back, is an import whole and done once, are versions distinct, do rows name stored objects, does every run end? | two workers and an operator, three pages that correct a notice and take it back, two pages and one retry per run, two runs, one fault, one disturbance (an operator's import or a lost lock) |
| `backup` | Does every row of a verified backup have its object or checkpoint, is a successful restore whole, does prune keep the newest? | two commands at a time and three in all, one object, one checkpoint, two old backups and one new, one kept of each class, one fault |
| `restore_shared_target` | Is a restore into one shared database whole? No: finding. | a backup of two databases |
| `retrieval` | Does the filter come first, does the fusion respect both lists, do the duplicate rules treat a pair alike both ways, is every span found with its version? | three versions, `top_k` 2, `RRF_K` 60 as in the code |

Why the bounds are enough. Ownership hazards need a stale party and its
successor: two executions and two tokens give every pairing, and a third party,
the sweep; the theorems cover all other sizes. In `RunExecution` a lag needs one
event ahead of the checkpoint, a pause needs a superstep on both sides of it, two
writes of one attempt make one of them wait for the other, and the third token
lets a write of the first attempt meet the third. Without a lock one write of each
of two attempts is what can cross. `QueryWorkflow` takes the code's own
limits. In `ReportReview` two of everything is what sharing takes, of a span or of a notice. Two slots and
two handlers with their tasks exhaust the pool. Three events leave room for one in the
middle to be left out. Two workers and two occurrences give a stale listing, and
a worker that is still at the occurrence another has consumed; two failures
distinguish the counter from the pause; the third content of the notice is the
first real change; one fault is enough to cut a cycle anywhere, and the
operator's retries then bring the run to any state from outside. In
`SourceIngestion` a page limit of two meets a feed of three; a lost lock puts two
runs on one cursor; the feed's second page and an archive bundle hold two notices
in opposite orders, which is what a deadlock takes; the third page is the text a
source goes back to. In `Backup` a prune needs one kept, one doomed and one that
is being created; one object and one checkpoint, written between any two steps,
are what a dump can miss. In `Retrieval` two of three versions fit into each list,
so that each list can lack what the other has.

Each module with a `TypeOK` (`ReviewTypeOK` in `ReportReview`) states the range of its variables. Those of
`RunOwnership`, `RunExecution`, `QueryWorkflow`, `ReportReview`, `RunService`,
`EventStream`, `SubscriptionCycle` and `Backup` are proved, and the ranges of `SourceIngestion` are
part of its inductive invariant; the others are not among the runs' properties, whose
invariants fail to evaluate where a variable leaves its range.

Deadlock is not checked: a run that is concluded with every token, attempt or
event of its bound used up has really come to an end.

### Fairness

- `RunOwnership`: weak fairness of an execution's own progress, of its
  heartbeat's repair, of PostgreSQL noticing that the session of a dead process
  is gone, of time, and of the sweeps. The last assumes that the operator keeps
  starting API processes, because a sweep runs at startup only. `SweepFlip` is
  strongly fair: between its lock and its update a heartbeat may make the row
  young again, over and over. Crashes, cancellations and requests are not fair.
- `RunService`: a scheduled task and a handler go on; their awaits are bounded
  by the timeouts of the model, the database and the object store.
- `SubscriptionCycle`: each scheduler's tick fires while something is due (its
  job runs every minute), a tick that is not cut off goes on, PostgreSQL frees
  the locks of a dead process and the process is started again, and a graph that
  a tick drives ends, by the recursion limit and the models' timeouts. A graph
  that the operator drives need not end, and nobody has to retry, confirm,
  resume or import.
- `SourceIngestion`: a worker or an operator that can go on does, and so does
  PostgreSQL's deadlock detector. Calls to the source are bounded by its client's
  timeout. Nobody has to poll, publish or import.
- `Backup` and `Retrieval` have no liveness properties: a command or a search is a
  fixed sequence of steps.
- `EventStream`: a generator goes on after its queries and sleeps; clients need
  not reconnect, and the run need not go on.

## 4. Proofs

`RunOwnershipProofs` proves, for any finite or infinite set of executions and
sweepers, any number of tokens, and whether or not live sessions may lose the
lock:

| Theorem | States |
|---|---|
| `TypeCorrect` | the type invariant |
| `RunningHasToken` | a row has a token exactly while it is `running` |
| `OwnershipIsExclusive` | at most one execution passes the fence |
| `GraphIsExclusive` | while live sessions keep the lock, at most one execution is inside the graph |
| `OutcomesAreTheOwners` | a result is the owner's own |
| `TerminalNeverLeft` | `completed` and `failed` are never left |
| `HealthyOwnerIsSafe` | nobody takes the run from a healthy holder of the lock |
| `Implements` | `RunOwnership` implements `RunLifecycle` |

Assumptions: `OwnershipAssumption` only (executions and sweepers are different,
`NoHolder` is neither, the bound on tokens is a natural number).

Argument. None of the safety properties is inductive: `SingleOwner` says
nothing about an execution that was handed a token, lost the row, and still
carries it. The invariant `IInv` adds that

- `TokensDistinct`: no token in use is newer than the last one drawn, and no two
  executions carry the same one, so a fresh token is nobody's;
- `TokenMarksRunning`: a repaired row carries no token, so a stale one cannot
  match;
- `LockHeld`: a sweep in its critical section holds the lock, and so does an
  execution in its own when live sessions keep theirs;
- `OutcomeKnown`: who is about to record a status has one.

`IInv` is split into a part about the row (`RowInv`) and one about the
executions (`ExecInv`), because most actions touch only one of them
(`ExecutionKeepsRow`, `ExecutionKeepsExec`); `ClaimKeepsInv` and `SweepKeepsInv`
are the actions that touch what both relate. The action properties follow from
`IInv` and one look at each action. For `Implements`, the mapping is
`owner <- rowToken`, `claim <- token`; every step is one of `Take`, `Conclude`,
`HandBack`, `Leave` or a stutter (`StepImplements`).

`SubscriptionCycleProofs` proves, for any number of scheduler processes,
occurrences, notices, contents, failures and faults:

| Theorem | States |
|---|---|
| `CycleTypeCorrect` | the type invariant |
| `OneWorkerAtATime` | `OneWorkerPerOccurrence`: the occurrence lock keeps everybody else out |
| `CycleKeepsContract` | `SubscriptionCycle` implements `SubscriptionContract` |
| `InboxAgrees` | `InboxMatchesSeen`: events and seen items agree |

Assumptions: `CycleAssumption` only (processes are told apart, something is
published, the bounds are natural numbers).

Argument. The row of the subscription is written without a lock of its own, from
what was read at the start of the cycle. What makes this safe is `ReadIsFresh`:
a worker between reading and writing is at the occurrence that is due and its
copy of the counter is the row's. It is inductive together with `LockHeld`,
because two such workers would be at the same occurrence and hold the same lock
(`AloneAtNext`). `DriverHeld` (a worker drives the run of its own occurrence) and
`ReportFound` (who compares has found a report) complete `IInv`, which is split into
`TickInv`, `DriveInv` and `DataInv` as most actions touch only one. For
`InboxAgrees`, `InboxInv` adds that what a worker is about to compare is no older than
what was compared last, which again holds because nobody else compares in the
meantime. For `CycleKeepsContract`, `Consume` is `Deliver`, `RecordFailure` is
`Miss`, `GraphDelivers` is `Report`, `Pause` and `Resume` are `Switch`, and every
other action is a stutter.

`QueryWorkflowProofs` proves, for any number of executions, supersteps and
synthesis retries:

| Theorem | States |
|---|---|
| `WorkflowTypeCorrect` | the type invariant |
| `OnlyValidatedDelivered` | `DeliveredIsValidated`: a stored report has passed the validator |
| `CompletedIsReported` | `CompletedHasReport`: no run completes without its report |
| `AttachedKeyIsStored` | `AttachedIsStored`: a DOCX key names an object that is there |
| `LimitIsNeverMet` | `WithinRecursionLimit`: no execution runs out of supersteps |

Assumptions: `WorkflowAssumption`; for `LimitIsNeverMet` also
`RecursionLimit >= 11 + 2 * MaxSynthesisRetries`, which the code satisfies with 16
(`b/graph/builder.py:124`) and one retry (`b/graph/nodes.py:40`), 13 supersteps at
most.

Argument. An execution may stop anywhere and another goes on from the checkpoint,
so whatever is needed of the state in memory is needed of the checkpoint too:
`StateInv` holds of both. It says that a state past `validate_report` still has the
draft that passed it, which is what the report row is made of. `DeliveryInv` orders
row, object and key: nobody exports before the row is there, nobody attaches before
the object is. For the limit, `Left` counts the supersteps that may still follow a
node and the retries that are left; a step of the graph takes at least one of them
(`StepsAreCounted`), and an execution begins with no more than the limit.

The same module proves of `ReportReview`, for any notices, spans, items and claims:

| Theorem | States |
|---|---|
| `ReviewIsConsistent` | the inductive invariant: draft, verdicts and rows agree |
| `ReviewTypeCorrect` | the type invariant |
| `ClaimsAreGrounded` | `ClaimsStandOnEvidence`: each citation of a delivered claim has a row for the item's own version |
| `ReviewIsOrdered` | the verdicts stand in the order of their claims |
| `VerdictsFindTheirClaims` | a judged claim that shares its notice and ordinal with no other is stored with the verdict on itself |
| `ListsFollowVerdicts` | `MainListFollowsVerdicts`: a claim is held back exactly if the last verdict on a claim of its notice and ordinal rejects or doubts it |

Assumptions: `ReviewAssumption` only. Drafts with several items of one notice are
included: nothing in the code excludes them, and with them a claim may be stored with
the verdict on another (section 5). `VerdictsFindTheirClaims` therefore speaks of
claims without namesakes, and `ListsFollowVerdicts` says what becomes of the rest.

Argument. The rows are one transaction, which checks every citation against the
item's own version and writes all rows or none, so the rows of a delivered report are
a function of draft and verdicts (`RowsInv`). `VerdictsInv` relates the verdicts to
the history of judgements, in both directions: every verdict is about a claim that
was judged so, and every judged claim has one. It is kept because a claim is judged
only once, which needs that the loop's next claim exists (`NextIsUnjudged`, by
`HasFirst`). `VerdictFor` takes the last verdict of a key; that this is the verdict
on the last judged claim of the key is `OrderInv`: whatever comes before a judged
claim was judged (`JudgedInOrder`), so a new verdict is on a later claim than all
verdicts before it (`Attributes`, `LastVerdict`).

And of `Retrieval`, for any finite set of versions, any facts about them, any query
and any `top_k`:

| Theorem | States |
|---|---|
| `RetrievalIsConsistent` | the inductive invariant: lists, candidates, pairs and evidence agree |
| `FiltersComeFirst` | `FilterComesFirst`: nothing else is found, and nothing admitted is crowded out |
| `FusionAgrees` | `FusionKeepsAgreement`: each version once, and what the lists agree on is kept |
| `DuplicatesAreMutual` | `PairsAreMutual`: whether the rules call a pair duplicates, or leave it to the model, does not depend on its order; what the model then answers is left open |
| `EverySpanResolves` | `SpansResolve`: every span is found under its hash with its own version |

Assumption: `RetrievalAssumption`: `top_k` and `RRF_K` are positive and the versions,
rows of a table, finite.

Argument. `RankedBy` returns a prefix of an enumeration, so a ranked list names
distinct versions, and fewer than `top_k` only if it names all (`RankedByIsRanked`).
The fused list is the sorted one, and that there is one needs proof: `FusedBefore` is
a strict order of all that is listed (`FusedOrderSorts`, by the order of fractions and
of the names), and a finite set that is ordered can be sorted (`SortExists`, by a
smallest set that cannot). That agreement gives the higher score is arithmetic of
inverses (`SumOfInverses`). The groups are a function of the pairs compared so far
(`GroupsUpTo`); every ordered pair is one of them (`PairsAreAll`, by division), and
the rules are symmetric (`ClassifyIsSymmetric`). Importers change only what no later
step reads again (`StoreKeepsInv`).

`RunServiceProofs` proves, for any finite sets of handlers and keys and any number
of slots:

| Theorem | States |
|---|---|
| `ServiceTypeCorrect` | the type invariant; the counter never exceeds the limit |
| `SlotsAreExact` | `SlotsMatchHolders`: a reservation for each call that holds one, never more than the limit |
| `WorkScheduledOnce` | `ScheduledOnce`: one task for each run |

Assumptions: `ServiceAssumption` (at least one slot; handlers and runs are told
apart).

Argument. The counter and the calls in progress change together: each action takes
one holder and one slot, gives back both, or touches neither (`SlotTaken`,
`SlotGivenBack`, `SlotKept`). A task is a new holder only if its run has none yet,
which is `CreatedInv`: of the handlers with one key, the one whose insert committed
is alone at `created`. A shutdown drops holders without their slots, so from then
on the counter is only an upper bound; that is why `SlotsInv` bounds the holders by
the counter and not the other way round.

`EventStreamProofs` proves, for any clients, events and connections:

| Theorem | States |
|---|---|
| `StreamTypeCorrect` | the type invariant; the connections stay within their limit |
| `EventsAreSuccessors` | `NextIsSuccessor`: each event follows the one before, none left out, none twice |

Assumptions: `StreamAssumption` only.

Argument. Server and client meet only over the wire, which may be cut at any
message. The invariant relates its two ends: a generator that still sends stands at
the event its client will have received last once the wire is empty (`Tip`), and
what is on the wire continues what the client has (`Chain`). Appending, receiving
and cutting keep both (`ChainAppend`, `ChainTail`, `ChainPrefix`).

`RunExecutionProofs` proves, for any number of executions, sweepers, tokens,
supersteps and background writes, wherever the graph pauses:

| Theorem | States |
|---|---|
| `Inductive` | the inductive invariant |
| `FollowsProtocol` | an execution of `RunExecution` is one of `RunOwnership`, but that the fence of a write that outlived its call may also make `updated_at` young (`LateFence`) |
| `TypeCorrect` | the type invariant |
| `GraphIsExclusive` | `OneGraphAtATime`: while live sessions keep the lock, one execution is in the graph; nothing is said of writes that earlier ones left behind |
| `EventsHaveNoHoles` | `EventsContiguous`: `run_events` is numbered without a hole, also when the lock is lost |
| `AttemptsFollowGraph` | `AttemptsInOrder`: the events are attempts that each follow the graph, also when the lock is lost |
| `CursorStaysExact` | `CursorIsExact`: the owner's next event gets the next free number, and the rows before it are the events it has in memory |
| `OwnerAppends` | `EventsByOwner`: only the owner of the row appends events |
| `OutcomesAreRecorded` | `OutcomeIsRecorded`: with an outcome there is a checkpoint; if it is the last attempt's, the graph stops there and its events are the last rows |
| `OwnersCheckpointIsKept` | `OwnersCheckpointStands`: while the lock is kept, a checkpoint of the owner's attempt is followed by later ones of that attempt only |

Assumptions: `ExecutionAssumption` (those of `RunOwnership`; at least one superstep
and one background write; the pause is before the last superstep). The properties
that need live sessions to keep the lock say so themselves (`~LockMayDrop`), and
those that need every stream to begin at the checkpoint its cursor was reconciled
with say that (`~moved`). The second cannot be dropped: a write left behind by an earlier call may land between the two
reads, and then the content of the rows is what `execution_twice.cfg` shows. The numbers
of the rows, their owners and the owner's checkpoint do not depend on it.

Argument. What an execution does to the row or the lock is a step of
`RunOwnership` or a late fence (`StepOwns`), and late fences keep that module's
`IInv` too, so it is a part of this one (`ProtocolInv`, by instance of
`RunOwnershipProofs`). The other parts are layers, each inductive with those before it.
`CallsInv` is about the locals of one call. `WritesInv` is about the writes of one
attempt, wherever their call has gone: they rise, and they lie above what is already
the checkpoint (`Rising`); an attempt that has not begun to stream has none
(`Early`); a stream is never behind its own (`Ahead`). `LatestInv` says that, if no
write failed, the last one is what the stream has in memory. `NumbersInv` has the
rows numbered without a hole and who owns the row at their end, since every attempt
begins at a free number and each append is behind a fence. `ContentInv` says that
checkpoints, writes and trails have the events of the graph in order, as long as
`moved` is false. With the lock, `LockInv` adds that nobody has written under a later
token than that of who is in the graph (`NoneAfter`), and that at `committing` and
with an outcome nothing of the last attempt is on its way and what is there is good
(`Settled`). That nothing is on its way comes from the graph's own drain (`Finish`),
not from the release of the lock: writes of earlier attempts may land at any later
time, but they carry smaller ids.

`SourceIngestionProofs` proves, for any workers and operators, any feed, any
archive, any limits and any number of faults and disturbances:

| Theorem | States |
|---|---|
| `IngestionIsConsistent` | the inductive invariant: imports, rows and runs agree |
| `CursorIsBehindImports` | `CursorCoversImports`: no page is left behind that is not in the library |
| `ObjectsComeFirst` | `RowsHaveObjects`: what a version or a run names is in the object store |
| `OneVersionEach` | `VersionsDistinct`: no two versions of one content |
| `CursorAdvances` | `CursorNeverGoesBack`, also when the lock is lost and two runs start from one cursor |
| `ImportsKeepContract` | `SourceIngestion`, with `SnapshotImport`'s statements, implements `ImportContract` |

Assumptions: `IngestionAssumption` (workers and operators are told apart, the feed
and the archive hold sequences of items, at least one page per run, natural bounds)
and `KeyNamesItems`: bundles that pass their inspection under one idempotency key
hold the same items. The second is what the key is made for: it is derived from the
bundle's id, its manifest and the hashes of its notices (`b/snapshots/importer.py:366`),
and the files of an inspected bundle have the hashes that the manifest names.

Argument. A transaction's writes are nobody's business until `Commit`, but for two
things the database arbitrates: who has inserted the import row is alone under its
key, and who has touched a notice is alone with it (`Apart`, by `Blocks`). That is
enough for `AddedInv`, that what a transaction is about to add is not in the library
yet, and for `Progress`, that an item of the bundle is still to do, added, or in the
library. For the cursor, `RunInv` says that a run stands on a page with all pages
before it imported (`Covered`), which the commit of a run makes the cursor's.
`Advance` takes the cursor's row only as its run has read it, and keeps it locked
until the commit (`holds`, one worker at most), so `cursor.value <= j.last`
still holds there, also for a run that has lost its advisory lock. For the
contract, a commit is one arrival of a bundle and every other step a stutter.

`BackupProofs` proves, for any objects, checkpoints, commands, backups, limits and
faults:

| Theorem | States |
|---|---|
| `BackupsAreConsistent` | the inductive invariant, with the type invariant |
| `VerifiedBackupsResolve` | `BackupResolves`: a verified backup has what its application rows refer to |
| `RestoresAreWhole` | `RestoredIsWhole`: a successful restore brings back all of the backup and nothing else |
| `NewestAreKept` | `PruneKeepsNewest`: a verified backup goes only while enough newer ones are there |

Assumptions: `BackupAssumption` (natural bounds, at least one backup kept of each
class, objects are no checkpoints). `RestoresAreWhole` also assumes
`\A l \in Layouts : l.target => l.source`: roles that share a database in the target
share one in the source. Without it the statement is false, which is the finding of
the run `restore_shared_target`.

Argument. `Underway` follows the order of a create: what the application dump names
was written before it was taken (`SystemInv`), so it is in the store or saved then;
what is in the store then is listed later, what is saved is in the checkpoint dump
that comes later, and every create has a directory of its own. For prune, a backup
is doomed while enough newer ones of its class are verified; `PruneInv` says that
this stays so. Another prune may take one of these newer ones away, but then there
are enough verified ones newer still, which are newer than both (`NewerRemain`), and
a new backup is newer than all, which the greatest of the times gives
(`MaxIsGreatest`). For restore, `Past` marks who has filled the application
database; nobody else can get past it again, so whoever compares and reports is
alone with the target (`RestoreMoves`).

Only model-checked: the liveness properties (`RunLeavesRunning`,
`SlotsComeBack`, `StreamCloses`, `OccurrenceSettles`, `EveryRunEnds`), which need fairness and
`ENABLED`, beyond the prover; and the expansion of cron fields (`CronSchedule`), a computation over given data.

## 5. Findings

`RestoredIsWhole` under `restore_shared_target` (`b/backup.py:277`) is the finding
in `PROJECT.json`. Restore collects its targets by database, so a backup of two
databases that is restored into one brings back the application dump only, and
says "restored"; the plan of the command
(`src/docs/superpowers/plans/2026-07-26-bidscope-p1-c-backup-recovery-release-plan.md:177`)
has it restore each distinct dump exactly once. The runbook's own procedure names
two target databases and is not affected.

Six more properties, which state what the repository says, do not hold of the code.
Each has a configuration, kept beside the runs, that ends in a counterexample:

- `execution_left.cfg` (`MCRunExecution`), `CheckpointFenced`
  (`b/graph/executor.py:203`). A checkpoint write that has passed its fence when its
  call is cancelled, or when `_append_events` raises, lands after the repair and the
  unlock (`b/api/dependencies.py:790`), under the next owner, though the docstring at
  `executor.py:147` has every mutation fenced by ownership. It comes up only until
  the next owner's first write: `OwnersCheckpointStands` holds.
- `execution_twice.cfg` (`MCRunExecution`), `NoEventTwice`
  (`b/graph/executor.py:546`). When such a write lands after a fresh attempt has
  deleted the thread and before its stream reads it, the request is written over that
  checkpoint and the events in it are appended again, though the docstring at 480 has
  only new events appended.
- `review_verdicts.cfg` (`MCReportReview`), `VerdictOnOwnClaim`
  (`b/delivery/reports.py:404`). Verdicts are indexed by notice and ordinal; two items
  for one notice share them, though the docstring at 397 has each verdict reach
  "exactly the right claim row".
- `workflow_retry.cfg` (`MCQueryWorkflow`), `RetryHasIntent`
  (`b/graph/nodes.py:74`). A failed `parse_intent` is a state
  update, so it is checkpointed; a retry resumes at `validate_intent`, which
  raises for want of an intent, each time. `src/README.md:337` promises that
  checkpoints and retries "let a transient failure resume".
- `stream_marker.cfg` (`MCEventStream`), `MarkerAfterEvents`
  (`b/api/routes/events.py:99`). The rows are listed before
  the status is read; what is recorded in between is not sent before the stream
  "closes after the terminal event" (line 3).
- `subscription_formatting.cfg` (`MCSubscriptionCycle`), `FormattingIsSilent`
  (`b/subscriptions/service.py:786`). The evidence texts of a
  version are ordered by random ids and compared as sequences, so a version with
  the same fields and texts is a material change whenever its rows sort
  differently, against the comment at 857.

Behaviour of the code that the models show and that contradicts no promise
strongly enough to be listed: a confirmation that arrives after the pause is
recorded and before the lock is released is handed back as `retryable`
(`dependencies.py:550`); a crash between the pause checkpoint and the status
lets a retry resume past the confirmation (a test expects it,
`src/backend/tests/integration/api/test_runtime_recovery.py`); a client whose
last id is `terminal` is sent the stream from its start (`events.py:128`);
events are committed before the background
checkpoint write of their superstep, so after a crash in between `run_events` may
be ahead, the cursor rejects the trailing rows, and so it does on every later
retry (`executor.py:410`), and a write that lands late can bring such a state about;
an occurrence whose run has failed for good is never
delivered, and resuming the subscription only pauses it again
(`subscriptions/service.py:992`);
the DOCX lists claims whatever their verdict (`docx.py:152`).

Import and ingestion: a bundle's id covers the time its page was fetched
(`materializer.py:108`), so a page that is fetched again makes another bundle and
never "reuses the immutable bundle", as the staging runbook has the operator
verify (`DuplicateReusesBundle` states it and does not hold); the last page is
fetched again by every poll. A backlog longer than `max_pages_per_run` ends the
run as quarantined with the cursor unmoved, so it never drains. A source that goes
back to an earlier text makes no version, and the superseded one stays latest.
Responses of a quarantined page stay in the store. The loser of a race for one
bundle row dies (`get_or_create_bundle` has no savepoint), and an import can attach
to the row of another manifest when that is committed between its check and its
select.

Backup: a revision is read after its dump, and a migration in between makes a
backup that is verified and whose restore ends in a revision mismatch. A create or
a remove that dies leaves a directory that no prune removes, and a temporary file of the store that is
renamed while the objects are copied fails the create. Nothing ever deletes an object.
Prune keeps seven daily and four weekly backups, numbers written in the code
(`b/backup.py:407`) that no setting changes, although
`backup_daily_retention` and `backup_weekly_retention` (`b/config.py:303`) are there and
the docstring at 389 speaks of the configured window.

Retrieval: nothing in the backend writes `notice_versions.embedding`, so the hybrid
search is lexical in effect and is not marked degraded for it. Superseded versions
are found like the latest ones (`search.py:84`). Nobody reads `duplicate_groups`.
The production loader gives no project number and unique URLs
(`dependencies.py:90`), so every pair that is not identical goes to the model,
in both directions, whose answers may contradict each other.

## 6. What is abstracted

- `RunOwnership`: the graph is its fences and its outcome. `updated_at` is
  young or old. A token is a number that is drawn once.
- `RunExecution`: pending writes of a superstep (`aput_writes`), and checkpoints
  from before event offsets were stored, are left out. An event is the node and
  the attempt that produced it, which is what its fingerprint tells apart. A
  write that was handed to PostgreSQL when the process died may land at any later
  time, or never; a resume from it is a lag like any other. LangGraph is external:
  that its background puts run one after the other, are neither awaited nor
  cancelled when its generator is abandoned, that `astream` reads the checkpoint
  anew, and that the greatest checkpoint id is read, is taken from its behaviour in
  the version the lock file pins.
- `QueryWorkflow`: one execution at a time. Intents are complete, ambiguous or
  missing; drafts are valid or not. The models answer anything the code accepts,
  or fail.
- `ReportReview`: texts, offsets and labels are left out; extracted spans agree
  with their text. The limits on lengths are replaced by the bounds.
- `RunService`: one run per key; an execution is what `RunLifecycle` says.
  Confirm and retry are not refused during shutdown, as in the code. A task that
  is cancelled before its first step frees nothing.
- `EventStream`: the client is a generic SSE client that keeps the last id. A
  response whose body the framework never iterates is left out.
- `SubscriptionCycle`: one subscription. A run is its status, its driver and its
  report; one whose occurrence is consumed is followed no further. The importer
  gives a notice each content once, in one order. The lock session of a live
  worker is not lost. Corrupt settings, calls without a schedule and the
  test hook `fail_every_run` are left out, and so are the contents of cron
  expressions but for their weekdays (`CronSchedule`). The pause after three failures is a constant.
- `SnapshotImport`: a content hash is the notice. Looking up the idempotency key
  and checking its manifest is one step, as nothing is ever removed. Inspection
  and parsing are the bundle's `state`.
- `SourceIngestion`: pauses between requests and `Retry-After` are left out, and so
  are the signature and the decoding of an answer: it is a page or a failure.
- `Backup`: hashes, sizes and archive formats are left out; `verify` succeeds on
  whole directories. A prune's scan is one step: what another prune removes under
  it is older than what it keeps. `Limit` stands for the seven daily and four weekly
  that the code has as literals.
- `Retrieval`: a text is what it says and how it is formatted; each version's score
  for a query is given. Filters are regions, dates and a lowest budget.

Bounds, all in guards or in the sets a run chooses: `MaxClaims` (tokens),
`MaxPuts` (background writes), `Steps`, `PauseAt`, `MaxAttempts` (executions of
the workflow), `RecursionLimit`, `MaxSynthesisRetries`, `MaxItems`, `MaxClaims`
of `ReportReview`, `Limit` (slots), `MaxSeq`,
`MaxConnections`, `MaxOccurrence`, `MaxFailures`, `MaxFaults`, `MaxPagesPerRun`,
`MaxRetries`, `MaxRuns`, `MaxDisturbances`, `Limit` (backups kept), `OldBackups`,
`MaxBackups`, `MaxCommands`, `TopK`.

## 7. Plan

The modules of sections 1 and 2 were written in this order, most important first:
run ownership, graph execution, the workflow, review, the service, event streams,
subscriptions, import and ingestion, backup, retrieval. What is left:

1. Several subscriptions in one tick, and direct calls without a schedule.
2. Event-cursor reconciliation for checkpoints from before event offsets were
   stored.
3. `SubscriptionCycle` as a reader of `SnapshotImport`'s versions instead of an
   importer of its own.
4. Event streams over `RunExecution`'s rows instead of an abstract run.

Every safety property that a passing run checks is proved.

## 8. Not modelled, and why

- `b/llm`: an external service behind a port; its answers are inputs.
- `b/persistence`, `b/db.py`: no module of their own; the tables are the
  variables of the modules and their statements are inside the actions.
- `b/config.py`, `cli.py`, `main.py`, `observability.py`, `audit.py`,
  `api/health.py`, `api/auth.py`: wiring, parsing and reporting without state of
  their own.
- `b/evaluation`: offline scoring over fixed data.
- `b/testing`, `api/routes/test_controls.py`: only in the end-to-end tests.
- `src/web`: the client; only its use of event streams matters here.
- `src/migrations`, `src/scripts`, deployment files.
