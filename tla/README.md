# A model of fin-ops-platform

This directory holds TLA+ modules for the parts of fin-ops-platform whose
correctness depends on the order in which several processes and people act:
the durable queues, the workers that serve them, and the commands that change
financial facts. TLC checks small instances of them, and the TLA+ proof system
proves the properties that matter most for instances of every size. The
reference is the Python under `src/backend/src/fin_ops_platform`; where the
documents under `src/docs` promise something the code does not do, a run shows
the difference (see *Findings*).

    cd tla
    tlc -workers 2 -config ImportJobs_file.cfg MCImportJobs
    tlapm ImportJobsProofs.tla
    tlapm ImportLifeProofs.tla
    tlapm EtcDraftsProofs.tla

`PROJECT.json` lists the components, the runs, the mutants that show each
property can fail, the source lines every definition stands for, the hazards,
and the theorems.

## 1. Inventory

The platform is a modular monolith. An API process (`app/server.py`), four
kinds of worker process (`runtime_worker_registry.py`) and a React client share
one PostgreSQL database, which is the only source of facts. The company's OA
system is outside: its Mongo store is read, and its MySQL store receives a
payment status that no transaction covers. A worker instance is a systemd unit
whose worker id survives a restart (`deploy/systemd`, `FIN_OPS_WORKER_ID=%H-%i`),
so two incarnations of a process can carry the same id.

Paths below are relative to `src/backend/src/fin_ops_platform/services/`, `pg/`
stands for `postgres_repositories/`.

### 1.1 Queues and workers

| part | state | operations | what makes it right |
|---|---|---|---|
| import queue (`import_job_queue.py`, `import_workflow_service.py`) | `job.import_jobs`: status, stage, version, claim version, attempts, owner, lock time, disposition | create, claim, renew, succeed, fail, require review, defer; confirm, retry, re-prepare, cancel, dispose, acknowledge | a claim that is no longer current writes nothing; facts are those of the confirmed preview, once; every task comes to rest |
| outbox (`runtime_queue.py`) | `job.outbox_events`: status, dedupe key, attempts, owner, lock time | enqueue, claim, ack, fail, release, requeue, release or resolve stale, resolve dead letter, purge | an event is not lost, not served for ever, and not acknowledged by an executor that lost it; one open sync per scope |
| outbox worker (`runtime_worker.py`, `runtime_worker_handlers.py`) | the event in hand | run a handler under a time limit, then ack, fail, release | a shutdown costs no attempt; a handler's effect and the event's end agree |
| matching scopes (`pg/workbench_matching_queue.py`, `workbench_matching_dirty_scope_worker.py`) | one row per tenant and month: status, lease owner, request id, attempts, refresh flag | mark dirty, claim, complete, fail, retry, mark stale | a change made while a scope is being matched is matched again |
| background jobs (`background_job_service.py`) | `job.background_jobs` | create, start, progress, succeed, fail, acknowledge, recover interrupted | a job's last status is the truth about its work |

### 1.2 Control plane

| part | state | operations | what makes it right |
|---|---|---|---|
| data reset (`settings_data_reset_*.py`, `pg/settings_data_reset*.py`) | recovery receipts, reset job, event, the rows a reset deletes | register and revoke a receipt, request, execute | only what the receipt covers is deleted, once, and two resets never overlap |
| settings and ACL (`app_settings_service.py`, `access_control_service.py`) | one snapshot with a version per family | compare-and-set writes, with their audit row in the same transaction | no lost update; a revoked page is refused on the next request |
| requirement recalculation (`bank_relation_requirement_recalculation.py`) | background job, settings version | recalculate all bank relations after a tag rule changes | the result belongs to the newest rules |
| audit and operation history (`audit.py`, `operation_history_semantics.py`) | `audit.events` (append only) | record, query by request | no change without its audit row |

### 1.3 Financial facts

| part | state | operations | what makes it right |
|---|---|---|---|
| relation commands (`workbench_relation_command_service.py`, `workbench_pair_relation_service.py`, `workbench_uow.py`, `workbench_idempotency.py`) | active relations with typed members, history, idempotency rows | confirm, extend, replace, cancel, withdraw | a member belongs to one active relation; a repeated command replays its answer; withdrawal restores what confirm replaced |
| matching (`workbench_matching_orchestrator.py`, `workbench_free_matching_engine.py`) | none of its own | plan over a snapshot, one command per batch | a plan made on old facts is refused |
| imports (`imports.py`, `import_file_service.py`, `confirmed_invoice_import_uow.py`) | session, files, previews, decisions, invoices, bank transactions | upload, preview, confirm, revert | no duplicate fact; a fact keeps its formal id |
| bank details (`bank_details_*.py`, `bank_transaction_category_service.py`, `bank_transaction_split_service.py`) | classification, manual tags, splits | classify, split | a split conserves the amount and takes its relations along |
| bank batches (`bank_flow_rule_batch_*.py`, `no_oa_bank_batch_*.py`, `bank_batch_service.py`) | batches, events, the relations they own | submit, withdraw | a row is in one batch; batch and relations change together |
| external turnover (`turnover_ledger_*.py`) | extras, closures, relations | close, reopen, supplement | a closure is the members the user saw |
| pending, input and output invoices (`pending_invoice_service.py`, `input_invoice_usage_*.py`, `output_invoice_collection_service.py`) | income status, payment rules, reverse batches | link, set, submit a reverse batch | status follows relations |
| OA payments (`oa_pending_payment_*.py`, `oa_payment_status_*.py`) | admission, payment status, OA MySQL rows | link, reconcile | OA's status converges to the relations |
| OA projection (`oa_projection_sync.py`, `mongo_oa_adapter.py`) | OA rows, identities, aliases, attachments | sync a scope | a partial read replaces nothing; an id never changes meaning |
| ETC (`etc_service.py`, `etc_business_batch_application_service.py`, `etc_reconciliation_service.py`) | batches, tasks, drafts, attempts | prepare, finalise, recover a draft | one draft per key, though the external call is outside the lock |
| tax certification (`tax_certified_import_service.py` and its neighbours) | certification batches and evidence | import, withdraw | no invoice is created or rewritten |
| cash (`cash_service.py`, `cash_tasks.py`, `pg/cash*.py`) | `cash.*` | flows, items, settlements, tasks | references are valid and the books balance |
| costs (`cost_statistics_*.py`) | manual allocations and locks | allocate, with a fingerprint | an amount is counted once |

### 1.4 How the parts meet

* An HTTP command, or a timer, writes facts and in the same transaction an
  outbox row, an import row or a dirty scope. Nothing is sent; workers poll.
* A worker claims a row in one transaction, works outside it, and settles the
  row in another. Between the two it may lose the row: the lease may pass, the
  process may die, a person may cancel. The queues differ in how they notice:
  the import queue compares a claim number, the outbox compares the worker id,
  the matching queue compares the lease owner and the request id.
* A handler of the outbox commits its own effects before the event is settled.
* People act on a page that may be old. The import page, settings and relation
  commands carry the version of what was on it.

### 1.5 What is hard here

Stale executors that come back after their lease; two incarnations under one
worker id; a shutdown or a crash between the effect and the acknowledgement; a
retry that repeats work; a refresh asked for while the work runs; a person who
confirms a preview that has been replaced; a status written to another
database long after the facts it follows were read; budgets that are counted in one place and checked in
another. `hazards` in PROJECT.json places each at its line.

## 2. Plan

In the order of what would hurt most if it went wrong:

1. `ImportJobs`, `ImportPromise`, `ImportJobsProofs`, `ImportLifeProofs`:
   done.
2. `RuntimeQueue`, `RuntimeQueueProofs`: the outbox and its worker; done.
3. `MatchingScopes`, `MatchingScopesProofs`: dirty months and the refresh flag;
   done.
4. `RelationCommands`, `RelationCommandsProofs`: exclusive membership of active
   relations, replacement, withdrawal by history; done.
5. `PaymentStatus`, `PaymentStatusProofs`: relations, the reconcile event, the
   OA synchronisation and OA's MySQL, which composes a writer, two executors
   and a database no transaction covers; done.
6. `CashLedger`, `CashSerial`, `CashLedgerProofs`: flows, items, settlements and their
   removal; done.
7. `EtcDrafts`, `EtcDraftsProofs`: the ETC draft attempt, an external call
   between two transactions, and a memory beside the database; done.
8. The reverse batch of `input_invoice_usage_*`, which works alike, and ownership
   of invoices across ETC batches.
9. The import session: the files of a session and the chain of follow-up
   tasks, over `ImportJobs` and `MatchingScopes`.
10. Units of work with their idempotency keys and replay; bank splits with the
   relations they take along; bank and no-OA batches; settings families.

Every module has a type invariant, and the prover shows it for every instance.
Only the run of `RelationCommands` repeats it.

Each of 8 to 10 is a protocol of its own and not a larger instance of one that
is modelled. A theorem that is worth adding with them: the conservation of a
split.
## 3. The import queue

`ImportJobs` models `job.import_jobs` and everything that writes it. The
constants are the rows that may be created, the executors (processes, with old
incarnations that have not noticed they are replaced), the worker id each
executor was started with, people, and the retry budget.

| state | stands for |
|---|---|
| `job` | the columns of a row the code reads; `lease` is `locked_at` against the lock timeout |
| `preview`, `confirmed` | numbers for the preview persisted with the session and for the one on the confirmer's page |
| `facts` | the previews whose invoices or transactions were inserted, in order |
| `attachments` | what a manual OA import has still to parse |
| `exec` | an executor's snapshot of its job: claim, attempts, stage, plan, and where it is |
| `seen` | the status, version and preview on a person's page |
| `authorized` | the actor's page in `app_settings` |

One action stands for one transaction. `ClaimNext` sweeps the exhausted rows
before it takes one, as the code does. `LoadSession` reads the durable session;
`FinishPrepare` and `FinishCommit` write result and facts behind
`ImportJobCompletion.lock`; `Abort`, `RequireReview`, `DeferAttachments` and
`Settle` are the other ends of `process_claimed_job`, each a no-op when the
fence fails. `Confirm`, `Retry`, `Reprepare`, `ParkStalePreview` and `Dispose`
carry the version of the page; `Cancel` and `Acknowledge` carry none. `Crash`
and `LeaseExpires` may happen at any time, to a live executor too.

`ImportPromise` is what a person is promised: a preview accepted, written at
most once, withdrawn or closed until then. `KeepsPromise` states that
`ImportJobs` implements it under the mapping *accepted = the confirmed preview
of a task in its commit stage*.

| run | instance | question |
|---|---|---|
| `import_file` | one uploaded task, two executors under one worker id, one person, two attempts, two human commands | is every fact the confirmed one, written once, and is an end final? |
| `import_live` | an uploaded task or a manual one with an attachment, two workers, one command | does it come to rest whatever crashes, and however often it is deferred? |

One task is enough because no statement but the sweep reads two rows, and the
sweep treats each alone; two executors are enough for one to be stale; two
commands are the fewest that confirm, fail and retry, or confirm and prepare
again. `MCNext` of `import_live` creates one of the two tasks, so that one run
covers both ways in. What these bounds miss, the proofs cover.

*Fairness.* `WF(ClaimNext)` because `run_forever` polls; `WF(Execute)` because
an alarm ends every processor; `WF(LeaseExpires)` because time passes. Nothing
is assumed about people, and nothing about `Renew` or `Crash`: the number of
attempts bounds both.

### What is proved

`ImportJobsProofs` proves, for any sets of tasks, executors, workers and people
and any bounds, `Spec => []Inductive`, and from it `TypeOK`,
`FactsMatchOutcome`, `SingleOwner`, `VersionIdentifiesPage` and `RetryBudget`.
The only assumption is `ImportJobsAssumption` (typing of the constants, at
least one attempt).

`FactsMatchOutcome` is not inductive. It says nothing about a process that is
about to write: such a process must hold the current claim, remember the right
stage, and have planned from the confirmed preview. Hence

* `ClaimsAreUnique`: two busy executors of one task never hold one claim
  number, and none holds a number from the future;
* `HolderIsCurrent`: what the holder of the current claim remembers (stage,
  attempts, plan) is what the row says. Every command that changes them either
  needs a status other than processing or raises the claim number;
* `CommitIsConfirmed`: in the commit stage the stored preview is the confirmed
  one, which needs
* `PagesAreOld` and `VersionIdentifiesPage`: a page whose version still matches
  shows the stored preview, so confirming it confirms what was on screen.

The proof has one lemma per row operator (what it returns, field by field), one
lemma per action, and in each one step per conjunct the action can disturb.
Actions that leave the fenced columns alone share `QuietStep`.

`ImportLifeProofs` goes on from `Inductive` to the four properties that speak of
a task's whole life. It first classifies what any step may do to a row: `Moves`
is the disjunction of `Kept`, `Taken`, `Ceased`, `Shelved`, `Made`, `Revived`
and `Closed`, and every step of the specification is shown to be such a move of
every row (`StepMoves` is built from one lemma per actor). The rest reads the
moves and not the actions:

* `HiddenMeansOver` and `EndsAreFinal` need `AllOver`: a disposed row is failed
  or canceled and an acknowledged one has ended. No move leaves that state, and
  only the holder of a current claim writes facts;
* `SettlingIsHarmless` needs `SettlersOwnNothing`: an executor whose processor
  has returned either ended its claim itself or had lost it, and no step makes
  a lost claim current again (`OwnershipIsNotRegained`). The fence compares the claim number as well as the worker id, so a restart
  under the same name does not bring it back;
* `QueueKeepsPromise` is the refinement. Its steps are either `Silent`, that is
  no task's accepted preview, facts or closure changes, or exactly one of the
  promise's actions. `PreviewIsThere` (a task waiting for confirmation has a
  stored preview) makes `Accept` accept something.

Model-checked only: `TaskComesToRest` (liveness).

## 4. The outbox

`RuntimeQueue` models `job.outbox_events`, the workers, and the operator tool.
The constants are how many events are ever inserted, the workers (one process
per id, as the unit files have it), the kinds of request and the kinds a
handler is registered for, the retry budget, and bounds on attachments, faults
and operator commands.

| state | stands for |
|---|---|
| `event` | the columns that are read: status, dedupe key (the request's, `runtime.retry:<id>`, or null), attempts, `locked_by`, the lease, whether the last error is an identity conflict, and the operator's mark |
| `exec` | a worker's event in hand and whether its handler has committed; `claim` is a history number the code does not have |
| `unparsed` | attachments an event still waits for |
| `served`, `claims`, `spent` | history: the handler committed; claims; tries that failed or were lost |

A request either joins an open event or inserts one (`Enqueue`): a scheduled
sync joins any open sync of its scope, one that is running, retrying under
another key or parked on an identity conflict; every other request joins only a
waiting event with its own key. `Claim` takes a waiting event or one with an
expired lease; targeted events come first. `Commit` is the handler's own
transaction, which compares no claim. `Ack`, `Fail`, `Conflict`, `Defer`,
`Refuse` and `Shutdown` settle the event with one write that compares status
and worker id; when it matches nothing the process raises, ends, and is started
again. Each of the operator's commands treats one row; the code's batches are
sequences of these steps.

| run | instance | question |
|---|---|---|
| `queue_mixed` | two requests, each a scheduled or an unscheduled sync, a keyed targeted read or a cleanup without a handler; two workers, a fault, an operator command, one attachment | do scheduled syncs pile up; is the worker id a sufficient fence; does a write ever hit the unique index; is a superseded request answered; was everything done also served; is work bounded; does each come to rest? |
| `queue_poison` | one event whose executor dies each time | does `attempts` stay within the maximum? It does not (*Findings*) |
| `queue_lost` | one event, a lost lease | does an executor that lost its event commit? It does (*Findings*) |

Two events of one key are the fewest for superseding and for a sync that the
timer adds beside one it should have joined. Two workers are enough for one to
be late: every write concerns one event and one worker; since they are alike,
the first claim of the instance is `w1`'s. The code treats an unscheduled
refresh like a sync wherever it compares kinds, so that the instance leaves it
out. Faults and operator
commands are bounded by counters because each may repeat without end.

*Fairness.* `WF(Claim)`: `run_forever` polls. `WF(Execute)`: an alarm ends every
handler and one of the settling writes follows. `WF(LeaseExpires)`: time
passes. Crashes, shutdowns and lost leases are not fair and are bounded;
without a bound an event that kills its executor never rests, which
`queue_poison` shows.

### What is proved

`RuntimeQueueProofs` proves `Spec => []Inductive` for any constants that satisfy
`RuntimeQueueAssumption`, and from it every safety property of the passing runs
but `WorkIsBounded`. Two arguments carry it:

* *The worker id is enough.* The code compares no claim number, which would be
  wrong if two processes shared an id, or one process had two events. As a
  busy process takes no other event and an id has one process, a row that names
  the worker was claimed by its present try (`FenceIsExact`). So a late write
  either matches nothing or is the newest claim's (`SettledIsSettled`).
* *Keys are given up.* Every path from running back to waiting gives the row a
  retry key, except `ReleaseStale`, which looks for a waiting row with the key
  first. Hence `PendingKeysUnique`. `NoPileUp` and `SupersededIsAnswered` need
  that ids follow insertion (`InsertedInOrder`) and that the superseded mark is
  only on rows that left the queue (`SupersededIsOver`): the newest of a chain of
  superseded rows has an answer, and an answer is replaced by a later one.

`EveryClaimIsPaid` proves `WorkIsBounded` from it. `Slack(e)` is the difference
of the two sides, and `AllRoom` says how much of it an event needs: a waiting
event as much as it has tries left and at least one, a running one a try less,
and a running one that nobody tends (its executor is dead or its lease has run
out) as much as a waiting one, because the fault that lost the claim has paid
for it. A release, a shutdown or a deferral gives the try back and is paid by a
fault or an attachment; an operator's command grants `MaxAttempts` more.

Model-checked only: `EventComesToRest`.

## 5. Matching scopes

`MatchingScopes` models `job.workbench_matching_dirty_scopes`, one row per
month, its writers, the `workbench-matching` worker and the operator's retry
tool. The facts of a month are a version that every change counts up; so are
the rules and settings that are stamped on a row.

| state | stands for |
|---|---|
| `status`, `owner`, `request`, `leased`, `attempts`, `versions`, `refresh` | the row: `refresh` is `refresh_requested_while_processing`, `leased` a lease that has not ended |
| `pc`, `batch`, `cur`, `run`, `captured`, `snap`, `used` | a worker's `run_once`: the months claimed and not yet done, the month in hand, the run's uuid, the versions read at its start, and what the orchestrator read |
| `owed` | months changed and not announced yet, in the memory of a server process |
| `plan` | what an operator's dry run showed |
| `marked`, `applied`, `ranWith` | history: the facts when last announced; the newest facts and rules that were matched and committed |

`ChangeAndMark` is a writer that announces in its own transaction (imports,
relation commands, OA snapshots, ETC batches); `ChangeFirst`, `MarkLater` and
`LoseMark` are a command that announces after its commit. `Poll`, `Sweep`,
`Claim`, `Load`, `Apply` and `Complete` or `Fail` are the worker's steps, each a
transaction or a read of its own. `Apply` compares no lease: the unit of work
checks the versions of the planned members, which belongs to the relation
commands. A worker whose month was taken over raises twice (`LostLease`) and
leaves the rest of its batch to the end of their leases.

| run | instance | question |
|---|---|---|
| `match_one` | one month, two executors, two changes of the facts, or one of the facts and one of the rules, one lost lease, one crash, one retry | was a completed month matched on all that was announced; can a stamp hide a change of the rules; does a retry hit the ending that was seen; does the month come to rest under the last rules? |

The instance has one month: rows of different months share nothing but the
worker's batch, which takes them one after the other and so only delays a step.
Two changes per month are the fewest that let one be announced after another
was read. One lost lease suffices for a late outcome: it must be the outcome of
a run that another one followed. Four run identities are one more than
rows, workers and plan can refer to at once.

*Fairness.* The worker's steps are weakly fair (it polls), a lease that nobody
holds ends, and a server process that stays alive announces. Failures, crashes,
slow runs and operators are bounded and owe nothing.

### What is proved

`MatchingScopesProofs` proves every safety property of the runs for any
constants. The invariant behind `CompletedIsFresh` is `UnreadIsFlagged`: for a
worker that holds the row of the month it is matching, either its facts contain
everything announced or the row carries the flag. The announcement keeps it
because the row is in processing and gets the flag; a second claim keeps it
because the first worker then holds nothing; the outcome uses it and clears the
flag in the same write. `OldPlansDiffer` carries the operator's comparison: a
month that was claimed after the dry run carries another run's identity for
good. That the flag survives a claim is not needed for freshness, since the new
run reads after it; that it is cleared by a failure is sound because the month
is read again or is visibly failed.

## 6. Relation commands

`RelationCommands` models `app.workbench_pair_relations` and the commands that
write it. A relation is a case with its member rows, a status and a version.
No constraint of the database keeps a row out of two active relations; the
advisory locks of `acquire_relation_member_locks` do, as far as each command
takes them. A worker is one connection with one READ COMMITTED transaction:

| state | stands for |
|---|---|
| `active`, `members`, `version` | the rows of the table; a cancelled relation keeps its members |
| `undo` | the latest history event of a confirmation, per case and row set: what a withdrawal restores |
| `stage`, `kind`, `target`, `picked`, `known` | a command, the case and the rows it names, and the relations it read before its locks |
| `wanted`, `held` | the lock keys it computed and the keys its transaction holds |
| `writes`, `entry` | the cases and the history event it decided on and will save |

`Ask...` is what a command reads before it locks; `Take...` is the lock
statement, the load under it and the decision, one step because nothing of the
database changes while a sorted lock statement waits; `Commit` is the upsert of
whole rows; `Abort` is any refusal or error, at any point.

| command | in the code | locks |
|---|---|---|
| `confirm` | the workbench's confirmation under an allocated id | rows, case |
| `supplement` | manually entered invoices of a relation | rows, case, after reading the relation |
| `assign` | bank flow rule batches, no-OA batches: confirm without replacing | rows, case |
| `plan` | the matching worker, new or extending | rows, case and its members |
| `cancel`, `release` | by case, by rows | case and its members; rows |
| `withdraw` | with the restoration of what the confirmation replaced | rows and cases, old and new |
| `remove` | rows that are no longer facts | these rows only |
| `metadata` | the requirement updater | none |
| `closure` | the turnover closure | the selected rows; later the merged rows and the case, without loading again |

The constant `Overlapping` names the commands that may run beside others. In
`relation_owner` those are the six that lock what they give away and read it
under the lock; the other four run alone there. `relation_remove` lets the
removal run beside a confirmation, which is what production does.

| run | instance | question |
|---|---|---|
| `relation_owner` | two workers, three rows, two allocated cases and a derived one, all commands | can a row get two owners; can a stale copy end a relation; can a version run backwards? |
| `relation_remove` | confirmations and removals, overlapping | the same question for the removal: it ends in a row with two owners (see *Findings*) |

Three rows give two relations that share one row, and a relation that a removal
leaves with two members. Two allocated cases suffice for a confirmation that
replaces another and is withdrawn; the derived case is the one that is
re-created. `MaxVersion` stops commands once a version exceeds 2, which allows a
relation that was confirmed, replaced, restored and ended; releases are always
possible, so that the bound never stops the system. Workers, allocated cases
and the two rows of the derived case are symmetric. There is no liveness
property: a command that cannot go on is aborted by the database.

The two action properties speak of allocated ids. A derived id is re-created by
later plans and batches, whose loader does not see the cancelled row, so that
its version starts again (see the hazards). What a confirmation records as
replaced comes from the memory of the API process: `AskConfirm` lets any part
of the owners be known there. The workbench client sends no case id with a
confirmation (`web/src/pages/ReconciliationWorkbenchPage.tsx` line 2080), so a
confirmation always has an allocated one here.

### What is proved

Nothing in the code keeps any two commands from overlapping, and the theorems
assume nothing about `Overlapping`. A removal, a requirement update and a closure
rewrite relations that they do not lock (`PartlyLockingKinds`), so that two
decisions can rewrite one relation at a time: that is a `Collision`, and it is
what happens in the last steps of `relation_remove`. The theorem

    OwnershipIsExclusive == Spec => []ExclusiveOwnership \/ <>Collision

says that nothing else can give a row two owners, for any rows, cases and
workers. `Spec` has no fairness, so that every history may also end one step
before its first collision: up to there a row has one owner. A removal that runs
beside a confirmation of other relations is covered, as are two removals that
share none. The histories of `relation_owner`, where the three commands run
alone, have no collision; `relation_remove` shows that production has some.

The invariant is `Owned`. A decision is safe when it is taken: the rows it gives
to a case are apart from those of its other cases and from every active relation
it does not rewrite (`SafeDelta`, one lemma per command; the withdrawal's rests
on the check of restored ownership, the closure's on the exclusiveness it
found). It stays safe because its rows are locked until the save
(`DecidedLocked`) or are of a relation that it rewrites itself
(`DecidedCovered`), the locks of two workers are apart (`LocksApart`), and
without a collision so are the relations they rewrite, of which one is of a
command that does not lock them: when one worker saves, the rows it gives away
cannot be among those another has decided on. `supplement` needs no exception
here, although it reads before it locks: what it may bring back is rows it
holds.

`ConfirmedEndAsRead` and `ConfirmedVersionsGrow` say the same of the properties
`EndsWhatItRead` and `VersionsMoveForward`, with a wider exception: an
`Encounter` is a collision, or a supplement and another command with one
relation in hand, which the supplement takes to be as it read it before its
locks. The invariant is `Forward`. A decision is made from the cases as they are (`GoodDelta`, again one lemma per command): what it
keeps moves on by its version or is saved as it is, what it cancels is saved as
it was read. An allocated case stays so until the save, because whoever gives
it rows holds the case and all the rows it has (`OnHeld`) and whoever cancels it
holds the case or one of its rows (`OffHeld`): two workers can only meet in a
case when both cancel it, and then they save the same. Three facts about what
was never touched carry this: what was saved has a version and what has none
has no rows (`SavedAreNumbered`), an allocated case is named by one command
only until it is saved (`NewIsNew`), and the keys of a command cover what it
names (`AskedRight`). For a withdrawal the lemma needs all of its checks: the
topology it locked is the one in force, so that its keys cover the cases it
brings back, and their rows are those the history gives them.

The wider exception is needed. A supplement reads the rows of its relation
before it locks and loads active relations only: when its relation is cancelled
in between, it makes the case active again with a version that starts over.
TLC finds this within seconds when `supplement` is added to `Overlapping`.

## 7. The cash ledger

`CashLedger` models the nine commands of `cash_service.py` over
`cash.flows`, `cash.items` and `cash.settlements`. No constraint of the
database knows a sum: an item may not be settled beyond its amount, a flow not
allocated beyond its own, separately for what is owed and for what is an
expense, and everything in a project stays in it. What keeps that is the
protocol of a command: read the graph around the rows it names, lock it, read it
again, refuse if it changed, write, check the sums of what is locked.

| state | stands for |
|---|---|
| `rows` | the three tables, one function from ids to rows |
| `gone`, `issued` | ids whose row was deleted; ids some client made up |
| `at`, `req` | where a request is, and what it asks |
| `stale` | rows written since the client looked: their version is not the one it sends |
| `graph`, `draft` | rows the transaction holds, and what it has written |

| action | in the code |
|---|---|
| `Ask...` | the client's page and the unlocked read of the graph (`relations`) |
| `Take...` | the locks of `_lock_graph`, its second read, the checks and the writes of the command, `_validate_balances` |
| `Commit`, `Abort`, `Refuse` | the end of the transaction |
| `Duplicate`, `Resend`, `Forget` | a client without an answer sends the same request again, beside it or later; or gives up |

A `Take` is one step: nothing is written while a sorted lock statement waits,
and what it read before it waited is `graph`. A version is modelled by what it
is compared for: `stale` holds what somebody wrote after the page was loaded.
A correction of sources (`correct_amount`, `delete_false_item`,
`keep_independent`, `rebind_flow`) is part of the change or deletion of a flow,
as in the code.

| run | instance | question |
|---|---|---|
| `cash_books` | two transactions, any two commands with their repetitions; two flows, a loan, a receivable, an expense, a ticket source, two settlements, two projects; from an almost empty ledger, one with a repaid loan and its expense, one with a receivable that is collected and offset | do the books balance whichever two commands meet; does a repetition bring back what was deleted; is a decision still right when it commits; do the commands act as if one ran after the other? |

Amounts are 1 and 2: enough for half, whole and too much. Two requests are
enough for one to change what the other has read. Loans from others differ from
loans to others in the direction of their flows and are left out. The run allows
the system to stop, because requests are bounded. Nothing is assumed fair: a request
owes nobody an end.

`CashSerial` is what this promises a client, with the stages, graphs and drafts
left out. A client poses a request, repeats it or leaves; a command runs alone:
it finds the ledger as the last one left it, decides on rows that are as its
client saw them, and leaves books that balance as a whole (`Execute` validates
all rows and not those of a graph). `SerialSpec`, stated over five variables of
`CashLedger`, is a property of the run: a new request is a `Pose`, a commit is a
`Command`, a decision and an abort are not seen at all. The mutant `Held_NoLinks`,
a creation that does not lock the loan it links, breaks it: what another client
changed in that loan is written over.

`DecisionsStand` is what makes the commands serial: at any moment between
decision and commit, the decision would be taken again, on the same graph, with
the same writes. The graph must reach the far ends of the settlements it
touches, and it must be read twice; the mutants `Relations_NoFarEnds` and
`Take_StaleGraph` show each need. `GoneStaysGone` has two reasons in the code:
deleted flows and items are remembered by id; deleted settlements are not, but
a repeated creation finds that the rows it would settle have moved on.

### What is proved

The type invariant and all four properties, for any ids, amounts, projects,
handlers and ledgers to start from (`TypeCorrect`, `BooksAlwaysBalance`,
`DeletedStaysDeleted`, `DecisionsStay`, `LedgerIsSerial`).
`CashLedgerAssumption` says that the tables have their own ids, that amounts are
natural numbers, and that the first ledger is one whose sums and references hold
and whose settlements have the shape of their kind. TLC evaluates it on the run. The one thing taken from the clients is in the
model: the ids a page makes up are new (they are random UUIDs), and only the
repetitions of a request share them.

The argument is about locks and not about commands. Call the writes `d` of a
transaction guarded by its graph `G`, of which it validates `T`, if every row
it writes is either *soft*, the same row but for its version (or an item that
changes its origin between rows of `T`), or *real*: whatever points to it is in
`T`, and whatever it points to, before and after, is in `G` (`Guarded`).

1. Guarded writes that leave `T` valid leave the whole ledger valid
   (`BooksStay`): a row outside `T` counts only rows that `d` did not change or
   changed softly, and what it points to is still there, in the same project.
   This is why the sums of a locked graph are enough for the sums of all.
2. The writes of each of the nine commands are guarded (`DecidedSound`, a lemma
   per command). It needs that a graph reaches what the roots own, what refers
   to that, and both ends of the settlements on either (`GraphCovers`). A new
   item needs no graph: nothing can point to a row that was never there.
3. Guarded writes leave every graph alone that is disjoint from theirs
   (`GuardedApart`), and a request whose graph is left alone finds the same
   graph, may do the same and writes the same (`DecidedStays`, again a lemma
   per command). The sums it validated are still right as well: its writes
   and those of the other commute and each stays guarded after the other
   (`ValidatedStays`).

The invariant (`Inv`) is then what these need: decisions stand, locks are
disjoint, the books balance, and the requests are sane. A request to create a
settlement whose id was used before is of a client that has not seen the last
version of a row it settles (`Sane`): the commit that used the id bumped these
rows, and every settlement has an item or a source (`ShapeFacts`). With it, ids
are inserted once (`InsertsFresh`), and nothing that was deleted returns.

That the ledger is serial follows step by step (`StepIsSerial`). A commit writes
what was decided some time ago; by the invariant that is what its command would
write now, and by `BooksStay` all of the ledger is valid after it
(`CommitExecutes`).

The proof found a request that no client can send: the model let a page rebind
an item to a flow without naming the flow, which `_corrections` refuses
(`new_flow_id` is required); `Named` now says so.

Not in the model: accounts, categories, labels and settings, which the commands
share-lock; personal accounts; dates, which follow the rules of the project;
transfers; the task occurrence a flow may belong to. `Corrections` has one source
per request and of its parts the items to remove, keep or rebind: the
`settlement_changes` and `item_reference_changes` of a request
(`_apply_auxiliary_corrections`, `cash_service.py` lines 876 to 910), which
change settlements and references in the same transaction and under the same
locks and version checks, are left out.

## 8. The OA's payment status

The OA keeps in its own MySQL whether an application is paid. `PaymentStatus`
models how that follows the relations, which live in PostgreSQL: no transaction
covers both.

| state | stands for |
|---|---|
| `source` | applications in the OA's MongoDB |
| `facts` | applications in PostgreSQL: approved ones, and admissions of those in progress |
| `rel` | relations: members, the direction of their bank row, the applications whose attachment they hold |
| `status` | `t_payment_simple` in the OA's MySQL |
| `snap` | `app.oa_pending_payment_status_snapshots`, what the page shows |
| `open`, `asks`, `removal`, `tries` | events not yet done or given up, the applications each names, which of them ask for a removal, and the tries spent |
| `pc`, `held`, `todo`, `want`, `at` | the process: the event in hand, the flows to treat, what it will write, the flow it found different |
| `kept`, `steady`, `upsets` | history the code does not have: flows an event put right and nobody disturbed since; applications in the source since the removal began; a count |

| action | in the code |
|---|---|
| `Confirm`, `Withdraw` | a relation command: `_save_workbench_pair_relations` saves the relation and enqueues, in one transaction, the applications of the relation before and after |
| `Begin`, `Refuse` | the handler resolves the rows, and one query tells which are paid; a row that is gone fails the event |
| `Agrees`, `Differs`, `Mark`, `StopAtFailure` | `_reconcile_flow`: read the status, then write it in a transaction of MySQL, under locks, unless it is a failure |
| `Record`, `Ack` | `record_payment_statuses`; the worker settles the event |
| `CheckMissing`, `Delete` | `_remove_missing_oa_statuses`: look in PostgreSQL and MongoDB, then delete |
| `SyncRead`, `SyncCommit` | `_run_sync` and `commit_authoritative_snapshot`: facts, snapshot, cleaned relations and the removal event in one transaction |
| `Move`, `Override`, `Crash`, `Break` | the OA's users and databases; the process dies or a database does not answer |

There is one process: `runtime_worker_registry.py` gives `oa.sync` and
`oa.payment_status.reconcile` to the one instance `oa-sync`, which serves one
event at a time. The outbox itself is the subject of `RuntimeQueue`; here an
event is open until it is done or given up, a crash returns it, and a shutdown
gives the try back. A confirmation that replaces a relation is a `Withdraw` and
a `Confirm`. An application has one flow, and a flow one application.

| run | instance | question |
|---|---|---|
| `pay_serve` | an approved application and one in progress; relations that pay both (with an attachment of the first) or receive for the second; two cases, two open events and a removal; two tries; any two upsets, and an application that leaves again | what does the OA say once nobody is going to change it; can a failure be written over; can an application lose its status that was never away? |

Two open events are one in hand and one that a command adds meanwhile. Two
upsets are an application that goes and returns, a death and a failure, or a
status set by hand between read and write. `MCNext` allows a third for one
purpose, an application that leaves again after it went and came back, while
the removal from the first time still waits (`LeaveAgain`); three upsets of any
kind are some ten million states. A synchronisation runs whatever events wait:
one that was asked to remove an application and failed may find, when it is
tried again, that a later one brought the application back to PostgreSQL. Only
a full synchronisation whose source lacks an application needs room for the
removal it may ask for (`MaxRemovals`, one in the run, as `MaxEvents` bounds
the events of commands; `MaxRemovals = 2` with the same two upsets passes as
well). Both halves of `Gone` are needed: without the look into PostgreSQL a
removal deletes the status of an application that was brought back and left the
source anew (`GoneByTheSource`), without the look into MongoDB that of one
which returned and was not yet synchronised (`GoneByTheFacts`). Cases are
interchangeable. The system never stops, since a sync can always run, so
deadlock is checked. That events are served at all is liveness of the outbox
(`EventComesToRest` of `queue_mixed`); the properties here say what is true
when they have been.

The two state properties speak of flows in `kept`. A flow enters it when an event
finds or makes its status right. It leaves it when the OA sets the status
itself, when the status is removed, when an event that names it is given up, and
when a synchronisation cuts its relation. The last is not innocent: the cleanup
passes `emit_payment_status_reconcile=False`
(`pg/oa_pending_payment_source_snapshot.py` line 546), so that nobody is told.
When an application leaves the source whose attachment a relation holds, the
relation is cancelled, and its other applications stay *paid* with no outflow
left, until a command touches one of them; *has an outflow: paid, has none:
pending* (`src/docs/modules/oa-pending-payments/README.md` line 22) does not
hold of them. Without `kept' = kept \ Cut` the run ends in that behaviour.

Between `CheckMissing` and `Delete` an application may return; no lock spans
MongoDB and MySQL. `OnlyTheGoneAreRemoved` therefore promises no more than that
it was away at some moment of that removal. The applications in PostgreSQL are
written by synchronisations, which the same process runs, so that what `CheckMissing` saw there still holds when `Delete` writes.

### What is proved

`PaymentStatusProofs` proves the four properties and the type invariant for any applications, cases,
shapes and bounds that satisfy `PaymentStatusAssumption`. The argument is that
whoever changes what the query would say leaves an event behind that names the
flow. The invariant `Agreement` has its parts named for it:

* `Asked`, `Newer`: some open event names the flow; some open event other than
  the one in hand does, which is what a command leaves behind while the process
  is at work.
* `WantIsRight`: what the process is about to write is what the relations say
  now, or a newer event names the flow.
* `TreatedHaveIt`, `RecordedAll`: flows of the event in hand that are no longer
  to treat have the status it wants, and so has the page once it is recorded,
  as far as they are kept.
* `SyncReadKept`: the statuses a synchronisation read, long before it commits
  them to the snapshot, are still those of every kept flow.
* `StatusKept`, `PageKept`: the two properties, for the flows no event names.

A relation is saved with its members before and after; therefore every
application whose answer changes is named (`SaveNames`), or its relation was cut
by the synchronisation and is set aside (`CutNames`).


## 9. ETC drafts

A batch of ETC invoices is reimbursed through a draft in the OA. `EtcDrafts`
models one batch from its import to its end; *prepare inside the lock, the HTTP
call outside, finalise by comparing the version; a repeated key makes no second
draft, an unknown outcome is recovered by hand*
(`src/docs/modules/etc-tickets/README.md` line 15).

| state | stands for |
|---|---|
| `db`, `mem` | the batch in `app.etc_business_batches`; the same batch in `EtcService`'s memory, which the server's threads share |
| `att` | the attempts: where the thread of each is, and the key, submission and version it prepared |
| `flying`, `drafts` | requests that the OA may still handle; attempts whose draft it has |
| `task`, `books` | the batch's reconciliation task; entries that a request has yet to make in it |
| `waived` | history the code does not have: attempts whose fate a person has decided, by recovering, revoking, marking or deleting |

| action | in the code |
|---|---|
| `Prepare` | `prepare_business_batch_oa_draft`, with the replay and the checks of the application service before it |
| `Answer` | the answer of the OA: a draft, a refusal, or nothing that can be trusted |
| `Complete`, `Fail`, `MarkUnknown` | the second transaction, if the attempt is still the current one |
| `Replay` | the same key or the same recovery once more: only the entry in the task is repaired |
| `Adopt`, `NotCreated` | `recover_business_batch_oa_draft` with what a person found in the OA |
| `Revoke`, `Submit`, `Delete`, `Title` | the other commands on the batch; `Delete` includes the reset of a submitted one |
| `Book` | the entry in the task, in a transaction of its own; it may fail or find the task changed |
| `Import`, `Bind` | the import worker and the matcher, in processes of their own |
| `OaCreates`, `Crash`, `Reload` | the OA handles a request; the server restarts; a request reads the memory anew |

There is one server process with threads (`deploy/systemd`, one gunicorn worker),
and they take turns on the service's lock. A request first reloads the memory,
and acts later on what the memory is by then; `Reload` is therefore a step of
its own, and every command acts on any memory that the turns of others can have
left. Two kinds of save differ: those of a draft attempt write one batch if the
row has exactly the version the memory has (`Saved`), and read the memory anew
when that fails or, if the database fails once more, leave it as they had changed
it (`NotSaved`); the others write everything the memory holds unless a row is
newer (`Kept`), and when that fails leave the memory as they had changed it
(`NotKept`), as they also do when another batch in it was stale. A save whose
commit took effect although its answer was lost is `Saved` or `Kept` and then
`Crash` or `Reload`. The version that a browser may send is optional, so that no
guard rests on it.

| run | instance | question |
|---|---|---|
| `etc_batch` | two attempts, two keys, two rows of the OA, five versions | can a draft be lost, made twice or be entered in another submission; does the task tell what is so; can an old memory undo an end? |
| `etc_stale` | the same batch, two versions | do imported invoices stay on the batch? They do not (*Findings*) |

Two attempts are a late one and the current one; two keys let the second have
the first's or another. Two rows are a binding and its change. `MaxVersion`
bounds titles, bindings and the memories that a failing database leaves changed;
five is the fewest that lets a bound row meet a
reset from a memory without the binding at the same version, which is what the
comparison of bindings in `Outrun` is for (its mutant `OutrunByVersion` passes
with four). The run has no liveness: an attempt whose outcome is unknown waits
for a person, who owes nothing. A request can always begin, so deadlock is
checked.

### What is proved

`EtcDraftsProofs` proves the five properties and the type invariant for any attempts, keys, rows and
bound that satisfy `EtcDraftsAssumption`. None is inductive alone, because a
command acts on the memory and its result is what the next one starts from.
The invariant `Inductive` says of the row and of the memory alike (`Copy`) that a
draft is named with its submission (`Named`), that every live attempt, one whose
draft exists or may come and that nobody has decided about, is named or awaited
(`Covered`), that a bound batch is submitted (`Bound`), and that no attempt was
prepared under a version it has not reached (`Recent`). Besides,

* `LiveIsLast`: a live attempt was prepared after all others. Nothing can be
  prepared while it lives, because the memory then awaits its draft or names it
  and is not startable; hence `OneDraft`.
* `LiveIsSettled`: a live attempt belongs to the submission in memory, so that a
  person who decides about the batch decides about it.
* `EndIsKnown`: when the row is submitted or deleted so is the memory, for no
  other process ends a batch. With the comparison of bindings this gives
  `EndsAreFinal`.
* `OpenWrites`, `EndWrites`: what a write from memory may do to a row that has
  not, or has, ended.

The proofs do not ask how old the memory is: each part of `Copy` holds of the
row and of the memory, and survives what the import and the matcher write
(`StepImport`, `StepBind`).

### What no property covers

A revocation leaves the revoked submission in the task, and nothing clears it:
the next draft of the batch is made and saved, and the request then ends in
`reconciliation_task_oa_draft_conflict`. A batch marked as submitted whose
task could not be closed is not repaired by a repetition. After a revocation the
invoices are free, so that another batch may import and submit them before the
first prepares again; ownership across batches is not modelled. A time out while
the answer is read is no `URLError` (`etc_service.py` line 393), so that no note
is left that the outcome is unknown; the batch awaits a person all the same. The submission
batch is folded into its business batch, since the two are saved together;
titles, amounts, attachments, the manifest of an import and the cancellation of
summary relations on a reset are left out.

## Findings

Three are disagreements between a document and the code, and one is a bug of the
code; the runs that show them are expected to end in a violation.

* `queue_poison`: *limited retries* (`src/docs/modules/runtime-workers/README.md`
  line 16). The budget is compared where a handler fails, not where an expired
  lease is taken over. An event whose executor is killed each time is served
  for ever. The import queue does compare it there (`RetryBudget`).
* `queue_lost`: *an executor that lost ownership cannot commit* (same line). It
  holds for import tasks (`FactsMatchOutcome`, `SingleOwner`). For outbox events
  only the settling write is fenced; the handler's own transaction is not.
* `relation_remove`: *active overlap is refused*
  (`src/docs/modules/workbench-relations/README.md` line 13; the audit tool
  counts such a row as a blocking issue,
  `src/tests/test_audit_page_canonical_data_tool.py` line 806). The removal of a
  row from its relation locks that row only. Beside a confirmation of the other
  rows it writes the relation back that the confirmation had replaced, and both
  are active.
* `etc_stale`: *ETC business batch snapshot is stale; reload before writing*
  (the refusal in `pg/ops_tax_etc.py` line 1271). A title raises the version in
  memory and saves it all; line 1259 refuses it only if the row is newer still.
  A memory read before an import committed has, once raised, the version that
  the import gave the row, and takes the import from the batch, whose task stays
  imported. The save waits for the import's lock on the row, so the window is
  as long as that transaction. The saves of a draft attempt compare the exact
  version and are not exposed.
## Not modelled

*Parts that cannot run.* A data reset deletes facts under a recovery receipt.
At this commit none can start: `services/runtime_worker_handlers.py` and the
restore point tool pass `tax_certified_import_service` to
`SettingsDataResetService`, whose constructor has no such parameter.

*Parts that hold no state.* Account balances, batch accounting history, output
invoices, cost views and operation history are queries. Parsing of
spreadsheets, PDF and Mongo documents, SQL classification rules, HTTP routing
and the React client are data transformations or presentation; a client enters
the models as the page it has open. Object storage, heartbeats and logs carry
no decision of the modelled code. Time is not measured: a timeout is a step
that may happen whenever its timer could run out.

*Parts that hold state and are left.* The reverse batches of input invoices, the import session,
idempotency rows, splits, batches, turnover closures, reminders of the cash
ledger, settings families. The plan above orders them and PROJECT.json says of
each what it would take. Of ETC the manifest of an
import, attachments, ownership of invoices across batches, the restore tool and
the review of a reconciliation task are left. Together they are most of the
program's lines, for most of them compute, render or query; what is modelled is
chosen for its order of steps and not for its length.

*Hazards of modelled parts that no property covers.* Besides those that
PROJECT.json lists with their reason:

* the turnover supplement reads members before it locks them, and a
  confirmation takes the relations it replaces from process memory and does not
  lock the case it cancels; `RelationCommands` has the order of reads and locks
  of the command service, not of every caller;
* a transaction that locks in two rounds may deadlock with another one;
  PostgreSQL aborts one of them, which is a command that fails;
* an event of the payment status that names one row which is gone fails as a
  whole (`oa_payment_status_reconcile.py` line 56) and is given up after its
  tries: the other applications it names keep their status;
* a page permission may be revoked between the claim of an import task and its
  commit, and a session may be confirmed twice with different files;
* uploaded bytes are stored before their task is registered, and a failed
  registration has to delete them;
* a targeted refresh in retry has changed its key, so that a page asking for
  the open event by key does not find it;
* `attempt_count` of a matching scope is never reset by success, so that five
  failures years apart end it; `MatchingScopes` counts them the same way, and
  its liveness is stated under that limit.
