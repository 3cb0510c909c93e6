------------------------------ MODULE ImportJobs ------------------------------
(***************************************************************************)
(* The durable import queue, job.import_jobs: one row per import task.     *)
(*                                                                         *)
(* Three parties change a row.  Executors (processes of the import worker) *)
(* claim it under a lease, work outside any transaction, and write their   *)
(* result in one transaction that first proves the claim still stands.     *)
(* People confirm, retry, re-prepare, cancel, close and discard it from a  *)
(* page they loaded earlier, so every such command carries the row version *)
(* that was on the page.  Time expires leases and processes crash.         *)
(*                                                                         *)
(* Sources: services/import_job_queue.py, services/import_workflow_service *)
(* .py, services/shared_import_processor.py,                               *)
(* postgres_repositories/import_job_operations.py.                         *)
(***************************************************************************)
EXTENDS Integers, Sequences

CONSTANTS
    Jobs,            \* rows that may be created, one per idempotency key
    ManualJobs,      \* those of type oa_manual_import.create: commit stage only
    Executors,       \* worker processes, old incarnations included
    Workers,         \* worker ids, the values of locked_by
    WorkerOf,        \* the worker id an executor was started with
    NoWorker,        \* locked_by is null
    Users,           \* people with the page open
    MaxAttempts,     \* max_attempts of a row
    MaxAttachments,  \* bound: attachments a manual import has to parse
    MaxCommands      \* bound: accepted confirm, retry and re-prepare commands

ASSUME ImportJobsAssumption ==
    /\ ManualJobs \subseteq Jobs
    /\ WorkerOf \in [Executors -> Workers]
    /\ NoWorker \notin Workers
    /\ MaxAttempts \in Nat \ {0}
    /\ MaxAttachments \in Nat
    /\ MaxCommands \in Nat

VARIABLES
    job,         \* the rows
    preview,     \* number of the preview persisted with the session; 0: none
    confirmed,   \* number of the preview the person who confirmed had on screen
    facts,       \* the previews whose business facts were written, in order
    attachments, \* attachments a manual import still has to parse
    exec,        \* what each executor holds in memory
    seen,        \* the page each user has open
    authorized,  \* the actor still has the page in app_settings
    commands     \* accepted commands so far

vars == <<job, preview, confirmed, facts, attachments, exec, seen,
          authorized, commands>>

-----------------------------------------------------------------------------
(* Rows and local states *)

Stage == {"prepare", "commit"}
Status == {"absent", "pending", "processing", "awaiting_confirmation",
           "needs_review", "succeeded", "failed", "canceled"}
Lease == {"none", "held", "expired"}

\* The columns of a row the queue reads.  lease abstracts locked_at: null,
\* younger than the lock timeout, older.  disposed: result_payload ? 'disposition'.
Row == [status : Status, stage : Stage, version : Nat, claim : Nat,
        attempts : Nat, owner : Workers \cup {NoWorker}, lease : Lease,
        disposed : BOOLEAN, acked : BOOLEAN]

\* The ImportJob snapshot a processor runs with, and where the process is:
\* claimed (session not read yet), loaded, settling (processor has returned).
Process == [pc : {"idle", "claimed", "loaded", "settling"}, job : Jobs,
            claim : Nat, attempts : Nat, stage : Stage, plan : Nat]

Page == [job : Jobs, status : Status, version : Nat, preview : Nat]

IdleOn(j) == [pc |-> "idle", job |-> j, claim |-> 0, attempts |-> 0,
              stage |-> "prepare", plan |-> 0]

NewRow(stage) ==
    [status |-> "pending", stage |-> stage, version |-> 1, claim |-> 0,
     attempts |-> 0, owner |-> NoWorker, lease |-> "none",
     disposed |-> FALSE, acked |-> FALSE]

AbsentRow ==
    [status |-> "absent", stage |-> "prepare", version |-> 0, claim |-> 0,
     attempts |-> 0, owner |-> NoWorker, lease |-> "none",
     disposed |-> FALSE, acked |-> FALSE]

Init ==
    /\ job = [j \in Jobs |-> AbsentRow]
    /\ preview = [j \in Jobs |-> 0]
    /\ confirmed = [j \in Jobs |-> 0]
    /\ facts = [j \in Jobs |-> <<>>]
    /\ attachments = [j \in Jobs |-> IF j \in ManualJobs THEN MaxAttachments ELSE 0]
    /\ \E j \in Jobs :
         /\ exec = [e \in Executors |-> IdleOn(j)]
         /\ seen = [u \in Users |-> [job |-> j, status |-> "absent", version |-> 0,
                                     preview |-> 0]]
    /\ authorized = TRUE
    /\ commands = 0

-----------------------------------------------------------------------------
(* Registration *)

\* create_or_get_job: the first request with a key inserts the row, the
\* next ones get it back unchanged.  File uploads register a prepare task;
\* a reviewed session (manual input, or a preview made before this queue
\* existed) enters the commit stage directly, confirmed by the same request.
Register(j) ==
    /\ job[j].status = "absent"
    /\ \/ /\ j \notin ManualJobs
          /\ job' = [job EXCEPT ![j] = NewRow("prepare")]
          /\ UNCHANGED <<preview, confirmed>>
       \/ /\ job' = [job EXCEPT ![j] = NewRow("commit")]
          /\ preview' = [preview EXCEPT ![j] = 1]
          /\ confirmed' = [confirmed EXCEPT ![j] = 1]
    /\ UNCHANGED <<facts, attachments, exec, seen, authorized, commands>>

-----------------------------------------------------------------------------
(* The worker *)

Expired(j) == job[j].status = "processing" /\ job[j].lease = "expired"

\* Mutant: only waiting rows are swept, a crashed final attempt is not.
ExhaustedWaiting(j) == job[j].attempts >= MaxAttempts /\ job[j].status = "pending"

Exhausted(j) ==
    /\ job[j].attempts >= MaxAttempts
    /\ job[j].status = "pending" \/ Expired(j)

\* Mutant: the claim forgets the retry budget.
ClaimableForever(j) == job[j].status = "pending" \/ Expired(j)

Claimable(j) ==
    /\ job[j].attempts < MaxAttempts
    /\ job[j].status = "pending" \/ Expired(j)

\* Mutant: the result write does not count as a new version of the row.
FinishedSilently(row, status) ==
    [row EXCEPT !.status = status, !.owner = NoWorker, !.lease = "none"]

\* The claim ends: the status is written and the lock columns are cleared.
Finished(row, status) ==
    [row EXCEPT !.status = status, !.owner = NoWorker, !.lease = "none",
                !.version = @ + 1]

\* The rows after the first statement of claim_next: a crashed final attempt
\* becomes visibly failed.
Swept == [j \in Jobs |-> IF Exhausted(j) THEN Finished(job[j], "failed") ELSE job[j]]

Claimed(row, e) ==
    [row EXCEPT !.status = "processing", !.attempts = @ + 1, !.claim = @ + 1,
                !.version = @ + 1, !.owner = WorkerOf[e], !.lease = "held"]

\* claim_next: sweep, then take one due row (which one is left open; the code
\* orders them by priority and age).
ClaimNext(e) ==
    /\ exec[e].pc = "idle"
    /\ \/ \E j \in Jobs :
            /\ Claimable(j)
            /\ job' = [Swept EXCEPT ![j] = Claimed(job[j], e)]
            /\ exec' = [exec EXCEPT ![e] =
                 [pc |-> "claimed", job |-> j, claim |-> job[j].claim + 1,
                  attempts |-> job[j].attempts + 1, stage |-> job[j].stage, plan |-> 0]]
       \/ /\ \A j \in Jobs : ~Claimable(j)
          /\ \E j \in Jobs : Exhausted(j)
          /\ job' = Swept
          /\ UNCHANGED exec
    /\ UNCHANGED <<preview, confirmed, facts, attachments, seen, authorized, commands>>

\* Mutant: the fence compares the worker id and not the claim.
OwnsByWorkerId(e) ==
    LET row == job[exec[e].job]
    IN  row.status = "processing" /\ row.owner = WorkerOf[e]

\* Mutant: results are written without a fence.
OwnsUnchecked(e) == TRUE

\* The where clause every write of an executor carries.
Owns(e) ==
    LET row == job[exec[e].job]
    IN  /\ row.status = "processing"
        /\ row.owner = WorkerOf[e]
        /\ row.claim = exec[e].claim

Returned(process) == [process EXCEPT !.pc = "settling"]
Settling(e) == exec' = [exec EXCEPT ![e] = Returned(@)]
Idle(e) == exec' = [exec EXCEPT ![e] = IdleOn(exec[e].job)]

Loaded(process, plan) == [process EXCEPT !.pc = "loaded", !.plan = plan]

\* The processor reads the durable session, preview included, in a
\* transaction of its own.
LoadSession(e) ==
    /\ exec[e].pc = "claimed"
    /\ exec' = [exec EXCEPT ![e] = Loaded(@, preview[exec[e].job])]
    /\ UNCHANGED <<job, preview, confirmed, facts, attachments, seen, authorized, commands>>

Leased(row, lease) == [row EXCEPT !.lease = lease]

\* The renewal thread, alive from the claim until the processor is settled.
Renew(e) ==
    /\ exec[e].pc \in {"claimed", "loaded", "settling"}
    /\ Owns(e)
    /\ job' = [job EXCEPT ![exec[e].job] = Leased(@, "held")]
    /\ UNCHANGED <<preview, confirmed, facts, attachments, exec, seen, authorized, commands>>

\* ImportJobCompletion.lock: the claim row is locked and the actor's
\* authorization read in the transaction that writes the result.
CompletionLock(e) == Owns(e) /\ authorized

\* A prepare attempt persists its preview and its outcome together;
\* "succeeded" is the no_changes outcome of an upload of known rows.
FinishPrepare(e) ==
    LET j == exec[e].job
    IN  /\ exec[e].pc = "loaded"
        /\ exec[e].stage = "prepare"
        /\ CompletionLock(e)
        /\ \E status \in {"awaiting_confirmation", "needs_review", "succeeded"} :
             job' = [job EXCEPT ![j] = Finished(@, status)]
        /\ preview' = [preview EXCEPT ![j] = @ + 1]
        /\ Settling(e)
        /\ UNCHANGED <<confirmed, facts, attachments, seen, authorized, commands>>

\* A commit attempt writes business facts and its outcome together.  A manual
\* import none of whose records can be imported finishes as failed.
FinishCommit(e) ==
    LET j == exec[e].job
    IN  /\ exec[e].pc = "loaded"
        /\ exec[e].stage = "commit"
        /\ CompletionLock(e)
        /\ \/ /\ job' = [job EXCEPT ![j] = Finished(@, "succeeded")]
              /\ facts' = [facts EXCEPT ![j] = Append(@, exec[e].plan)]
           \/ /\ j \in ManualJobs
              /\ job' = [job EXCEPT ![j] = Finished(@, "failed")]
              /\ UNCHANGED facts
        /\ Settling(e)
        /\ UNCHANGED <<preview, confirmed, attachments, seen, authorized, commands>>

\* fail_claim: the retry budget is judged on the claimed snapshot, the write
\* is fenced, and a lost claim makes it a no-op.
FailClaim(e, retry) ==
    job' = IF Owns(e)
           THEN [job EXCEPT ![exec[e].job] =
                   Finished(@, IF retry /\ exec[e].attempts < MaxAttempts
                               THEN "pending" ELSE "failed")]
           ELSE job

\* The processor raises: an unknown type, a lost lease, a revoked
\* authorization or bad data (never retried), a transient error, the task
\* timeout or a shutdown request (retried).
Abort(e) ==
    /\ exec[e].pc \in {"claimed", "loaded"}
    /\ \E retry \in BOOLEAN : FailClaim(e, retry)
    /\ Idle(e)
    /\ UNCHANGED <<preview, confirmed, facts, attachments, seen, authorized, commands>>

\* require_review: the preview no longer describes the stored facts.
RequireReview(e) ==
    /\ exec[e].pc = "loaded"
    /\ job' = IF Owns(e)
              THEN [job EXCEPT ![exec[e].job] = Finished(@, "needs_review")]
              ELSE job
    /\ Idle(e)
    /\ UNCHANGED <<preview, confirmed, facts, attachments, seen, authorized, commands>>

\* parsed_count: deferring is legal only with progress.
Progress(j) == 1 .. attachments[j]

Deferred(row) ==
    [row EXCEPT !.status = "pending", !.attempts = @ - 1, !.owner = NoWorker,
                !.lease = "none", !.version = @ + 1]

\* defer_attachment_preparation: an attempt that parsed some attachments but
\* not all gives its claim back without spending the attempt.
DeferAttachments(e) ==
    LET j == exec[e].job
    IN  /\ exec[e].pc = "loaded"
        /\ j \in ManualJobs
        /\ \E parsed \in Progress(j) :
             attachments' = [attachments EXCEPT ![j] = @ - parsed]
        /\ job' = IF Owns(e) THEN [job EXCEPT ![j] = Deferred(@)] ELSE job
        /\ Idle(e)
        /\ UNCHANGED <<preview, confirmed, facts, seen, authorized, commands>>

\* process_claimed_job reads the row again.  A status that is not a result
\* (a person, or another executor, has already moved the row on) raises and
\* takes the fail_claim path, not transient.
Settle(e) ==
    /\ exec[e].pc = "settling"
    /\ IF job[exec[e].job].status \in {"failed", "succeeded", "awaiting_confirmation",
                                       "needs_review"}
       THEN UNCHANGED job
       ELSE FailClaim(e, FALSE)
    /\ Idle(e)
    /\ UNCHANGED <<preview, confirmed, facts, attachments, seen, authorized, commands>>

\* SIGKILL, power, a lost database: memory is gone, the row keeps its lease.
\* A replacement with the same worker id starts idle.
Crash(e) ==
    /\ exec[e].pc # "idle"
    /\ Idle(e)
    /\ UNCHANGED <<job, preview, confirmed, facts, attachments, seen, authorized, commands>>

\* lock_timeout_seconds pass without a renewal.
LeaseExpires(j) ==
    /\ job[j].status = "processing"
    /\ job[j].lease = "held"
    /\ job' = [job EXCEPT ![j] = Leased(@, "expired")]
    /\ UNCHANGED <<preview, confirmed, facts, attachments, exec, seen, authorized, commands>>

-----------------------------------------------------------------------------
(* People *)

\* A page, or a request handler before its write, reads the row.
Look(u, j) ==
    /\ job[j].status # "absent"
    /\ seen' = [seen EXCEPT ![u] =
         [job |-> j, status |-> job[j].status, version |-> job[j].version,
          preview |-> preview[j]]]
    /\ UNCHANGED <<job, preview, confirmed, facts, attachments, exec, authorized, commands>>

\* Mutant: the update matches the row by id alone.
CurrentUnchecked(u) == TRUE

\* id = ... and version = expected_version
Current(u) == job[seen[u].job].version = seen[u].version

\* Mutant: a disposed task is treated as any other.
UndisposedUnchecked(j) == TRUE

\* not (result_payload ? 'disposition')
Undisposed(j) == ~job[j].disposed

Accept ==
    /\ commands < MaxCommands
    /\ commands' = commands + 1

\* Mutant: acknowledged_at survives the requeue.
RequeuedHidden(row, stage) ==
    [row EXCEPT !.status = "pending", !.stage = stage, !.version = @ + 1,
                !.attempts = 0]

Requeued(row, stage) ==
    [row EXCEPT !.status = "pending", !.stage = stage, !.version = @ + 1,
                !.attempts = 0, !.acked = FALSE]

\* ImportWorkflowService.confirm and confirm_job.
Confirm(u) ==
    LET j == seen[u].job
    IN  /\ seen[u].status # "needs_review"
        /\ Current(u)
        /\ job[j].status \in {"awaiting_confirmation", "needs_review"}
        /\ Undisposed(j)
        /\ job' = [job EXCEPT ![j] = Requeued(@, "commit")]
        /\ confirmed' = [confirmed EXCEPT ![j] = seen[u].preview]
        /\ Accept
        /\ UNCHANGED <<preview, facts, attachments, exec, seen, authorized>>

\* ImportWorkflowService.retry and retry_job; also a second confirmation of
\* the same scope after a failure.
Retry(u) ==
    LET j == seen[u].job
    IN  /\ Current(u)
        /\ job[j].status = "failed"
        /\ Undisposed(j)
        /\ job' = [job EXCEPT ![j] = Requeued(@, job[j].stage)]
        /\ Accept
        /\ UNCHANGED <<preview, confirmed, facts, attachments, exec, seen, authorized>>

Reprepared(row) ==
    [row EXCEPT !.status = "pending", !.stage = "prepare", !.version = @ + 1,
                !.attempts = 0, !.acked = FALSE, !.claim = @ + 1]

\* revise_files, retry of a task under review, and reprepare_job.
Reprepare(u) ==
    LET j == seen[u].job
    IN  /\ j \notin ManualJobs
        /\ Current(u)
        /\ job[j].status \in {"needs_review", "awaiting_confirmation", "failed"}
        /\ Undisposed(j)
        /\ job' = [job EXCEPT ![j] = Reprepared(@)]
        /\ Accept
        /\ UNCHANGED <<preview, confirmed, facts, attachments, exec, seen, authorized>>

Parked(row) == [row EXCEPT !.status = "needs_review", !.version = @ + 1]

\* The confirm request finds the preview stale and parks the task
\* (mark_preview_needs_review); its own read supplies the version.
ParkStalePreview(u) ==
    LET j == seen[u].job
    IN  /\ Current(u)
        /\ job[j].status = "awaiting_confirmation"
        /\ job' = [job EXCEPT ![j] = Parked(@)]
        /\ UNCHANGED <<preview, confirmed, facts, attachments, exec, seen, authorized, commands>>

Canceled(row) ==
    [row EXCEPT !.status = "canceled", !.owner = NoWorker, !.lease = "none",
                !.version = @ + 1, !.claim = @ + 1]

\* discard_files and cancel_job: no version, so it may hit a running task.
Cancel(j) ==
    /\ job[j].status \in {"pending", "processing", "awaiting_confirmation",
                          "needs_review", "failed"}
    /\ Undisposed(j)
    /\ job' = [job EXCEPT ![j] = Canceled(@)]
    /\ UNCHANGED <<preview, confirmed, facts, attachments, exec, seen, authorized, commands>>

DisposedOf(row) ==
    [row EXCEPT !.status = IF @ = "needs_review" THEN "canceled" ELSE @,
                !.version = @ + 1, !.claim = @ + 1, !.acked = TRUE, !.disposed = TRUE]

\* dispose: an operator closes a failed task or discards one under review.
Dispose(u) ==
    LET j == seen[u].job
    IN  /\ j \notin ManualJobs
        /\ Undisposed(j)
        /\ Current(u)
        /\ job[j].status \in {"failed", "needs_review"}
        /\ job' = [job EXCEPT ![j] = DisposedOf(@)]
        /\ UNCHANGED <<preview, confirmed, facts, attachments, exec, seen, authorized, commands>>

Acked(row) == [row EXCEPT !.acked = TRUE]

\* acknowledge_job: the ended task leaves its owner's list.
Acknowledge(j) ==
    /\ job[j].status \in {"succeeded", "failed", "canceled"}
    /\ ~job[j].acked
    /\ job' = [job EXCEPT ![j] = Acked(@)]
    /\ UNCHANGED <<preview, confirmed, facts, attachments, exec, seen, authorized, commands>>

\* An administrator changes access control in app_settings.
ChangeAuthorization ==
    /\ authorized' = ~authorized
    /\ UNCHANGED <<job, preview, confirmed, facts, attachments, exec, seen, commands>>

-----------------------------------------------------------------------------
Execute(e) ==
    \/ LoadSession(e) \/ FinishPrepare(e) \/ FinishCommit(e) \/ Abort(e)
    \/ RequireReview(e) \/ DeferAttachments(e) \/ Settle(e)

Command(u) ==
    \/ \E j \in Jobs : Look(u, j)
    \/ Confirm(u) \/ Retry(u) \/ Reprepare(u) \/ ParkStalePreview(u) \/ Dispose(u)

Next ==
    \/ \E j \in Jobs : Register(j) \/ LeaseExpires(j) \/ Cancel(j) \/ Acknowledge(j)
    \/ \E e \in Executors : ClaimNext(e) \/ Execute(e) \/ Renew(e) \/ Crash(e)
    \/ \E u \in Users : Command(u)
    \/ ChangeAuthorization

Spec == Init /\ [][Next]_vars

\* run_forever keeps polling and SIGALRM ends every processor, so an executor
\* that does not crash takes its next step; a lease nobody renews expires.
Fairness ==
    /\ \A e \in Executors : WF_vars(ClaimNext(e)) /\ WF_vars(Execute(e))
    /\ \A j \in Jobs : WF_vars(LeaseExpires(j))

FairSpec == Spec /\ Fairness

-----------------------------------------------------------------------------
(* Properties *)

Ended == {"succeeded", "failed", "canceled"}

Busy(e) == exec[e].pc # "idle"

TypeOK ==
    /\ job \in [Jobs -> Row]
    /\ preview \in [Jobs -> Nat]
    /\ confirmed \in [Jobs -> Nat]
    /\ facts \in [Jobs -> Seq(Nat)]
    /\ attachments \in [Jobs -> 0 .. MaxAttachments]
    /\ exec \in [Executors -> Process]
    /\ seen \in [Users -> Page]
    /\ authorized \in BOOLEAN
    /\ commands \in 0 .. MaxCommands

\* Business facts exist exactly when the task says it committed, they were
\* written once, and they are those of the preview the person who confirmed
\* was looking at: whatever lease was lost, whichever process was a zombie,
\* however old the page was.
FactsMatchOutcome ==
    \A j \in Jobs :
        facts[j] = IF job[j].status = "succeeded" /\ job[j].stage = "commit"
                   THEN <<confirmed[j]>> ELSE <<>>

\* At most one process can pass the commit fence of a task, even when two
\* incarnations run under one worker id.
SingleOwner ==
    \A e, f \in Executors :
        Busy(e) /\ Busy(f) /\ exec[e].job = exec[f].job /\ Owns(e) /\ Owns(f) => e = f

\* A page that still carries the row's version shows the row's status and
\* preview: comparing versions is as good as comparing content.
VersionIdentifiesPage ==
    \A u \in Users :
        Current(u) => /\ seen[u].status = job[seen[u].job].status
                      /\ seen[u].preview = preview[seen[u].job]

\* The retry budget: no task is attempted more than max_attempts times
\* between two human commands, and a waiting task can always be claimed.
RetryBudget ==
    \A j \in Jobs :
        /\ job[j].attempts <= MaxAttempts
        /\ job[j].status = "pending" => job[j].attempts < MaxAttempts

\* A task hidden from its owner's list is over: no command that revives a
\* task leaves it acknowledged.
HiddenIsOver == \A j \in Jobs : job[j].acked => job[j].status \in Ended

\* Nothing happens to a task that succeeded, was canceled or was disposed
\* of: no status change, no facts, by any party.
EndIsFinal ==
    [][\A j \in Jobs :
         job[j].status \in {"succeeded", "canceled"} \/ job[j].disposed =>
            job'[j].status = job[j].status /\ facts'[j] = facts[j]]_vars

\* The failure path an executor may take after its processor returned never
\* touches a row, though the row may already be pending again or running
\* under another process with the same worker id.
SettleUndoesNothing ==
    [][\A e \in Executors :
         exec[e].pc = "settling" /\ exec'[e].pc = "idle" => job' = job]_vars

\* The queue keeps the promise of ImportPromise: a task that is in its commit
\* stage has accepted the preview its confirmer saw.
Promise == INSTANCE ImportPromise WITH
    Tasks <- Jobs,
    accepted <- [j \in Jobs |-> IF job[j].stage = "commit" THEN confirmed[j] ELSE 0],
    written <- facts,
    closed <- [j \in Jobs |-> job[j].status = "canceled" \/ job[j].disposed]

\* Leases, zombies, stale pages and crashes implement that promise: every
\* step of the queue is one of its steps or invisible to it.
KeepsPromise == Promise!Spec

\* Every waiting or running task comes to rest: with a person, or ended,
\* whatever crashes.
Resting == {"awaiting_confirmation", "needs_review"} \cup Ended
TaskComesToRest ==
    \A j \in Jobs :
        job[j].status \in {"pending", "processing"} ~> job[j].status \in Resting

-----------------------------------------------------------------------------
(* The inductive invariant behind the safety properties *)

\* Every claim number was given to one executor, and none to come is known yet.
ClaimsAreUnique ==
    /\ \A e \in Executors : Busy(e) => exec[e].claim <= job[exec[e].job].claim
    /\ \A e, f \in Executors :
         Busy(e) /\ Busy(f) /\ exec[e].job = exec[f].job
            /\ exec[e].claim = exec[f].claim => e = f

\* What the current claim holder remembers of its task is still true.
HolderIsCurrent ==
    \A e \in Executors :
        Busy(e) /\ Owns(e) =>
            LET j == exec[e].job
            IN  /\ exec[e].stage = job[j].stage
                /\ exec[e].attempts = job[j].attempts
                /\ exec[e].pc = "loaded" => exec[e].plan = preview[j]

\* A task in its commit stage was confirmed on the preview it has.
CommitIsConfirmed ==
    \A j \in Jobs :
        /\ job[j].stage = "commit" => confirmed[j] = preview[j]
        /\ job[j].status = "absent" =>
             /\ job[j].stage = "prepare" /\ job[j].version = 0
             /\ job[j].claim = 0 /\ preview[j] = 0
        /\ job[j].status = "processing" => job[j].attempts >= 1

PagesAreOld == \A u \in Users : seen[u].version <= job[seen[u].job].version

Inductive ==
    /\ TypeOK
    /\ RetryBudget
    /\ ClaimsAreUnique
    /\ HolderIsCurrent
    /\ CommitIsConfirmed
    /\ PagesAreOld
    /\ VersionIdentifiesPage
    /\ FactsMatchOutcome

=============================================================================
