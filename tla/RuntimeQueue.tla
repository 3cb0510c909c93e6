----------------------------- MODULE RuntimeQueue -----------------------------
(***************************************************************************)
(* The outbox job.outbox_events and the workers that serve it.             *)
(*                                                                         *)
(* A request inserts an event or joins one that is already there.  A       *)
(* worker claims an event under a lease, runs its handler, whose business  *)
(* transaction commits on its own, and then settles the event: done,       *)
(* waiting again, failed, dead lettered.  Every settling write compares    *)
(* the worker id.  Nothing renews a lease.  Operators requeue, release,    *)
(* resolve and prune events.                                               *)
(*                                                                         *)
(* Sources: services/runtime_queue.py, services/runtime_worker.py,         *)
(* services/oa_projection_sync.py, tools/runtime_queue_ops.py.             *)
(***************************************************************************)
EXTENDS Integers, FiniteSets

CONSTANTS
    MaxEvents,    \* bound: events ever inserted; ids follow created_at
    Workers,      \* worker ids, one process each
    NoWorker,     \* locked_by is null
    Kinds,        \* the kinds of request that are made
    Handled,      \* kinds a handler is registered for
    MaxAttempts,  \* max_attempts of the worker configuration
    MaxParts,     \* bound: attachments a handler may have to wait for
    MaxFaults,    \* bound: crashes, shutdowns, leases lost by a live process
    MaxOperator   \* bound: operator commands

ASSUME RuntimeQueueAssumption ==
    /\ MaxEvents \in Nat \ {0}
    /\ NoWorker \notin Workers
    /\ Kinds \subseteq {"sync", "refresh", "targeted", "cleanup"}
    /\ Handled \subseteq Kinds
    /\ MaxAttempts \in Nat \ {0}
    /\ MaxParts \in Nat
    /\ MaxFaults \in Nat
    /\ MaxOperator \in Nat

Events == 1 .. MaxEvents

VARIABLES
    event,     \* the rows
    exec,      \* what each worker process has in hand
    unparsed,  \* attachments an event still has to wait for
    served,    \* the handler's business transaction has committed
    claims,    \* times an event was claimed (history)
    spent,     \* tries that ended in failure or were lost (history)
    faults,    \* faults so far
    operator   \* operator commands so far

vars == <<event, exec, unparsed, served, claims, spent, faults, operator>>

-----------------------------------------------------------------------------
(* Rows *)

\* sync: the scheduled oa.sync of a scope.  refresh: an unscheduled oa.sync of
\* the scope after a version change.  targeted: an event with a key of its own
\* and high priority (attachments, payment status).  cleanup: no dedupe key.
Kind == {"sync", "refresh", "targeted", "cleanup"}

Status == {"absent", "pending", "processing", "done", "failed",
           "dead_lettered", "pruned"}

\* key: the request's dedupe key, or runtime.retry:<id>, or null.  lease:
\* locked_at against lock_timeout_seconds.  conflict: last_error is an OA
\* source identity error.  manual, superseded, dismissed: the operator's mark
\* in raw_payload.
Row == [status : Status, kind : Kind, key : {"request", "retry", "null"},
        attempts : Nat, owner : Workers \cup {NoWorker},
        lease : {"none", "held", "expired"}, conflict : BOOLEAN,
        manual : BOOLEAN, superseded : BOOLEAN, dismissed : BOOLEAN]

Process == [pc : {"idle", "running", "committed"}, event : Events, claim : Nat]

IdleProcess == [pc |-> "idle", event |-> 1, claim |-> 0]

AbsentRow ==
    [status |-> "absent", kind |-> "sync", key |-> "null", attempts |-> 0,
     owner |-> NoWorker, lease |-> "none", conflict |-> FALSE, manual |-> FALSE,
     superseded |-> FALSE, dismissed |-> FALSE]

NewRow(kind) ==
    [AbsentRow EXCEPT !.status = "pending", !.kind = kind,
                      !.key = IF kind = "cleanup" THEN "null" ELSE "request"]

Init ==
    /\ event = [e \in Events |-> AbsentRow]
    /\ exec = [w \in Workers |-> IdleProcess]
    /\ unparsed = [e \in Events |-> MaxParts]
    /\ served = [e \in Events |-> FALSE]
    /\ claims = [e \in Events |-> 0]
    /\ spent = [e \in Events |-> 0]
    /\ faults = 0
    /\ operator = 0

-----------------------------------------------------------------------------
(* Requests *)

\* The unique index on (tenant_id, dedupe_key) where status = 'pending'.
SameKey(e, f) ==
    /\ event[e].key = "request" /\ event[f].key = "request"
    /\ event[e].kind = event[f].kind

\* Mutant: only the transport key is looked up, so a retried or running sync
\* and one parked on an identity conflict are not found.
StandingByKey(e) == event[e].status = "pending" /\ event[e].key = "request"

\* An unfinished sync of the scope: queued or running whatever its key, or
\* parked on an identity conflict until somebody resolves it.
Standing(e) ==
    \/ event[e].status \in {"pending", "processing"}
    \/ event[e].status \in {"failed", "dead_lettered"} /\ event[e].conflict

\* Kinds whose payload names no operation.
ScopeSync == {"sync", "refresh"}

\* The event a request joins instead of inserting its own.
Joins(kind, e) ==
    IF kind = "sync"
    THEN event[e].kind \in ScopeSync /\ Standing(e)
    ELSE /\ event[e].status = "pending"
         /\ event[e].key = "request"
         /\ event[e].kind = kind

\* enqueue_in_transaction.  A request that joins an event changes nothing.
Enqueue(kind) ==
    /\ \A e \in Events : ~Joins(kind, e)
    /\ \E e \in Events :
         /\ event[e].status = "absent"
         /\ \A f \in 1 .. e - 1 : event[f].status # "absent"
         /\ event' = [event EXCEPT ![e] = NewRow(kind)]
    /\ UNCHANGED <<exec, unparsed, served, claims, spent, faults, operator>>

-----------------------------------------------------------------------------
(* The worker *)

Waiting(e) == event[e].status = "pending"
Expired(e) == event[e].status = "processing" /\ event[e].lease = "expired"

\* Mutant: an event whose worker died is never taken over.
ClaimableOnce(e) == Waiting(e)

Claimable(e) == Waiting(e) \/ Expired(e)

\* Targeted requests are enqueued with high priority, cleanups too.
High(e) == event[e].kind \in {"targeted", "cleanup"}

Claimed(row, w) ==
    [row EXCEPT !.status = "processing", !.attempts = @ + 1, !.owner = w,
                !.lease = "held"]

\* claim_next: the due event of highest priority; among equals the order of
\* available_at is left open.  Taking an expired lease over uses up the try
\* that was lost.
Claim(w) ==
    /\ exec[w].pc = "idle"
    /\ \E e \in Events :
         /\ Claimable(e)
         /\ High(e) \/ \A f \in Events : Claimable(f) => ~High(f)
         /\ event' = [event EXCEPT ![e] = Claimed(@, w)]
         /\ exec' = [exec EXCEPT ![w] =
              [pc |-> "running", event |-> e, claim |-> claims[e] + 1]]
         /\ claims' = [claims EXCEPT ![e] = @ + 1]
         /\ spent' = [spent EXCEPT ![e] = IF Expired(e) THEN @ + 1 ELSE @]
    /\ UNCHANGED <<unparsed, served, faults, operator>>

\* Mutant: the settling write forgets whose claim it ends.
PassesAnyOwner(w) == event[exec[w].event].status = "processing"

\* Mutant: the settling write matches the event by id alone.
PassesUnchecked(w) == TRUE

\* The where clause of every write that settles an event.
Passes(w) ==
    /\ event[exec[w].event].status = "processing"
    /\ event[exec[w].event].owner = w

\* The event leaves the worker's hands, whichever way.
Freed(row, status) ==
    [row EXCEPT !.status = status, !.owner = NoWorker, !.lease = "none"]

\* Mutant: the event waits for its retry under the key of the request.
RetryingUnderItsKey(row) == Freed(row, "pending")

Retrying(row) == [Freed(row, "pending") EXCEPT !.key = "retry"]

\* Mutant: a release is counted as a try.
ReleasedForAPrice(row) == Retrying(row)

\* release_event: attempts = greatest(attempts - 1, 0)
Released(row) ==
    [Retrying(row) EXCEPT !.attempts = IF @ > 0 THEN @ - 1 ELSE 0]

\* fail_event, retryable.
Failed(row) ==
    [Retrying(row) EXCEPT
        !.status = IF row.attempts >= MaxAttempts THEN "dead_lettered" ELSE @,
        !.conflict = FALSE]

\* fail_event, not retryable, and fail(retry=False).
Refused(row, conflict) == [Freed(row, "failed") EXCEPT !.conflict = conflict]

\* The worker's last write for the event in hand.  When it matches no row the
\* process raises and exits; systemd starts it again, idle.
Settle(w, row, price) ==
    LET e == exec[w].event
    IN  /\ event' = IF Passes(w) THEN [event EXCEPT ![e] = row] ELSE event
        /\ spent' = IF Passes(w) THEN [spent EXCEPT ![e] = @ + price] ELSE spent
        /\ exec' = [exec EXCEPT ![w] = IdleProcess]

InHand(w) == event[exec[w].event]

\* No handler is registered for the event's type.
Refuse(w) ==
    /\ exec[w].pc = "running"
    /\ InHand(w).kind \notin Handled
    /\ Settle(w, Refused(InHand(w), FALSE), 1)
    /\ UNCHANGED <<unparsed, served, claims, faults, operator>>

Committed(process) == [process EXCEPT !.pc = "committed"]

\* The handler commits its business transaction; no claim is compared.
Commit(w) ==
    /\ exec[w].pc = "running"
    /\ InHand(w).kind \in Handled
    /\ served' = [served EXCEPT ![exec[w].event] = TRUE]
    /\ exec' = [exec EXCEPT ![w] = Committed(@)]
    /\ UNCHANGED <<event, unparsed, claims, spent, faults, operator>>

\* The handler returned a result that is not "deferred".
Ack(w) ==
    /\ exec[w].pc = "committed"
    /\ Settle(w, Freed(InHand(w), "done"), 0)
    /\ UNCHANGED <<unparsed, served, claims, faults, operator>>

\* The handler raised, before or after its commit, or ran out of time.
Fail(w) ==
    /\ exec[w].pc \in {"running", "committed"}
    /\ InHand(w).kind \in Handled
    /\ Settle(w, Failed(InHand(w)), 1)
    /\ UNCHANGED <<unparsed, served, claims, faults, operator>>

\* The OA source disagrees with a stored identity: never retried.
Conflict(w) ==
    /\ exec[w].pc = "running"
    /\ InHand(w).kind \in Handled
    /\ InHand(w).kind # "cleanup"
    /\ Settle(w, Refused(InHand(w), TRUE), 1)
    /\ UNCHANGED <<unparsed, served, claims, faults, operator>>

\* Mutant: a deferred result that made no headway is accepted.
HeadwayOrNot(e) == 0 .. unparsed[e]

\* OAAttachmentPreparationPending is raised after at least one attachment.
Headway(e) == 1 .. unparsed[e]

\* Mutant: a deferred result is acknowledged like any other.
DeferredAck(row) == Freed(row, "done")

Deferred(row) == Released(row)

\* The handler returned status "deferred": attachments are not ready yet.
Defer(w) ==
    LET e == exec[w].event
    IN  /\ exec[w].pc = "running"
        /\ InHand(w).kind \in Handled
        /\ InHand(w).kind # "cleanup"
        /\ \E parts \in Headway(e) : unparsed' = [unparsed EXCEPT ![e] = @ - parts]
        /\ Settle(w, Deferred(InHand(w)), 0)
        /\ UNCHANGED <<served, claims, faults, operator>>

\* One more crash, shutdown or lease lost by a live process.
Fault ==
    /\ faults < MaxFaults
    /\ faults' = faults + 1

\* SIGTERM while the handler runs: release_event, then the process ends.
Shutdown(w) ==
    /\ exec[w].pc \in {"running", "committed"}
    /\ Settle(w, Released(InHand(w)), 0)
    /\ Fault
    /\ UNCHANGED <<unparsed, served, claims, operator>>

\* SIGKILL, power, a lost database: the row keeps its owner and its lease.
Crash(w) ==
    /\ exec[w].pc # "idle"
    /\ exec' = [exec EXCEPT ![w] = IdleProcess]
    /\ Fault
    /\ UNCHANGED <<event, unparsed, served, claims, spent, operator>>

Overdue(row) == [row EXCEPT !.lease = "expired"]

\* lock_timeout_seconds pass; the process may be dead, or slow.
LeaseExpires(e) ==
    /\ event[e].status = "processing"
    /\ event[e].lease = "held"
    /\ event' = [event EXCEPT ![e] = Overdue(@)]
    /\ IF \E w \in Workers : exec[w].pc # "idle" /\ exec[w].event = e /\ Passes(w)
       THEN Fault
       ELSE UNCHANGED faults
    /\ UNCHANGED <<exec, unparsed, served, claims, spent, operator>>

-----------------------------------------------------------------------------
(* Operators *)

Operate ==
    /\ operator < MaxOperator
    /\ operator' = operator + 1

Requeued(row) ==
    [Retrying(row) EXCEPT !.attempts = 0, !.conflict = FALSE, !.manual = TRUE]

\* requeue_event
Requeue(e) ==
    /\ event[e].status \in {"failed", "dead_lettered", "pending"}
    /\ event' = [event EXCEPT ![e] = Requeued(@)]
    /\ spent' = [spent EXCEPT ![e] = 0]
    /\ Operate
    /\ UNCHANGED <<exec, unparsed, served, claims, faults>>

\* Mutant: another waiting event with the key is not looked for.
ReleasableByAge(e) == Expired(e)

\* The newest expired event of its key, and none of that key is waiting.
Releasable(e) ==
    /\ Expired(e)
    /\ \A f \in Events :
         SameKey(e, f) => ~Waiting(f) /\ (Expired(f) => f <= e)

GivenBack(row) ==
    [Freed(row, "pending") EXCEPT !.attempts = IF @ > 0 THEN @ - 1 ELSE 0]

\* release_stale_processing_events, one of the rows it takes: the key stays
\* the request's, the lost try is given back.
ReleaseStale(e) ==
    /\ Releasable(e)
    /\ event' = [event EXCEPT ![e] = GivenBack(@)]
    /\ Operate
    /\ UNCHANGED <<exec, unparsed, served, claims, spent, faults>>

\* Mutant: any other event with the key will do, older ones included.
CoverOfAnyAge(e, f) ==
    /\ SameKey(e, f)
    /\ f # e
    /\ event[f].status \in {"pending", "processing", "done"}

\* A later request of the same key that is waiting, running or done.
Cover(e, f) ==
    /\ SameKey(e, f)
    /\ f > e
    /\ event[f].status \in {"pending", "processing", "done"}

Covered(row) == [Freed(row, "done") EXCEPT !.superseded = TRUE]

\* resolve_superseded_processing_events, one of the rows it takes.
ResolveSuperseded(e) ==
    /\ Expired(e)
    /\ \E f \in Events : Cover(e, f)
    /\ event' = [event EXCEPT ![e] = Covered(@)]
    /\ Operate
    /\ UNCHANGED <<exec, unparsed, served, claims, spent, faults>>

Dismissed(row) == [Freed(row, "done") EXCEPT !.dismissed = TRUE]

\* resolve_dead_letter_event
ResolveDeadLetter(e) ==
    /\ event[e].status = "dead_lettered"
    /\ event' = [event EXCEPT ![e] = Dismissed(@)]
    /\ Operate
    /\ UNCHANGED <<exec, unparsed, served, claims, spent, faults>>

\* cleanup events are of another event type than the rest.
SameType(e, f) == (event[e].kind = "cleanup") = (event[f].kind = "cleanup")

\* prune_runtime_queue_history: old done events, unless one of their type and
\* scope has failed.
Prune(e) ==
    /\ event[e].status = "done"
    /\ \A f \in Events :
         SameType(e, f) => event[f].status \notin {"failed", "dead_lettered"}
    /\ event' = [event EXCEPT ![e] = Freed(@, "pruned")]
    /\ Operate
    /\ UNCHANGED <<exec, unparsed, served, claims, spent, faults>>

-----------------------------------------------------------------------------
Execute(w) ==
    Refuse(w) \/ Commit(w) \/ Ack(w) \/ Fail(w) \/ Conflict(w) \/ Defer(w)

OperatorNext(e) ==
    \/ Requeue(e) \/ ReleaseStale(e) \/ ResolveSuperseded(e)
    \/ ResolveDeadLetter(e) \/ Prune(e)

Next ==
    \/ \E kind \in Kinds : Enqueue(kind)
    \/ \E w \in Workers : Claim(w) \/ Execute(w) \/ Shutdown(w) \/ Crash(w)
    \/ \E e \in Events : LeaseExpires(e) \/ OperatorNext(e)

Spec == Init /\ [][Next]_vars

\* run_forever keeps polling, SIGALRM ends a handler that does not return,
\* and a lease runs out by itself.
FairSpec ==
    /\ Spec
    /\ \A w \in Workers : WF_vars(Claim(w)) /\ WF_vars(Execute(w))
    /\ \A e \in Events : WF_vars(LeaseExpires(e))

-----------------------------------------------------------------------------
(* Properties *)

Busy(w) == exec[w].pc # "idle"

TypeOK ==
    /\ event \in [Events -> Row]
    /\ exec \in [Workers -> Process]
    /\ unparsed \in [Events -> 0 .. MaxParts]
    /\ served \in [Events -> BOOLEAN]
    /\ claims \in [Events -> Nat]
    /\ spent \in [Events -> Nat]
    /\ faults \in 0 .. MaxFaults
    /\ operator \in 0 .. MaxOperator

\* A worker whose settling write matches holds the latest claim: comparing the
\* worker id is as good as comparing a claim number, because an id never has
\* two processes and a process never has two events.
FenceIsExact ==
    \A w \in Workers : Busy(w) /\ Passes(w) => exec[w].claim = claims[exec[w].event]

\* An event that is done, and that no operator waved through, was served: its
\* handler's transaction committed.
DoneMeansServed ==
    \A e \in Events :
        /\ event[e].status \in {"done", "pruned"}
        /\ ~event[e].superseded /\ ~event[e].dismissed
        => served[e]

\* attempts counts the tries that failed or were lost since the last manual
\* requeue, and the one in progress: a shutdown, a deferral or an operator's
\* release brings no event closer to the dead letter.
AttemptsAreTries ==
    \A e \in Events :
        LET row == event[e]
        IN  /\ row.status = "pending" => row.attempts = spent[e]
            /\ row.status = "processing" => row.attempts = spent[e] + 1
            /\ row.status = "dead_lettered" => spent[e] >= MaxAttempts

\* The timer does not pile up syncs of one scope: once a later one was
\* inserted, an older one that is queued, running or parked on an identity
\* conflict was revived by hand.
NoPileUp ==
    \A e, f \in Events :
        /\ e < f
        /\ event[e].kind \in ScopeSync /\ Standing(e)
        /\ event[f].kind = "sync" /\ event[f].status # "absent"
        => event[e].manual

\* No write runs into the unique index on waiting events.
PendingKeysUnique ==
    \A e, f \in Events :
        Waiting(e) /\ Waiting(f) /\ SameKey(e, f) => e = f

\* A request that was resolved as superseded has a later one of its kind that
\* was not: open, visibly failed, served, or dismissed by hand.
SupersededIsAnswered ==
    \A e \in Events : event[e].superseded =>
        \E f \in Events :
            /\ f > e
            /\ event[f].kind = event[e].kind
            /\ event[f].status # "absent"
            /\ ~event[f].superseded

\* Work on one event is bounded: every claim is one of MaxAttempts tries that
\* it may take after its insertion and after each operator command, or the
\* consequence of a fault, or it made headway with the attachments.
WorkIsBounded ==
    \A e \in Events :
        claims[e] <= MaxAttempts * (operator + 1) + faults + MaxParts - unparsed[e]

\* A settled event is only touched by operators: a worker that lost it, and
\* comes back, changes nothing.
SettledIsSettled ==
    [][\A e \in Events :
         /\ event[e].status \in {"done", "failed", "dead_lettered", "pruned"}
         /\ event'[e] # event[e]
         => operator' = operator + 1]_vars

\* Every event comes to rest once faults and operators leave it alone.
Rest == {"done", "failed", "dead_lettered", "pruned"}
EventComesToRest ==
    \A e \in Events :
        event[e].status \in {"pending", "processing"} ~> event[e].status \in Rest

\* What docs/modules/runtime-workers/README.md says of retries: they are
\* limited.  claim_next takes an expired lease over whatever attempts says.
AttemptsBounded == \A e \in Events : event[e].attempts <= MaxAttempts

\* What docs/modules/runtime-workers/README.md says of an executor that lost
\* its event: it cannot commit.
OwnerCommits ==
    [][\A w \in Workers :
         exec[w].pc = "running" /\ exec'[w].pc = "committed" => Passes(w)]_vars

-----------------------------------------------------------------------------
(* The inductive invariant behind the safety properties *)

\* Rows are inserted in the order of their ids, blank until then.
InsertedInOrder ==
    \A e \in Events :
        event[e].status = "absent" =>
            /\ ~event[e].superseded /\ ~event[e].manual /\ spent[e] = 0
            /\ \A f \in Events : e < f => event[f].status = "absent"

CommittedIsServed ==
    \A w \in Workers : exec[w].pc = "committed" => served[exec[w].event]

\* The mark is only put on a row that leaves the queue.
SupersededIsOver ==
    \A e \in Events : event[e].superseded => event[e].status \in {"done", "pruned"}

Inductive ==
    /\ TypeOK
    /\ FenceIsExact
    /\ DoneMeansServed
    /\ AttemptsAreTries
    /\ NoPileUp
    /\ PendingKeysUnique
    /\ SupersededIsAnswered
    /\ InsertedInOrder
    /\ CommittedIsServed
    /\ SupersededIsOver

=============================================================================
