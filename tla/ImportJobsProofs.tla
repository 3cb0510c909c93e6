--------------------------- MODULE ImportJobsProofs ---------------------------
(***************************************************************************)
(* Machine-checked proofs about ImportJobs, for any number of tasks,       *)
(* executors, worker ids and people, and any retry budget.  The inductive  *)
(* invariant is ImportJobs!Inductive.                                      *)
(***************************************************************************)
EXTENDS ImportJobs, TLAPS

(***************************************************************************)
(* Row updates: every update of a row yields a row, and says which columns *)
(* it changes.  Later proofs use these facts instead of the EXCEPTs.       *)
(***************************************************************************)

LEMMA FinishedRow ==
    ASSUME NEW row \in Row, NEW status \in Status
    PROVE  /\ Finished(row, status) \in Row
           /\ Finished(row, status).status = status
           /\ Finished(row, status).stage = row.stage
           /\ Finished(row, status).version = row.version + 1
           /\ Finished(row, status).claim = row.claim
           /\ Finished(row, status).attempts = row.attempts
           /\ Finished(row, status).owner = NoWorker
           /\ Finished(row, status).lease = "none"
           /\ Finished(row, status).disposed = row.disposed
           /\ Finished(row, status).acked = row.acked
<1> USE ImportJobsAssumption DEF Row, Status, Stage, Lease
<1> DEFINE r1 == [row EXCEPT !.status = status]
           r2 == [r1 EXCEPT !.owner = NoWorker]
           r3 == [r2 EXCEPT !.lease = "none"]
           r4 == [r3 EXCEPT !.version = row.version + 1]
<1>1. r1 \in Row
  OBVIOUS
<1>2. r2 \in Row
  <2> HIDE DEF r1
  <2> QED BY <1>1
<1>3. r3 \in Row
  <2> HIDE DEF r2
  <2> QED BY <1>2
<1>4. r4 \in Row
  <2> HIDE DEF r3
  <2> QED BY <1>3
<1>5. Finished(row, status) \in Row
  BY <1>4 DEF Finished
<1>6. QED
  BY <1>5 DEF Finished

LEMMA ClaimedRow ==
    ASSUME NEW row \in Row, NEW e \in Executors
    PROVE  /\ Claimed(row, e) \in Row
           /\ Claimed(row, e).status = "processing"
           /\ Claimed(row, e).stage = row.stage
           /\ Claimed(row, e).version = row.version + 1
           /\ Claimed(row, e).claim = row.claim + 1
           /\ Claimed(row, e).attempts = row.attempts + 1
           /\ Claimed(row, e).owner = WorkerOf[e]
           /\ Claimed(row, e).lease = "held"
           /\ Claimed(row, e).disposed = row.disposed
           /\ Claimed(row, e).acked = row.acked
<1> USE ImportJobsAssumption DEF Row, Status, Stage, Lease
<1> DEFINE r1 == [row EXCEPT !.status = "processing"]
           r2 == [r1 EXCEPT !.attempts = row.attempts + 1]
           r3 == [r2 EXCEPT !.claim = row.claim + 1]
           r4 == [r3 EXCEPT !.version = row.version + 1]
           r5 == [r4 EXCEPT !.owner = WorkerOf[e]]
           r6 == [r5 EXCEPT !.lease = "held"]
<1>1. r1 \in Row
  OBVIOUS
<1>2. r2 \in Row
  <2> HIDE DEF r1
  <2> QED BY <1>1
<1>3. r3 \in Row
  <2> HIDE DEF r2
  <2> QED BY <1>2
<1>4. r4 \in Row
  <2> HIDE DEF r3
  <2> QED BY <1>3
<1>5. r5 \in Row
  <2> HIDE DEF r4
  <2> QED BY <1>4
<1>6. r6 \in Row
  <2> HIDE DEF r5
  <2> QED BY <1>5
<1>7. Claimed(row, e) \in Row
  BY <1>6 DEF Claimed
<1>8. QED
  BY <1>7 DEF Claimed

LEMMA DeferredRow ==
    ASSUME NEW row \in Row, row.attempts >= 1
    PROVE  /\ Deferred(row) \in Row
           /\ Deferred(row).status = "pending"
           /\ Deferred(row).stage = row.stage
           /\ Deferred(row).version = row.version + 1
           /\ Deferred(row).claim = row.claim
           /\ Deferred(row).attempts = row.attempts - 1
           /\ Deferred(row).owner = NoWorker
           /\ Deferred(row).lease = "none"
           /\ Deferred(row).disposed = row.disposed
           /\ Deferred(row).acked = row.acked
<1> USE ImportJobsAssumption DEF Row, Status, Stage, Lease
<1> DEFINE r1 == [row EXCEPT !.status = "pending"]
           r2 == [r1 EXCEPT !.attempts = row.attempts - 1]
           r3 == [r2 EXCEPT !.owner = NoWorker]
           r4 == [r3 EXCEPT !.lease = "none"]
           r5 == [r4 EXCEPT !.version = row.version + 1]
<1>1. r1 \in Row
  OBVIOUS
<1>2. r2 \in Row
  <2> HIDE DEF r1
  <2> QED BY <1>1
<1>3. r3 \in Row
  <2> HIDE DEF r2
  <2> QED BY <1>2
<1>4. r4 \in Row
  <2> HIDE DEF r3
  <2> QED BY <1>3
<1>5. r5 \in Row
  <2> HIDE DEF r4
  <2> QED BY <1>4
<1>6. Deferred(row) \in Row
  BY <1>5 DEF Deferred
<1>7. QED
  BY <1>6 DEF Deferred

LEMMA RequeuedRow ==
    ASSUME NEW row \in Row, NEW stage \in Stage
    PROVE  /\ Requeued(row, stage) \in Row
           /\ Requeued(row, stage).status = "pending"
           /\ Requeued(row, stage).stage = stage
           /\ Requeued(row, stage).version = row.version + 1
           /\ Requeued(row, stage).claim = row.claim
           /\ Requeued(row, stage).attempts = 0
           /\ Requeued(row, stage).owner = row.owner
           /\ Requeued(row, stage).lease = row.lease
           /\ Requeued(row, stage).disposed = row.disposed
           /\ Requeued(row, stage).acked = FALSE
<1> USE ImportJobsAssumption DEF Row, Status, Stage, Lease
<1> DEFINE r1 == [row EXCEPT !.status = "pending"]
           r2 == [r1 EXCEPT !.stage = stage]
           r3 == [r2 EXCEPT !.version = row.version + 1]
           r4 == [r3 EXCEPT !.attempts = 0]
           r5 == [r4 EXCEPT !.acked = FALSE]
<1>1. r1 \in Row
  OBVIOUS
<1>2. r2 \in Row
  <2> HIDE DEF r1
  <2> QED BY <1>1
<1>3. r3 \in Row
  <2> HIDE DEF r2
  <2> QED BY <1>2
<1>4. r4 \in Row
  <2> HIDE DEF r3
  <2> QED BY <1>3
<1>5. r5 \in Row
  <2> HIDE DEF r4
  <2> QED BY <1>4
<1>6. Requeued(row, stage) \in Row
  BY <1>5 DEF Requeued
<1>7. QED
  BY <1>6 DEF Requeued

LEMMA RepreparedRow ==
    ASSUME NEW row \in Row
    PROVE  /\ Reprepared(row) \in Row
           /\ Reprepared(row).status = "pending"
           /\ Reprepared(row).stage = "prepare"
           /\ Reprepared(row).version = row.version + 1
           /\ Reprepared(row).claim = row.claim + 1
           /\ Reprepared(row).attempts = 0
           /\ Reprepared(row).owner = row.owner
           /\ Reprepared(row).lease = row.lease
           /\ Reprepared(row).disposed = row.disposed
           /\ Reprepared(row).acked = FALSE
<1> USE ImportJobsAssumption DEF Row, Status, Stage, Lease
<1> DEFINE r1 == [row EXCEPT !.status = "pending"]
           r2 == [r1 EXCEPT !.stage = "prepare"]
           r3 == [r2 EXCEPT !.version = row.version + 1]
           r4 == [r3 EXCEPT !.attempts = 0]
           r5 == [r4 EXCEPT !.acked = FALSE]
           r6 == [r5 EXCEPT !.claim = row.claim + 1]
<1>1. r1 \in Row
  OBVIOUS
<1>2. r2 \in Row
  <2> HIDE DEF r1
  <2> QED BY <1>1
<1>3. r3 \in Row
  <2> HIDE DEF r2
  <2> QED BY <1>2
<1>4. r4 \in Row
  <2> HIDE DEF r3
  <2> QED BY <1>3
<1>5. r5 \in Row
  <2> HIDE DEF r4
  <2> QED BY <1>4
<1>6. r6 \in Row
  <2> HIDE DEF r5
  <2> QED BY <1>5
<1>7. Reprepared(row) \in Row
  BY <1>6 DEF Reprepared
<1>8. QED
  BY <1>7 DEF Reprepared

LEMMA ParkedRow ==
    ASSUME NEW row \in Row
    PROVE  /\ Parked(row) \in Row
           /\ Parked(row).status = "needs_review"
           /\ Parked(row).stage = row.stage
           /\ Parked(row).version = row.version + 1
           /\ Parked(row).claim = row.claim
           /\ Parked(row).attempts = row.attempts
           /\ Parked(row).owner = row.owner
           /\ Parked(row).lease = row.lease
           /\ Parked(row).disposed = row.disposed
           /\ Parked(row).acked = row.acked
<1> USE ImportJobsAssumption DEF Row, Status, Stage, Lease
<1> DEFINE r1 == [row EXCEPT !.status = "needs_review"]
           r2 == [r1 EXCEPT !.version = row.version + 1]
<1>1. r1 \in Row
  OBVIOUS
<1>2. r2 \in Row
  <2> HIDE DEF r1
  <2> QED BY <1>1
<1>3. Parked(row) \in Row
  BY <1>2 DEF Parked
<1>4. QED
  BY <1>3 DEF Parked

LEMMA CanceledRow ==
    ASSUME NEW row \in Row
    PROVE  /\ Canceled(row) \in Row
           /\ Canceled(row).status = "canceled"
           /\ Canceled(row).stage = row.stage
           /\ Canceled(row).version = row.version + 1
           /\ Canceled(row).claim = row.claim + 1
           /\ Canceled(row).attempts = row.attempts
           /\ Canceled(row).owner = NoWorker
           /\ Canceled(row).lease = "none"
           /\ Canceled(row).disposed = row.disposed
           /\ Canceled(row).acked = row.acked
<1> USE ImportJobsAssumption DEF Row, Status, Stage, Lease
<1> DEFINE r1 == [row EXCEPT !.status = "canceled"]
           r2 == [r1 EXCEPT !.owner = NoWorker]
           r3 == [r2 EXCEPT !.lease = "none"]
           r4 == [r3 EXCEPT !.version = row.version + 1]
           r5 == [r4 EXCEPT !.claim = row.claim + 1]
<1>1. r1 \in Row
  OBVIOUS
<1>2. r2 \in Row
  <2> HIDE DEF r1
  <2> QED BY <1>1
<1>3. r3 \in Row
  <2> HIDE DEF r2
  <2> QED BY <1>2
<1>4. r4 \in Row
  <2> HIDE DEF r3
  <2> QED BY <1>3
<1>5. r5 \in Row
  <2> HIDE DEF r4
  <2> QED BY <1>4
<1>6. Canceled(row) \in Row
  BY <1>5 DEF Canceled
<1>7. QED
  BY <1>6 DEF Canceled

LEMMA LeasedRow ==
    ASSUME NEW row \in Row, NEW lease \in Lease
    PROVE  /\ Leased(row, lease) \in Row
           /\ Leased(row, lease).status = row.status
           /\ Leased(row, lease).stage = row.stage
           /\ Leased(row, lease).version = row.version
           /\ Leased(row, lease).claim = row.claim
           /\ Leased(row, lease).attempts = row.attempts
           /\ Leased(row, lease).owner = row.owner
           /\ Leased(row, lease).lease = lease
           /\ Leased(row, lease).disposed = row.disposed
           /\ Leased(row, lease).acked = row.acked
<1> USE ImportJobsAssumption DEF Row, Status, Stage, Lease
<1> DEFINE r1 == [row EXCEPT !.lease = lease]
<1>1. r1 \in Row
  OBVIOUS
<1>2. Leased(row, lease) \in Row
  BY <1>1 DEF Leased
<1>3. QED
  BY <1>2 DEF Leased

LEMMA AckedRow ==
    ASSUME NEW row \in Row
    PROVE  /\ Acked(row) \in Row
           /\ Acked(row).status = row.status
           /\ Acked(row).stage = row.stage
           /\ Acked(row).version = row.version
           /\ Acked(row).claim = row.claim
           /\ Acked(row).attempts = row.attempts
           /\ Acked(row).owner = row.owner
           /\ Acked(row).lease = row.lease
           /\ Acked(row).disposed = row.disposed
           /\ Acked(row).acked = TRUE
<1> USE ImportJobsAssumption DEF Row, Status, Stage, Lease
<1> DEFINE r1 == [row EXCEPT !.acked = TRUE]
<1>1. r1 \in Row
  OBVIOUS
<1>2. Acked(row) \in Row
  BY <1>1 DEF Acked
<1>3. QED
  BY <1>2 DEF Acked

LEMMA DisposedOfRow ==
    ASSUME NEW row \in Row
    PROVE  /\ DisposedOf(row) \in Row
           /\ DisposedOf(row).status = (IF row.status = "needs_review" THEN "canceled" ELSE row.status)
           /\ DisposedOf(row).stage = row.stage
           /\ DisposedOf(row).version = row.version + 1
           /\ DisposedOf(row).claim = row.claim + 1
           /\ DisposedOf(row).attempts = row.attempts
           /\ DisposedOf(row).owner = row.owner
           /\ DisposedOf(row).lease = row.lease
           /\ DisposedOf(row).disposed = TRUE
           /\ DisposedOf(row).acked = TRUE
<1> USE ImportJobsAssumption DEF Row, Status, Stage, Lease
<1> DEFINE r1 == [row EXCEPT !.status = IF row.status = "needs_review" THEN "canceled" ELSE row.status]
           r2 == [r1 EXCEPT !.version = row.version + 1]
           r3 == [r2 EXCEPT !.claim = row.claim + 1]
           r4 == [r3 EXCEPT !.acked = TRUE]
           r5 == [r4 EXCEPT !.disposed = TRUE]
<1>1. r1 \in Row
  OBVIOUS
<1>2. r2 \in Row
  <2> HIDE DEF r1
  <2> QED BY <1>1
<1>3. r3 \in Row
  <2> HIDE DEF r2
  <2> QED BY <1>2
<1>4. r4 \in Row
  <2> HIDE DEF r3
  <2> QED BY <1>3
<1>5. r5 \in Row
  <2> HIDE DEF r4
  <2> QED BY <1>4
<1>6. DisposedOf(row) \in Row
  BY <1>5 DEF DisposedOf
<1>7. QED
  BY <1>6 DEF DisposedOf
LEMMA ProcessUpdates ==
    ASSUME NEW p \in Process, NEW plan \in Nat
    PROVE  /\ Loaded(p, plan) \in Process
           /\ Loaded(p, plan).pc = "loaded" /\ Loaded(p, plan).plan = plan
           /\ Loaded(p, plan).job = p.job /\ Loaded(p, plan).claim = p.claim
           /\ Loaded(p, plan).attempts = p.attempts /\ Loaded(p, plan).stage = p.stage
           /\ Returned(p) \in Process
           /\ Returned(p).pc = "settling" /\ Returned(p).job = p.job
           /\ Returned(p).claim = p.claim
<1> USE DEF Process
<1> DEFINE loaded == [p EXCEPT !.pc = "loaded"]
<1>1. loaded \in Process
  OBVIOUS
<1>2. [loaded EXCEPT !.plan = plan] \in Process
  <2> HIDE DEF loaded
  <2> QED BY <1>1
<1>3. Loaded(p, plan) \in Process
  BY <1>2 DEF Loaded
<1>4. QED
  BY <1>3 DEF Loaded, Returned

LEMMA IdleIsProcess == ASSUME NEW j \in Jobs PROVE IdleOn(j) \in Process /\ IdleOn(j).pc = "idle"
BY DEF IdleOn, Process, Stage

(***************************************************************************)
(* Every action but a few rewrites one row, never into "processing", and   *)
(* at most sends executors idle.  Preservation is proved once for all of   *)
(* them.                                                                   *)
(***************************************************************************)
ExecutorsRest ==
    /\ exec' \in [Executors -> Process]
    /\ \A e \in Executors : exec'[e] = exec[e] \/ exec'[e].pc = "idle"

LEMMA QuietStep ==
    ASSUME Inductive, ExecutorsRest,
           job' = job, preview' = preview, confirmed' = confirmed, facts' = facts,
           seen' = seen, attachments' \in [Jobs -> 0 .. MaxAttachments],
           authorized' \in BOOLEAN, commands' \in 0 .. MaxCommands
    PROVE  Inductive'
<1>1. TypeOK'
  BY DEF Inductive, TypeOK, ExecutorsRest
<1>2. ClaimsAreUnique'
  BY DEF Inductive, ClaimsAreUnique, ExecutorsRest, Busy
<1>3. HolderIsCurrent'
  BY DEF Inductive, HolderIsCurrent, ExecutorsRest, Busy, Owns
<1>4. QED
  BY <1>1, <1>2, <1>3 DEF Inductive, RetryBudget, CommitIsConfirmed, PagesAreOld,
     VersionIdentifiesPage, Current, FactsMatchOutcome

LEMMA ReleaseStep ==
    ASSUME Inductive, ExecutorsRest,
           NEW j \in Jobs, NEW row \in Row,
           job' = [job EXCEPT ![j] = row],
           job[j].status \notin {"absent", "succeeded"},
           row.status \notin {"absent", "processing", "succeeded"},
           row.version = job[j].version + 1,
           row.claim >= job[j].claim,
           row.attempts <= MaxAttempts,
           row.status = "pending" => row.attempts < MaxAttempts,
           confirmed' \in [Jobs -> Nat],
           \A k \in Jobs : k # j => confirmed'[k] = confirmed[k],
           row.stage = "commit" => confirmed'[j] = preview[j],
           preview' = preview, facts' = facts, seen' = seen,
           attachments' \in [Jobs -> 0 .. MaxAttachments],
           authorized' \in BOOLEAN, commands' \in 0 .. MaxCommands
    PROVE  Inductive'
<1>a. /\ job'[j] = row
      /\ \A k \in Jobs : k # j => job'[k] = job[k]
      /\ \A k \in Jobs : job'[k] \in Row /\ job[k] \in Row
  BY DEF Inductive, TypeOK
<1>b. \A k \in Jobs : /\ job'[k].claim \in Nat /\ job[k].claim \in Nat
                      /\ job'[k].claim >= job[k].claim
                      /\ job'[k].version \in Nat /\ job[k].version \in Nat
                      /\ job'[k].version >= job[k].version
  BY <1>a DEF Row
<1>c. \A e \in Executors :
         Busy(e)' => /\ exec'[e] = exec[e] /\ Busy(e)
                     /\ exec[e].job \in Jobs /\ exec[e].claim \in Nat
  BY DEF Inductive, TypeOK, ExecutorsRest, Busy, Process
<1>1. TypeOK'
  BY DEF Inductive, TypeOK, ExecutorsRest
<1>2. RetryBudget'
  BY DEF Inductive, TypeOK, RetryBudget
<1>3. ClaimsAreUnique'
  BY <1>b, <1>c DEF Inductive, ClaimsAreUnique
<1>4. HolderIsCurrent'
  <2> SUFFICES ASSUME NEW e \in Executors, Busy(e)', Owns(e)'
               PROVE  /\ exec'[e].stage = job'[exec'[e].job].stage
                      /\ exec'[e].attempts = job'[exec'[e].job].attempts
                      /\ exec'[e].pc = "loaded" => exec'[e].plan = preview'[exec'[e].job]
    BY DEF HolderIsCurrent
  <2>1. exec[e].job # j
    BY <1>a, <1>c DEF Owns
  <2>2. Owns(e) /\ job'[exec[e].job] = job[exec[e].job]
    BY <2>1, <1>a, <1>c DEF Owns
  <2>3. QED
    BY <2>2, <1>c DEF Inductive, HolderIsCurrent
<1>5. CommitIsConfirmed'
  BY DEF Inductive, TypeOK, CommitIsConfirmed
<1>6. PagesAreOld' /\ VersionIdentifiesPage'
  <2> SUFFICES ASSUME NEW u \in Users
               PROVE  /\ seen[u].version <= job'[seen[u].job].version
                      /\ job'[seen[u].job].version = seen[u].version =>
                           /\ seen[u].status = job'[seen[u].job].status
                           /\ seen[u].preview = preview[seen[u].job]
    BY DEF PagesAreOld, VersionIdentifiesPage, Current
  <2>1. /\ seen[u].job \in Jobs /\ seen[u].version \in Nat
        /\ seen[u].version <= job[seen[u].job].version
        /\ job[seen[u].job].version = seen[u].version =>
             /\ seen[u].status = job[seen[u].job].status
             /\ seen[u].preview = preview[seen[u].job]
    BY DEF Inductive, TypeOK, PagesAreOld, VersionIdentifiesPage, Current, Page
  <2>2. CASE seen[u].job = j
    BY <2>1, <2>2, <1>a, <1>b
  <2>3. CASE seen[u].job # j
    BY <2>1, <2>3, <1>a
  <2>4. QED
    BY <2>2, <2>3
<1>7. FactsMatchOutcome'
  BY DEF Inductive, TypeOK, FactsMatchOutcome
<1>8. QED
  BY <1>1, <1>2, <1>3, <1>4, <1>5, <1>6, <1>7 DEF Inductive

LEMMA IdleRests ==
    ASSUME TypeOK, NEW e \in Executors, Idle(e)
    PROVE  ExecutorsRest
<1>1. exec[e].job \in Jobs
  BY DEF TypeOK, Process
<1>2. IdleOn(exec[e].job) \in Process /\ IdleOn(exec[e].job).pc = "idle"
  BY <1>1, IdleIsProcess
<1>3. QED
  BY <1>2 DEF ExecutorsRest, Idle, TypeOK

LEMMA UnmovedRest == ASSUME TypeOK, exec' = exec PROVE ExecutorsRest
BY DEF ExecutorsRest, TypeOK

\* A holder passes the fence only while its row is processing, so its row has
\* no facts yet and remembers what the holder remembers.
LEMMA HolderFacts ==
    ASSUME Inductive, NEW e \in Executors, Busy(e), Owns(e)
    PROVE  /\ exec[e].job \in Jobs
           /\ job[exec[e].job] \in Row
           /\ job[exec[e].job].status = "processing"
           /\ job[exec[e].job].attempts >= 1
           /\ job[exec[e].job].attempts <= MaxAttempts
           /\ exec[e].attempts = job[exec[e].job].attempts
           /\ exec[e].stage = job[exec[e].job].stage
           /\ job[exec[e].job].stage = "commit" => confirmed[exec[e].job] = preview[exec[e].job]
           /\ exec[e].pc = "loaded" => exec[e].plan = preview[exec[e].job]
           /\ facts[exec[e].job] = <<>>
<1>1. exec[e].job \in Jobs /\ job[exec[e].job] \in Row
  BY DEF Inductive, TypeOK, Process
<1>2. job[exec[e].job].status = "processing"
  BY DEF Owns
<1>3. QED
  BY <1>1, <1>2 DEF Inductive, RetryBudget, HolderIsCurrent, CommitIsConfirmed, FactsMatchOutcome

LEMMA FailClaimStep ==
    ASSUME Inductive, NEW e \in Executors, Busy(e), NEW retry \in BOOLEAN,
           FailClaim(e, retry), Idle(e),
           UNCHANGED <<preview, confirmed, facts, attachments, seen, authorized, commands>>
    PROVE  Inductive'
<1>1. ExecutorsRest
  BY IdleRests DEF Inductive
<1>2. CASE ~Owns(e)
  BY <1>1, <1>2, QuietStep DEF FailClaim, Inductive, TypeOK
<1>3. CASE Owns(e)
  <2> DEFINE j == exec[e].job
             status == IF retry /\ exec[e].attempts < MaxAttempts THEN "pending" ELSE "failed"
             row == Finished(job[j], status)
  <2>1. /\ j \in Jobs /\ job[j] \in Row /\ job[j].status = "processing"
        /\ job[j].attempts <= MaxAttempts /\ exec[e].attempts = job[j].attempts
        /\ job[j].stage = "commit" => confirmed[j] = preview[j]
    BY <1>3, HolderFacts
  <2>2. status \in Status
    BY DEF Status
  <2>3. /\ row \in Row /\ row.status = status /\ row.version = job[j].version + 1
        /\ row.claim = job[j].claim /\ row.attempts = job[j].attempts
        /\ row.stage = job[j].stage
    BY <2>1, <2>2, FinishedRow
  <2>4. job' = [job EXCEPT ![j] = row]
    BY <1>3 DEF FailClaim
  <2>5. /\ status \in {"pending", "failed"}
        /\ status = "pending" => exec[e].attempts < MaxAttempts
    OBVIOUS
  <2> HIDE DEF status, row
  <2>6. /\ job[j].status \notin {"absent", "succeeded"}
        /\ row.status \notin {"absent", "processing", "succeeded"}
        /\ row.attempts <= MaxAttempts
        /\ row.status = "pending" => row.attempts < MaxAttempts
    BY <2>1, <2>3, <2>5
  <2>7. row.claim >= job[j].claim
    BY <2>1, <2>3 DEF Row
  <2>8. /\ confirmed' \in [Jobs -> Nat]
        /\ \A k \in Jobs : k # j => confirmed'[k] = confirmed[k]
        /\ row.stage = "commit" => confirmed'[j] = preview[j]
    BY <2>1, <2>3 DEF Inductive, TypeOK
  <2>9. /\ preview' = preview /\ facts' = facts /\ seen' = seen
        /\ attachments' \in [Jobs -> 0 .. MaxAttachments]
        /\ authorized' \in BOOLEAN /\ commands' \in 0 .. MaxCommands
    BY DEF Inductive, TypeOK
  <2> HIDE DEF j
  <2>10. QED
    BY <1>1, <2>1, <2>3, <2>4, <2>6, <2>7, <2>8, <2>9, ReleaseStep
<1>4. QED
  BY <1>2, <1>3

\* The other fenced writes: a row that its holder takes out of "processing".
LEMMA HolderReleaseStep ==
    ASSUME Inductive, NEW e \in Executors, Busy(e), Idle(e), Owns(e), NEW row \in Row,
           job' = [job EXCEPT ![exec[e].job] = row],
           row.status \in {"pending", "needs_review"},
           row.stage = job[exec[e].job].stage,
           row.version = job[exec[e].job].version + 1,
           row.claim = job[exec[e].job].claim,
           row.attempts <= MaxAttempts,
           row.status = "pending" => row.attempts < MaxAttempts,
           attachments' \in [Jobs -> 0 .. MaxAttachments],
           UNCHANGED <<preview, confirmed, facts, seen, authorized, commands>>
    PROVE  Inductive'
<1> DEFINE j == exec[e].job
<1>1. ExecutorsRest
  BY IdleRests DEF Inductive
<1>2. /\ j \in Jobs /\ job[j] \in Row /\ job[j].status = "processing"
      /\ job[j].stage = "commit" => confirmed[j] = preview[j]
  BY HolderFacts
<1>3. /\ job' = [job EXCEPT ![j] = row]
      /\ job[j].status \notin {"absent", "succeeded"}
      /\ row.status \notin {"absent", "processing", "succeeded"}
      /\ row.version = job[j].version + 1
  BY <1>2
<1>4. row.claim >= job[j].claim
  BY <1>2 DEF Row
<1>5. /\ confirmed' \in [Jobs -> Nat]
      /\ \A k \in Jobs : k # j => confirmed'[k] = confirmed[k]
      /\ row.stage = "commit" => confirmed'[j] = preview[j]
  BY <1>2 DEF Inductive, TypeOK
<1>6. /\ preview' = preview /\ facts' = facts /\ seen' = seen
      /\ authorized' \in BOOLEAN /\ commands' \in 0 .. MaxCommands
  BY DEF Inductive, TypeOK
<1> HIDE DEF j
<1>7. QED
  BY <1>1, <1>2, <1>3, <1>4, <1>5, <1>6, ReleaseStep

LEMMA RequireReviewStep ==
    ASSUME Inductive, NEW e \in Executors, RequireReview(e) PROVE Inductive'
<1>1. Idle(e) /\ Busy(e)
  BY DEF RequireReview, Busy
<1>2. ExecutorsRest
  BY <1>1, IdleRests DEF Inductive
<1>3. CASE ~Owns(e)
  BY <1>2, <1>3, QuietStep DEF RequireReview, Inductive, TypeOK
<1>4. CASE Owns(e)
  <2> DEFINE j == exec[e].job
             row == Finished(job[j], "needs_review")
  <2>1. j \in Jobs /\ job[j] \in Row /\ job[j].attempts <= MaxAttempts
    BY <1>1, <1>4, HolderFacts
  <2>2. "needs_review" \in Status
    BY DEF Status
  <2>3. /\ row \in Row /\ row.status = "needs_review" /\ row.version = job[j].version + 1
        /\ row.claim = job[j].claim /\ row.attempts = job[j].attempts
        /\ row.stage = job[j].stage
    BY <2>1, <2>2, FinishedRow
  <2>4. /\ job' = [job EXCEPT ![j] = row]
        /\ attachments' \in [Jobs -> 0 .. MaxAttachments]
        /\ UNCHANGED <<preview, confirmed, facts, seen, authorized, commands>>
    BY <1>4 DEF RequireReview, Inductive, TypeOK
  <2> HIDE DEF row
  <2>5. QED
    BY <1>1, <1>4, <2>1, <2>3, <2>4, HolderReleaseStep
<1>5. QED
  BY <1>3, <1>4

LEMMA DeferStep ==
    ASSUME Inductive, NEW e \in Executors, DeferAttachments(e) PROVE Inductive'
<1>1. Idle(e) /\ Busy(e)
  BY DEF DeferAttachments, Busy
<1>2. ExecutorsRest
  BY <1>1, IdleRests DEF Inductive
<1>3. attachments' \in [Jobs -> 0 .. MaxAttachments]
  <2>1. PICK parsed \in 1 .. attachments[exec[e].job] :
             attachments' = [attachments EXCEPT ![exec[e].job] = @ - parsed]
    BY DEF DeferAttachments, Progress
  <2>2. exec[e].job \in Jobs /\ attachments \in [Jobs -> 0 .. MaxAttachments]
    BY DEF Inductive, TypeOK, Process
  <2>3. QED
    BY <2>1, <2>2, ImportJobsAssumption
<1>4. UNCHANGED <<preview, confirmed, facts, seen, authorized, commands>>
  BY DEF DeferAttachments
<1>5. CASE ~Owns(e)
  BY <1>2, <1>3, <1>4, <1>5, QuietStep DEF DeferAttachments, Inductive, TypeOK
<1>6. CASE Owns(e)
  <2> DEFINE j == exec[e].job
             row == Deferred(job[j])
  <2>1. /\ j \in Jobs /\ job[j] \in Row
        /\ job[j].attempts >= 1 /\ job[j].attempts <= MaxAttempts
    BY <1>1, <1>6, HolderFacts
  <2>2. /\ row \in Row /\ row.status = "pending" /\ row.version = job[j].version + 1
        /\ row.claim = job[j].claim /\ row.attempts = job[j].attempts - 1
        /\ row.stage = job[j].stage
    BY <2>1, DeferredRow
  <2>3. row.attempts < MaxAttempts /\ row.attempts <= MaxAttempts
    BY <2>1, <2>2, ImportJobsAssumption DEF Row
  <2>4. job' = [job EXCEPT ![j] = row]
    BY <1>6 DEF DeferAttachments
  <2> HIDE DEF row
  <2>5. QED
    BY <1>1, <1>3, <1>4, <1>6, <2>2, <2>3, <2>4, HolderReleaseStep
<1>7. QED
  BY <1>5, <1>6

\* A command of a person: the row is at rest or canceled under its holder's
\* feet, and no executor is touched.
LEMMA CommandStep ==
    ASSUME Inductive, NEW j \in Jobs, NEW row \in Row,
           job' = [job EXCEPT ![j] = row],
           job[j].status \notin {"absent", "succeeded"},
           row.status \notin {"absent", "processing", "succeeded"},
           row.version = job[j].version + 1,
           row.claim = job[j].claim \/ row.claim = job[j].claim + 1,
           row.attempts = 0 \/ (row.status # "pending" /\ row.attempts = job[j].attempts),
           confirmed' \in [Jobs -> Nat],
           \A k \in Jobs : k # j => confirmed'[k] = confirmed[k],
           row.stage = "commit" => confirmed'[j] = preview[j],
           commands' \in 0 .. MaxCommands,
           UNCHANGED <<preview, facts, attachments, exec, seen, authorized>>
    PROVE  Inductive'
<1>1. ExecutorsRest
  BY UnmovedRest DEF Inductive
<1>2. /\ job[j].claim \in Nat /\ job[j].attempts \in Nat /\ job[j].attempts <= MaxAttempts
      /\ row.attempts \in Nat
  BY DEF Inductive, TypeOK, RetryBudget, Row
<1>3. /\ row.claim >= job[j].claim
      /\ row.attempts <= MaxAttempts
      /\ row.status = "pending" => row.attempts < MaxAttempts
  BY <1>2, ImportJobsAssumption
<1>4. /\ preview' = preview /\ facts' = facts /\ seen' = seen
      /\ attachments' \in [Jobs -> 0 .. MaxAttachments] /\ authorized' \in BOOLEAN
  BY DEF Inductive, TypeOK
<1>5. QED
  BY <1>1, <1>3, <1>4, ReleaseStep

\* What a command knows of the row of its page.
LEMMA PageFacts ==
    ASSUME Inductive, NEW u \in Users
    PROVE  /\ seen[u].job \in Jobs
           /\ job[seen[u].job] \in Row
           /\ seen[u].preview \in Nat
           /\ Current(u) => /\ seen[u].preview = preview[seen[u].job]
                            /\ seen[u].status = job[seen[u].job].status
           /\ job[seen[u].job].stage = "commit" =>
                confirmed[seen[u].job] = preview[seen[u].job]
           /\ confirmed \in [Jobs -> Nat] /\ commands \in 0 .. MaxCommands
BY DEF Inductive, TypeOK, Page, VersionIdentifiesPage, CommitIsConfirmed

LEMMA AcceptCounts ==
    ASSUME commands \in 0 .. MaxCommands, Accept PROVE commands' \in 0 .. MaxCommands
BY ImportJobsAssumption DEF Accept

LEMMA ConfirmStep ==
    ASSUME Inductive, NEW u \in Users, Confirm(u) PROVE Inductive'
<1> DEFINE j == seen[u].job
           row == Requeued(job[j], "commit")
<1>1. /\ j \in Jobs /\ job[j] \in Row /\ seen[u].preview = preview[j] /\ seen[u].preview \in Nat
      /\ commands' \in 0 .. MaxCommands /\ confirmed \in [Jobs -> Nat]
  BY PageFacts, AcceptCounts DEF Confirm
<1>2. "commit" \in Stage
  BY DEF Stage
<1>3. /\ row \in Row /\ row.status = "pending" /\ row.version = job[j].version + 1
      /\ row.claim = job[j].claim /\ row.attempts = 0
  BY <1>1, <1>2, RequeuedRow
<1>4. /\ job' = [job EXCEPT ![j] = row]
      /\ job[j].status \notin {"absent", "succeeded"}
      /\ UNCHANGED <<preview, facts, attachments, exec, seen, authorized>>
  BY DEF Confirm
<1>5. confirmed' = [confirmed EXCEPT ![j] = seen[u].preview]
  BY DEF Confirm
<1>6. /\ confirmed' \in [Jobs -> Nat]
      /\ \A k \in Jobs : k # j => confirmed'[k] = confirmed[k]
      /\ confirmed'[j] = preview[j]
  BY <1>1, <1>5
<1> HIDE DEF j, row
<1>7. QED
  BY <1>1, <1>3, <1>4, <1>6, CommandStep

LEMMA RetryStep ==
    ASSUME Inductive, NEW u \in Users, Retry(u) PROVE Inductive'
<1> DEFINE j == seen[u].job
           row == Requeued(job[j], job[j].stage)
<1>1. /\ j \in Jobs /\ job[j] \in Row /\ job[j].stage \in Stage
      /\ job[j].stage = "commit" => confirmed[j] = preview[j]
      /\ commands' \in 0 .. MaxCommands /\ confirmed \in [Jobs -> Nat]
  BY PageFacts, AcceptCounts DEF Retry, Row
<1>2. /\ row \in Row /\ row.status = "pending" /\ row.version = job[j].version + 1
      /\ row.claim = job[j].claim /\ row.attempts = 0 /\ row.stage = job[j].stage
  BY <1>1, RequeuedRow
<1>3. /\ job' = [job EXCEPT ![j] = row]
      /\ job[j].status \notin {"absent", "succeeded"}
      /\ UNCHANGED <<preview, confirmed, facts, attachments, exec, seen, authorized>>
  BY DEF Retry
<1> HIDE DEF j, row
<1>4. QED
  BY <1>1, <1>2, <1>3, CommandStep

LEMMA ReprepareStep ==
    ASSUME Inductive, NEW u \in Users, Reprepare(u) PROVE Inductive'
<1> DEFINE j == seen[u].job
           row == Reprepared(job[j])
<1>1. /\ j \in Jobs /\ job[j] \in Row
      /\ commands' \in 0 .. MaxCommands /\ confirmed \in [Jobs -> Nat]
  BY PageFacts, AcceptCounts DEF Reprepare
<1>2. /\ row \in Row /\ row.status = "pending" /\ row.version = job[j].version + 1
      /\ row.claim = job[j].claim + 1 /\ row.attempts = 0 /\ row.stage = "prepare"
  BY <1>1, RepreparedRow
<1>3. /\ job' = [job EXCEPT ![j] = row]
      /\ job[j].status \notin {"absent", "succeeded"}
      /\ UNCHANGED <<preview, confirmed, facts, attachments, exec, seen, authorized>>
  BY DEF Reprepare
<1> HIDE DEF j, row
<1>4. QED
  BY <1>1, <1>2, <1>3, CommandStep

LEMMA ParkStep ==
    ASSUME Inductive, NEW u \in Users, ParkStalePreview(u) PROVE Inductive'
<1> DEFINE j == seen[u].job
           row == Parked(job[j])
<1>1. /\ j \in Jobs /\ job[j] \in Row
      /\ job[j].stage = "commit" => confirmed[j] = preview[j]
      /\ commands' \in 0 .. MaxCommands /\ confirmed \in [Jobs -> Nat]
  BY PageFacts DEF ParkStalePreview
<1>2. /\ row \in Row /\ row.status = "needs_review" /\ row.version = job[j].version + 1
      /\ row.claim = job[j].claim /\ row.attempts = job[j].attempts
      /\ row.stage = job[j].stage
  BY <1>1, ParkedRow
<1>3. /\ job' = [job EXCEPT ![j] = row]
      /\ job[j].status \notin {"absent", "succeeded"}
      /\ UNCHANGED <<preview, confirmed, facts, attachments, exec, seen, authorized>>
  BY DEF ParkStalePreview
<1> HIDE DEF j, row
<1>4. QED
  BY <1>1, <1>2, <1>3, CommandStep

LEMMA CancelStep ==
    ASSUME Inductive, NEW j \in Jobs, Cancel(j) PROVE Inductive'
<1> DEFINE row == Canceled(job[j])
<1>1. /\ job[j] \in Row
      /\ job[j].stage = "commit" => confirmed[j] = preview[j]
      /\ commands' \in 0 .. MaxCommands /\ confirmed \in [Jobs -> Nat]
  BY DEF Inductive, TypeOK, CommitIsConfirmed, Cancel
<1>2. /\ row \in Row /\ row.status = "canceled" /\ row.version = job[j].version + 1
      /\ row.claim = job[j].claim + 1 /\ row.attempts = job[j].attempts
      /\ row.stage = job[j].stage
  BY <1>1, CanceledRow
<1>3. /\ job' = [job EXCEPT ![j] = row]
      /\ job[j].status \notin {"absent", "succeeded"}
      /\ UNCHANGED <<preview, confirmed, facts, attachments, exec, seen, authorized>>
  BY DEF Cancel
<1> HIDE DEF row
<1>4. QED
  BY <1>1, <1>2, <1>3, CommandStep

LEMMA DisposeStep ==
    ASSUME Inductive, NEW u \in Users, Dispose(u) PROVE Inductive'
<1> DEFINE j == seen[u].job
           row == DisposedOf(job[j])
<1>1. /\ j \in Jobs /\ job[j] \in Row
      /\ job[j].stage = "commit" => confirmed[j] = preview[j]
      /\ commands' \in 0 .. MaxCommands /\ confirmed \in [Jobs -> Nat]
  BY PageFacts DEF Dispose
<1>2. /\ job' = [job EXCEPT ![j] = row]
      /\ job[j].status \in {"failed", "needs_review"}
      /\ UNCHANGED <<preview, confirmed, facts, attachments, exec, seen, authorized>>
  BY DEF Dispose
<1>3. /\ row \in Row /\ row.version = job[j].version + 1
      /\ row.status = (IF job[j].status = "needs_review" THEN "canceled" ELSE job[j].status)
      /\ row.claim = job[j].claim + 1 /\ row.attempts = job[j].attempts
      /\ row.stage = job[j].stage
  BY <1>1, DisposedOfRow
<1>4. row.status \in {"failed", "canceled"} /\ job[j].status \notin {"absent", "succeeded"}
  BY <1>2, <1>3
<1> HIDE DEF j, row
<1>5. QED
  BY <1>1, <1>2, <1>3, <1>4, CommandStep

\* Lease and acknowledgement updates touch nothing the invariant reads.
LEMMA MinorStep ==
    ASSUME Inductive, NEW j \in Jobs, NEW row \in Row,
           job' = [job EXCEPT ![j] = row],
           row.status = job[j].status, row.stage = job[j].stage,
           row.version = job[j].version, row.claim = job[j].claim,
           row.attempts = job[j].attempts, row.owner = job[j].owner,
           UNCHANGED <<preview, confirmed, facts, attachments, exec, seen, authorized, commands>>
    PROVE  Inductive'
<1>1. \A k \in Jobs :
        /\ job'[k] \in Row
        /\ job'[k].status = job[k].status /\ job'[k].stage = job[k].stage
        /\ job'[k].version = job[k].version /\ job'[k].claim = job[k].claim
        /\ job'[k].attempts = job[k].attempts /\ job'[k].owner = job[k].owner
  BY DEF Inductive, TypeOK
<1>2. /\ \A e \in Executors : exec[e].job \in Jobs
      /\ \A u \in Users : seen[u].job \in Jobs
  BY DEF Inductive, TypeOK, Process, Page
<1>3. TypeOK'
  BY DEF Inductive, TypeOK
<1>4. RetryBudget' /\ CommitIsConfirmed' /\ FactsMatchOutcome'
  BY <1>1 DEF Inductive, RetryBudget, CommitIsConfirmed, FactsMatchOutcome
<1>5. ClaimsAreUnique'
  BY <1>1, <1>2 DEF Inductive, ClaimsAreUnique, Busy
<1>6. HolderIsCurrent'
  BY <1>1, <1>2 DEF Inductive, HolderIsCurrent, Busy, Owns
<1>7. PagesAreOld' /\ VersionIdentifiesPage'
  BY <1>1, <1>2 DEF Inductive, PagesAreOld, VersionIdentifiesPage, Current
<1>8. QED
  BY <1>3, <1>4, <1>5, <1>6, <1>7 DEF Inductive

LEMMA RenewStep == ASSUME Inductive, NEW e \in Executors, Renew(e) PROVE Inductive'
<1>1. exec[e].job \in Jobs /\ job[exec[e].job] \in Row /\ "held" \in Lease
  BY DEF Inductive, TypeOK, Process, Lease
<1>2. job' = [job EXCEPT ![exec[e].job] = Leased(job[exec[e].job], "held")]
      /\ UNCHANGED <<preview, confirmed, facts, attachments, exec, seen, authorized, commands>>
  BY DEF Renew
<1>3. PICK row \in Row :
        /\ row = Leased(job[exec[e].job], "held")
        /\ row.status = job[exec[e].job].status /\ row.stage = job[exec[e].job].stage
        /\ row.version = job[exec[e].job].version /\ row.claim = job[exec[e].job].claim
        /\ row.attempts = job[exec[e].job].attempts /\ row.owner = job[exec[e].job].owner
  BY <1>1, LeasedRow
<1>4. job' = [job EXCEPT ![exec[e].job] = row]
  BY <1>2, <1>3
<1>5. QED
  BY <1>1, <1>2, <1>3, <1>4, MinorStep

LEMMA LeaseExpiresStep == ASSUME Inductive, NEW j \in Jobs, LeaseExpires(j) PROVE Inductive'
<1>1. job[j] \in Row /\ "expired" \in Lease
  BY DEF Inductive, TypeOK, Lease
<1>2. job' = [job EXCEPT ![j] = Leased(job[j], "expired")]
      /\ UNCHANGED <<preview, confirmed, facts, attachments, exec, seen, authorized, commands>>
  BY DEF LeaseExpires
<1>3. PICK row \in Row :
        /\ row = Leased(job[j], "expired")
        /\ row.status = job[j].status /\ row.stage = job[j].stage
        /\ row.version = job[j].version /\ row.claim = job[j].claim
        /\ row.attempts = job[j].attempts /\ row.owner = job[j].owner
  BY <1>1, LeasedRow
<1>4. job' = [job EXCEPT ![j] = row]
  BY <1>2, <1>3
<1>5. QED
  BY <1>1, <1>2, <1>3, <1>4, MinorStep

LEMMA AcknowledgeStep == ASSUME Inductive, NEW j \in Jobs, Acknowledge(j) PROVE Inductive'
<1>1. job[j] \in Row
  BY DEF Inductive, TypeOK
<1>2. job' = [job EXCEPT ![j] = Acked(job[j])]
      /\ UNCHANGED <<preview, confirmed, facts, attachments, exec, seen, authorized, commands>>
  BY DEF Acknowledge
<1>3. PICK row \in Row :
        /\ row = Acked(job[j])
        /\ row.status = job[j].status /\ row.stage = job[j].stage
        /\ row.version = job[j].version /\ row.claim = job[j].claim
        /\ row.attempts = job[j].attempts /\ row.owner = job[j].owner
  BY <1>1, AckedRow
<1>4. job' = [job EXCEPT ![j] = row]
  BY <1>2, <1>3
<1>5. QED
  BY <1>1, <1>2, <1>3, <1>4, MinorStep

LEMMA RegisterStep ==
    ASSUME Inductive, NEW j \in Jobs, Register(j) PROVE Inductive'
<1>1. PICK row \in {NewRow("prepare"), NewRow("commit")} : job' = [job EXCEPT ![j] = row]
  BY DEF Register
<1>2. /\ row \in Row /\ row.status = "pending" /\ row.version = 1 /\ row.claim = 0
      /\ row.attempts = 0
  <2>1. /\ NewRow("prepare") \in Row /\ NewRow("commit") \in Row
    BY DEF NewRow, Row, Status, Stage, Lease
  <2>2. CASE row = NewRow("prepare")
    BY <2>1, <2>2 DEF NewRow
  <2>3. CASE row = NewRow("commit")
    BY <2>1, <2>3 DEF NewRow
  <2>4. QED
    BY <2>2, <2>3
<1>3. /\ job[j].status = "absent" /\ job[j].version = 0 /\ preview[j] = 0
      /\ job[j].claim = 0 /\ facts[j] = <<>>
  BY DEF Register, Inductive, CommitIsConfirmed, FactsMatchOutcome
<1>4. /\ job'[j] = row
      /\ \A k \in Jobs : k # j => /\ job'[k] = job[k] /\ preview'[k] = preview[k]
                                  /\ confirmed'[k] = confirmed[k]
      /\ row.stage = "commit" => confirmed'[j] = preview'[j]
      /\ preview' \in [Jobs -> Nat] /\ confirmed' \in [Jobs -> Nat]
  <2>1. CASE job' = [job EXCEPT ![j] = NewRow("prepare")]
             /\ UNCHANGED <<preview, confirmed>>
    BY <1>1, <2>1 DEF Inductive, TypeOK, NewRow
  <2>2. CASE /\ job' = [job EXCEPT ![j] = NewRow("commit")]
             /\ preview' = [preview EXCEPT ![j] = 1]
             /\ confirmed' = [confirmed EXCEPT ![j] = 1]
    BY <1>1, <2>2 DEF Inductive, TypeOK
  <2>3. QED
    BY <2>1, <2>2 DEF Register
<1>5. UNCHANGED <<facts, attachments, exec, seen, authorized, commands>>
  BY DEF Register
<1>6. /\ \A e \in Executors : exec[e].job \in Jobs
      /\ \A u \in Users : seen[u].job \in Jobs /\ seen[u].version \in Nat
      /\ \A u \in Users : seen[u].version <= job[seen[u].job].version
  BY DEF Inductive, TypeOK, Process, Page, PagesAreOld
<1>7. TypeOK'
  BY <1>1, <1>2, <1>4, <1>5 DEF Inductive, TypeOK
<1>8. RetryBudget' /\ CommitIsConfirmed' /\ FactsMatchOutcome'
  <2>1. RetryBudget'
    BY <1>2, <1>4, ImportJobsAssumption DEF Inductive, RetryBudget
  <2>2. CommitIsConfirmed'
    BY <1>2, <1>4 DEF Inductive, CommitIsConfirmed
  <2>3. FactsMatchOutcome'
    BY <1>2, <1>3, <1>4, <1>5 DEF Inductive, FactsMatchOutcome
  <2>4. QED
    BY <2>1, <2>2, <2>3
<1>9. ClaimsAreUnique'
  BY <1>2, <1>3, <1>4, <1>5, <1>6 DEF Inductive, ClaimsAreUnique, Busy
<1>10. HolderIsCurrent'
  <2> SUFFICES ASSUME NEW e \in Executors, Busy(e)', Owns(e)'
               PROVE  /\ exec[e].stage = job'[exec[e].job].stage
                      /\ exec[e].attempts = job'[exec[e].job].attempts
                      /\ exec[e].pc = "loaded" => exec[e].plan = preview'[exec[e].job]
    BY <1>5 DEF HolderIsCurrent
  <2>1. exec[e].job \in Jobs /\ exec[e].job # j
    BY <1>2, <1>4, <1>5, <1>6 DEF Owns
  <2>2. Busy(e) /\ Owns(e) /\ job'[exec[e].job] = job[exec[e].job]
        /\ preview'[exec[e].job] = preview[exec[e].job]
    BY <2>1, <1>4, <1>5 DEF Owns, Busy
  <2>3. QED
    BY <2>2 DEF Inductive, HolderIsCurrent
<1>11. PagesAreOld' /\ VersionIdentifiesPage'
  <2> SUFFICES ASSUME NEW u \in Users
               PROVE  /\ seen[u].version <= job'[seen[u].job].version
                      /\ job'[seen[u].job].version = seen[u].version =>
                           /\ seen[u].status = job'[seen[u].job].status
                           /\ seen[u].preview = preview'[seen[u].job]
    BY <1>5 DEF PagesAreOld, VersionIdentifiesPage, Current
  <2>1. CASE seen[u].job = j
    BY <2>1, <1>2, <1>3, <1>4, <1>6
  <2>2. CASE seen[u].job # j
    BY <2>2, <1>4, <1>6 DEF Inductive, VersionIdentifiesPage, Current
  <2>3. QED
    BY <2>1, <2>2
<1>12. QED
  BY <1>7, <1>8, <1>9, <1>10, <1>11 DEF Inductive

\* What the sweep of claim_next does to a row: nothing, or a running task
\* whose lease expired on its last attempt is failed.
LEMMA SweptRow ==
    ASSUME Inductive, NEW k \in Jobs
    PROVE  /\ Swept[k] \in Row
           /\ Swept[k].stage = job[k].stage /\ Swept[k].claim = job[k].claim
           /\ Swept[k].attempts = job[k].attempts
           /\ \/ Swept[k] = job[k]
              \/ /\ job[k].status = "processing" /\ Swept[k].status = "failed"
                 /\ Swept[k].version = job[k].version + 1
<1>1. job[k] \in Row /\ "failed" \in Status
  BY DEF Inductive, TypeOK, Status
<1>2. CASE Exhausted(k)
  <2>1. job[k].status = "processing"
    BY <1>1, <1>2, ImportJobsAssumption DEF Exhausted, Expired, Inductive, RetryBudget, Row
  <2>2. Swept[k] = Finished(job[k], "failed")
    BY <1>2 DEF Swept
  <2>3. QED
    BY <1>1, <2>1, <2>2, FinishedRow
<1>3. CASE ~Exhausted(k)
  BY <1>1, <1>3 DEF Swept
<1>4. QED
  BY <1>2, <1>3

LEMMA SweepStep ==
    ASSUME Inductive, job' = Swept,
           UNCHANGED <<preview, confirmed, facts, attachments, exec, seen, authorized, commands>>
    PROVE  Inductive'
<1>1. \A k \in Jobs :
        /\ job'[k] \in Row /\ job[k] \in Row
        /\ job'[k].stage = job[k].stage /\ job'[k].claim = job[k].claim
        /\ job'[k].attempts = job[k].attempts
        /\ \/ job'[k] = job[k]
           \/ /\ job[k].status = "processing" /\ job'[k].status = "failed"
              /\ job'[k].version = job[k].version + 1
  BY SweptRow DEF Inductive, TypeOK
<1>2. /\ \A e \in Executors : exec[e].job \in Jobs
      /\ \A u \in Users : seen[u].job \in Jobs /\ seen[u].version \in Nat
      /\ \A k \in Jobs : job[k].version \in Nat
  BY DEF Inductive, TypeOK, Process, Page, Row
<1>3. TypeOK'
  <2>1. job' \in [Jobs -> Row]
    BY <1>1 DEF Swept
  <2>2. QED
    BY <2>1 DEF Inductive, TypeOK
<1>4. RetryBudget' /\ CommitIsConfirmed' /\ FactsMatchOutcome'
  BY <1>1 DEF Inductive, RetryBudget, CommitIsConfirmed, FactsMatchOutcome
<1>5. ClaimsAreUnique'
  BY <1>1, <1>2 DEF Inductive, ClaimsAreUnique, Busy
<1>6. HolderIsCurrent'
  BY <1>1, <1>2 DEF Inductive, HolderIsCurrent, Busy, Owns
<1>7. PagesAreOld' /\ VersionIdentifiesPage'
  BY <1>1, <1>2 DEF Inductive, PagesAreOld, VersionIdentifiesPage, Current
<1>8. QED
  BY <1>3, <1>4, <1>5, <1>6, <1>7 DEF Inductive

LEMMA TakeStep ==
    ASSUME Inductive, NEW e \in Executors, ~Busy(e), NEW j \in Jobs, Claimable(j),
           job' = [Swept EXCEPT ![j] = Claimed(job[j], e)],
           exec' = [exec EXCEPT ![e] =
             [pc |-> "claimed", job |-> j, claim |-> job[j].claim + 1,
              attempts |-> job[j].attempts + 1, stage |-> job[j].stage, plan |-> 0]],
           UNCHANGED <<preview, confirmed, facts, attachments, seen, authorized, commands>>
    PROVE  Inductive'
<1> DEFINE row == Claimed(job[j], e)
           mine == [pc |-> "claimed", job |-> j, claim |-> job[j].claim + 1,
                    attempts |-> job[j].attempts + 1, stage |-> job[j].stage, plan |-> 0]
<1>1. job[j] \in Row
  BY DEF Inductive, TypeOK
<1>2. /\ row \in Row /\ row.status = "processing" /\ row.stage = job[j].stage
      /\ row.version = job[j].version + 1 /\ row.claim = job[j].claim + 1
      /\ row.attempts = job[j].attempts + 1 /\ row.owner = WorkerOf[e]
  BY <1>1, ClaimedRow
<1>3. /\ mine \in Process /\ mine.pc = "claimed" /\ mine.job = j
      /\ mine.claim = row.claim /\ mine.attempts = row.attempts /\ mine.stage = row.stage
  BY <1>1, <1>2 DEF Process, Row
<1>4. /\ job[j].attempts < MaxAttempts /\ job[j].status \in {"pending", "processing"}
  BY DEF Claimable, Expired
<1>5. /\ job'[j] = row /\ exec'[e] = mine
      /\ \A f \in Executors : f # e => exec'[f] = exec[f]
  BY <1>1 DEF Inductive, TypeOK, Swept
<1> HIDE DEF row, mine
<1>6. \A k \in Jobs : k # j =>
        /\ job'[k] \in Row /\ job[k] \in Row
        /\ job'[k].stage = job[k].stage /\ job'[k].claim = job[k].claim
        /\ job'[k].attempts = job[k].attempts
        /\ \/ job'[k] = job[k]
           \/ /\ job[k].status = "processing" /\ job'[k].status = "failed"
              /\ job'[k].version = job[k].version + 1
  <2> SUFFICES ASSUME NEW k \in Jobs, k # j
               PROVE  job'[k] = Swept[k] /\ job[k] \in Row
    BY SweptRow
  <2>1. QED
    BY DEF Swept, Inductive, TypeOK
<1>7. /\ \A f \in Executors : exec[f].job \in Jobs /\ exec[f].claim \in Nat
      /\ \A u \in Users : seen[u].job \in Jobs /\ seen[u].version \in Nat
      /\ \A k \in Jobs : job[k].version \in Nat /\ job[k].claim \in Nat
  BY DEF Inductive, TypeOK, Process, Page, Row
<1>8. TypeOK'
  <2>1. job' \in [Jobs -> Row]
    BY <1>2, <1>5, <1>6 DEF Swept
  <2>2. exec' \in [Executors -> Process]
    BY <1>3 DEF Inductive, TypeOK, mine
  <2>3. QED
    BY <2>1, <2>2 DEF Inductive, TypeOK
<1>9. RetryBudget'
  <2>1. row.attempts <= MaxAttempts
    BY <1>1, <1>2, <1>4, ImportJobsAssumption DEF Row
  <2>2. QED
    BY <2>1, <1>2, <1>5, <1>6 DEF Inductive, RetryBudget
<1>10. CommitIsConfirmed'
  <2>1. row.attempts >= 1
    BY <1>1, <1>2 DEF Row
  <2>2. QED
    BY <2>1, <1>2, <1>5, <1>6 DEF Inductive, CommitIsConfirmed
<1>11. FactsMatchOutcome'
  BY <1>2, <1>4, <1>5, <1>6 DEF Inductive, FactsMatchOutcome
<1>12. ClaimsAreUnique'
  <2>1. \A f \in Executors : Busy(f)' /\ f # e => Busy(f) /\ exec'[f] = exec[f]
    BY <1>5 DEF Busy
  <2>2. \A f \in Executors : Busy(f) => exec[f].claim <= job[exec[f].job].claim
    BY DEF Inductive, ClaimsAreUnique
  <2>3. \A f \in Executors : Busy(f)' => exec'[f].claim <= job'[exec'[f].job].claim
    BY <2>1, <2>2, <1>2, <1>3, <1>5, <1>6, <1>7
  <2>4. \A f \in Executors :
          Busy(f)' /\ f # e /\ exec'[f].job = j => exec'[f].claim # mine.claim
    BY <2>1, <2>2, <1>2, <1>3, <1>7
  <2>5. QED
    BY <2>1, <2>3, <2>4, <1>3, <1>5 DEF Inductive, ClaimsAreUnique
<1>13. HolderIsCurrent'
  <2> SUFFICES ASSUME NEW f \in Executors, Busy(f)', Owns(f)'
               PROVE  /\ exec'[f].stage = job'[exec'[f].job].stage
                      /\ exec'[f].attempts = job'[exec'[f].job].attempts
                      /\ exec'[f].pc = "loaded" => exec'[f].plan = preview'[exec'[f].job]
    BY DEF HolderIsCurrent
  <2>1. CASE f = e
    BY <2>1, <1>3, <1>5
  <2>2. CASE f # e
    <3>1. Busy(f) /\ exec'[f] = exec[f]
      BY <2>2, <1>5 DEF Busy
    <3>2. exec[f].job # j
      <4>1. exec[f].claim <= job[exec[f].job].claim
        BY <3>1 DEF Inductive, ClaimsAreUnique
      <4>2. job'[exec[f].job].claim = exec[f].claim
        BY <3>1 DEF Owns
      <4>3. QED
        BY <4>1, <4>2, <1>2, <1>5, <1>7
    <3>3. Owns(f) /\ job'[exec[f].job].stage = job[exec[f].job].stage
                  /\ job'[exec[f].job].attempts = job[exec[f].job].attempts
      BY <3>1, <3>2, <1>6, <1>7 DEF Owns
    <3>4. QED
      BY <3>1, <3>3 DEF Inductive, HolderIsCurrent
  <2>3. QED
    BY <2>1, <2>2
<1>14. PagesAreOld' /\ VersionIdentifiesPage'
  <2> SUFFICES ASSUME NEW u \in Users
               PROVE  /\ seen[u].version <= job'[seen[u].job].version
                      /\ job'[seen[u].job].version = seen[u].version =>
                           /\ seen[u].status = job'[seen[u].job].status
                           /\ seen[u].preview = preview[seen[u].job]
    BY DEF PagesAreOld, VersionIdentifiesPage, Current
  <2>1. /\ seen[u].version <= job[seen[u].job].version
        /\ job[seen[u].job].version = seen[u].version =>
             /\ seen[u].status = job[seen[u].job].status
             /\ seen[u].preview = preview[seen[u].job]
    BY DEF Inductive, PagesAreOld, VersionIdentifiesPage, Current
  <2>2. QED
    BY <2>1, <1>2, <1>5, <1>6, <1>7
<1>15. QED
  BY <1>8, <1>9, <1>10, <1>11, <1>12, <1>13, <1>14 DEF Inductive

LEMMA ClaimNextStep == ASSUME Inductive, NEW e \in Executors, ClaimNext(e) PROVE Inductive'
<1>1. ~Busy(e) /\ UNCHANGED <<preview, confirmed, facts, attachments, seen, authorized, commands>>
  BY DEF ClaimNext, Busy
<1>2. CASE job' = Swept /\ UNCHANGED exec
  BY <1>1, <1>2, SweepStep
<1>3. CASE \E j \in Jobs :
             /\ Claimable(j)
             /\ job' = [Swept EXCEPT ![j] = Claimed(job[j], e)]
             /\ exec' = [exec EXCEPT ![e] =
                  [pc |-> "claimed", job |-> j, claim |-> job[j].claim + 1,
                   attempts |-> job[j].attempts + 1, stage |-> job[j].stage, plan |-> 0]]
  BY <1>1, <1>3, TakeStep
<1>4. QED
  BY <1>2, <1>3 DEF ClaimNext

LEMMA LoadSessionStep == ASSUME Inductive, NEW e \in Executors, LoadSession(e) PROVE Inductive'
<1> DEFINE j == exec[e].job
           mine == Loaded(exec[e], preview[j])
<1>1. /\ exec[e] \in Process /\ j \in Jobs /\ preview[j] \in Nat
      /\ \A f \in Executors : exec[f].job \in Jobs
  BY DEF Inductive, TypeOK, Process
<1>2. /\ mine \in Process /\ mine.pc = "loaded" /\ mine.plan = preview[j]
      /\ mine.job = j /\ mine.claim = exec[e].claim
      /\ mine.attempts = exec[e].attempts /\ mine.stage = exec[e].stage
  BY <1>1, ProcessUpdates
<1>3. Busy(e) /\ exec' = [exec EXCEPT ![e] = mine]
      /\ UNCHANGED <<job, preview, confirmed, facts, attachments, seen, authorized, commands>>
  BY DEF LoadSession, Busy
<1> HIDE DEF mine
<1>4. /\ exec'[e] = mine /\ \A f \in Executors : f # e => exec'[f] = exec[f]
      /\ exec' \in [Executors -> Process]
  BY <1>2, <1>3 DEF Inductive, TypeOK
<1>5. \A f \in Executors : /\ Busy(f)' => Busy(f)
                           /\ Owns(f)' => Owns(f)
                           /\ exec'[f].job = exec[f].job /\ exec'[f].claim = exec[f].claim
                           /\ exec'[f].attempts = exec[f].attempts
                           /\ exec'[f].stage = exec[f].stage
  BY <1>2, <1>3, <1>4 DEF Busy, Owns
<1>6. TypeOK'
  BY <1>3, <1>4 DEF Inductive, TypeOK
<1>7. ClaimsAreUnique'
  BY <1>3, <1>5 DEF Inductive, ClaimsAreUnique
<1>8. HolderIsCurrent'
  <2> SUFFICES ASSUME NEW f \in Executors, Busy(f)', Owns(f)'
               PROVE  /\ exec'[f].stage = job'[exec'[f].job].stage
                      /\ exec'[f].attempts = job'[exec'[f].job].attempts
                      /\ exec'[f].pc = "loaded" => exec'[f].plan = preview'[exec'[f].job]
    BY DEF HolderIsCurrent
  <2>1. /\ exec[f].stage = job[exec[f].job].stage
        /\ exec[f].attempts = job[exec[f].job].attempts
        /\ exec[f].pc = "loaded" => exec[f].plan = preview[exec[f].job]
    BY <1>5 DEF Inductive, HolderIsCurrent
  <2>2. QED
    BY <2>1, <1>2, <1>3, <1>4, <1>5
<1>9. QED
  BY <1>3, <1>6, <1>7, <1>8 DEF Inductive, RetryBudget, CommitIsConfirmed, PagesAreOld,
                                VersionIdentifiesPage, Current, FactsMatchOutcome

\* The two fenced result writes: status, preview and facts in one transaction.
LEMMA ResultStep ==
    ASSUME Inductive, NEW e \in Executors, Busy(e), Owns(e), Settling(e), NEW row \in Row,
           job' = [job EXCEPT ![exec[e].job] = row],
           row.status \notin {"absent", "pending", "processing"},
           row.stage = job[exec[e].job].stage,
           row.version = job[exec[e].job].version + 1,
           row.claim = job[exec[e].job].claim,
           row.attempts = job[exec[e].job].attempts,
           preview' \in [Jobs -> Nat],
           \A k \in Jobs : k # exec[e].job => preview'[k] = preview[k],
           row.stage = "commit" => preview'[exec[e].job] = preview[exec[e].job],
           facts' \in [Jobs -> Seq(Nat)],
           \A k \in Jobs : k # exec[e].job => facts'[k] = facts[k],
           facts'[exec[e].job] = IF row.status = "succeeded" /\ row.stage = "commit"
                                 THEN <<confirmed[exec[e].job]>> ELSE <<>>,
           UNCHANGED <<confirmed, attachments, seen, authorized, commands>>
    PROVE  Inductive'
<1> DEFINE j == exec[e].job
           mine == Returned(exec[e])
<1>1. /\ j \in Jobs /\ job[j] \in Row /\ job[j].status = "processing"
      /\ job[j].stage = "commit" => confirmed[j] = preview[j]
      /\ job[j].attempts <= MaxAttempts
  BY HolderFacts
<1>2. exec[e] \in Process /\ 0 \in Nat
  BY DEF Inductive, TypeOK
<1>3. /\ mine \in Process /\ mine.pc = "settling" /\ mine.job = j /\ mine.claim = exec[e].claim
  BY <1>2, ProcessUpdates
<1>4. exec' = [exec EXCEPT ![e] = mine]
  BY DEF Settling
<1> HIDE DEF mine
<1>5. /\ exec'[e] = mine /\ \A f \in Executors : f # e => exec'[f] = exec[f]
      /\ exec' \in [Executors -> Process]
  BY <1>3, <1>4 DEF Inductive, TypeOK
<1>6. /\ job'[j] = row /\ \A k \in Jobs : k # j => job'[k] = job[k]
      /\ job' \in [Jobs -> Row]
  BY <1>1 DEF Inductive, TypeOK
<1>7. /\ \A f \in Executors : exec[f].job \in Jobs /\ exec[f].claim \in Nat
      /\ \A u \in Users : seen[u].job \in Jobs /\ seen[u].version \in Nat
      /\ \A k \in Jobs : job[k].version \in Nat /\ job[k].claim \in Nat
  BY DEF Inductive, TypeOK, Process, Page, Row
<1>8. \A f \in Executors : /\ Busy(f)' => Busy(f)
                           /\ exec'[f].job = exec[f].job /\ exec'[f].claim = exec[f].claim
  BY <1>3, <1>5 DEF Busy
<1>9. TypeOK'
  BY <1>5, <1>6 DEF Inductive, TypeOK
<1>10. RetryBudget' /\ CommitIsConfirmed' /\ FactsMatchOutcome'
  <2>1. RetryBudget'
    BY <1>1, <1>6 DEF Inductive, RetryBudget
  <2>2. CommitIsConfirmed'
    <3> SUFFICES ASSUME NEW k \in Jobs
                 PROVE  /\ job'[k].stage = "commit" => confirmed[k] = preview'[k]
                        /\ job'[k].status = "absent" =>
                             /\ job'[k].stage = "prepare" /\ job'[k].version = 0
                             /\ job'[k].claim = 0 /\ preview'[k] = 0
                        /\ job'[k].status = "processing" => job'[k].attempts >= 1
      BY DEF CommitIsConfirmed
    <3>1. CASE k = j
      BY <3>1, <1>1, <1>6
    <3>2. CASE k # j
      BY <3>2, <1>6 DEF Inductive, CommitIsConfirmed
    <3>3. QED
      BY <3>1, <3>2
  <2>3. FactsMatchOutcome'
    <3> SUFFICES ASSUME NEW k \in Jobs
                 PROVE  facts'[k] = IF job'[k].status = "succeeded" /\ job'[k].stage = "commit"
                                    THEN <<confirmed[k]>> ELSE <<>>
      BY DEF FactsMatchOutcome
    <3>1. CASE k = j
      BY <3>1, <1>6
    <3>2. CASE k # j
      <4>1. facts'[k] = facts[k] /\ job'[k] = job[k]
        BY <3>2, <1>6
      <4>2. QED
        BY <4>1 DEF Inductive, FactsMatchOutcome
    <3>3. QED
      BY <3>1, <3>2
  <2>4. QED
    BY <2>1, <2>2, <2>3
<1>11. ClaimsAreUnique'
  <2>1. \A k \in Jobs : job'[k].claim = job[k].claim
    BY <1>6
  <2>2. ASSUME NEW f \in Executors, Busy(f)'
        PROVE  exec'[f].claim <= job'[exec'[f].job].claim
    <3>1. exec[f].claim <= job[exec[f].job].claim
      BY <2>2, <1>8 DEF Inductive, ClaimsAreUnique
    <3>2. QED
      BY <3>1, <2>1, <1>7, <1>8
  <2>3. \A f, h \in Executors :
          Busy(f)' /\ Busy(h)' /\ exec'[f].job = exec'[h].job
             /\ exec'[f].claim = exec'[h].claim => f = h
    BY <1>8 DEF Inductive, ClaimsAreUnique
  <2>4. QED
    BY <2>2, <2>3 DEF ClaimsAreUnique
<1>12. HolderIsCurrent'
  <2> SUFFICES ASSUME NEW f \in Executors, Busy(f)', Owns(f)'
               PROVE  /\ exec'[f].stage = job'[exec'[f].job].stage
                      /\ exec'[f].attempts = job'[exec'[f].job].attempts
                      /\ exec'[f].pc = "loaded" => exec'[f].plan = preview'[exec'[f].job]
    BY DEF HolderIsCurrent
  <2>1. exec[f].job # j /\ f # e
    BY <1>6, <1>8 DEF Owns
  <2>2. Busy(f) /\ exec'[f] = exec[f] /\ job'[exec[f].job] = job[exec[f].job]
        /\ preview'[exec[f].job] = preview[exec[f].job]
    BY <2>1, <1>5, <1>6, <1>7, <1>8
  <2>3. Owns(f)
    BY <2>2 DEF Owns
  <2>4. QED
    BY <2>2, <2>3 DEF Inductive, HolderIsCurrent
<1>13. PagesAreOld' /\ VersionIdentifiesPage'
  <2> SUFFICES ASSUME NEW u \in Users
               PROVE  /\ seen[u].version <= job'[seen[u].job].version
                      /\ job'[seen[u].job].version = seen[u].version =>
                           /\ seen[u].status = job'[seen[u].job].status
                           /\ seen[u].preview = preview'[seen[u].job]
    BY DEF PagesAreOld, VersionIdentifiesPage, Current
  <2>1. /\ seen[u].version <= job[seen[u].job].version
        /\ job[seen[u].job].version = seen[u].version =>
             /\ seen[u].status = job[seen[u].job].status
             /\ seen[u].preview = preview[seen[u].job]
    BY DEF Inductive, PagesAreOld, VersionIdentifiesPage, Current
  <2>2. CASE seen[u].job = j
    <3>1. /\ seen[u].version <= job[j].version
          /\ job[j].version = seen[u].version =>
               seen[u].status = job[j].status /\ seen[u].preview = preview[j]
      BY <2>1, <2>2
    <3>2. job'[j] = row
      BY <1>6
    <3>3. seen[u].version \in Nat /\ job[j].version \in Nat
      BY <1>1, <1>7
    <3>4. QED
      BY <2>2, <3>1, <3>2, <3>3
  <2>3. CASE seen[u].job # j
    <3>1. seen[u].job \in Jobs
      BY <1>7
    <3>2. job'[seen[u].job] = job[seen[u].job]
      BY <2>3, <3>1, <1>6
    <3>3. preview'[seen[u].job] = preview[seen[u].job]
      BY <2>3, <3>1
    <3>4. QED
      BY <2>1, <3>2, <3>3
  <2>4. QED
    BY <2>2, <2>3
<1>14. QED
  BY <1>9, <1>10, <1>11, <1>12, <1>13 DEF Inductive

LEMMA FinishPrepareStep ==
    ASSUME Inductive, NEW e \in Executors, FinishPrepare(e) PROVE Inductive'
<1> DEFINE j == exec[e].job
<1>1. Busy(e) /\ Owns(e) /\ Settling(e)
      /\ UNCHANGED <<confirmed, facts, attachments, seen, authorized, commands>>
  BY DEF FinishPrepare, CompletionLock, Busy
<1>2. /\ j \in Jobs /\ job[j] \in Row /\ facts[j] = <<>>
      /\ job[j].stage = "prepare"
  BY <1>1, HolderFacts DEF FinishPrepare
<1>3. PICK status \in {"awaiting_confirmation", "needs_review", "succeeded"} :
        job' = [job EXCEPT ![j] = Finished(job[j], status)]
  BY DEF FinishPrepare
<1>4. status \in Status
  BY DEF Status
<1>5. /\ Finished(job[j], status) \in Row /\ Finished(job[j], status).status = status
      /\ Finished(job[j], status).stage = job[j].stage
      /\ Finished(job[j], status).version = job[j].version + 1
      /\ Finished(job[j], status).claim = job[j].claim
      /\ Finished(job[j], status).attempts = job[j].attempts
  BY <1>2, <1>4, FinishedRow
<1>6. preview' \in [Jobs -> Nat] /\ \A k \in Jobs : k # j => preview'[k] = preview[k]
  BY <1>2 DEF FinishPrepare, Inductive, TypeOK
<1>7. facts' \in [Jobs -> Seq(Nat)] /\ facts'[j] = <<>>
  BY <1>1, <1>2 DEF Inductive, TypeOK
<1>8. \A k \in Jobs : k # j => facts'[k] = facts[k]
  BY <1>1
<1>9. Finished(job[j], status).status \notin {"absent", "pending", "processing"}
  BY <1>5
<1>10. QED
  BY <1>1, <1>2, <1>3, <1>5, <1>6, <1>7, <1>8, <1>9, ResultStep

LEMMA FinishCommitStep ==
    ASSUME Inductive, NEW e \in Executors, FinishCommit(e) PROVE Inductive'
<1> DEFINE j == exec[e].job
<1>1. Busy(e) /\ Owns(e) /\ Settling(e) /\ exec[e].pc = "loaded"
      /\ UNCHANGED <<preview, confirmed, attachments, seen, authorized, commands>>
  BY DEF FinishCommit, CompletionLock, Busy
<1>2. /\ j \in Jobs /\ job[j] \in Row /\ facts[j] = <<>> /\ job[j].stage = "commit"
      /\ exec[e].plan = confirmed[j] /\ confirmed[j] \in Nat
  <2>1. exec[e].stage = "commit"
    BY DEF FinishCommit
  <2>2. QED
    BY <1>1, <2>1, HolderFacts DEF Inductive, TypeOK
<1>3. \A status \in {"succeeded", "failed"} :
        /\ Finished(job[j], status) \in Row /\ Finished(job[j], status).status = status
        /\ Finished(job[j], status).stage = job[j].stage
        /\ Finished(job[j], status).version = job[j].version + 1
        /\ Finished(job[j], status).claim = job[j].claim
        /\ Finished(job[j], status).attempts = job[j].attempts
        /\ Finished(job[j], status).status \notin {"absent", "pending", "processing"}
  <2> TAKE status \in {"succeeded", "failed"}
  <2>1. status \in Status /\ status \notin {"absent", "pending", "processing"}
    BY DEF Status
  <2>2. job[j] \in Row
    BY <1>2
  <2> HIDE DEF j
  <2>3. QED
    BY <2>1, <2>2, FinishedRow
<1>4. preview' \in [Jobs -> Nat] /\ (\A k \in Jobs : preview'[k] = preview[k])
  BY <1>1 DEF Inductive, TypeOK
<1>5. CASE /\ job' = [job EXCEPT ![j] = Finished(job[j], "succeeded")]
           /\ facts' = [facts EXCEPT ![j] = Append(facts[j], exec[e].plan)]
  <2>1. facts' = [facts EXCEPT ![j] = <<confirmed[j]>>]
    BY <1>2, <1>5
  <2>2. /\ facts' \in [Jobs -> Seq(Nat)] /\ facts'[j] = <<confirmed[j]>>
        /\ \A k \in Jobs : k # j => facts'[k] = facts[k]
    BY <2>1, <1>2 DEF Inductive, TypeOK
  <2>3. PICK row \in Row :
          /\ row = Finished(job[j], "succeeded") /\ row.status = "succeeded"
          /\ row.stage = job[j].stage /\ row.version = job[j].version + 1
          /\ row.claim = job[j].claim /\ row.attempts = job[j].attempts
    BY <1>3
  <2>4. /\ job' = [job EXCEPT ![j] = row]
        /\ row.status \notin {"absent", "pending", "processing"}
        /\ facts'[j] = IF row.status = "succeeded" /\ row.stage = "commit"
                      THEN <<confirmed[j]>> ELSE <<>>
    BY <1>2, <1>5, <2>2, <2>3
  <2>5. QED
    BY <1>1, <1>4, <2>2, <2>3, <2>4, ResultStep
<1>6. CASE /\ job' = [job EXCEPT ![j] = Finished(job[j], "failed")]
           /\ UNCHANGED facts
  <2>1. /\ facts' \in [Jobs -> Seq(Nat)] /\ facts'[j] = <<>>
        /\ \A k \in Jobs : k # j => facts'[k] = facts[k]
    BY <1>2, <1>6 DEF Inductive, TypeOK
  <2>2. PICK row \in Row :
          /\ row = Finished(job[j], "failed") /\ row.status = "failed"
          /\ row.stage = job[j].stage /\ row.version = job[j].version + 1
          /\ row.claim = job[j].claim /\ row.attempts = job[j].attempts
    BY <1>3
  <2>3. /\ job' = [job EXCEPT ![j] = row]
        /\ row.status \notin {"absent", "pending", "processing"}
        /\ facts'[j] = IF row.status = "succeeded" /\ row.stage = "commit"
                      THEN <<confirmed[j]>> ELSE <<>>
    BY <1>2, <1>6, <2>1, <2>2
  <2>4. QED
    BY <1>1, <1>4, <2>1, <2>2, <2>3, ResultStep
<1>7. QED
  BY <1>5, <1>6 DEF FinishCommit

LEMMA AbortStep == ASSUME Inductive, NEW e \in Executors, Abort(e) PROVE Inductive'
<1>1. /\ Busy(e) /\ Idle(e)
      /\ UNCHANGED <<preview, confirmed, facts, attachments, seen, authorized, commands>>
      /\ \E retry \in BOOLEAN : FailClaim(e, retry)
  BY DEF Abort, Busy
<1>2. QED
  BY <1>1, FailClaimStep

\* Steps that leave every row alone and at most send one executor idle.
LEMMA IdleStep ==
    ASSUME Inductive, NEW e \in Executors, Idle(e),
           UNCHANGED <<job, preview, confirmed, facts, attachments, seen, authorized, commands>>
    PROVE  Inductive'
<1>1. ExecutorsRest
  BY IdleRests DEF Inductive
<1>2. QED
  BY <1>1, QuietStep DEF Inductive, TypeOK

LEMMA SettleStep == ASSUME Inductive, NEW e \in Executors, Settle(e) PROVE Inductive'
<1>1. /\ Busy(e) /\ Idle(e)
      /\ UNCHANGED <<preview, confirmed, facts, attachments, seen, authorized, commands>>
      /\ UNCHANGED job \/ FailClaim(e, FALSE)
  BY DEF Settle, Busy
<1>2. CASE UNCHANGED job
  BY <1>1, <1>2, IdleStep
<1>3. CASE FailClaim(e, FALSE)
  BY <1>1, <1>3, FailClaimStep
<1>4. QED
  BY <1>1, <1>2, <1>3

LEMMA CrashStep == ASSUME Inductive, NEW e \in Executors, Crash(e) PROVE Inductive'
BY IdleStep DEF Crash

LEMMA LookStep ==
    ASSUME Inductive, NEW u \in Users, NEW j \in Jobs, Look(u, j) PROVE Inductive'
<1> DEFINE page == [job |-> j, status |-> job[j].status, version |-> job[j].version,
                    preview |-> preview[j]]
<1>1. /\ page \in Page /\ page.job = j /\ page.status = job[j].status
      /\ page.version = job[j].version /\ page.preview = preview[j]
      /\ job[j].version \in Nat
  BY DEF Inductive, TypeOK, Row, Page
<1>2. /\ seen' = [seen EXCEPT ![u] = page]
      /\ UNCHANGED <<job, preview, confirmed, facts, attachments, exec, authorized, commands>>
  BY DEF Look
<1> HIDE DEF page
<1>3. seen'[u] = page /\ (\A v \in Users : v # u => seen'[v] = seen[v])
      /\ seen' \in [Users -> Page]
  BY <1>1, <1>2 DEF Inductive, TypeOK
<1>4. TypeOK'
  BY <1>2, <1>3 DEF Inductive, TypeOK
<1>5. PagesAreOld' /\ VersionIdentifiesPage'
  BY <1>1, <1>2, <1>3 DEF Inductive, PagesAreOld, VersionIdentifiesPage, Current
<1>6. QED
  BY <1>2, <1>4, <1>5 DEF Inductive, RetryBudget, ClaimsAreUnique, HolderIsCurrent, Busy, Owns,
                          CommitIsConfirmed, FactsMatchOutcome

LEMMA ChangeAuthorizationStep == ASSUME Inductive, ChangeAuthorization PROVE Inductive'
<1>1. ExecutorsRest
  BY UnmovedRest DEF ChangeAuthorization, Inductive
<1>2. QED
  BY <1>1, QuietStep DEF ChangeAuthorization, Inductive, TypeOK

LEMMA StutterStep == ASSUME Inductive, UNCHANGED vars PROVE Inductive'
<1>1. ExecutorsRest
  BY UnmovedRest DEF vars, Inductive
<1>2. QED
  BY <1>1, QuietStep DEF vars, Inductive, TypeOK

-----------------------------------------------------------------------------
(* The invariant of the specification *)

LEMMA InitInductive == Init => Inductive
<1> SUFFICES ASSUME Init PROVE Inductive
  OBVIOUS
<1>1. AbsentRow \in Row /\ AbsentRow.status = "absent" /\ AbsentRow.stage = "prepare"
      /\ AbsentRow.version = 0 /\ AbsentRow.claim = 0 /\ AbsentRow.attempts = 0
  BY DEF AbsentRow, Row, Status, Stage, Lease
<1>2. PICK j \in Jobs :
        /\ exec = [e \in Executors |-> IdleOn(j)]
        /\ seen = [u \in Users |-> [job |-> j, status |-> "absent", version |-> 0,
                                    preview |-> 0]]
  BY DEF Init
<1>3. IdleOn(j) \in Process /\ IdleOn(j).pc = "idle"
  BY IdleIsProcess
<1>4. [job |-> j, status |-> "absent", version |-> 0, preview |-> 0] \in Page
  BY DEF Page, Status
<1>5. job = [k \in Jobs |-> AbsentRow]
  BY DEF Init
<1> HIDE DEF AbsentRow, IdleOn
<1>6. TypeOK
  <2>1. job \in [Jobs -> Row] /\ exec \in [Executors -> Process] /\ seen \in [Users -> Page]
    BY <1>1, <1>2, <1>3, <1>4, <1>5
  <2>2. /\ preview \in [Jobs -> Nat] /\ confirmed \in [Jobs -> Nat]
        /\ facts \in [Jobs -> Seq(Nat)] /\ authorized \in BOOLEAN
    BY DEF Init
  <2>3. attachments \in [Jobs -> 0 .. MaxAttachments] /\ commands \in 0 .. MaxCommands
    BY ImportJobsAssumption DEF Init
  <2>4. QED
    BY <2>1, <2>2, <2>3 DEF TypeOK
<1>7. \A e \in Executors : ~Busy(e)
  BY <1>2, <1>3 DEF Busy
<1>8. RetryBudget
  BY <1>1, <1>5, ImportJobsAssumption DEF RetryBudget
<1>9. ClaimsAreUnique /\ HolderIsCurrent
  BY <1>7 DEF ClaimsAreUnique, HolderIsCurrent
<1>10. CommitIsConfirmed /\ FactsMatchOutcome
  BY <1>1, <1>5 DEF CommitIsConfirmed, FactsMatchOutcome, Init
<1>11. PagesAreOld /\ VersionIdentifiesPage
  BY <1>1, <1>2, <1>5 DEF PagesAreOld, VersionIdentifiesPage, Current, Init
<1>12. QED
  BY <1>6, <1>8, <1>9, <1>10, <1>11 DEF Inductive

LEMMA NextInductive == Inductive /\ [Next]_vars => Inductive'
<1> SUFFICES ASSUME Inductive, [Next]_vars PROVE Inductive'
  OBVIOUS
<1>1. ASSUME NEW j \in Jobs, Register(j) \/ LeaseExpires(j) \/ Cancel(j) \/ Acknowledge(j)
      PROVE  Inductive'
  BY <1>1, RegisterStep, LeaseExpiresStep, CancelStep, AcknowledgeStep
<1>2. ASSUME NEW e \in Executors, ClaimNext(e) \/ Renew(e) \/ Crash(e) PROVE Inductive'
  BY <1>2, ClaimNextStep, RenewStep, CrashStep
<1>3. ASSUME NEW e \in Executors, Execute(e) PROVE Inductive'
  BY <1>3, LoadSessionStep, FinishPrepareStep, FinishCommitStep, AbortStep, RequireReviewStep,
     DeferStep, SettleStep DEF Execute
<1>4. ASSUME NEW u \in Users, Command(u) PROVE Inductive'
  BY <1>4, LookStep, ConfirmStep, RetryStep, ReprepareStep, ParkStep, DisposeStep DEF Command
<1>5. CASE ChangeAuthorization
  BY <1>5, ChangeAuthorizationStep
<1>6. CASE UNCHANGED vars
  BY <1>6, StutterStep
<1>7. QED
  BY <1>1, <1>2, <1>3, <1>4, <1>5, <1>6 DEF Next

\* The inductive invariant holds in every reachable state of the queue.
THEOREM Invariance == Spec => []Inductive
<1>1. QED
  BY InitInductive, NextInductive, PTL DEF Spec

\* Every row, process and page keeps the shape the columns allow.
THEOREM TypeCorrect == Spec => []TypeOK
<1>1. Inductive => TypeOK
  BY DEF Inductive
<1>2. QED
  BY <1>1, Invariance, PTL

\* A task's facts are exactly those of the confirmed preview, once, when it
\* succeeded, and none otherwise, whatever leases expire and pages age.
THEOREM FactsAreTheConfirmedOnes == Spec => []FactsMatchOutcome
<1>1. Inductive => FactsMatchOutcome
  BY DEF Inductive
<1>2. QED
  BY <1>1, Invariance, PTL

\* The fence admits one process per task.
THEOREM FenceAdmitsOne == Spec => []SingleOwner
<1>1. Inductive => SingleOwner
  BY DEF Inductive, SingleOwner, ClaimsAreUnique, Owns
<1>2. QED
  BY <1>1, Invariance, PTL

\* A version comparison is as good as a comparison of content.
THEOREM VersionIsEnough == Spec => []VersionIdentifiesPage
<1>1. Inductive => VersionIdentifiesPage
  BY DEF Inductive
<1>2. QED
  BY <1>1, Invariance, PTL

\* No task is attempted more often than its budget between human commands.
THEOREM BudgetHolds == Spec => []RetryBudget
<1>1. Inductive => RetryBudget
  BY DEF Inductive
<1>2. QED
  BY <1>1, Invariance, PTL

==============================================================================
