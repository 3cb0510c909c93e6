-------------------------- MODULE RuntimeQueueProofs --------------------------
(***************************************************************************)
(* Proofs about the outbox.  First what each write leaves of a row, then   *)
(* one lemma for the writes that take an event out of a worker's hands and *)
(* one for the steps that leave the rows alone, then one lemma per action. *)
(***************************************************************************)
EXTENDS RuntimeQueue, TLAPS

-----------------------------------------------------------------------------
(* What the writes leave of a row *)

LEMMA ClaimedRow ==
    ASSUME NEW row \in Row, NEW w \in Workers
    PROVE  /\ Claimed(row, w) \in Row
           /\ Claimed(row, w).status = "processing"
           /\ Claimed(row, w).kind = row.kind
           /\ Claimed(row, w).key = row.key
           /\ Claimed(row, w).attempts = row.attempts + 1
           /\ Claimed(row, w).owner = w
           /\ Claimed(row, w).lease = "held"
           /\ Claimed(row, w).conflict = row.conflict
           /\ Claimed(row, w).manual = row.manual
           /\ Claimed(row, w).superseded = row.superseded
           /\ Claimed(row, w).dismissed = row.dismissed
<1> USE RuntimeQueueAssumption DEF Row, Status, Kind
<1> DEFINE r1 == [row EXCEPT !.status = "processing"]
           r2 == [r1 EXCEPT !.attempts = row.attempts + 1]
           r3 == [r2 EXCEPT !.owner = w]
           r4 == [r3 EXCEPT !.lease = "held"]
<1>1. r1 \in Row
  OBVIOUS
<1>2. r2 \in Row
  <2> HIDE DEF r1
  <2> QED BY <1>1
<1>3. r3 \in Row
  <2> HIDE DEF r2
  <2> QED BY <1>2
<1>4. r4 \in Row
  <2> HIDE DEF r3
  <2> QED BY <1>3
<1>5. Claimed(row, w) = r4
  BY DEF Claimed
<1>6. QED
  BY <1>4, <1>5

LEMMA FreedRow ==
    ASSUME NEW row \in Row, NEW status \in Status
    PROVE  /\ Freed(row, status) \in Row
           /\ Freed(row, status).status = status
           /\ Freed(row, status).kind = row.kind
           /\ Freed(row, status).key = row.key
           /\ Freed(row, status).attempts = row.attempts
           /\ Freed(row, status).owner = NoWorker
           /\ Freed(row, status).lease = "none"
           /\ Freed(row, status).conflict = row.conflict
           /\ Freed(row, status).manual = row.manual
           /\ Freed(row, status).superseded = row.superseded
           /\ Freed(row, status).dismissed = row.dismissed
<1> USE RuntimeQueueAssumption DEF Row, Status, Kind
<1> DEFINE r1 == [row EXCEPT !.status = status]
           r2 == [r1 EXCEPT !.owner = NoWorker]
           r3 == [r2 EXCEPT !.lease = "none"]
<1>1. r1 \in Row
  OBVIOUS
<1>2. r2 \in Row
  <2> HIDE DEF r1
  <2> QED BY <1>1
<1>3. r3 \in Row
  <2> HIDE DEF r2
  <2> QED BY <1>2
<1>4. Freed(row, status) = r3
  BY DEF Freed
<1>5. QED
  BY <1>3, <1>4

LEMMA RetryingRow ==
    ASSUME NEW row \in Row
    PROVE  /\ Retrying(row) \in Row
           /\ Retrying(row).status = "pending"
           /\ Retrying(row).kind = row.kind
           /\ Retrying(row).key = "retry"
           /\ Retrying(row).attempts = row.attempts
           /\ Retrying(row).owner = NoWorker
           /\ Retrying(row).lease = "none"
           /\ Retrying(row).conflict = row.conflict
           /\ Retrying(row).manual = row.manual
           /\ Retrying(row).superseded = row.superseded
           /\ Retrying(row).dismissed = row.dismissed
<1> USE RuntimeQueueAssumption DEF Row, Status, Kind
<1> DEFINE r0 == Freed(row, "pending")
           r1 == [r0 EXCEPT !.key = "retry"]
<1>0. /\ r0 \in Row
      /\ r0.status = "pending"
      /\ r0.kind = row.kind
      /\ r0.key = row.key
      /\ r0.attempts = row.attempts
      /\ r0.owner = NoWorker
      /\ r0.lease = "none"
      /\ r0.conflict = row.conflict
      /\ r0.manual = row.manual
      /\ r0.superseded = row.superseded
      /\ r0.dismissed = row.dismissed
  BY FreedRow
<1>1. r1 \in Row
  <2> HIDE DEF r0
  <2> QED BY <1>0
<1>2. Retrying(row) = r1
  BY <1>0 DEF Retrying
<1>3. QED
  <2> HIDE DEF r0
  <2> QED BY <1>0, <1>1, <1>2

LEMMA ReleasedRow ==
    ASSUME NEW row \in Row
    PROVE  /\ Released(row) \in Row
           /\ Released(row).status = "pending"
           /\ Released(row).kind = row.kind
           /\ Released(row).key = "retry"
           /\ Released(row).attempts = (IF row.attempts > 0 THEN row.attempts - 1 ELSE 0)
           /\ Released(row).owner = NoWorker
           /\ Released(row).lease = "none"
           /\ Released(row).conflict = row.conflict
           /\ Released(row).manual = row.manual
           /\ Released(row).superseded = row.superseded
           /\ Released(row).dismissed = row.dismissed
<1> USE RuntimeQueueAssumption DEF Row, Status, Kind
<1> DEFINE r0 == Retrying(row)
           r1 == [r0 EXCEPT !.attempts = IF row.attempts > 0 THEN row.attempts - 1 ELSE 0]
<1>0. /\ r0 \in Row
      /\ r0.status = "pending"
      /\ r0.kind = row.kind
      /\ r0.key = "retry"
      /\ r0.attempts = row.attempts
      /\ r0.owner = NoWorker
      /\ r0.lease = "none"
      /\ r0.conflict = row.conflict
      /\ r0.manual = row.manual
      /\ r0.superseded = row.superseded
      /\ r0.dismissed = row.dismissed
  BY RetryingRow
<1>1. r1 \in Row
  <2> HIDE DEF r0
  <2> QED BY <1>0
<1>2. Released(row) = r1
  BY <1>0 DEF Released
<1>3. QED
  <2> HIDE DEF r0
  <2> QED BY <1>0, <1>1, <1>2

LEMMA FailedRow ==
    ASSUME NEW row \in Row
    PROVE  /\ Failed(row) \in Row
           /\ Failed(row).status = (IF row.attempts >= MaxAttempts THEN "dead_lettered" ELSE "pending")
           /\ Failed(row).kind = row.kind
           /\ Failed(row).key = "retry"
           /\ Failed(row).attempts = row.attempts
           /\ Failed(row).owner = NoWorker
           /\ Failed(row).lease = "none"
           /\ Failed(row).conflict = FALSE
           /\ Failed(row).manual = row.manual
           /\ Failed(row).superseded = row.superseded
           /\ Failed(row).dismissed = row.dismissed
<1> USE RuntimeQueueAssumption DEF Row, Status, Kind
<1> DEFINE r0 == Retrying(row)
           r1 == [r0 EXCEPT !.status = IF row.attempts >= MaxAttempts THEN "dead_lettered" ELSE "pending"]
           r2 == [r1 EXCEPT !.conflict = FALSE]
<1>0. /\ r0 \in Row
      /\ r0.status = "pending"
      /\ r0.kind = row.kind
      /\ r0.key = "retry"
      /\ r0.attempts = row.attempts
      /\ r0.owner = NoWorker
      /\ r0.lease = "none"
      /\ r0.conflict = row.conflict
      /\ r0.manual = row.manual
      /\ r0.superseded = row.superseded
      /\ r0.dismissed = row.dismissed
  BY RetryingRow
<1>1. r1 \in Row
  <2> HIDE DEF r0
  <2> QED BY <1>0
<1>2. r2 \in Row
  <2> HIDE DEF r1
  <2> QED BY <1>1
<1>3. Failed(row) = r2
  BY <1>0 DEF Failed
<1>4. QED
  <2> HIDE DEF r0
  <2> QED BY <1>0, <1>2, <1>3

LEMMA RefusedRow ==
    ASSUME NEW row \in Row, NEW conflict \in BOOLEAN
    PROVE  /\ Refused(row, conflict) \in Row
           /\ Refused(row, conflict).status = "failed"
           /\ Refused(row, conflict).kind = row.kind
           /\ Refused(row, conflict).key = row.key
           /\ Refused(row, conflict).attempts = row.attempts
           /\ Refused(row, conflict).owner = NoWorker
           /\ Refused(row, conflict).lease = "none"
           /\ Refused(row, conflict).conflict = conflict
           /\ Refused(row, conflict).manual = row.manual
           /\ Refused(row, conflict).superseded = row.superseded
           /\ Refused(row, conflict).dismissed = row.dismissed
<1> USE RuntimeQueueAssumption DEF Row, Status, Kind
<1> DEFINE r0 == Freed(row, "failed")
           r1 == [r0 EXCEPT !.conflict = conflict]
<1>0. /\ r0 \in Row
      /\ r0.status = "failed"
      /\ r0.kind = row.kind
      /\ r0.key = row.key
      /\ r0.attempts = row.attempts
      /\ r0.owner = NoWorker
      /\ r0.lease = "none"
      /\ r0.conflict = row.conflict
      /\ r0.manual = row.manual
      /\ r0.superseded = row.superseded
      /\ r0.dismissed = row.dismissed
  BY FreedRow
<1>1. r1 \in Row
  <2> HIDE DEF r0
  <2> QED BY <1>0
<1>2. Refused(row, conflict) = r1
  BY <1>0 DEF Refused
<1>3. QED
  <2> HIDE DEF r0
  <2> QED BY <1>0, <1>1, <1>2

LEMMA RequeuedRow ==
    ASSUME NEW row \in Row
    PROVE  /\ Requeued(row) \in Row
           /\ Requeued(row).status = "pending"
           /\ Requeued(row).kind = row.kind
           /\ Requeued(row).key = "retry"
           /\ Requeued(row).attempts = 0
           /\ Requeued(row).owner = NoWorker
           /\ Requeued(row).lease = "none"
           /\ Requeued(row).conflict = FALSE
           /\ Requeued(row).manual = TRUE
           /\ Requeued(row).superseded = row.superseded
           /\ Requeued(row).dismissed = row.dismissed
<1> USE RuntimeQueueAssumption DEF Row, Status, Kind
<1> DEFINE r0 == Retrying(row)
           r1 == [r0 EXCEPT !.attempts = 0]
           r2 == [r1 EXCEPT !.conflict = FALSE]
           r3 == [r2 EXCEPT !.manual = TRUE]
<1>0. /\ r0 \in Row
      /\ r0.status = "pending"
      /\ r0.kind = row.kind
      /\ r0.key = "retry"
      /\ r0.attempts = row.attempts
      /\ r0.owner = NoWorker
      /\ r0.lease = "none"
      /\ r0.conflict = row.conflict
      /\ r0.manual = row.manual
      /\ r0.superseded = row.superseded
      /\ r0.dismissed = row.dismissed
  BY RetryingRow
<1>1. r1 \in Row
  <2> HIDE DEF r0
  <2> QED BY <1>0
<1>2. r2 \in Row
  <2> HIDE DEF r1
  <2> QED BY <1>1
<1>3. r3 \in Row
  <2> HIDE DEF r2
  <2> QED BY <1>2
<1>4. Requeued(row) = r3
  BY <1>0 DEF Requeued
<1>5. QED
  <2> HIDE DEF r0
  <2> QED BY <1>0, <1>3, <1>4

LEMMA GivenBackRow ==
    ASSUME NEW row \in Row
    PROVE  /\ GivenBack(row) \in Row
           /\ GivenBack(row).status = "pending"
           /\ GivenBack(row).kind = row.kind
           /\ GivenBack(row).key = row.key
           /\ GivenBack(row).attempts = (IF row.attempts > 0 THEN row.attempts - 1 ELSE 0)
           /\ GivenBack(row).owner = NoWorker
           /\ GivenBack(row).lease = "none"
           /\ GivenBack(row).conflict = row.conflict
           /\ GivenBack(row).manual = row.manual
           /\ GivenBack(row).superseded = row.superseded
           /\ GivenBack(row).dismissed = row.dismissed
<1> USE RuntimeQueueAssumption DEF Row, Status, Kind
<1> DEFINE r0 == Freed(row, "pending")
           r1 == [r0 EXCEPT !.attempts = IF row.attempts > 0 THEN row.attempts - 1 ELSE 0]
<1>0. /\ r0 \in Row
      /\ r0.status = "pending"
      /\ r0.kind = row.kind
      /\ r0.key = row.key
      /\ r0.attempts = row.attempts
      /\ r0.owner = NoWorker
      /\ r0.lease = "none"
      /\ r0.conflict = row.conflict
      /\ r0.manual = row.manual
      /\ r0.superseded = row.superseded
      /\ r0.dismissed = row.dismissed
  BY FreedRow
<1>1. r1 \in Row
  <2> HIDE DEF r0
  <2> QED BY <1>0
<1>2. GivenBack(row) = r1
  BY <1>0 DEF GivenBack
<1>3. QED
  <2> HIDE DEF r0
  <2> QED BY <1>0, <1>1, <1>2

LEMMA CoveredRow ==
    ASSUME NEW row \in Row
    PROVE  /\ Covered(row) \in Row
           /\ Covered(row).status = "done"
           /\ Covered(row).kind = row.kind
           /\ Covered(row).key = row.key
           /\ Covered(row).attempts = row.attempts
           /\ Covered(row).owner = NoWorker
           /\ Covered(row).lease = "none"
           /\ Covered(row).conflict = row.conflict
           /\ Covered(row).manual = row.manual
           /\ Covered(row).superseded = TRUE
           /\ Covered(row).dismissed = row.dismissed
<1> USE RuntimeQueueAssumption DEF Row, Status, Kind
<1> DEFINE r0 == Freed(row, "done")
           r1 == [r0 EXCEPT !.superseded = TRUE]
<1>0. /\ r0 \in Row
      /\ r0.status = "done"
      /\ r0.kind = row.kind
      /\ r0.key = row.key
      /\ r0.attempts = row.attempts
      /\ r0.owner = NoWorker
      /\ r0.lease = "none"
      /\ r0.conflict = row.conflict
      /\ r0.manual = row.manual
      /\ r0.superseded = row.superseded
      /\ r0.dismissed = row.dismissed
  BY FreedRow
<1>1. r1 \in Row
  <2> HIDE DEF r0
  <2> QED BY <1>0
<1>2. Covered(row) = r1
  BY <1>0 DEF Covered
<1>3. QED
  <2> HIDE DEF r0
  <2> QED BY <1>0, <1>1, <1>2

LEMMA DismissedRow ==
    ASSUME NEW row \in Row
    PROVE  /\ Dismissed(row) \in Row
           /\ Dismissed(row).status = "done"
           /\ Dismissed(row).kind = row.kind
           /\ Dismissed(row).key = row.key
           /\ Dismissed(row).attempts = row.attempts
           /\ Dismissed(row).owner = NoWorker
           /\ Dismissed(row).lease = "none"
           /\ Dismissed(row).conflict = row.conflict
           /\ Dismissed(row).manual = row.manual
           /\ Dismissed(row).superseded = row.superseded
           /\ Dismissed(row).dismissed = TRUE
<1> USE RuntimeQueueAssumption DEF Row, Status, Kind
<1> DEFINE r0 == Freed(row, "done")
           r1 == [r0 EXCEPT !.dismissed = TRUE]
<1>0. /\ r0 \in Row
      /\ r0.status = "done"
      /\ r0.kind = row.kind
      /\ r0.key = row.key
      /\ r0.attempts = row.attempts
      /\ r0.owner = NoWorker
      /\ r0.lease = "none"
      /\ r0.conflict = row.conflict
      /\ r0.manual = row.manual
      /\ r0.superseded = row.superseded
      /\ r0.dismissed = row.dismissed
  BY FreedRow
<1>1. r1 \in Row
  <2> HIDE DEF r0
  <2> QED BY <1>0
<1>2. Dismissed(row) = r1
  BY <1>0 DEF Dismissed
<1>3. QED
  <2> HIDE DEF r0
  <2> QED BY <1>0, <1>1, <1>2

LEMMA OverdueRow ==
    ASSUME NEW row \in Row
    PROVE  /\ Overdue(row) \in Row
           /\ Overdue(row).status = row.status
           /\ Overdue(row).kind = row.kind
           /\ Overdue(row).key = row.key
           /\ Overdue(row).attempts = row.attempts
           /\ Overdue(row).owner = row.owner
           /\ Overdue(row).lease = "expired"
           /\ Overdue(row).conflict = row.conflict
           /\ Overdue(row).manual = row.manual
           /\ Overdue(row).superseded = row.superseded
           /\ Overdue(row).dismissed = row.dismissed
<1> USE RuntimeQueueAssumption DEF Row, Status, Kind
<1> DEFINE r1 == [row EXCEPT !.lease = "expired"]
<1>1. r1 \in Row
  OBVIOUS
<1>2. Overdue(row) = r1
  BY DEF Overdue
<1>3. QED
  BY <1>1, <1>2
LEMMA NewRowRow ==
    ASSUME NEW kind \in Kinds
    PROVE  /\ NewRow(kind) \in Row
           /\ NewRow(kind).status = "pending" /\ NewRow(kind).kind = kind
           /\ NewRow(kind).attempts = 0 /\ ~NewRow(kind).manual
           /\ ~NewRow(kind).superseded /\ ~NewRow(kind).dismissed
BY RuntimeQueueAssumption DEF NewRow, AbsentRow, Row, Status, Kind

LEMMA IdleIsProcess == IdleProcess \in Process /\ IdleProcess.pc = "idle"
BY RuntimeQueueAssumption DEF IdleProcess, Process, Events

-----------------------------------------------------------------------------
(* Steps that leave the rows alone *)

\* A worker keeps what it has in hand, puts it down, or has committed.
WorkersGoOn ==
    /\ exec' \in [Workers -> Process]
    /\ \A w \in Workers :
         \/ exec'[w] = exec[w]
         \/ exec'[w].pc = "idle"
         \/ /\ exec[w].pc = "running" /\ served'[exec[w].event]
            /\ exec'[w].event = exec[w].event /\ exec'[w].claim = exec[w].claim

LEMMA WorkerRests ==
    ASSUME Inductive, NEW w \in Workers, exec' = [exec EXCEPT ![w] = IdleProcess]
    PROVE  WorkersGoOn
BY IdleIsProcess DEF Inductive, TypeOK, WorkersGoOn


LEMMA RowsAloneStep ==
    ASSUME Inductive, WorkersGoOn, event' = event, spent' = spent, claims' = claims,
           served' \in [Events -> BOOLEAN], \A e \in Events : served[e] => served'[e],
           unparsed' \in [Events -> 0 .. MaxParts],
           faults' \in 0 .. MaxFaults, operator' \in 0 .. MaxOperator
    PROVE  Inductive'
<1>1. TypeOK'
  BY DEF Inductive, TypeOK, WorkersGoOn
<1>2. FenceIsExact'
  BY DEF Inductive, FenceIsExact, WorkersGoOn, Busy, Passes, TypeOK, Process
<1>3. CommittedIsServed'
  BY DEF Inductive, CommittedIsServed, WorkersGoOn, TypeOK, Process
<1>4. DoneMeansServed' /\ AttemptsAreTries'
  BY DEF Inductive, DoneMeansServed, AttemptsAreTries
<1>5. NoPileUp' /\ PendingKeysUnique' /\ SupersededIsAnswered' /\ InsertedInOrder'
      /\ SupersededIsOver'
  BY DEF Inductive, NoPileUp, PendingKeysUnique, SupersededIsAnswered, InsertedInOrder,
     SupersededIsOver, Standing, Waiting, SameKey
<1>6. QED
  BY <1>1, <1>2, <1>3, <1>4, <1>5 DEF Inductive

-----------------------------------------------------------------------------
(* Writes that take one event out of a worker's hands *)

\* What such a write may do to a row that is not absent.
Fits(e, row) ==
    /\ row \in Row
    /\ row.kind = event[e].kind
    /\ row.status \notin {"absent", "processing"}
    /\ event[e].status # "absent"
    /\ event[e].manual => row.manual

LEMMA FreedStep ==
    ASSUME Inductive, WorkersGoOn, NEW e \in Events, NEW row, Fits(e, row),
           event' = [event EXCEPT ![e] = row],
           spent' \in [Events -> Nat], \A f \in Events \ {e} : spent'[f] = spent[f],
           claims' = claims, served' = served,
           unparsed' \in [Events -> 0 .. MaxParts],
           faults' \in 0 .. MaxFaults, operator' \in 0 .. MaxOperator,
           row.status \in {"done", "pruned"} /\ ~row.superseded /\ ~row.dismissed => served[e],
           row.status = "pending" => row.attempts = spent'[e],
           row.status = "dead_lettered" => spent'[e] >= MaxAttempts,
           \/ row.manual
           \/ ~(\/ row.status = "pending"
                \/ row.status \in {"failed", "dead_lettered"} /\ row.conflict)
           \/ Standing(e),
           \/ row.status # "pending"
           \/ row.key # "request"
           \/ \A f \in Events \ {e} : ~(Waiting(f) /\ event[f].key = "request"
                                        /\ event[f].kind = row.kind),
           row.superseded => row.status \in {"done", "pruned"},
           row.superseded =>
               \/ event[e].superseded
               \/ \E f \in Events : /\ f > e /\ event[f].kind = row.kind
                                    /\ event[f].status # "absent"
    PROVE  Inductive'
<1>1. TypeOK'
  BY DEF Inductive, TypeOK, WorkersGoOn, Fits
<1>2. FenceIsExact'
  <2> SUFFICES ASSUME NEW w \in Workers, Busy(w)', Passes(w)'
               PROVE  exec'[w].claim = claims'[exec'[w].event]
    BY DEF FenceIsExact
  <2>1. exec[w] \in Process /\ exec'[w] \in Process /\ exec'[w].event \in Events
    BY DEF Inductive, TypeOK, WorkersGoOn, Process
  <2>2. exec'[w].event = exec[w].event /\ exec'[w].claim = exec[w].claim /\ Busy(w)
    BY DEF WorkersGoOn, Busy
  <2>3. exec[w].event # e
    BY <2>1, <2>2 DEF Passes, Fits, Inductive, TypeOK
  <2>4. event'[exec[w].event] = event[exec[w].event]
    BY <2>1, <2>2, <2>3 DEF Inductive, TypeOK
  <2>5. Passes(w)
    BY <2>2, <2>4 DEF Passes
  <2>6. QED
    BY <2>2, <2>5 DEF Inductive, FenceIsExact
<1>3. CommittedIsServed'
  BY DEF Inductive, CommittedIsServed, WorkersGoOn, TypeOK, Process
<1>4. event'[e] = row /\ \A f \in Events \ {e} : event'[f] = event[f]
  BY DEF Inductive, TypeOK
<1>5. DoneMeansServed' /\ SupersededIsOver'
  BY <1>4 DEF Inductive, DoneMeansServed, SupersededIsOver
<1>6. AttemptsAreTries'
  BY <1>4 DEF Inductive, AttemptsAreTries, Fits
<1>7. NoPileUp'
  <2> SUFFICES ASSUME NEW a \in Events, NEW b \in Events, a < b,
                      event'[a].kind \in ScopeSync, Standing(a)',
                      event'[b].kind = "sync", event'[b].status # "absent"
               PROVE  event'[a].manual
    BY DEF NoPileUp
  <2>1. event[b].kind = "sync" /\ event[b].status # "absent" /\ event[a].kind \in ScopeSync
    BY <1>4 DEF Fits
  <2>2. CASE a # e
    BY <1>4, <2>1, <2>2 DEF Inductive, NoPileUp, Standing
  <2>3. CASE a = e
    <3>1. row.manual \/ Standing(e)
      BY <1>4, <2>3 DEF Standing, Fits
    <3>2. QED
      BY <1>4, <2>1, <2>3, <3>1 DEF Inductive, NoPileUp, Fits
  <2>4. QED
    BY <2>2, <2>3
<1>8. PendingKeysUnique'
  <2> SUFFICES ASSUME NEW a \in Events, NEW b \in Events,
                      Waiting(a)', Waiting(b)', SameKey(a, b)', a # b
               PROVE  FALSE
    BY DEF PendingKeysUnique
  <2>1. CASE a # e /\ b # e
    BY <1>4, <2>1 DEF Inductive, PendingKeysUnique, Waiting, SameKey
  <2>2. CASE a = e
    BY <1>4, <2>2 DEF Waiting, SameKey
  <2>3. CASE b = e
    BY <1>4, <2>3 DEF Waiting, SameKey
  <2>4. QED
    BY <2>1, <2>2, <2>3
<1>9. SupersededIsAnswered'
  <2>1. ASSUME NEW a \in Events, event'[a].superseded
        PROVE  \E g \in Events : /\ g > a /\ event[g].kind = event[a].kind
                                 /\ event[g].status # "absent" /\ ~event[g].superseded
    <3>1. CASE event[a].superseded
      BY <3>1 DEF Inductive, SupersededIsAnswered
    <3>2. CASE ~event[a].superseded
      <4>1. a = e
        BY <1>4, <2>1, <3>2
      <4>2. PICK f \in Events : /\ f > e /\ event[f].kind = row.kind
                                /\ event[f].status # "absent"
        BY <1>4, <2>1, <3>2, <4>1
      <4>3. CASE ~event[f].superseded
        BY <4>1, <4>2, <4>3 DEF Fits
      <4>4. CASE event[f].superseded
        <5>1. PICK g \in Events : /\ g > f /\ event[g].kind = event[f].kind
                                  /\ event[g].status # "absent" /\ ~event[g].superseded
          BY <4>4 DEF Inductive, SupersededIsAnswered
        <5>2. g > e
          BY <4>2, <5>1 DEF Events
        <5>3. QED
          BY <4>1, <4>2, <5>1, <5>2 DEF Fits
      <4>5. QED
        BY <4>3, <4>4
    <3>3. QED
      BY <3>1, <3>2
  <2>2. ASSUME NEW a \in Events, event'[a].superseded
        PROVE  \E g \in Events : /\ g > a /\ event'[g].kind = event'[a].kind
                                 /\ event'[g].status # "absent" /\ ~event'[g].superseded
    <3>1. event'[a].kind = event[a].kind
      BY <1>4 DEF Fits
    <3>2. PICK g \in Events : /\ g > a /\ event[g].kind = event[a].kind
                              /\ event[g].status # "absent" /\ ~event[g].superseded
      BY <2>1, <2>2
    <3>3. CASE g # e
      BY <1>4, <3>1, <3>2, <3>3
    <3>4. CASE g = e /\ ~row.superseded
      BY <1>4, <3>1, <3>2, <3>4 DEF Fits
    <3>5. CASE g = e /\ row.superseded
      <4>1. PICK h \in Events : /\ h > e /\ event[h].kind = event[e].kind
                                /\ event[h].status # "absent" /\ ~event[h].superseded
        BY <1>4, <2>1, <3>5
      <4>2. h > a /\ h # e
        BY <3>2, <3>5, <4>1 DEF Events
      <4>3. QED
        BY <1>4, <3>1, <3>2, <3>5, <4>1, <4>2
    <3>6. QED
      BY <3>3, <3>4, <3>5
  <2>3. QED
    BY <2>2 DEF SupersededIsAnswered
<1>10. InsertedInOrder'
  BY <1>4 DEF Inductive, InsertedInOrder, Fits
<1>11. QED
  BY <1>1, <1>2, <1>3, <1>5, <1>6, <1>7, <1>8, <1>9, <1>10 DEF Inductive

\* The settling write of a worker, whether or not it matches.
LEMMA SettleStep ==
    ASSUME Inductive, NEW w \in Workers, NEW row, NEW price \in {0, 1},
           Settle(w, row, price), claims' = claims, served' = served,
           unparsed' \in [Events -> 0 .. MaxParts],
           faults' \in 0 .. MaxFaults, operator' \in 0 .. MaxOperator,
           row \in Row, row.status \notin {"absent", "processing"},
           row.kind = InHand(w).kind, row.manual = InHand(w).manual,
           row.superseded = InHand(w).superseded,
           row.status = "pending" => row.key # "request",
           row.status \in {"done", "pruned"} => served[exec[w].event],
           row.status = "pending" => row.attempts = InHand(w).attempts - 1 + price,
           row.status = "dead_lettered" => price = 1 /\ InHand(w).attempts >= MaxAttempts
    PROVE  Inductive'
<1> DEFINE e == exec[w].event
<1>1. e \in Events
  BY DEF Inductive, TypeOK, Process
<1>2. WorkersGoOn
  BY WorkerRests DEF Settle
<1>3. CASE ~Passes(w)
  BY <1>2, <1>3, RowsAloneStep DEF Settle, Inductive, TypeOK
<1>4. CASE Passes(w)
  <2>1. event' = [event EXCEPT ![e] = row] /\ spent' = [spent EXCEPT ![e] = @ + price]
    BY <1>4 DEF Settle
  <2>2. event[e].status = "processing"
    BY <1>4 DEF Passes
  <2>3. spent' \in [Events -> Nat] /\ spent'[e] = spent[e] + price
        /\ \A f \in Events \ {e} : spent'[f] = spent[f]
    BY <1>1, <2>1 DEF Inductive, TypeOK
  <2>4. Fits(e, row)
    BY <2>2 DEF Fits, InHand
  <2>5. event[e].attempts = spent[e] + 1 /\ spent[e] \in Nat
    BY <1>1, <2>2 DEF Inductive, AttemptsAreTries, TypeOK
  <2>6. row.status = "pending" => row.attempts = spent'[e]
    BY <2>3, <2>5 DEF InHand
  <2>7. row.status = "dead_lettered" => spent'[e] >= MaxAttempts
    BY <2>3, <2>5 DEF InHand
  <2>8. Standing(e)
    BY <2>2 DEF Standing
  <2>9. ~event[e].superseded /\ ~row.superseded
    BY <1>1, <2>2 DEF Inductive, SupersededIsOver, InHand
  <2>10. row.status \in {"done", "pruned"} => served[e]
    OBVIOUS
  <2> HIDE DEF e
  <2>11. QED
    BY <1>1, <1>2, <2>1, <2>3, <2>4, <2>6, <2>7, <2>8, <2>9, <2>10, FreedStep
<1>5. QED
  BY <1>3, <1>4

\* What an event in hand is.
LEMMA InHandIsRow ==
    ASSUME Inductive, NEW w \in Workers
    PROVE  /\ InHand(w) \in Row /\ exec[w].event \in Events
           /\ InHand(w).attempts \in Nat
           /\ unparsed \in [Events -> 0 .. MaxParts]
           /\ faults \in 0 .. MaxFaults /\ operator \in 0 .. MaxOperator
BY DEF Inductive, TypeOK, Process, InHand, Row

LEMMA CountFault == ASSUME Inductive, Fault PROVE faults' \in 0 .. MaxFaults
BY RuntimeQueueAssumption DEF Fault, Inductive, TypeOK

LEMMA CountOperate == ASSUME Inductive, Operate PROVE operator' \in 0 .. MaxOperator
BY RuntimeQueueAssumption DEF Operate, Inductive, TypeOK

-----------------------------------------------------------------------------
(* The worker's actions *)

LEMMA RefuseStep == ASSUME Inductive, NEW w \in Workers, Refuse(w) PROVE Inductive'
<1> DEFINE row == Refused(InHand(w), FALSE)
<1>1. /\ row \in Row /\ row.status = "failed" /\ row.kind = InHand(w).kind
      /\ row.manual = InHand(w).manual /\ row.superseded = InHand(w).superseded
  BY InHandIsRow, RefusedRow
<1>2. Settle(w, row, 1) /\ claims' = claims /\ served' = served
  BY DEF Refuse
<1>3. /\ unparsed' \in [Events -> 0 .. MaxParts]
      /\ faults' \in 0 .. MaxFaults /\ operator' \in 0 .. MaxOperator
  BY InHandIsRow DEF Refuse
<1> HIDE DEF row
<1>4. QED
  BY <1>1, <1>2, <1>3, SettleStep

LEMMA ConflictStep == ASSUME Inductive, NEW w \in Workers, Conflict(w) PROVE Inductive'
<1> DEFINE row == Refused(InHand(w), TRUE)
<1>1. /\ row \in Row /\ row.status = "failed" /\ row.kind = InHand(w).kind
      /\ row.manual = InHand(w).manual /\ row.superseded = InHand(w).superseded
  BY InHandIsRow, RefusedRow
<1>2. Settle(w, row, 1) /\ claims' = claims /\ served' = served
  BY DEF Conflict
<1>3. /\ unparsed' \in [Events -> 0 .. MaxParts]
      /\ faults' \in 0 .. MaxFaults /\ operator' \in 0 .. MaxOperator
  BY InHandIsRow DEF Conflict
<1> HIDE DEF row
<1>4. QED
  BY <1>1, <1>2, <1>3, SettleStep

LEMMA AckStep == ASSUME Inductive, NEW w \in Workers, Ack(w) PROVE Inductive'
<1> DEFINE row == Freed(InHand(w), "done")
<1>1. /\ row \in Row /\ row.status = "done" /\ row.kind = InHand(w).kind
      /\ row.manual = InHand(w).manual /\ row.superseded = InHand(w).superseded
  BY InHandIsRow, FreedRow DEF Status
<1>2. Settle(w, row, 0) /\ claims' = claims /\ served' = served
  BY DEF Ack
<1>3. /\ unparsed' \in [Events -> 0 .. MaxParts]
      /\ faults' \in 0 .. MaxFaults /\ operator' \in 0 .. MaxOperator
  BY InHandIsRow DEF Ack
<1>4. served[exec[w].event]
  BY DEF Ack, Inductive, CommittedIsServed
<1> HIDE DEF row
<1>5. QED
  BY <1>1, <1>2, <1>3, <1>4, SettleStep

LEMMA FailStep == ASSUME Inductive, NEW w \in Workers, Fail(w) PROVE Inductive'
<1> DEFINE row == Failed(InHand(w))
<1>1. /\ row \in Row /\ row.kind = InHand(w).kind
      /\ row.status = (IF InHand(w).attempts >= MaxAttempts THEN "dead_lettered" ELSE "pending")
      /\ row.key = "retry" /\ row.attempts = InHand(w).attempts
      /\ row.manual = InHand(w).manual /\ row.superseded = InHand(w).superseded
  BY InHandIsRow, FailedRow
<1>2. Settle(w, row, 1) /\ claims' = claims /\ served' = served
  BY DEF Fail
<1>3. /\ unparsed' \in [Events -> 0 .. MaxParts]
      /\ faults' \in 0 .. MaxFaults /\ operator' \in 0 .. MaxOperator
  BY InHandIsRow DEF Fail
<1>4. InHand(w).attempts \in Nat
  BY InHandIsRow
<1> HIDE DEF row
<1>5. row.status = "pending" => row.attempts = InHand(w).attempts - 1 + 1
  BY <1>1, <1>4
<1>6. row.status \in {"pending", "dead_lettered"}
      /\ (row.status = "dead_lettered" => InHand(w).attempts >= MaxAttempts)
  BY <1>1
<1>7. QED
  BY <1>1, <1>2, <1>3, <1>5, <1>6, SettleStep

\* Only a claimed event, one with at least one try, is released.
LEMMA ReleaseStep ==
    ASSUME Inductive, NEW w \in Workers, Settle(w, Released(InHand(w)), 0),
           claims' = claims, served' = served, unparsed' \in [Events -> 0 .. MaxParts],
           faults' \in 0 .. MaxFaults, operator' \in 0 .. MaxOperator
    PROVE  Inductive'
<1> DEFINE row == Released(InHand(w))
<1>1. /\ row \in Row /\ row.kind = InHand(w).kind /\ row.status = "pending"
      /\ row.attempts = (IF InHand(w).attempts > 0 THEN InHand(w).attempts - 1 ELSE 0)
      /\ row.key = "retry"
      /\ row.manual = InHand(w).manual /\ row.superseded = InHand(w).superseded
  BY InHandIsRow, ReleasedRow
<1>2. CASE Passes(w)
  <2>1. InHand(w).attempts = spent[exec[w].event] + 1 /\ spent[exec[w].event] \in Nat
    BY <1>2, InHandIsRow DEF Passes, Inductive, AttemptsAreTries, TypeOK, InHand
  <2> HIDE DEF row
  <2>2. row.attempts = InHand(w).attempts - 1 + 0
    BY <1>1, <2>1
  <2>3. Settle(w, row, 0)
    BY DEF row
  <2>4. QED
    BY <1>1, <2>2, <2>3, SettleStep
<1>3. CASE ~Passes(w)
  <2>1. event' = event /\ spent' = spent /\ exec' = [exec EXCEPT ![w] = IdleProcess]
    BY <1>3 DEF Settle
  <2>2. WorkersGoOn
    BY <2>1, WorkerRests
  <2>3. served' \in [Events -> BOOLEAN]
    BY DEF Inductive, TypeOK
  <2>4. QED
    BY <2>1, <2>2, <2>3, RowsAloneStep
<1>4. QED
  BY <1>2, <1>3

LEMMA DeferStep == ASSUME Inductive, NEW w \in Workers, Defer(w) PROVE Inductive'
<1>1. unparsed' \in [Events -> 0 .. MaxParts]
  <2>1. PICK parts \in Headway(exec[w].event) :
          unparsed' = [unparsed EXCEPT ![exec[w].event] = @ - parts]
    BY DEF Defer
  <2>2. unparsed[exec[w].event] - parts \in 0 .. MaxParts
    BY <2>1, InHandIsRow, RuntimeQueueAssumption DEF Headway
  <2>3. QED
    BY <2>1, <2>2, InHandIsRow
<1>2. faults' \in 0 .. MaxFaults /\ operator' \in 0 .. MaxOperator
  BY InHandIsRow DEF Defer
<1>3. Settle(w, Released(InHand(w)), 0) /\ claims' = claims /\ served' = served
  BY DEF Defer, Deferred
<1>4. QED
  BY <1>1, <1>2, <1>3, ReleaseStep

LEMMA ShutdownStep == ASSUME Inductive, NEW w \in Workers, Shutdown(w) PROVE Inductive'
<1>1. unparsed' \in [Events -> 0 .. MaxParts] /\ operator' \in 0 .. MaxOperator
  BY InHandIsRow DEF Shutdown
<1>2. faults' \in 0 .. MaxFaults
  BY CountFault DEF Shutdown
<1>3. Settle(w, Released(InHand(w)), 0) /\ claims' = claims /\ served' = served
  BY DEF Shutdown
<1>4. QED
  BY <1>1, <1>2, <1>3, ReleaseStep

LEMMA CommitStep == ASSUME Inductive, NEW w \in Workers, Commit(w) PROVE Inductive'
<1>1. exec[w].event \in Events /\ exec[w] \in Process /\ exec[w].pc = "running"
  BY DEF Commit, Inductive, TypeOK, Process
<1>2. /\ Committed(exec[w]) \in Process
      /\ Committed(exec[w]).event = exec[w].event /\ Committed(exec[w]).claim = exec[w].claim
  BY <1>1 DEF Committed, Process
<1>3. exec' = [exec EXCEPT ![w] = Committed(exec[w])]
      /\ served' = [served EXCEPT ![exec[w].event] = TRUE]
  BY DEF Commit
<1>4. WorkersGoOn
  BY <1>1, <1>2, <1>3 DEF WorkersGoOn, Inductive, TypeOK
<1>5. served' \in [Events -> BOOLEAN] /\ \A e \in Events : served[e] => served'[e]
  BY <1>1, <1>3 DEF Inductive, TypeOK
<1>6. /\ event' = event /\ spent' = spent /\ claims' = claims
      /\ unparsed' \in [Events -> 0 .. MaxParts]
      /\ faults' \in 0 .. MaxFaults /\ operator' \in 0 .. MaxOperator
  BY DEF Commit, Inductive, TypeOK
<1>7. QED
  BY <1>4, <1>5, <1>6, RowsAloneStep

LEMMA CrashStep == ASSUME Inductive, NEW w \in Workers, Crash(w) PROVE Inductive'
<1>1. WorkersGoOn
  BY WorkerRests DEF Crash
<1>2. /\ event' = event /\ spent' = spent /\ claims' = claims
      /\ served' \in [Events -> BOOLEAN] /\ \A e \in Events : served[e] => served'[e]
      /\ unparsed' \in [Events -> 0 .. MaxParts] /\ operator' \in 0 .. MaxOperator
  BY DEF Crash, Inductive, TypeOK
<1>3. faults' \in 0 .. MaxFaults
  BY CountFault DEF Crash
<1>4. QED
  BY <1>1, <1>2, <1>3, RowsAloneStep

\* Claiming makes the claimer's number the latest; an expired lease costs its
\* owner the try and the fence.
LEMMA ClaimStep == ASSUME Inductive, NEW w \in Workers, Claim(w) PROVE Inductive'
<1>1. PICK e \in Events :
        /\ Claimable(e)
        /\ event' = [event EXCEPT ![e] = Claimed(event[e], w)]
        /\ exec' = [exec EXCEPT ![w] =
             [pc |-> "running", event |-> e, claim |-> claims[e] + 1]]
        /\ claims' = [claims EXCEPT ![e] = claims[e] + 1]
        /\ spent' = [spent EXCEPT ![e] = IF Expired(e) THEN spent[e] + 1 ELSE spent[e]]
  BY DEF Claim
<1> DEFINE row == Claimed(event[e], w)
<1>2. event[e] \in Row /\ claims[e] \in Nat /\ spent[e] \in Nat
  BY DEF Inductive, TypeOK
<1>3. /\ row \in Row /\ row.status = "processing" /\ row.kind = event[e].kind
      /\ row.attempts = event[e].attempts + 1 /\ row.owner = w
      /\ row.conflict = event[e].conflict /\ row.manual = event[e].manual
      /\ row.superseded = event[e].superseded /\ row.dismissed = event[e].dismissed
  BY <1>2, ClaimedRow
<1>4. event'[e] = row /\ \A f \in Events \ {e} : event'[f] = event[f]
  BY <1>1 DEF Inductive, TypeOK
<1>5. event[e].status \in {"pending", "processing"}
  BY <1>1 DEF Claimable, Waiting, Expired
<1>6. [pc |-> "running", event |-> e, claim |-> claims[e] + 1] \in Process
  BY <1>2 DEF Process
<1>7. exec[w].pc = "idle" /\ served' = served /\ unparsed' = unparsed
      /\ faults' = faults /\ operator' = operator
  BY DEF Claim
<1> HIDE DEF row
<1>8. TypeOK'
  BY <1>1, <1>2, <1>3, <1>4, <1>6, <1>7 DEF Inductive, TypeOK, row
<1>9. FenceIsExact'
  <2> SUFFICES ASSUME NEW v \in Workers, Busy(v)', Passes(v)'
               PROVE  exec'[v].claim = claims'[exec'[v].event]
    BY DEF FenceIsExact
  <2>1. CASE v = w
    BY <1>1, <1>2, <2>1 DEF Inductive, TypeOK
  <2>2. CASE v # w
    <3>1. exec'[v] = exec[v] /\ exec[v].event \in Events
      BY <1>1, <2>2 DEF Inductive, TypeOK, Process
    <3>2. exec[v].event # e
      BY <1>3, <1>4, <2>2, <3>1 DEF Passes
    <3>3. Passes(v) /\ Busy(v) /\ claims'[exec[v].event] = claims[exec[v].event]
      BY <1>1, <1>4, <3>1, <3>2 DEF Passes, Busy, Inductive, TypeOK
    <3>4. QED
      BY <3>1, <3>3 DEF Inductive, FenceIsExact
  <2>3. QED
    BY <2>1, <2>2
<1>10. DoneMeansServed' /\ SupersededIsOver' /\ InsertedInOrder'
  BY <1>3, <1>4, <1>5, <1>7, <1>1
  DEF Inductive, DoneMeansServed, SupersededIsOver, InsertedInOrder, TypeOK
<1>11. AttemptsAreTries'
  <2>1. spent'[e] = event[e].attempts
    BY <1>1, <1>2, <1>5 DEF Claimable, Waiting, Expired, Inductive, AttemptsAreTries, TypeOK
  <2>2. \A f \in Events \ {e} : spent'[f] = spent[f]
    BY <1>1 DEF Inductive, TypeOK
  <2>3. QED
    BY <1>3, <1>4, <2>1, <2>2 DEF Inductive, AttemptsAreTries
<1>12. NoPileUp'
  BY <1>3, <1>4, <1>5 DEF Inductive, NoPileUp, Standing
<1>13. PendingKeysUnique'
  BY <1>3, <1>4 DEF Inductive, PendingKeysUnique, Waiting, SameKey
<1>14. SupersededIsAnswered'
  BY <1>3, <1>4, <1>5 DEF Inductive, SupersededIsAnswered
<1>15. CommittedIsServed'
  BY <1>1, <1>7 DEF Inductive, CommittedIsServed, TypeOK
<1>16. QED
  BY <1>8, <1>9, <1>10, <1>11, <1>12, <1>13, <1>14, <1>15 DEF Inductive

LEMMA LeaseExpiresStep ==
    ASSUME Inductive, NEW e \in Events, LeaseExpires(e) PROVE Inductive'
<1> DEFINE row == Overdue(event[e])
<1>1. event[e] \in Row
  BY DEF Inductive, TypeOK
<1>2. /\ row \in Row /\ row.status = event[e].status /\ row.kind = event[e].kind
      /\ row.key = event[e].key
      /\ row.attempts = event[e].attempts /\ row.owner = event[e].owner
      /\ row.conflict = event[e].conflict /\ row.manual = event[e].manual
      /\ row.superseded = event[e].superseded /\ row.dismissed = event[e].dismissed
  BY <1>1, OverdueRow
<1>3. event' = [event EXCEPT ![e] = row]
  BY DEF LeaseExpires
<1> HIDE DEF row
<1>4. event'[e] = row /\ \A f \in Events \ {e} : event'[f] = event[f]
  BY <1>3 DEF Inductive, TypeOK
<1>5. faults' \in 0 .. MaxFaults
  BY CountFault DEF LeaseExpires, Inductive, TypeOK
<1>6. TypeOK'
  BY <1>2, <1>3, <1>5 DEF LeaseExpires, Inductive, TypeOK
<1>7. FenceIsExact' /\ CommittedIsServed'
  BY <1>2, <1>4
  DEF LeaseExpires, Inductive, FenceIsExact, CommittedIsServed, Busy, Passes, TypeOK, Process
<1>8. DoneMeansServed' /\ AttemptsAreTries' /\ InsertedInOrder' /\ SupersededIsOver'
  BY <1>2, <1>4 DEF LeaseExpires, Inductive, DoneMeansServed, AttemptsAreTries,
     InsertedInOrder, SupersededIsOver
<1>9. NoPileUp' /\ PendingKeysUnique' /\ SupersededIsAnswered'
  BY <1>2, <1>4 DEF Inductive, NoPileUp, PendingKeysUnique, SupersededIsAnswered,
     Standing, Waiting, SameKey
<1>10. QED
  BY <1>6, <1>7, <1>8, <1>9 DEF Inductive

-----------------------------------------------------------------------------
(* Requests *)

LEMMA EnqueueStep == ASSUME Inductive, NEW kind \in Kinds, Enqueue(kind) PROVE Inductive'
<1>1. PICK e \in Events :
        /\ event[e].status = "absent"
        /\ \A f \in 1 .. e - 1 : event[f].status # "absent"
        /\ event' = [event EXCEPT ![e] = NewRow(kind)]
  BY DEF Enqueue
<1> DEFINE row == NewRow(kind)
<1>2. /\ row \in Row /\ row.status = "pending" /\ row.kind = kind /\ row.attempts = 0
      /\ ~row.manual /\ ~row.superseded /\ ~row.dismissed
  BY NewRowRow
<1> HIDE DEF row
<1>3. event'[e] = row /\ \A f \in Events \ {e} : event'[f] = event[f]
  BY <1>1 DEF Inductive, TypeOK, row
<1>4. /\ exec' = exec /\ unparsed' = unparsed /\ served' = served /\ claims' = claims
      /\ spent' = spent /\ faults' = faults /\ operator' = operator
  BY DEF Enqueue
<1>5. TypeOK'
  BY <1>1, <1>2, <1>4 DEF Inductive, TypeOK, row
<1>6. FenceIsExact' /\ CommittedIsServed'
  BY <1>2, <1>3, <1>4
  DEF Inductive, FenceIsExact, CommittedIsServed, Busy, Passes, TypeOK, Process
<1>7. DoneMeansServed' /\ SupersededIsOver'
  BY <1>2, <1>3, <1>4 DEF Inductive, DoneMeansServed, SupersededIsOver
<1>8. AttemptsAreTries'
  <2>1. spent[e] = 0
    BY <1>1 DEF Inductive, InsertedInOrder
  <2>2. QED
    BY <1>2, <1>3, <1>4, <2>1 DEF Inductive, AttemptsAreTries
<1>9. \A f \in Events : f < e => event[f].status # "absent"
  BY <1>1 DEF Events
<1>10. InsertedInOrder'
  <2> SUFFICES ASSUME NEW a \in Events, event'[a].status = "absent"
               PROVE  /\ ~event'[a].superseded /\ ~event'[a].manual /\ spent'[a] = 0
                      /\ \A f \in Events : a < f => event'[f].status = "absent"
    BY DEF InsertedInOrder
  <2>1. a # e /\ event[a].status = "absent"
    BY <1>2, <1>3
  <2>2. \A f \in Events : a < f => f # e
    BY <1>9, <2>1
  <2>3. QED
    BY <1>3, <1>4, <2>1, <2>2 DEF Inductive, InsertedInOrder
<1>11. NoPileUp'
  <2> SUFFICES ASSUME NEW a \in Events, NEW b \in Events, a < b,
                      event'[a].kind \in ScopeSync, Standing(a)',
                      event'[b].kind = "sync", event'[b].status # "absent"
               PROVE  event'[a].manual
    BY DEF NoPileUp
  <2>1. CASE a # e /\ b # e
    BY <1>3, <2>1 DEF Inductive, NoPileUp, Standing
  <2>2. CASE a = e
    <3>1. event[b].status = "absent"
      BY <1>1, <2>2 DEF Inductive, InsertedInOrder
    <3>2. QED
      BY <1>3, <2>2, <3>1 DEF Events
  <2>3. CASE b = e /\ a # e
    <3>1. event[a].kind \in ScopeSync /\ Standing(a) /\ kind = "sync"
      BY <1>2, <1>3, <2>3 DEF Standing
    <3>2. QED
      BY <3>1 DEF Enqueue, Joins
  <2>4. QED
    BY <2>1, <2>2, <2>3
<1>12. PendingKeysUnique'
  <2>1. ASSUME NEW a \in Events, a # e, Waiting(a), event[a].key = "request",
               event[a].kind = kind
        PROVE  FALSE
    <3>1. Joins(kind, a)
      BY <2>1 DEF Joins, Waiting, Standing, ScopeSync
    <3>2. QED
      BY <3>1 DEF Enqueue
  <2> SUFFICES ASSUME NEW a \in Events, NEW b \in Events,
                      Waiting(a)', Waiting(b)', SameKey(a, b)', a # b
               PROVE  FALSE
    BY DEF PendingKeysUnique
  <2>2. CASE a # e /\ b # e
    BY <1>3, <2>2 DEF Inductive, PendingKeysUnique, Waiting, SameKey
  <2>3. CASE a = e
    BY <1>2, <1>3, <2>1, <2>3 DEF Waiting, SameKey
  <2>4. CASE b = e
    BY <1>2, <1>3, <2>1, <2>4 DEF Waiting, SameKey
  <2>5. QED
    BY <2>2, <2>3, <2>4
<1>13. SupersededIsAnswered'
  BY <1>1, <1>2, <1>3 DEF Inductive, SupersededIsAnswered
<1>14. QED
  BY <1>5, <1>6, <1>7, <1>8, <1>10, <1>11, <1>12, <1>13 DEF Inductive

-----------------------------------------------------------------------------
(* Operators *)

LEMMA WorkersStay == ASSUME Inductive, exec' = exec PROVE WorkersGoOn
BY DEF Inductive, TypeOK, WorkersGoOn

LEMMA RequeueStep == ASSUME Inductive, NEW e \in Events, Requeue(e) PROVE Inductive'
<1> DEFINE row == Requeued(event[e])
<1>1. event[e] \in Row
  BY DEF Inductive, TypeOK
<1>2. /\ row \in Row /\ row.status = "pending" /\ row.kind = event[e].kind
      /\ row.key = "retry" /\ row.attempts = 0 /\ row.manual
      /\ row.superseded = event[e].superseded
  BY <1>1, RequeuedRow
<1>3. event[e].status \in {"failed", "dead_lettered", "pending"}
  BY DEF Requeue
<1>4. ~event[e].superseded
  BY <1>3 DEF Inductive, SupersededIsOver
<1>5. Fits(e, row)
  BY <1>2, <1>3 DEF Fits
<1>6. event' = [event EXCEPT ![e] = row] /\ spent' = [spent EXCEPT ![e] = 0]
  BY DEF Requeue
<1>7. spent' \in [Events -> Nat] /\ spent'[e] = 0
      /\ \A f \in Events \ {e} : spent'[f] = spent[f]
  BY <1>6 DEF Inductive, TypeOK
<1>8. /\ claims' = claims /\ served' = served /\ unparsed' \in [Events -> 0 .. MaxParts]
      /\ faults' \in 0 .. MaxFaults /\ operator' \in 0 .. MaxOperator
  BY CountOperate DEF Requeue, Inductive, TypeOK
<1>9. WorkersGoOn
  BY WorkersStay DEF Requeue
<1> HIDE DEF row
<1>10. QED
  BY <1>2, <1>4, <1>5, <1>6, <1>7, <1>8, <1>9, FreedStep

LEMMA ReleaseStaleStep ==
    ASSUME Inductive, NEW e \in Events, ReleaseStale(e) PROVE Inductive'
<1> DEFINE row == GivenBack(event[e])
<1>1. event[e] \in Row /\ event[e].attempts \in Nat /\ spent[e] \in Nat
  BY DEF Inductive, TypeOK, Row
<1>2. /\ row \in Row /\ row.status = "pending" /\ row.kind = event[e].kind
      /\ row.key = event[e].key
      /\ row.attempts = (IF event[e].attempts > 0 THEN event[e].attempts - 1 ELSE 0)
      /\ row.manual = event[e].manual /\ row.superseded = event[e].superseded
  BY <1>1, GivenBackRow
<1>3. event[e].status = "processing"
  BY DEF ReleaseStale, Releasable, Expired
<1>4. ~event[e].superseded /\ Standing(e)
  BY <1>3 DEF Inductive, SupersededIsOver, Standing
<1>5. Fits(e, row)
  BY <1>2, <1>3 DEF Fits
<1>6. event' = [event EXCEPT ![e] = row] /\ spent' = spent
  BY DEF ReleaseStale
<1>7. event[e].attempts = spent[e] + 1
  BY <1>3 DEF Inductive, AttemptsAreTries
<1>8. \/ row.key # "request"
      \/ \A f \in Events \ {e} : ~(Waiting(f) /\ event[f].key = "request"
                                   /\ event[f].kind = row.kind)
  BY <1>2 DEF ReleaseStale, Releasable, SameKey
<1>9. /\ claims' = claims /\ served' = served /\ unparsed' \in [Events -> 0 .. MaxParts]
      /\ faults' \in 0 .. MaxFaults /\ operator' \in 0 .. MaxOperator
      /\ spent' \in [Events -> Nat]
  BY CountOperate DEF ReleaseStale, Inductive, TypeOK
<1>10. WorkersGoOn
  BY WorkersStay DEF ReleaseStale
<1> HIDE DEF row
<1>11. row.attempts = spent'[e]
  BY <1>1, <1>2, <1>6, <1>7
<1>12. \A f \in Events \ {e} : spent'[f] = spent[f]
  BY <1>6
<1>13. QED
  BY <1>2, <1>4, <1>5, <1>6, <1>8, <1>9, <1>10, <1>11, <1>12, FreedStep

LEMMA ResolveSupersededStep ==
    ASSUME Inductive, NEW e \in Events, ResolveSuperseded(e) PROVE Inductive'
<1> DEFINE row == Covered(event[e])
<1>1. event[e] \in Row
  BY DEF Inductive, TypeOK
<1>2. /\ row \in Row /\ row.status = "done" /\ row.kind = event[e].kind
      /\ row.manual = event[e].manual /\ row.superseded = TRUE
  BY <1>1, CoveredRow
<1>3. event[e].status = "processing"
  BY DEF ResolveSuperseded, Expired
<1>4. Standing(e)
  BY <1>3 DEF Standing
<1>5. Fits(e, row)
  BY <1>2, <1>3 DEF Fits
<1>6. event' = [event EXCEPT ![e] = row] /\ spent' = spent
  BY DEF ResolveSuperseded
<1>7. \E f \in Events : /\ f > e /\ event[f].kind = row.kind /\ event[f].status # "absent"
  BY <1>2 DEF ResolveSuperseded, Cover, SameKey
<1>8. /\ claims' = claims /\ served' = served /\ unparsed' \in [Events -> 0 .. MaxParts]
      /\ faults' \in 0 .. MaxFaults /\ operator' \in 0 .. MaxOperator
      /\ spent' \in [Events -> Nat]
  BY CountOperate DEF ResolveSuperseded, Inductive, TypeOK
<1>9. WorkersGoOn
  BY WorkersStay DEF ResolveSuperseded
<1>10. \A f \in Events \ {e} : spent'[f] = spent[f]
  BY <1>6
<1> HIDE DEF row
<1>11. QED
  BY <1>2, <1>4, <1>5, <1>6, <1>7, <1>8, <1>9, <1>10, FreedStep

LEMMA ResolveDeadLetterStep ==
    ASSUME Inductive, NEW e \in Events, ResolveDeadLetter(e) PROVE Inductive'
<1> DEFINE row == Dismissed(event[e])
<1>1. event[e] \in Row
  BY DEF Inductive, TypeOK
<1>2. /\ row \in Row /\ row.status = "done" /\ row.kind = event[e].kind
      /\ row.manual = event[e].manual /\ row.superseded = event[e].superseded
      /\ row.dismissed = TRUE
  BY <1>1, DismissedRow
<1>3. event[e].status = "dead_lettered"
  BY DEF ResolveDeadLetter
<1>4. ~event[e].superseded
  BY <1>3 DEF Inductive, SupersededIsOver
<1>5. Fits(e, row)
  BY <1>2, <1>3 DEF Fits
<1>6. event' = [event EXCEPT ![e] = row] /\ spent' = spent
  BY DEF ResolveDeadLetter
<1>7. /\ claims' = claims /\ served' = served /\ unparsed' \in [Events -> 0 .. MaxParts]
      /\ faults' \in 0 .. MaxFaults /\ operator' \in 0 .. MaxOperator
      /\ spent' \in [Events -> Nat]
  BY CountOperate DEF ResolveDeadLetter, Inductive, TypeOK
<1>8. WorkersGoOn
  BY WorkersStay DEF ResolveDeadLetter
<1>9. \A f \in Events \ {e} : spent'[f] = spent[f]
  BY <1>6
<1> HIDE DEF row
<1>10. QED
  BY <1>2, <1>4, <1>5, <1>6, <1>7, <1>8, <1>9, FreedStep

LEMMA PruneStep == ASSUME Inductive, NEW e \in Events, Prune(e) PROVE Inductive'
<1> DEFINE row == Freed(event[e], "pruned")
<1>1. event[e] \in Row
  BY DEF Inductive, TypeOK
<1>2. /\ row \in Row /\ row.status = "pruned" /\ row.kind = event[e].kind
      /\ row.manual = event[e].manual /\ row.superseded = event[e].superseded
      /\ row.dismissed = event[e].dismissed
  BY <1>1, FreedRow DEF Status
<1>3. event[e].status = "done"
  BY DEF Prune
<1>4. ~row.superseded /\ ~row.dismissed => served[e]
  BY <1>2, <1>3 DEF Inductive, DoneMeansServed
<1>5. Fits(e, row)
  BY <1>2, <1>3 DEF Fits
<1>6. event' = [event EXCEPT ![e] = row] /\ spent' = spent
  BY DEF Prune
<1>7. /\ claims' = claims /\ served' = served /\ unparsed' \in [Events -> 0 .. MaxParts]
      /\ faults' \in 0 .. MaxFaults /\ operator' \in 0 .. MaxOperator
      /\ spent' \in [Events -> Nat]
  BY CountOperate DEF Prune, Inductive, TypeOK
<1>8. WorkersGoOn
  BY WorkersStay DEF Prune
<1>9. \A f \in Events \ {e} : spent'[f] = spent[f]
  BY <1>6
<1> HIDE DEF row
<1>10. QED
  BY <1>2, <1>4, <1>5, <1>6, <1>7, <1>8, <1>9, FreedStep

-----------------------------------------------------------------------------
(* The invariant of the specification *)

LEMMA InitInductive == Init => Inductive
<1> SUFFICES ASSUME Init PROVE Inductive
  OBVIOUS
<1>1. /\ AbsentRow \in Row /\ AbsentRow.status = "absent" /\ ~AbsentRow.superseded
      /\ ~AbsentRow.manual
  BY DEF AbsentRow, Row, Status, Kind
<1>2. event = [e \in Events |-> AbsentRow] /\ exec = [w \in Workers |-> IdleProcess]
      /\ spent = [e \in Events |-> 0]
  BY DEF Init
<1> HIDE DEF AbsentRow
<1>3. TypeOK
  BY <1>1, <1>2, IdleIsProcess, RuntimeQueueAssumption DEF Init, TypeOK
<1>4. FenceIsExact /\ CommittedIsServed
  BY <1>2, IdleIsProcess DEF FenceIsExact, CommittedIsServed, Busy
<1>5. /\ DoneMeansServed /\ AttemptsAreTries /\ NoPileUp /\ PendingKeysUnique
      /\ SupersededIsAnswered /\ InsertedInOrder /\ SupersededIsOver
  BY <1>1, <1>2 DEF DoneMeansServed, AttemptsAreTries, NoPileUp, PendingKeysUnique,
     SupersededIsAnswered, InsertedInOrder, SupersededIsOver, Standing, Waiting
<1>6. QED
  BY <1>3, <1>4, <1>5 DEF Inductive

LEMMA NextInductive == Inductive /\ [Next]_vars => Inductive'
<1> SUFFICES ASSUME Inductive, [Next]_vars PROVE Inductive'
  OBVIOUS
<1>1. ASSUME NEW kind \in Kinds, Enqueue(kind) PROVE Inductive'
  BY <1>1, EnqueueStep
<1>2. ASSUME NEW w \in Workers, Claim(w) \/ Execute(w) \/ Shutdown(w) \/ Crash(w)
      PROVE  Inductive'
  BY <1>2, ClaimStep, RefuseStep, CommitStep, AckStep, FailStep, ConflictStep, DeferStep,
     ShutdownStep, CrashStep DEF Execute
<1>3. ASSUME NEW e \in Events, LeaseExpires(e) \/ OperatorNext(e) PROVE Inductive'
  BY <1>3, LeaseExpiresStep, RequeueStep, ReleaseStaleStep, ResolveSupersededStep,
     ResolveDeadLetterStep, PruneStep DEF OperatorNext
<1>4. CASE UNCHANGED vars
  <2>1. WorkersGoOn
    BY <1>4, WorkersStay DEF vars
  <2>2. /\ event' = event /\ spent' = spent /\ claims' = claims
        /\ served' \in [Events -> BOOLEAN] /\ \A e \in Events : served[e] => served'[e]
        /\ unparsed' \in [Events -> 0 .. MaxParts]
        /\ faults' \in 0 .. MaxFaults /\ operator' \in 0 .. MaxOperator
    BY <1>4 DEF vars, Inductive, TypeOK
  <2>3. QED
    BY <2>1, <2>2, RowsAloneStep
<1>5. QED
  BY <1>1, <1>2, <1>3, <1>4 DEF Next

\* The inductive invariant holds in every reachable state of the outbox.
THEOREM Invariance == Spec => []Inductive
<1>1. QED
  BY InitInductive, NextInductive, PTL DEF Spec

\* Rows and processes keep their shape.
THEOREM TypeCorrect == Spec => []TypeOK
<1>1. Inductive => TypeOK
  BY DEF Inductive
<1>2. QED
  BY <1>1, Invariance, PTL

\* Whoever passes the worker id comparison holds the latest claim, for any
\* number of workers, events, faults and operator commands.
THEOREM WorkerIdIsEnough == Spec => []FenceIsExact
<1>1. Inductive => FenceIsExact
  BY DEF Inductive
<1>2. QED
  BY <1>1, Invariance, PTL

\* No event is acknowledged unserved.
THEOREM NothingAckedUnserved == Spec => []DoneMeansServed
<1>1. Inductive => DoneMeansServed
  BY DEF Inductive
<1>2. QED
  BY <1>1, Invariance, PTL

\* The attempts column counts failed and lost tries and nothing else.
THEOREM ReleasesAreFree == Spec => []AttemptsAreTries
<1>1. Inductive => AttemptsAreTries
  BY DEF Inductive
<1>2. QED
  BY <1>1, Invariance, PTL

\* The timer never queues a second sync of a scope.
THEOREM SyncsDoNotPileUp == Spec => []NoPileUp
<1>1. Inductive => NoPileUp
  BY DEF Inductive
<1>2. QED
  BY <1>1, Invariance, PTL

\* No write violates the unique index on waiting keys.
THEOREM IndexHolds == Spec => []PendingKeysUnique
<1>1. Inductive => PendingKeysUnique
  BY DEF Inductive
<1>2. QED
  BY <1>1, Invariance, PTL

\* No request is lost by resolving it as superseded.
THEOREM NoRequestIsLost == Spec => []SupersededIsAnswered
<1>1. Inductive => SupersededIsAnswered
  BY DEF Inductive
<1>2. QED
  BY <1>1, Invariance, PTL

-----------------------------------------------------------------------------
(* Settled events *)

Settled(e) == event[e].status \in {"done", "failed", "dead_lettered", "pruned"}

\* A settling write that matches finds its event processing.
LEMMA SettleSparesSettled ==
    ASSUME Inductive, NEW w \in Workers, NEW row, NEW price, Settle(w, row, price),
           NEW e \in Events, Settled(e)
    PROVE  event'[e] = event[e]
BY DEF Settle, Passes, Settled, Inductive, TypeOK, Process

\* A worker that comes back late changes no settled event.
THEOREM LateWorkersChangeNothing == Spec => SettledIsSettled
<1>1. ASSUME Inductive, [Next]_vars, NEW e \in Events, Settled(e), event'[e] # event[e]
      PROVE  operator' = operator + 1
  <2>1. ASSUME NEW kind \in Kinds, Enqueue(kind) PROVE FALSE
    BY <1>1, <2>1 DEF Enqueue, Settled, Inductive, TypeOK
  <2>2. ASSUME NEW w \in Workers, Claim(w) PROVE FALSE
    BY <1>1, <2>2 DEF Claim, Claimable, Waiting, Expired, Settled, Inductive, TypeOK
  <2>3. ASSUME NEW w \in Workers, Execute(w) \/ Shutdown(w) \/ Crash(w) PROVE FALSE
    BY <1>1, <2>3, SettleSparesSettled
    DEF Execute, Refuse, Commit, Ack, Fail, Conflict, Defer, Shutdown, Crash
  <2>4. ASSUME NEW f \in Events, LeaseExpires(f) PROVE FALSE
    BY <1>1, <2>4 DEF LeaseExpires, Settled, Inductive, TypeOK
  <2>5. ASSUME NEW f \in Events, OperatorNext(f) PROVE operator' = operator + 1
    BY <2>5 DEF OperatorNext, Requeue, ReleaseStale, ResolveSuperseded, ResolveDeadLetter,
       Prune, Operate
  <2>6. CASE UNCHANGED vars
    BY <1>1, <2>6 DEF vars
  <2>7. QED
    BY <1>1, <2>1, <2>2, <2>3, <2>4, <2>5, <2>6 DEF Next
<1>2. Inductive /\ [Next]_vars =>
        [\A e \in Events :
           /\ event[e].status \in {"done", "failed", "dead_lettered", "pruned"}
           /\ event'[e] # event[e]
           => operator' = operator + 1]_vars
  BY <1>1 DEF Settled
<1>3. QED
  BY <1>2, Invariance, PTL DEF Spec, SettledIsSettled

-----------------------------------------------------------------------------
(* Work on one event is bounded. Every claim is paid for: by one of the    *)
(* tries an insertion or an operator's command grants, by a fault, or by   *)
(* an attachment. Slack is what is not spent yet, and Room says how much   *)
(* of it an event needs at each stage of its life.                         *)

Slack(e) == MaxAttempts * (operator + 1) + faults + MaxParts - unparsed[e] - claims[e]

\* A live worker holds the event and its lease: the claim in progress is not lost.
Tended(e) ==
    /\ event[e].lease = "held"
    /\ \E w \in Workers : exec[w].pc # "idle" /\ exec[w].event = e /\ Passes(w)

\* A waiting event has its remaining tries before it, one at least; a claim
\* that nobody tends was paid for by the fault that lost it.
Room(e) ==
    /\ Slack(e) >= 0
    /\ event[e].status = "absent" => claims[e] = 0 /\ spent[e] = 0
    /\ event[e].status = "pending" => Slack(e) >= 1 /\ Slack(e) >= MaxAttempts - spent[e]
    /\ event[e].status = "processing" => Slack(e) >= MaxAttempts - spent[e] - 1
    /\ event[e].status = "processing" /\ ~Tended(e) =>
         Slack(e) >= 1 /\ Slack(e) >= MaxAttempts - spent[e]

AllRoom == \A e \in Events : Room(e)

-----------------------------------------------------------------------------
(* Arithmetic of the slack *)

LEMMA SlackIsInt ==
    ASSUME TypeOK, NEW e \in Events
    PROVE  /\ Slack(e) \in Int /\ spent[e] \in Nat /\ MaxAttempts \in Nat \ {0}
           /\ faults \in Nat /\ operator \in Nat /\ claims[e] \in Nat /\ unparsed[e] \in 0 .. MaxParts
<1>1. /\ spent[e] \in Nat /\ faults \in Nat /\ operator \in Nat /\ claims[e] \in Nat
      /\ unparsed[e] \in 0 .. MaxParts /\ MaxAttempts \in Nat \ {0} /\ MaxParts \in Nat
  BY RuntimeQueueAssumption DEF TypeOK
<1>2. MaxAttempts * (operator + 1) \in Int
  BY <1>1
<1>3. QED
  BY <1>1, <1>2 DEF Slack

LEMMA SlackIsIntNext == ASSUME TypeOK', NEW e \in Events PROVE Slack(e)' \in Int
<1>1. /\ faults' \in Nat /\ operator' \in Nat /\ claims'[e] \in Nat
      /\ unparsed'[e] \in 0 .. MaxParts /\ MaxAttempts \in Nat /\ MaxParts \in Nat
  BY RuntimeQueueAssumption DEF TypeOK
<1>2. MaxAttempts * (operator' + 1) \in Int
  BY <1>1
<1>3. QED
  BY <1>1, <1>2 DEF Slack

LEMMA SlackMoves ==
    ASSUME TypeOK, TypeOK', NEW e \in Events, operator' = operator
    PROVE  Slack(e)' = Slack(e) + (faults' - faults) + (unparsed[e] - unparsed'[e])
                                + (claims[e] - claims'[e])
<1> DEFINE grant == MaxAttempts * (operator + 1)
<1>1. /\ faults \in Nat /\ claims[e] \in Nat /\ unparsed[e] \in 0 .. MaxParts
      /\ faults' \in Nat /\ claims'[e] \in Nat /\ unparsed'[e] \in 0 .. MaxParts
      /\ MaxParts \in Nat /\ grant \in Int
  BY SlackIsInt, RuntimeQueueAssumption DEF TypeOK
<1>2. /\ Slack(e) = grant + faults + MaxParts - unparsed[e] - claims[e]
      /\ Slack(e)' = grant + faults' + MaxParts - unparsed'[e] - claims'[e]
  BY DEF Slack
<1> HIDE DEF grant
<1>3. QED
  BY <1>1, <1>2

\* An operator's command grants MaxAttempts tries.
LEMMA SlackIsGranted ==
    ASSUME TypeOK, NEW e \in Events, Operate, faults' = faults, unparsed' = unparsed,
           claims' = claims
    PROVE  Slack(e)' = Slack(e) + MaxAttempts
<1> DEFINE grant == MaxAttempts * (operator + 1)
<1>1. /\ faults \in Nat /\ claims[e] \in Nat /\ unparsed[e] \in 0 .. MaxParts
      /\ MaxParts \in Nat /\ MaxAttempts \in Nat /\ grant \in Int /\ operator \in Nat
  BY SlackIsInt, RuntimeQueueAssumption
<1>2. MaxAttempts * (operator' + 1) = grant + MaxAttempts
  BY <1>1 DEF Operate
<1>3. /\ Slack(e) = grant + faults + MaxParts - unparsed[e] - claims[e]
      /\ Slack(e)' = grant + MaxAttempts + faults + MaxParts - unparsed[e] - claims[e]
  BY <1>2 DEF Slack
<1> HIDE DEF grant
<1>4. QED
  BY <1>1, <1>3

\* An event that was never claimed has the tries of its insertion.
LEMMA SlackAtFirst ==
    ASSUME TypeOK, NEW e \in Events, claims[e] = 0
    PROVE  Slack(e) >= MaxAttempts
<1>1. /\ faults \in Nat /\ unparsed[e] \in 0 .. MaxParts /\ operator \in Nat
      /\ MaxParts \in Nat /\ MaxAttempts \in Nat
  BY SlackIsInt, RuntimeQueueAssumption
<1>2. MaxAttempts * (operator + 1) = MaxAttempts * operator + MaxAttempts
      /\ MaxAttempts * operator \in Nat
  BY <1>1
<1>3. QED
  BY <1>1, <1>2 DEF Slack

-----------------------------------------------------------------------------
(* One event in a step *)

\* An event whose row, claims and tries stay, and which is not abandoned.
LEMMA RoomStays ==
    ASSUME TypeOK, TypeOK', NEW e \in Events, Room(e), event'[e].status = event[e].status,
           spent'[e] = spent[e], claims'[e] = claims[e], Slack(e)' >= Slack(e),
           Tended(e) /\ ~Tended(e)' => Slack(e)' >= Slack(e) + 1
    PROVE  Room(e)'
<1>1. /\ Slack(e) \in Int /\ Slack(e)' \in Int /\ spent[e] \in Nat /\ MaxAttempts \in Nat
  BY SlackIsInt, SlackIsIntNext
<1> HIDE DEF Slack, Tended
<1>2. QED
  BY <1>1 DEF Room

\* An event that is put down has room for what remains to be tried.
LEMMA RoomWhenFreed ==
    ASSUME TypeOK, TypeOK', NEW e \in Events, event'[e].status \notin {"absent", "processing"},
           Slack(e)' >= 0,
           event'[e].status = "pending" => Slack(e)' >= 1 /\ Slack(e)' >= MaxAttempts - spent'[e]
    PROVE  Room(e)'
BY DEF Room

\* Who tends an event goes on when neither its row nor he changes.
LEMMA TendersGoOn ==
    ASSUME NEW e \in Events, Tended(e), event'[e] = event[e],
           \A w \in Workers : exec[w].pc # "idle" /\ exec[w].event = e /\ Passes(w) =>
               exec'[w].pc # "idle" /\ exec'[w].event = e
    PROVE  Tended(e)'
<1>1. PICK w \in Workers : exec[w].pc # "idle" /\ exec[w].event = e /\ Passes(w)
  BY DEF Tended
<1>2. exec'[w].pc # "idle" /\ exec'[w].event = e
  BY <1>1
<1>3. Passes(w)'
  BY <1>1, <1>2 DEF Passes
<1>4. event'[e].lease = "held"
  BY DEF Tended
<1>5. QED
  BY <1>2, <1>3, <1>4 DEF Tended

-----------------------------------------------------------------------------
(* The actions *)

\* The settling write of a worker. It puts the event back only as a failed try
\* with another left, or when a fault or an attachment paid for the claim.
LEMMA SettleRoom ==
    ASSUME TypeOK, TypeOK', AllRoom, NEW w \in Workers, NEW row, NEW price \in {0, 1},
           Settle(w, row, price), claims' = claims, operator' = operator,
           row.status \notin {"absent", "processing"},
           faults' \in {faults, faults + 1},
           \A e \in Events : unparsed'[e] <= unparsed[e],
           Passes(w) /\ row.status = "pending" =>
             \/ price = 1 /\ spent[exec[w].event] + 1 < MaxAttempts
             \/ price = 0 /\ faults' = faults + 1
             \/ price = 0 /\ unparsed'[exec[w].event] < unparsed[exec[w].event]
    PROVE  AllRoom'
<1> DEFINE d == exec[w].event
<1> SUFFICES ASSUME NEW e \in Events PROVE Room(e)'
  BY DEF AllRoom
<1>1. /\ d \in Events /\ exec \in [Workers -> Process] /\ event \in [Events -> Row]
      /\ spent \in [Events -> Nat]
  BY DEF TypeOK, Process
<1>2. /\ Slack(e) \in Int /\ spent[e] \in Nat /\ MaxAttempts \in Nat \ {0} /\ faults \in Nat
      /\ unparsed[e] \in Int /\ unparsed'[e] \in Int /\ claims[e] \in Nat
  BY SlackIsInt DEF TypeOK
<1>3. Slack(e)' = Slack(e) + (faults' - faults) + (unparsed[e] - unparsed'[e])
  <2>1. Slack(e)' = Slack(e) + (faults' - faults) + (unparsed[e] - unparsed'[e]) + (claims[e] - claims[e])
    BY SlackMoves
  <2> HIDE DEF Slack
  <2>2. QED
    BY <1>2, <2>1
<1>4. Room(e)
  BY DEF AllRoom
<1>5. CASE Passes(w) /\ e = d
  <2>1. event'[e] = row /\ spent'[e] = spent[e] + price
    BY <1>1, <1>5 DEF Settle
  <2>2. event[e].status = "processing"
    BY <1>5 DEF Passes
  <2>3. Slack(e) >= 0 /\ Slack(e) >= MaxAttempts - spent[e] - 1
    BY <1>4, <2>2 DEF Room
  <2>4. Slack(e)' >= Slack(e)
    <3> HIDE DEF Slack
    <3> QED BY <1>2, <1>3
  <2>5. ASSUME row.status = "pending" PROVE Slack(e)' >= 1 /\ Slack(e)' >= MaxAttempts - spent'[e]
    <3>1. CASE price = 1 /\ spent[e] + 1 < MaxAttempts
      <4> HIDE DEF Slack
      <4> QED BY <1>2, <2>1, <2>3, <2>4, <3>1, SlackIsIntNext
    <3>2. CASE price = 0 /\ (faults' = faults + 1 \/ unparsed'[e] < unparsed[e])
      <4>1. Slack(e)' >= Slack(e) + 1
        <5> HIDE DEF Slack
        <5> QED BY <1>2, <1>3, <3>2
      <4> HIDE DEF Slack
      <4> QED BY <1>2, <2>1, <2>3, <4>1, <3>2, SlackIsIntNext
    <3>3. QED
      BY <1>5, <2>5, <3>1, <3>2
  <2>6. Slack(e)' >= 0
    <3> HIDE DEF Slack
    <3> QED BY <1>2, <2>3, <2>4, SlackIsIntNext
  <2>7. QED
    BY <2>1, <2>5, <2>6, RoomWhenFreed
<1>6. CASE ~(Passes(w) /\ e = d)
  <2>1. event'[e] = event[e] /\ spent'[e] = spent[e]
    BY <1>1, <1>6 DEF Settle
  <2>2. Slack(e)' >= Slack(e)
    <3> HIDE DEF Slack
    <3> QED BY <1>2, <1>3
  <2>3. ASSUME Tended(e) PROVE Tended(e)'
    <3>1. \A v \in Workers : v # w => exec'[v] = exec[v]
      BY <1>1 DEF Settle
    <3>2. QED
      BY <1>6, <2>1, <2>3, <3>1, TendersGoOn
  <2>4. QED
    BY <1>4, <2>1, <2>2, <2>3, RoomStays
<1>7. QED
  BY <1>5, <1>6

LEMMA FaultCounts ==
    ASSUME TypeOK, TypeOK', NEW e \in Events, Fault, operator' = operator, claims' = claims,
           unparsed' = unparsed
    PROVE  Slack(e)' = Slack(e) + 1 /\ Slack(e) \in Int
<1>1. Slack(e)' = Slack(e) + (faults' - faults) + (unparsed[e] - unparsed[e]) + (claims[e] - claims[e])
  BY SlackMoves
<1>2. /\ Slack(e) \in Int /\ faults \in Nat /\ unparsed[e] \in Int /\ claims[e] \in Nat
  BY SlackIsInt
<1>3. faults' = faults + 1
  BY DEF Fault
<1> HIDE DEF Slack
<1>4. QED
  BY <1>1, <1>2, <1>3

LEMMA NothingCounts ==
    ASSUME TypeOK, TypeOK', NEW e \in Events, faults' = faults, operator' = operator,
           claims'[e] = claims[e], unparsed' = unparsed
    PROVE  Slack(e)' = Slack(e) /\ Slack(e) \in Int
<1>1. Slack(e)' = Slack(e) + (faults - faults) + (unparsed[e] - unparsed[e]) + (claims[e] - claims[e])
  BY SlackMoves
<1>2. /\ Slack(e) \in Int /\ faults \in Nat /\ unparsed[e] \in Int /\ claims[e] \in Nat
  BY SlackIsInt
<1> HIDE DEF Slack
<1>3. QED
  BY <1>1, <1>2

LEMMA ExecuteRoom ==
    ASSUME Inductive, TypeOK', AllRoom, NEW w \in Workers, Execute(w) PROVE AllRoom'
<1>1. /\ TypeOK /\ InHand(w) \in Row /\ exec[w].event \in Events /\ faults \in Nat
      /\ unparsed \in [Events -> 0 .. MaxParts]
  BY InHandIsRow, RuntimeQueueAssumption DEF Inductive, TypeOK
<1>2. /\ faults \in {faults, faults + 1} /\ \A e \in Events : unparsed[e] <= unparsed[e]
  BY <1>1
<1>3. CASE Refuse(w)
  <2>1. Refused(InHand(w), FALSE).status = "failed"
    BY <1>1, RefusedRow
  <2>2. Settle(w, Refused(InHand(w), FALSE), 1)
        /\ UNCHANGED <<unparsed, served, claims, faults, operator>>
    BY <1>3 DEF Refuse
  <2>3. QED
    BY <1>1, <1>2, <2>1, <2>2, SettleRoom
<1>4. CASE Conflict(w)
  <2>1. Refused(InHand(w), TRUE).status = "failed"
    BY <1>1, RefusedRow
  <2>2. Settle(w, Refused(InHand(w), TRUE), 1)
        /\ UNCHANGED <<unparsed, served, claims, faults, operator>>
    BY <1>4 DEF Conflict
  <2>3. QED
    BY <1>1, <1>2, <2>1, <2>2, SettleRoom
<1>5. CASE Ack(w)
  <2>1. Freed(InHand(w), "done").status = "done"
    BY <1>1, FreedRow DEF Status
  <2>2. Settle(w, Freed(InHand(w), "done"), 0)
        /\ UNCHANGED <<unparsed, served, claims, faults, operator>>
    BY <1>5 DEF Ack
  <2>3. QED
    BY <1>1, <1>2, <2>1, <2>2, SettleRoom
<1>6. CASE Fail(w)
  <2>1. Failed(InHand(w)).status =
          (IF InHand(w).attempts >= MaxAttempts THEN "dead_lettered" ELSE "pending")
    BY <1>1, FailedRow
  <2>2. Settle(w, Failed(InHand(w)), 1)
        /\ UNCHANGED <<unparsed, served, claims, faults, operator>>
    BY <1>6 DEF Fail
  <2>3. ASSUME Passes(w), Failed(InHand(w)).status = "pending"
        PROVE  spent[exec[w].event] + 1 < MaxAttempts
    <3>1. InHand(w).attempts = spent[exec[w].event] + 1
      BY <1>1, <2>3 DEF Passes, InHand, Inductive, AttemptsAreTries
    <3>2. ~(InHand(w).attempts >= MaxAttempts)
      BY <2>1, <2>3
    <3>3. spent[exec[w].event] \in Nat /\ MaxAttempts \in Nat
      BY <1>1, RuntimeQueueAssumption DEF TypeOK
    <3>4. QED
      BY <3>1, <3>2, <3>3
  <2>4. Failed(InHand(w)).status \notin {"absent", "processing"}
    BY <2>1
  <2>5. QED
    BY <1>1, <1>2, <2>2, <2>3, <2>4, SettleRoom
<1>7. CASE Defer(w)
  <2>1. Deferred(InHand(w)).status = "pending"
    BY <1>1, ReleasedRow DEF Deferred
  <2>2. Settle(w, Deferred(InHand(w)), 0) /\ UNCHANGED <<served, claims, faults, operator>>
    BY <1>7 DEF Defer
  <2>3. PICK parts \in 1 .. unparsed[exec[w].event] :
          unparsed' = [unparsed EXCEPT ![exec[w].event] = unparsed[exec[w].event] - parts]
    BY <1>7 DEF Defer, Headway
  <2>4. /\ unparsed'[exec[w].event] < unparsed[exec[w].event]
        /\ \A e \in Events : unparsed'[e] <= unparsed[e]
    BY <1>1, <2>3
  <2>5. QED
    BY <1>1, <1>2, <2>1, <2>2, <2>4, SettleRoom
<1>8. CASE Commit(w)
  <2> SUFFICES ASSUME NEW e \in Events PROVE Room(e)'
    BY DEF AllRoom
  <2>1. event' = event /\ UNCHANGED <<unparsed, claims, spent, faults, operator>>
    BY <1>8 DEF Commit
  <2>2. Slack(e)' = Slack(e) /\ Slack(e) \in Int
    BY <1>1, <2>1, NothingCounts
  <2>3. \A v \in Workers : exec[v].pc # "idle" /\ exec[v].event = e =>
          exec'[v].pc # "idle" /\ exec'[v].event = e
    BY <1>1, <1>8 DEF Commit, Committed, TypeOK, Process
  <2>4. Tended(e) => Tended(e)'
    BY <2>1, <2>3, TendersGoOn
  <2>5. Slack(e)' >= Slack(e)
    <3> HIDE DEF Slack
    <3> QED BY <2>2
  <2>6. QED
    BY <1>1, <2>1, <2>4, <2>5, RoomStays DEF AllRoom
<1>9. QED
  BY <1>3, <1>4, <1>5, <1>6, <1>7, <1>8 DEF Execute

LEMMA ShutdownRoom ==
    ASSUME Inductive, TypeOK', AllRoom, NEW w \in Workers, Shutdown(w) PROVE AllRoom'
<1>1. /\ TypeOK /\ InHand(w) \in Row /\ unparsed \in [Events -> 0 .. MaxParts]
  BY InHandIsRow DEF Inductive
<1>2. Released(InHand(w)).status = "pending"
  BY <1>1, ReleasedRow
<1>3. Settle(w, Released(InHand(w)), 0) /\ UNCHANGED <<unparsed, claims, operator>>
      /\ faults' = faults + 1
  BY DEF Shutdown, Fault
<1>4. \A e \in Events : unparsed[e] <= unparsed[e]
  BY <1>1
<1>5. QED
  BY <1>1, <1>2, <1>3, <1>4, SettleRoom

\* A fault pays for every claim it may have lost.
LEMMA CrashRoom ==
    ASSUME Inductive, TypeOK', AllRoom, NEW w \in Workers, Crash(w) PROVE AllRoom'
<1> SUFFICES ASSUME NEW e \in Events PROVE Room(e)'
  BY DEF AllRoom
<1>1. TypeOK /\ event' = event /\ UNCHANGED <<unparsed, claims, spent, operator>> /\ Fault
  BY DEF Inductive, Crash
<1>2. Slack(e)' = Slack(e) + 1 /\ Slack(e) \in Int
  BY <1>1, FaultCounts
<1>3. Slack(e)' >= Slack(e) /\ Slack(e)' >= Slack(e) + 1
  <2> HIDE DEF Slack
  <2> QED BY <1>2
<1>4. QED
  BY <1>1, <1>3, RoomStays DEF AllRoom

LEMMA ClaimRoom ==
    ASSUME Inductive, TypeOK', AllRoom, NEW w \in Workers, Claim(w) PROVE AllRoom'
<1> SUFFICES ASSUME NEW e \in Events PROVE Room(e)'
  BY DEF AllRoom
<1>1. PICK d \in Events :
        /\ Claimable(d)
        /\ event' = [event EXCEPT ![d] = Claimed(event[d], w)]
        /\ exec' = [exec EXCEPT ![w] =
             [pc |-> "running", event |-> d, claim |-> claims[d] + 1]]
        /\ claims' = [claims EXCEPT ![d] = claims[d] + 1]
        /\ spent' = [spent EXCEPT ![d] = IF Expired(d) THEN spent[d] + 1 ELSE spent[d]]
  BY DEF Claim
<1>2. /\ TypeOK /\ exec[w].pc = "idle" /\ UNCHANGED <<unparsed, faults, operator>> /\ Room(e)
  BY DEF Claim, Inductive, AllRoom
<1>3. /\ Slack(e) \in Int /\ spent[e] \in Nat /\ MaxAttempts \in Nat /\ faults \in Nat
      /\ unparsed[e] \in Int /\ claims[e] \in Nat
  BY <1>2, SlackIsInt
<1>4. CASE e = d
  <2>1. claims'[e] = claims[e] + 1
        /\ spent'[e] = IF Expired(e) THEN spent[e] + 1 ELSE spent[e]
    BY <1>1, <1>2, <1>4 DEF TypeOK
  <2>2. /\ event'[e].status = "processing" /\ event'[e].lease = "held" /\ event'[e].owner = w
    <3>1. event'[e] = Claimed(event[e], w) /\ event[e] \in Row
      BY <1>1, <1>2, <1>4 DEF TypeOK
    <3>2. QED
      BY <3>1, ClaimedRow
  <2>3. Tended(e)'
    <3>1. exec'[w].pc # "idle" /\ exec'[w].event = e
      BY <1>1, <1>2, <1>4 DEF TypeOK
    <3>2. QED
      BY <2>2, <3>1 DEF Tended, Passes
  <2>4. Slack(e)' = Slack(e) - 1
    <3>1. Slack(e)' = Slack(e) + (faults - faults) + (unparsed[e] - unparsed[e]) + (claims[e] - (claims[e] + 1))
      BY <1>2, <2>1, SlackMoves
    <3> HIDE DEF Slack
    <3>2. QED
      BY <1>3, <3>1
  <2>5. Slack(e) >= 1 /\ Slack(e) >= MaxAttempts - spent[e]
    <3>1. CASE event[e].status = "pending"
      BY <1>2, <3>1 DEF Room
    <3>2. CASE Expired(e)
      <4>1. event[e].status = "processing" /\ ~Tended(e)
        BY <3>2 DEF Expired, Tended
      <4>2. QED
        BY <1>2, <4>1 DEF Room
    <3>3. QED
      BY <1>1, <1>4, <3>1, <3>2 DEF Claimable, Waiting
  <2>6. Slack(e)' >= 0 /\ Slack(e)' >= MaxAttempts - spent'[e] - 1
    <3>1. spent'[e] \in {spent[e], spent[e] + 1}
      BY <2>1
    <3> HIDE DEF Slack
    <3>2. QED
      BY <1>3, <2>4, <2>5, <3>1
  <2>7. QED
    BY <2>2, <2>3, <2>6 DEF Room
<1>5. CASE e # d
  <2>1. event'[e] = event[e] /\ spent'[e] = spent[e] /\ claims'[e] = claims[e]
    BY <1>1, <1>2, <1>5 DEF TypeOK
  <2>2. Slack(e)' = Slack(e)
    BY <1>2, <2>1, NothingCounts
  <2>3. \A v \in Workers : v # w => exec'[v] = exec[v]
    BY <1>1, <1>2 DEF TypeOK
  <2>4. Tended(e) => Tended(e)'
    BY <1>2, <2>1, <2>3, TendersGoOn
  <2>5. Slack(e)' >= Slack(e)
    <3> HIDE DEF Slack
    <3> QED BY <1>3, <2>2
  <2>6. QED
    BY <1>2, <2>1, <2>4, <2>5, RoomStays
<1>6. QED
  BY <1>4, <1>5

\* A lease taken from a live process is a fault; a dead one's was paid for before.
LEMMA LeaseRoom ==
    ASSUME Inductive, TypeOK', AllRoom, NEW d \in Events, LeaseExpires(d) PROVE AllRoom'
<1> SUFFICES ASSUME NEW e \in Events PROVE Room(e)'
  BY DEF AllRoom
<1>1. /\ TypeOK /\ event' = [event EXCEPT ![d] = Overdue(event[d])] /\ event[d].lease = "held"
      /\ UNCHANGED <<exec, unparsed, claims, spent, operator>> /\ Room(e)
  BY DEF LeaseExpires, Inductive, AllRoom
<1>2. event[d] \in Row /\ event'[d] = Overdue(event[d]) /\ Overdue(event[d]).status = event[d].status
  BY <1>1, OverdueRow DEF TypeOK
<1>3. Slack(e)' >= Slack(e)
  <2>1. CASE Fault
    <3>1. Slack(e)' = Slack(e) + 1 /\ Slack(e) \in Int
      BY <1>1, <2>1, FaultCounts
    <3> HIDE DEF Slack
    <3>2. QED
      BY <3>1
  <2>2. CASE faults' = faults
    <3>1. Slack(e)' = Slack(e) /\ Slack(e) \in Int
      BY <1>1, <2>2, NothingCounts
    <3> HIDE DEF Slack
    <3>2. QED
      BY <3>1
  <2>3. QED
    BY <2>1, <2>2 DEF LeaseExpires
<1>4. CASE e = d
  <2>1. ASSUME Tended(e) PROVE Slack(e)' >= Slack(e) + 1
    <3>1. Fault
      BY <1>4, <2>1 DEF Tended, LeaseExpires
    <3>2. Slack(e)' = Slack(e) + 1 /\ Slack(e) \in Int
      BY <1>1, <3>1, FaultCounts
    <3> HIDE DEF Slack
    <3>3. QED
      BY <3>2
  <2>2. QED
    BY <1>1, <1>2, <1>3, <1>4, <2>1, RoomStays
<1>5. CASE e # d
  <2>1. event'[e] = event[e]
    BY <1>1, <1>5 DEF TypeOK
  <2>2. Tended(e) => Tended(e)'
    BY <1>1, <2>1, TendersGoOn
  <2>3. QED
    BY <1>1, <1>3, <2>1, <2>2, RoomStays
<1>6. QED
  BY <1>4, <1>5

\* A request inserts an event that was never claimed.
LEMMA EnqueueRoom ==
    ASSUME Inductive, TypeOK', AllRoom, NEW kind \in Kinds, Enqueue(kind) PROVE AllRoom'
<1> SUFFICES ASSUME NEW e \in Events PROVE Room(e)'
  BY DEF AllRoom
<1>1. PICK d \in Events :
        event[d].status = "absent" /\ event' = [event EXCEPT ![d] = NewRow(kind)]
  BY DEF Enqueue
<1>2. /\ TypeOK /\ UNCHANGED <<exec, unparsed, claims, spent, faults, operator>> /\ Room(e)
  BY DEF Enqueue, Inductive, AllRoom
<1>3. Slack(e)' = Slack(e) /\ Slack(e) \in Int
  BY <1>2, NothingCounts
<1>4. CASE e = d
  <2>1. event'[e].status = "pending"
    BY <1>1, <1>2, <1>4, NewRowRow DEF TypeOK
  <2>2. claims[e] = 0 /\ spent[e] = 0
    BY <1>1, <1>2, <1>4 DEF Room
  <2>3. Slack(e) >= MaxAttempts
    BY <1>2, <2>2, SlackAtFirst
  <2>4. Slack(e)' >= 1 /\ Slack(e)' >= 0 /\ Slack(e)' >= MaxAttempts - spent'[e]
    <3> HIDE DEF Slack
    <3> QED BY <1>2, <1>3, <2>2, <2>3, RuntimeQueueAssumption
  <2>5. QED
    BY <1>2, <2>1, <2>4, RoomWhenFreed
<1>5. CASE e # d
  <2>1. event'[e] = event[e]
    BY <1>1, <1>2, <1>5 DEF TypeOK
  <2>2. Tended(e) => Tended(e)'
    BY <1>2, <2>1, TendersGoOn
  <2>3. Slack(e)' >= Slack(e)
    <3> HIDE DEF Slack
    <3> QED BY <1>3
  <2>4. QED
    BY <1>2, <2>1, <2>2, <2>3, RoomStays
<1>6. QED
  BY <1>4, <1>5

\* An operator's command grants tries to every event and may put one down.
LEMMA OperatorRoom ==
    ASSUME Inductive, TypeOK', AllRoom, NEW d \in Events, NEW row,
           event' = [event EXCEPT ![d] = row], row.status \notin {"absent", "processing"},
           Operate, UNCHANGED <<exec, unparsed, claims, faults>>,
           \A e \in Events \ {d} : spent'[e] = spent[e]
    PROVE  AllRoom'
<1> SUFFICES ASSUME NEW e \in Events PROVE Room(e)'
  BY DEF AllRoom
<1>1. /\ TypeOK /\ Room(e) /\ spent'[e] \in Nat /\ MaxAttempts \in Nat \ {0}
  BY RuntimeQueueAssumption DEF Inductive, AllRoom, TypeOK
<1>2. Slack(e)' = Slack(e) + MaxAttempts /\ Slack(e) \in Int /\ Slack(e) >= 0
  BY <1>1, SlackIsGranted, SlackIsInt DEF Room
<1>3. CASE e = d
  <2>1. event'[e] = row
    BY <1>1, <1>3 DEF TypeOK
  <2>2. Slack(e)' >= 1 /\ Slack(e)' >= 0 /\ Slack(e)' >= MaxAttempts - spent'[e]
    <3> HIDE DEF Slack
    <3> QED BY <1>1, <1>2
  <2>3. QED
    BY <1>1, <2>1, <2>2, RoomWhenFreed
<1>4. CASE e # d
  <2>1. event'[e] = event[e] /\ spent'[e] = spent[e]
    BY <1>1, <1>4 DEF TypeOK
  <2>2. Tended(e) => Tended(e)'
    BY <2>1, TendersGoOn
  <2>3. Slack(e)' >= Slack(e)
    <3> HIDE DEF Slack
    <3> QED BY <1>1, <1>2
  <2>4. QED
    BY <1>1, <2>1, <2>2, <2>3, RoomStays
<1>5. QED
  BY <1>3, <1>4

LEMMA CommandRoom ==
    ASSUME Inductive, TypeOK', AllRoom, NEW e \in Events, OperatorNext(e) PROVE AllRoom'
<1>1. event[e] \in Row /\ TypeOK
  BY DEF Inductive, TypeOK
<1>2. CASE Requeue(e)
  <2>1. Requeued(event[e]).status = "pending"
    BY <1>1, RequeuedRow
  <2>2. /\ event' = [event EXCEPT ![e] = Requeued(event[e])]
        /\ Operate /\ UNCHANGED <<exec, unparsed, claims, faults>>
        /\ \A f \in Events \ {e} : spent'[f] = spent[f]
    BY <1>1, <1>2 DEF Requeue, TypeOK
  <2>3. QED
    BY <2>1, <2>2, OperatorRoom
<1>3. CASE ReleaseStale(e)
  <2>1. GivenBack(event[e]).status = "pending"
    BY <1>1, GivenBackRow
  <2>2. QED
    BY <1>3, <2>1, OperatorRoom DEF ReleaseStale
<1>4. CASE ResolveSuperseded(e)
  <2>1. Covered(event[e]).status = "done"
    BY <1>1, CoveredRow
  <2>2. QED
    BY <1>4, <2>1, OperatorRoom DEF ResolveSuperseded
<1>5. CASE ResolveDeadLetter(e)
  <2>1. Dismissed(event[e]).status = "done"
    BY <1>1, DismissedRow
  <2>2. QED
    BY <1>5, <2>1, OperatorRoom DEF ResolveDeadLetter
<1>6. CASE Prune(e)
  <2>1. Freed(event[e], "pruned").status = "pruned"
    BY <1>1, FreedRow DEF Status
  <2>2. QED
    BY <1>6, <2>1, OperatorRoom DEF Prune
<1>7. QED
  BY <1>2, <1>3, <1>4, <1>5, <1>6 DEF OperatorNext

LEMMA RoomInductive == Inductive /\ AllRoom /\ [Next]_vars => AllRoom'
<1> SUFFICES ASSUME Inductive, AllRoom, [Next]_vars PROVE AllRoom'
  OBVIOUS
<1>1. TypeOK /\ TypeOK'
  BY NextInductive DEF Inductive
<1>2. ASSUME UNCHANGED vars PROVE AllRoom'
  BY <1>2 DEF vars, AllRoom, Room, Slack, Tended, Passes
<1>3. QED
  BY <1>1, <1>2, EnqueueRoom, ClaimRoom, ExecuteRoom, ShutdownRoom, CrashRoom, LeaseRoom,
     CommandRoom DEF Next

\* No event is worked on more often than its tries, the faults and its
\* attachments pay for, for any number of workers, events and commands.
THEOREM EveryClaimIsPaid == Spec => []WorkIsBounded
<1>1. Init => AllRoom
  <2> SUFFICES ASSUME Init, NEW e \in Events PROVE Room(e)
    BY DEF AllRoom
  <2>1. event[e].status = "absent" /\ claims[e] = 0 /\ spent[e] = 0
    BY DEF Init, AbsentRow
  <2>2. Slack(e) >= MaxAttempts /\ Slack(e) \in Int
    BY <2>1, SlackAtFirst, SlackIsInt, InitInductive DEF Inductive
  <2>3. Slack(e) >= 0
    <3> HIDE DEF Slack
    <3> QED BY <2>2, RuntimeQueueAssumption
  <2>4. QED
    BY <2>1, <2>3 DEF Room
<1>2. Inductive /\ AllRoom => WorkIsBounded
  <2> SUFFICES ASSUME Inductive, AllRoom, NEW e \in Events
               PROVE  claims[e] <= MaxAttempts * (operator + 1) + faults + MaxParts - unparsed[e]
    BY DEF WorkIsBounded
  <2>1. /\ Slack(e) >= 0 /\ claims[e] \in Nat /\ unparsed[e] \in Int /\ faults \in Nat
        /\ operator \in Nat /\ MaxParts \in Nat /\ MaxAttempts \in Nat
    BY SlackIsInt, RuntimeQueueAssumption DEF Inductive, AllRoom, Room
  <2>2. MaxAttempts * (operator + 1) \in Int
    BY <2>1
  <2>3. QED
    BY <2>1, <2>2 DEF Slack
<1>3. QED
  BY <1>1, <1>2, RoomInductive, Invariance, PTL DEF Spec

=============================================================================
