--------------------------- MODULE ImportLifeProofs ---------------------------
(***************************************************************************)
(* Proofs about the life of a task: which moves of a row exist at all,     *)
(* that ends are final, that nothing hidden is alive, that an executor     *)
(* whose processor has returned owns nothing, and that the queue           *)
(* implements ImportPromise.                                               *)
(***************************************************************************)
EXTENDS ImportJobsProofs

(***************************************************************************)
(* The moves of a row, from old to new.                                    *)
(***************************************************************************)

Same(old, new) ==
    /\ new.stage = old.stage /\ new.disposed = old.disposed /\ new.acked = old.acked

\* A renewal, the end of a lease, an acknowledgement, or nothing.
Kept(old, new) ==
    /\ new.status = old.status /\ new.stage = old.stage /\ new.claim = old.claim
    /\ new.owner = old.owner /\ new.disposed = old.disposed
    /\ new.acked => old.acked \/ old.status \in Ended

Made(old, new) ==
    old.status = "absent" /\ new.status = "pending" /\ ~new.disposed /\ ~new.acked

Taken(old, new) ==
    /\ old.status \in {"pending", "processing"} /\ new.status = "processing"
    /\ new.claim = old.claim + 1
    /\ Same(old, new)

\* The claim ends, by its holder or by the sweep.
Ceased(old, new) ==
    /\ old.status = "processing"
    /\ new.status \in {"pending", "awaiting_confirmation", "needs_review", "succeeded", "failed"}
    /\ Same(old, new)

Shelved(old, new) ==
    old.status = "awaiting_confirmation" /\ new.status = "needs_review" /\ Same(old, new)

Revived(old, new) ==
    /\ old.status \in {"awaiting_confirmation", "needs_review", "failed"} /\ ~old.disposed
    /\ new.status = "pending" /\ ~new.disposed /\ ~new.acked

Closed(old, new) ==
    /\ old.status \notin {"absent", "succeeded", "canceled"} /\ ~old.disposed
    /\ new.stage = old.stage
    /\ \/ new.status = "canceled"
       \/ new.status = "failed" /\ new.disposed
    /\ new.status # "canceled" => new.disposed

\* What executors, leases and an acknowledgement do, and what people may do besides.
Calm(old, new) == Kept(old, new) \/ Taken(old, new) \/ Ceased(old, new) \/ Shelved(old, new)
Moves(old, new) == Calm(old, new) \/ Made(old, new) \/ Revived(old, new) \/ Closed(old, new)

RowsAreCalm == \A j \in Jobs : Calm(job[j], job'[j])
RowsMove == \A j \in Jobs : Moves(job[j], job'[j])

LEMMA NoRowMoves == ASSUME job' = job PROVE RowsAreCalm
BY DEF RowsAreCalm, Calm, Kept

\* One row is written.
LEMMA OneRowMoves ==
    ASSUME TypeOK, NEW j \in Jobs, NEW row, job' = [job EXCEPT ![j] = row]
    PROVE  /\ Calm(job[j], row) => RowsAreCalm
           /\ Moves(job[j], row) => RowsMove
<1>1. job'[j] = row
  BY DEF TypeOK
<1>2. ASSUME NEW k \in Jobs, k # j PROVE Calm(job[k], job'[k])
  <2>1. job'[k] = job[k]
    BY <1>2 DEF TypeOK
  <2>2. QED
    BY <2>1 DEF Calm, Kept
<1>3. ASSUME Calm(job[j], row) PROVE RowsAreCalm
  BY <1>1, <1>2, <1>3 DEF RowsAreCalm
<1>4. ASSUME Moves(job[j], row) PROVE RowsMove
  BY <1>1, <1>2, <1>4 DEF RowsMove, Moves
<1>5. QED
  BY <1>3, <1>4

LEMMA RegisterMoves == ASSUME Inductive, NEW j \in Jobs, Register(j) PROVE RowsMove
<1>1. PICK stage \in Stage : job' = [job EXCEPT ![j] = NewRow(stage)]
  BY DEF Register, Stage
<1>2. Moves(job[j], NewRow(stage))
  BY DEF Register, Moves, Made, NewRow
<1>3. QED
  BY <1>1, <1>2, OneRowMoves DEF Inductive

LEMMA MinorMoves ==
    ASSUME Inductive, NEW j \in Jobs, LeaseExpires(j) \/ Acknowledge(j)
           \/ \E e \in Executors : Renew(e) /\ exec[e].job = j
    PROVE  RowsAreCalm
<1>1. job[j] \in Row /\ "held" \in Lease /\ "expired" \in Lease
  BY DEF Inductive, TypeOK, Lease
<1>2. CASE LeaseExpires(j) \/ \E e \in Executors : Renew(e) /\ exec[e].job = j
  <2>1. PICK lease \in Lease : job' = [job EXCEPT ![j] = Leased(job[j], lease)]
    BY <1>1, <1>2 DEF LeaseExpires, Renew
  <2>2. Kept(job[j], Leased(job[j], lease))
    BY <1>1, LeasedRow DEF Kept
  <2>3. QED
    BY <2>1, <2>2, OneRowMoves DEF Calm, Inductive
<1>3. CASE Acknowledge(j)
  <2>1. job' = [job EXCEPT ![j] = Acked(job[j])] /\ job[j].status \in Ended
    BY <1>3 DEF Acknowledge, Ended
  <2>2. Kept(job[j], Acked(job[j]))
    BY <1>1, <2>1, AckedRow DEF Kept
  <2>3. QED
    BY <2>1, <2>2, OneRowMoves DEF Calm, Inductive
<1>4. QED
  BY <1>2, <1>3

LEMMA CancelMoves == ASSUME Inductive, NEW j \in Jobs, Cancel(j) PROVE RowsMove
<1>1. job[j] \in Row
  BY DEF Inductive, TypeOK
<1>2. job' = [job EXCEPT ![j] = Canceled(job[j])]
  BY DEF Cancel
<1>3. Closed(job[j], Canceled(job[j]))
  BY <1>1, CanceledRow DEF Closed, Cancel, Undisposed
<1>4. QED
  BY <1>2, <1>3, OneRowMoves DEF Moves, Inductive

LEMMA SweepMoves == ASSUME Inductive, NEW k \in Jobs PROVE Calm(job[k], Swept[k])
<1>1. job[k] \in Row /\ "failed" \in Status
  BY DEF Inductive, TypeOK, Status
<1>2. CASE Exhausted(k)
  <2>1. job[k].status = "processing"
    BY <1>1, <1>2, ImportJobsAssumption DEF Exhausted, Expired, Inductive, RetryBudget, Row
  <2>2. Swept[k] = Finished(job[k], "failed")
    BY <1>2 DEF Swept
  <2>3. Ceased(job[k], Finished(job[k], "failed"))
    BY <1>1, <2>1, FinishedRow DEF Ceased, Same
  <2>4. QED
    BY <2>2, <2>3 DEF Calm
<1>3. CASE ~Exhausted(k)
  <2>1. Swept[k] = job[k]
    BY <1>3 DEF Swept
  <2>2. QED
    BY <2>1 DEF Calm, Kept
<1>4. QED
  BY <1>2, <1>3

LEMMA ClaimMoves == ASSUME Inductive, NEW e \in Executors, ClaimNext(e) PROVE RowsAreCalm
<1>1. CASE job' = Swept
  BY <1>1, SweepMoves DEF RowsAreCalm
<1>2. ASSUME NEW j \in Jobs, Claimable(j), job' = [Swept EXCEPT ![j] = Claimed(job[j], e)]
      PROVE  RowsAreCalm
  <2>1. job[j] \in Row /\ job[j].status \in {"pending", "processing"}
    BY <1>2 DEF Inductive, TypeOK, Claimable, Expired
  <2>2. Taken(job[j], Claimed(job[j], e))
    BY <2>1, ClaimedRow DEF Taken, Same
  <2>3. ASSUME NEW k \in Jobs PROVE Calm(job[k], job'[k])
    <3>1. CASE k = j
      BY <1>2, <2>2, <3>1 DEF Calm, Swept
    <3>2. CASE k # j
      <4>1. job'[k] = Swept[k]
        BY <1>2, <3>2 DEF Swept
      <4>2. QED
        BY <4>1, SweepMoves
    <3>3. QED
      BY <3>1, <3>2
  <2>4. QED
    BY <2>3 DEF RowsAreCalm
<1>3. QED
  BY <1>1, <1>2 DEF ClaimNext

\* What a holder writes, and what the failure path writes if it is the holder.
LEMMA FinishedMoves ==
    ASSUME Inductive, NEW e \in Executors, Owns(e),
           NEW status \in {"pending", "awaiting_confirmation", "needs_review", "succeeded", "failed"},
           job' = [job EXCEPT ![exec[e].job] = Finished(job[exec[e].job], status)]
    PROVE  RowsAreCalm
<1>1. exec[e].job \in Jobs /\ job[exec[e].job] \in Row /\ status \in Status
  BY DEF Inductive, TypeOK, Process, Status
<1>2. Ceased(job[exec[e].job], Finished(job[exec[e].job], status))
  BY <1>1, FinishedRow DEF Ceased, Same, Owns
<1>3. QED
  BY <1>1, <1>2, OneRowMoves DEF Calm, Inductive

LEMMA FailClaimMoves ==
    ASSUME Inductive, NEW e \in Executors, NEW retry \in BOOLEAN, FailClaim(e, retry)
    PROVE  RowsAreCalm
<1>1. CASE Owns(e)
  <2>1. PICK status \in {"pending", "failed"} :
          job' = [job EXCEPT ![exec[e].job] = Finished(job[exec[e].job], status)]
    BY <1>1 DEF FailClaim
  <2>2. QED
    BY <1>1, <2>1, FinishedMoves
<1>2. CASE ~Owns(e)
  BY <1>2, NoRowMoves DEF FailClaim
<1>3. QED
  BY <1>1, <1>2

LEMMA ExecutorMoves ==
    ASSUME Inductive, NEW e \in Executors, ClaimNext(e) \/ Execute(e) \/ Renew(e) \/ Crash(e)
    PROVE  RowsAreCalm
<1>1. exec[e].job \in Jobs /\ job[exec[e].job] \in Row
  BY DEF Inductive, TypeOK, Process
<1>2. CASE ClaimNext(e)
  BY <1>2, ClaimMoves
<1>3. CASE Renew(e)
  BY <1>1, <1>3, MinorMoves
<1>4. CASE LoadSession(e) \/ Crash(e)
  BY <1>4, NoRowMoves DEF LoadSession, Crash
<1>5. CASE FinishPrepare(e)
  BY <1>5, FinishedMoves DEF FinishPrepare, CompletionLock
<1>6. CASE FinishCommit(e)
  BY <1>6, FinishedMoves DEF FinishCommit, CompletionLock
<1>7. CASE Abort(e)
  BY <1>7, FailClaimMoves DEF Abort
<1>8. CASE RequireReview(e)
  <2>1. CASE Owns(e)
    BY <1>8, <2>1, FinishedMoves DEF RequireReview
  <2>2. CASE ~Owns(e)
    BY <1>8, <2>2, NoRowMoves DEF RequireReview
  <2>3. QED
    BY <2>1, <2>2
<1>9. CASE DeferAttachments(e)
  <2>1. CASE Owns(e)
    <3>1. job[exec[e].job].status = "processing" /\ job[exec[e].job].attempts >= 1
      BY <1>1, <2>1 DEF Owns, Inductive, CommitIsConfirmed
    <3>2. Ceased(job[exec[e].job], Deferred(job[exec[e].job]))
      BY <1>1, <3>1, DeferredRow DEF Ceased, Same
    <3>3. QED
      BY <1>1, <1>9, <2>1, <3>2, OneRowMoves DEF DeferAttachments, Calm, Inductive
  <2>2. CASE ~Owns(e)
    BY <1>9, <2>2, NoRowMoves DEF DeferAttachments
  <2>3. QED
    BY <2>1, <2>2
<1>10. CASE Settle(e)
  BY <1>10, NoRowMoves, FailClaimMoves DEF Settle
<1>11. QED
  BY <1>2, <1>3, <1>4, <1>5, <1>6, <1>7, <1>8, <1>9, <1>10 DEF Execute

LEMMA CommandMoves == ASSUME Inductive, NEW u \in Users, Command(u) PROVE RowsMove
<1> DEFINE j == seen[u].job
<1>1. j \in Jobs /\ job[j] \in Row /\ job[j].stage \in Stage /\ "commit" \in Stage
  BY DEF Inductive, TypeOK, Page, Row, Stage
<1>2. CASE \E i \in Jobs : Look(u, i)
  BY <1>2, NoRowMoves DEF Look, RowsAreCalm, RowsMove, Moves
<1>3. CASE Confirm(u) \/ Retry(u)
  <2>1. PICK stage \in Stage : job' = [job EXCEPT ![j] = Requeued(job[j], stage)]
    BY <1>1, <1>3 DEF Confirm, Retry
  <2>2. /\ job[j].status \in {"awaiting_confirmation", "needs_review", "failed"}
        /\ ~job[j].disposed
    BY <1>3 DEF Confirm, Retry, Undisposed
  <2>3. /\ Requeued(job[j], stage).status = "pending"
        /\ Requeued(job[j], stage).disposed = job[j].disposed
        /\ Requeued(job[j], stage).acked = FALSE
    BY <1>1, RequeuedRow
  <2>4. Revived(job[j], Requeued(job[j], stage))
    BY <2>2, <2>3 DEF Revived
  <2>5. QED
    BY <1>1, <2>1, <2>4, OneRowMoves DEF Moves, Inductive
<1>4. CASE Reprepare(u)
  <2>1. job' = [job EXCEPT ![j] = Reprepared(job[j])]
    BY <1>4 DEF Reprepare
  <2>2. /\ job[j].status \in {"awaiting_confirmation", "needs_review", "failed"}
        /\ ~job[j].disposed
    BY <1>4 DEF Reprepare, Undisposed
  <2>3. Revived(job[j], Reprepared(job[j]))
    BY <1>1, <2>2, RepreparedRow DEF Revived
  <2>4. QED
    BY <1>1, <2>1, <2>3, OneRowMoves DEF Moves, Inductive
<1>5. CASE ParkStalePreview(u)
  <2>1. job' = [job EXCEPT ![j] = Parked(job[j])] /\ job[j].status = "awaiting_confirmation"
    BY <1>5 DEF ParkStalePreview
  <2>2. Shelved(job[j], Parked(job[j]))
    BY <1>1, <2>1, ParkedRow DEF Shelved, Same
  <2>3. QED
    BY <1>1, <2>1, <2>2, OneRowMoves DEF Moves, Calm, Inductive
<1>6. CASE Dispose(u)
  <2>1. /\ job' = [job EXCEPT ![j] = DisposedOf(job[j])]
        /\ job[j].status \in {"failed", "needs_review"} /\ ~job[j].disposed
    BY <1>6 DEF Dispose, Undisposed
  <2>2. Closed(job[j], DisposedOf(job[j]))
    BY <1>1, <2>1, DisposedOfRow DEF Closed
  <2>3. QED
    BY <1>1, <2>1, <2>2, OneRowMoves DEF Moves, Inductive
<1>7. QED
  BY <1>2, <1>3, <1>4, <1>5, <1>6 DEF Command

\* Every step of the queue moves every row in one of these ways.
LEMMA StepMoves == ASSUME Inductive, [Next]_vars PROVE RowsMove
<1>1. RowsAreCalm => RowsMove
  BY DEF RowsAreCalm, RowsMove, Moves
<1>2. ASSUME NEW j \in Jobs, Register(j) \/ LeaseExpires(j) \/ Cancel(j) \/ Acknowledge(j)
      PROVE  RowsMove
  BY <1>1, <1>2, RegisterMoves, MinorMoves, CancelMoves
<1>3. CASE ChangeAuthorization \/ UNCHANGED vars
  BY <1>1, <1>3, NoRowMoves DEF ChangeAuthorization, vars
<1>4. QED
  BY <1>1, <1>2, <1>3, ExecutorMoves, CommandMoves DEF Next

(***************************************************************************)
(* Ends.                                                                   *)
(***************************************************************************)

\* A hidden task is over, and a disposed one failed or was canceled.
Over(row) ==
    /\ row.acked => row.status \in Ended
    /\ row.disposed => row.status \in {"failed", "canceled"}
AllOver == \A j \in Jobs : Over(job[j])

LEMMA OverMoves ==
    ASSUME NEW old \in Row, NEW new \in Row, Over(old), Moves(old, new)
    PROVE  /\ Over(new)
           /\ old.status \in {"succeeded", "canceled"} \/ old.disposed => new.status = old.status
<1> USE DEF Over, Ended
<1>1. CASE Kept(old, new)
  BY <1>1 DEF Kept
<1>2. CASE Made(old, new)
  BY <1>2 DEF Made
<1>3. CASE Taken(old, new)
  BY <1>3 DEF Taken, Same
<1>4. CASE Ceased(old, new)
  BY <1>4 DEF Ceased, Same
<1>5. CASE Shelved(old, new)
  BY <1>5 DEF Shelved, Same
<1>6. CASE Revived(old, new)
  BY <1>6 DEF Revived
<1>7. CASE Closed(old, new)
  BY <1>7 DEF Closed
<1>8. QED
  BY <1>1, <1>2, <1>3, <1>4, <1>5, <1>6, <1>7 DEF Moves, Calm

LEMMA OverInductive == Inductive /\ AllOver /\ [Next]_vars => AllOver'
<1> SUFFICES ASSUME Inductive, AllOver, [Next]_vars, NEW j \in Jobs PROVE Over(job[j])'
  BY DEF AllOver
<1>1. job[j] \in Row /\ job'[j] \in Row
  BY NextInductive DEF Inductive, TypeOK
<1>2. Moves(job[j], job'[j]) /\ Over(job[j])
  BY StepMoves DEF RowsMove, AllOver
<1>3. Over(job'[j])
  BY <1>1, <1>2, OverMoves
<1>4. QED
  BY <1>3 DEF Over

LEMMA AlwaysOver == Spec => []AllOver
<1>1. Init => AllOver
  <2> SUFFICES ASSUME Init, NEW j \in Jobs PROVE Over(job[j])
    BY DEF AllOver
  <2>1. job[j] = AbsentRow
    BY DEF Init
  <2>2. ~job[j].acked /\ ~job[j].disposed
    BY <2>1 DEF AbsentRow
  <2>3. QED
    BY <2>2 DEF Over
<1>2. QED
  BY <1>1, OverInductive, Invariance, PTL DEF Spec

\* A task that left its owner's list is over: no command that revives a task
\* leaves it hidden.
THEOREM HiddenMeansOver == Spec => []HiddenIsOver
<1>1. AllOver => HiddenIsOver
  BY DEF AllOver, Over, HiddenIsOver
<1>2. QED
  BY <1>1, AlwaysOver, PTL

LEMMA FactsMove ==
    ASSUME Inductive, [Next]_vars, NEW j \in Jobs
    PROVE  facts'[j] = facts[j] \/ job[j].status = "processing"
<1>1. CASE \E e \in Executors : FinishCommit(e)
  <2>1. PICK e \in Executors : FinishCommit(e)
    BY <1>1
  <2>2. job[exec[e].job].status = "processing"
    BY <2>1 DEF FinishCommit, CompletionLock, Owns
  <2>3. CASE j = exec[e].job
    BY <2>2, <2>3
  <2>4. CASE j # exec[e].job
    BY <2>1, <2>4 DEF FinishCommit, Inductive, TypeOK
  <2>5. QED
    BY <2>3, <2>4
<1>2. CASE ~\E e \in Executors : FinishCommit(e)
  <2>1. facts' = facts
    BY <1>2 DEF Next, Register, LeaseExpires, Cancel, Acknowledge, ClaimNext, Execute, Renew, Crash,
                LoadSession, FinishPrepare, Abort, RequireReview, DeferAttachments, Settle,
                Command, Look, Confirm, Retry, Reprepare, ParkStalePreview, Dispose,
                ChangeAuthorization, vars
  <2>2. QED
    BY <2>1
<1>3. QED
  BY <1>1, <1>2

\* What succeeded, was canceled or disposed of stays as it is, with its facts.
THEOREM EndsAreFinal == Spec => EndIsFinal
<1>1. Inductive /\ AllOver /\ [Next]_vars =>
        [\A j \in Jobs :
           job[j].status \in {"succeeded", "canceled"} \/ job[j].disposed =>
              job'[j].status = job[j].status /\ facts'[j] = facts[j]]_vars
  <2> SUFFICES ASSUME Inductive, AllOver, [Next]_vars, NEW j \in Jobs,
                      job[j].status \in {"succeeded", "canceled"} \/ job[j].disposed
               PROVE  job'[j].status = job[j].status /\ facts'[j] = facts[j]
    OBVIOUS
  <2>1. job[j] \in Row /\ job'[j] \in Row
    BY NextInductive DEF Inductive, TypeOK
  <2>2. Moves(job[j], job'[j]) /\ Over(job[j])
    BY StepMoves DEF RowsMove, AllOver
  <2>3. job'[j].status = job[j].status
    BY <2>1, <2>2, OverMoves
  <2>4. job[j].status # "processing"
    BY <2>2 DEF Over
  <2>5. QED
    BY <2>3, <2>4, FactsMove
<1>2. QED
  BY <1>1, Invariance, AlwaysOver, PTL DEF Spec, EndIsFinal

(***************************************************************************)
(* An executor whose processor has returned.                               *)
(***************************************************************************)

\* It has written its result, or lost the row: it owns nothing.
SettlersOwnNothing == \A e \in Executors : exec[e].pc = "settling" => ~Owns(e)

\* A claim that was lost or used does not come back.
LEMMA OwnershipIsNotRegained ==
    ASSUME Inductive, [Next]_vars, NEW e \in Executors, Busy(e), ~Owns(e), exec'[e] = exec[e]
    PROVE  ~Owns(e)'
<1> DEFINE j == exec[e].job
<1>1. /\ j \in Jobs /\ job[j] \in Row /\ exec[e].claim \in Nat
      /\ exec[e].claim <= job[j].claim
  BY DEF Inductive, TypeOK, Process, ClaimsAreUnique
<1>2. Moves(job[j], job'[j])
  BY <1>1, StepMoves DEF RowsMove
<1>3. CASE Kept(job[j], job'[j])
  BY <1>3 DEF Kept, Owns
<1>4. CASE Taken(job[j], job'[j])
  <2>1. job'[j].claim # exec[e].claim
    BY <1>1, <1>4 DEF Taken, Row
  <2>2. QED
    BY <2>1 DEF Owns
<1>5. CASE Made(job[j], job'[j]) \/ Ceased(job[j], job'[j]) \/ Shelved(job[j], job'[j])
           \/ Revived(job[j], job'[j]) \/ Closed(job[j], job'[j])
  <2>1. job'[j].status # "processing"
    BY <1>5 DEF Made, Ceased, Shelved, Revived, Closed
  <2>2. QED
    BY <2>1 DEF Owns
<1>6. QED
  BY <1>2, <1>3, <1>4, <1>5 DEF Moves, Calm

\* The step an executor's memory changes in is its own.
LEMMA MemoryIsItsOwn ==
    ASSUME Inductive, [Next]_vars, NEW e \in Executors, exec'[e] # exec[e]
    PROVE  ClaimNext(e) \/ Execute(e) \/ Crash(e)
<1>1. exec' # exec
  OBVIOUS
<1>2. \E d \in Executors : ClaimNext(d) \/ Execute(d) \/ Crash(d)
  BY <1>1 DEF Next, Register, LeaseExpires, Cancel, Acknowledge, Renew, Command, Look, Confirm,
              Retry, Reprepare, ParkStalePreview, Dispose, ChangeAuthorization, vars
<1>3. PICK d \in Executors : ClaimNext(d) \/ Execute(d) \/ Crash(d)
  BY <1>2
<1>4. d = e
  <2> SUFFICES ASSUME d # e PROVE FALSE
    OBVIOUS
  <2>1. exec'[e] = exec[e]
    BY <1>3 DEF ClaimNext, Execute, Crash, LoadSession, FinishPrepare, FinishCommit, Abort,
                RequireReview, DeferAttachments, Settle, Idle, Settling, Inductive, TypeOK
  <2>2. QED
    BY <2>1
<1>5. QED
  BY <1>3, <1>4

LEMMA SettlersInductive ==
    Inductive /\ SettlersOwnNothing /\ [Next]_vars => SettlersOwnNothing'
<1> SUFFICES ASSUME Inductive, SettlersOwnNothing, [Next]_vars, NEW e \in Executors,
                    exec'[e].pc = "settling"
             PROVE  ~Owns(e)'
  BY DEF SettlersOwnNothing
<1>1. CASE exec'[e] = exec[e]
  <2>1. ~Owns(e) /\ Busy(e)
    BY <1>1 DEF SettlersOwnNothing, Busy
  <2>2. QED
    BY <1>1, <2>1, OwnershipIsNotRegained
<1>2. CASE exec'[e] # exec[e]
  <2>1. exec[e] \in Process /\ exec[e].job \in Jobs /\ job[exec[e].job] \in Row
    BY DEF Inductive, TypeOK, Process
  <2>2. FinishPrepare(e) \/ FinishCommit(e)
    <3>1. ClaimNext(e) \/ Execute(e) \/ Crash(e)
      BY <1>2, MemoryIsItsOwn
    <3>2. ~Idle(e)
      BY DEF Idle, IdleOn, Inductive, TypeOK
    <3>3. ~LoadSession(e)
      <4> SUFFICES ASSUME LoadSession(e) PROVE FALSE
        OBVIOUS
      <4>1. preview[exec[e].job] \in Nat
        BY <2>1 DEF Inductive, TypeOK
      <4>2. exec'[e] = Loaded(exec[e], preview[exec[e].job])
        BY DEF LoadSession, Inductive, TypeOK
      <4>3. QED
        BY <2>1, <4>1, <4>2, ProcessUpdates
    <3>4. ~ClaimNext(e)
      BY <1>2 DEF ClaimNext, Inductive, TypeOK
    <3>5. QED
      BY <3>1, <3>2, <3>3, <3>4 DEF Execute, Crash, Abort, RequireReview, DeferAttachments, Settle
  <2>3. PICK status \in {"awaiting_confirmation", "needs_review", "succeeded", "failed"} :
          job' = [job EXCEPT ![exec[e].job] = Finished(job[exec[e].job], status)]
    BY <2>2 DEF FinishPrepare, FinishCommit
  <2>4. status \in Status /\ status # "processing"
    BY DEF Status
  <2>5. job'[exec[e].job].status = status
    BY <2>1, <2>3, <2>4, FinishedRow DEF Inductive, TypeOK
  <2>6. exec'[e].job = exec[e].job
    <3>1. exec'[e] = Returned(exec[e]) /\ 0 \in Nat
      BY <2>2 DEF FinishPrepare, FinishCommit, Settling, Inductive, TypeOK
    <3>2. QED
      BY <2>1, <3>1, ProcessUpdates
  <2>7. QED
    BY <2>4, <2>5, <2>6 DEF Owns
<1>3. QED
  BY <1>1, <1>2

LEMMA AlwaysSettlersOwnNothing == Spec => []SettlersOwnNothing
<1>1. Init => SettlersOwnNothing
  BY DEF Init, SettlersOwnNothing, IdleOn
<1>2. QED
  BY <1>1, SettlersInductive, Invariance, PTL DEF Spec

\* The failure path after a processor returned changes no row, though another
\* incarnation may run the same task under the same worker id.
THEOREM SettlingIsHarmless == Spec => SettleUndoesNothing
<1>1. Inductive /\ SettlersOwnNothing /\ [Next]_vars =>
        [\A e \in Executors :
           exec[e].pc = "settling" /\ exec'[e].pc = "idle" => job' = job]_vars
  <2> SUFFICES ASSUME Inductive, SettlersOwnNothing, [Next]_vars, NEW e \in Executors,
                      exec[e].pc = "settling", exec'[e].pc = "idle"
               PROVE  job' = job
    OBVIOUS
  <2>1. ClaimNext(e) \/ Execute(e) \/ Crash(e)
    <3>1. exec'[e] # exec[e]
      OBVIOUS
    <3>2. QED
      BY <3>1, MemoryIsItsOwn
  <2>2. Settle(e) \/ Crash(e)
    BY <2>1 DEF ClaimNext, Execute, LoadSession, FinishPrepare, FinishCommit, Abort,
                RequireReview, DeferAttachments
  <2>3. ~Owns(e)
    BY DEF SettlersOwnNothing
  <2>4. QED
    BY <2>2, <2>3 DEF Settle, Crash, FailClaim
<1>2. QED
  BY <1>1, Invariance, AlwaysSettlersOwnNothing, PTL DEF Spec, SettleUndoesNothing

(***************************************************************************)
(* The queue implements ImportPromise.                                     *)
(***************************************************************************)

Accepted(j) == IF job[j].stage = "commit" THEN confirmed[j] ELSE 0
Shut(j) == job[j].status = "canceled" \/ job[j].disposed

\* There is a preview wherever one may be confirmed or has been.
PreviewIsThere ==
    \A j \in Jobs :
        job[j].status = "awaiting_confirmation" \/ job[j].stage = "commit" => preview[j] # 0

\* A step that changes nothing the promise is about.
Silent ==
    /\ \A j \in Jobs : Accepted(j)' = Accepted(j) /\ (Shut(j)' <=> Shut(j))
    /\ facts' = facts

LEMMA SilentStutters == ASSUME Silent PROVE UNCHANGED Promise!vars
<1>1. [j \in Jobs |-> IF job[j].stage = "commit" THEN confirmed[j] ELSE 0]'
        = [j \in Jobs |-> IF job[j].stage = "commit" THEN confirmed[j] ELSE 0]
  BY DEF Silent, Accepted
<1>2. [j \in Jobs |-> job[j].status = "canceled" \/ job[j].disposed]'
        = [j \in Jobs |-> job[j].status = "canceled" \/ job[j].disposed]
  BY Zenon DEF Silent, Shut
<1>3. QED
  BY <1>1, <1>2 DEF Silent, Promise!vars

LEMMA CalmIsSilent ==
    ASSUME Inductive, AllOver, RowsAreCalm, Inductive', UNCHANGED <<confirmed, facts>>
    PROVE  Silent
<1> SUFFICES ASSUME NEW j \in Jobs PROVE Accepted(j)' = Accepted(j) /\ (Shut(j)' <=> Shut(j))
  BY DEF Silent
<1>1. job[j] \in Row /\ job'[j] \in Row /\ Over(job[j]) /\ Calm(job[j], job'[j])
  BY DEF Inductive, TypeOK, AllOver, RowsAreCalm
<1>2. job'[j].stage = job[j].stage /\ job'[j].disposed = job[j].disposed
  BY <1>1 DEF Calm, Kept, Taken, Ceased, Shelved, Same
<1>3. job'[j].status = "canceled" <=> job[j].status = "canceled"
  BY <1>1 DEF Calm, Kept, Taken, Ceased, Shelved
<1>4. QED
  BY <1>2, <1>3 DEF Accepted, Shut

\* A task whose acceptance, facts or closing may change is open.
LEMMA OpenRow ==
    ASSUME Inductive, NEW j \in Jobs, ~Shut(j), job[j].status # "succeeded"
    PROVE  facts[j] = <<>>
BY DEF Inductive, FactsMatchOutcome

LEMMA OpenTask == ASSUME NEW j \in Jobs, ~Shut(j), facts[j] = <<>> PROVE Promise!Open(j)
BY DEF Promise!Open, Shut

\* Only the acceptance of one open task changes.
LEMMA AcceptanceChanges ==
    ASSUME NEW j \in Jobs, ~Shut(j), facts[j] = <<>>, facts' = facts,
           \A k \in Jobs : Shut(k)' <=> Shut(k),
           \A k \in Jobs : k # j => Accepted(k)' = Accepted(k),
           Accepted(j)' \in Nat
    PROVE  Promise!Next
<1> DEFINE accepted == [k \in Jobs |-> IF job[k].stage = "commit" THEN confirmed[k] ELSE 0]
           closed == [k \in Jobs |-> job[k].status = "canceled" \/ job[k].disposed]
<1>1. closed' = closed
  BY Zenon DEF Shut
<1>2. accepted' = [accepted EXCEPT ![j] = accepted'[j]]
  BY DEF Accepted
<1>3. accepted'[j] = Accepted(j)'
  BY DEF Accepted
<1>4. Promise!Open(j)
  BY OpenTask
<1>5. CASE Accepted(j)' = 0
  <2>1. accepted' = [accepted EXCEPT ![j] = 0]
    BY <1>2, <1>3, <1>5
  <2>2. Promise!Withdraw(j)
    BY <1>1, <1>4, <2>1 DEF Promise!Withdraw
  <2>3. QED
    BY <2>2 DEF Promise!Next
<1>6. CASE Accepted(j)' # 0
  <2>1. Promise!Accept(j)
    BY <1>1, <1>2, <1>3, <1>4, <1>6 DEF Promise!Accept
  <2>2. QED
    BY <2>1 DEF Promise!Next
<1>7. QED
  BY <1>5, <1>6

\* Only the end of one open task changes.
LEMMA TaskCloses ==
    ASSUME NEW j \in Jobs, ~Shut(j), facts[j] = <<>>, facts' = facts, Shut(j)',
           \A k \in Jobs : k # j => (Shut(k)' <=> Shut(k)),
           \A k \in Jobs : Accepted(k)' = Accepted(k)
    PROVE  Promise!Next
<1> DEFINE accepted == [k \in Jobs |-> IF job[k].stage = "commit" THEN confirmed[k] ELSE 0]
           closed == [k \in Jobs |-> job[k].status = "canceled" \/ job[k].disposed]
<1>1. closed' = [closed EXCEPT ![j] = TRUE]
  <2>1. \A k \in Jobs : closed'[k] = IF k = j THEN TRUE ELSE closed[k]
    <3> SUFFICES ASSUME NEW k \in Jobs PROVE closed'[k] = IF k = j THEN TRUE ELSE closed[k]
      OBVIOUS
    <3>1. CASE k = j
      BY Zenon, <3>1 DEF Shut
    <3>2. CASE k # j
      BY Zenon, <3>2 DEF Shut
    <3>3. QED
      BY <3>1, <3>2
  <2> HIDE DEF closed
  <2>2. DOMAIN closed = Jobs /\ DOMAIN closed' = Jobs /\ closed' = [k \in Jobs |-> closed'[k]]
        /\ closed = [k \in Jobs |-> closed[k]]
    BY Zenon DEF closed
  <2>3. QED
    BY <2>1, <2>2
<1>2. accepted' = accepted
  BY DEF Accepted
<1>3. Promise!Open(j)
  BY OpenTask
<1>4. Promise!Close(j)
  BY <1>1, <1>2, <1>3 DEF Promise!Close
<1>5. QED
  BY <1>4 DEF Promise!Next

\* Only the facts of one open task change.
LEMMA FactsAreWritten ==
    ASSUME NEW j \in Jobs, ~Shut(j), facts[j] = <<>>, Accepted(j) # 0,
           facts' = [facts EXCEPT ![j] = <<Accepted(j)>>],
           \A k \in Jobs : Accepted(k)' = Accepted(k) /\ (Shut(k)' <=> Shut(k))
    PROVE  Promise!Next
<1> DEFINE accepted == [k \in Jobs |-> IF job[k].stage = "commit" THEN confirmed[k] ELSE 0]
           closed == [k \in Jobs |-> job[k].status = "canceled" \/ job[k].disposed]
<1>1. closed' = closed
  BY Zenon DEF Shut
<1>2. accepted' = accepted /\ accepted[j] = Accepted(j)
  BY DEF Accepted
<1>3. Promise!Open(j)
  BY OpenTask
<1>4. Promise!Write(j)
  BY <1>1, <1>2, <1>3 DEF Promise!Write
<1>5. QED
  BY <1>4 DEF Promise!Next

\* A row before and after the step that writes it, and the rows beside it.
LEMMA OthersStay ==
    ASSUME Inductive, NEW j \in Jobs, NEW row \in Row, job' = [job EXCEPT ![j] = row],
           \A k \in Jobs : k # j => confirmed'[k] = confirmed[k]
    PROVE  /\ job'[j] = row
           /\ \A k \in Jobs : k # j => Accepted(k)' = Accepted(k) /\ (Shut(k)' <=> Shut(k))
<1>1. job'[j] = row /\ \A k \in Jobs : k # j => job'[k] = job[k]
  BY DEF Inductive, TypeOK
<1>2. QED
  BY <1>1 DEF Accepted, Shut

LEMMA RegisterPromise ==
    ASSUME Inductive, AllOver, NEW j \in Jobs, Register(j) PROVE Promise!Next
<1>1. /\ job[j].status = "absent" /\ ~Shut(j) /\ facts[j] = <<>> /\ facts' = facts
  <2>1. job[j] \in Row /\ Over(job[j]) /\ job[j].status = "absent" /\ facts' = facts
    BY DEF Inductive, TypeOK, AllOver, Register
  <2>2. ~job[j].disposed
    BY <2>1 DEF Over
  <2>3. QED
    BY <2>1, <2>2 DEF Shut, Inductive, FactsMatchOutcome
<1>2. PICK stage \in Stage :
        /\ job' = [job EXCEPT ![j] = NewRow(stage)]
        /\ IF stage = "commit" THEN confirmed' = [confirmed EXCEPT ![j] = 1]
                               ELSE confirmed' = confirmed
  BY DEF Register, Stage
<1>3. NewRow(stage) \in Row /\ ~NewRow(stage).disposed /\ NewRow(stage).status = "pending"
      /\ NewRow(stage).stage = stage
  BY ImportJobsAssumption DEF NewRow, Row, Status, Stage, Lease
<1>4. /\ job'[j] = NewRow(stage)
      /\ \A k \in Jobs : k # j => Accepted(k)' = Accepted(k) /\ (Shut(k)' <=> Shut(k))
  <2>1. \A k \in Jobs : k # j => confirmed'[k] = confirmed[k]
    BY <1>2 DEF Inductive, TypeOK
  <2>2. QED
    BY <1>2, <1>3, <2>1, OthersStay
<1>5. ~Shut(j)'
  BY <1>3, <1>4 DEF Shut
<1>6. Accepted(j)' \in Nat
  <2>1. confirmed'[j] \in Nat
    BY <1>2 DEF Inductive, TypeOK
  <2>2. QED
    BY <2>1 DEF Accepted
<1>7. QED
  BY <1>1, <1>4, <1>5, <1>6, AcceptanceChanges

\* A confirmation accepts, a new preparation withdraws, a retry is invisible.
LEMMA ReviveTask ==
    ASSUME Inductive, NEW j \in Jobs, NEW row \in Row, job' = [job EXCEPT ![j] = row],
           Revived(job[j], row), facts' = facts, confirmed' \in [Jobs -> Nat],
           \A k \in Jobs : k # j => confirmed'[k] = confirmed[k]
    PROVE  Promise!Next
<1>1. /\ job'[j] = row
      /\ \A k \in Jobs : k # j => Accepted(k)' = Accepted(k) /\ (Shut(k)' <=> Shut(k))
  BY OthersStay
<1>2. ~Shut(j) /\ facts[j] = <<>>
  BY DEF Revived, Shut, Inductive, FactsMatchOutcome
<1>3. ~Shut(j)'
  BY <1>1 DEF Revived, Shut
<1>4. Accepted(j)' \in Nat
  BY DEF Accepted
<1>5. QED
  BY <1>1, <1>2, <1>3, <1>4, AcceptanceChanges

LEMMA CloseTask ==
    ASSUME Inductive, NEW j \in Jobs, NEW row \in Row, job' = [job EXCEPT ![j] = row],
           Closed(job[j], row), facts' = facts, confirmed' = confirmed
    PROVE  Promise!Next
<1>1. /\ job'[j] = row
      /\ \A k \in Jobs : k # j => Accepted(k)' = Accepted(k) /\ (Shut(k)' <=> Shut(k))
  BY OthersStay
<1>2. ~Shut(j) /\ facts[j] = <<>>
  BY DEF Closed, Shut, Inductive, FactsMatchOutcome
<1>3. Shut(j)'
  BY <1>1 DEF Closed, Shut
<1>4. Accepted(j)' = Accepted(j)
  BY <1>1 DEF Closed, Accepted
<1>5. QED
  BY <1>1, <1>2, <1>3, <1>4, TaskCloses

LEMMA CommandPromise ==
    ASSUME Inductive, Inductive', AllOver, NEW u \in Users, Command(u)
    PROVE  Silent \/ Promise!Next
<1> DEFINE j == seen[u].job
<1>1. /\ j \in Jobs /\ job[j] \in Row /\ job[j].stage \in Stage /\ "commit" \in Stage
      /\ seen[u].preview \in Nat /\ confirmed \in [Jobs -> Nat]
  BY DEF Inductive, TypeOK, Page, Row, Stage
<1>2. CASE \E i \in Jobs : Look(u, i)
  BY <1>2, NoRowMoves, CalmIsSilent DEF Look
<1>3. CASE Confirm(u) \/ Retry(u)
  <2>1. PICK stage \in Stage : job' = [job EXCEPT ![j] = Requeued(job[j], stage)]
    BY <1>1, <1>3 DEF Confirm, Retry
  <2>2. /\ job[j].status \in {"awaiting_confirmation", "needs_review", "failed"}
        /\ ~job[j].disposed /\ facts' = facts
    BY <1>3 DEF Confirm, Retry, Undisposed
  <2>3. /\ Requeued(job[j], stage).status = "pending"
        /\ Requeued(job[j], stage).disposed = job[j].disposed
        /\ Requeued(job[j], stage).acked = FALSE
        /\ Requeued(job[j], stage) \in Row
    BY <1>1, RequeuedRow
  <2>4. Revived(job[j], Requeued(job[j], stage))
    BY <2>2, <2>3 DEF Revived
  <2>5. confirmed' \in [Jobs -> Nat] /\ \A k \in Jobs : k # j => confirmed'[k] = confirmed[k]
    BY <1>1, <1>3 DEF Confirm, Retry
  <2> HIDE DEF j
  <2>6. QED
    BY <1>1, <2>1, <2>2, <2>3, <2>4, <2>5, ReviveTask
<1>4. CASE Reprepare(u)
  <2>1. /\ job' = [job EXCEPT ![j] = Reprepared(job[j])]
        /\ confirmed' = confirmed /\ facts' = facts
    BY <1>4 DEF Reprepare
  <2>2. /\ job[j].status \in {"awaiting_confirmation", "needs_review", "failed"}
        /\ ~job[j].disposed
    BY <1>4 DEF Reprepare, Undisposed
  <2>3. Revived(job[j], Reprepared(job[j])) /\ Reprepared(job[j]) \in Row
    BY <1>1, <2>2, RepreparedRow DEF Revived
  <2> HIDE DEF j
  <2>4. QED
    BY <1>1, <2>1, <2>3, ReviveTask
<1>5. CASE ParkStalePreview(u)
  <2>1. /\ job' = [job EXCEPT ![j] = Parked(job[j])] /\ job[j].status = "awaiting_confirmation"
        /\ UNCHANGED <<confirmed, facts>>
    BY <1>5 DEF ParkStalePreview
  <2>2. Shelved(job[j], Parked(job[j]))
    BY <1>1, <2>1, ParkedRow DEF Shelved, Same
  <2>3. RowsAreCalm
    BY <1>1, <2>1, <2>2, OneRowMoves DEF Calm, Inductive
  <2>4. QED
    BY <2>1, <2>3, CalmIsSilent
<1>6. CASE Dispose(u)
  <2>1. /\ job' = [job EXCEPT ![j] = DisposedOf(job[j])]
        /\ job[j].status \in {"failed", "needs_review"} /\ ~job[j].disposed
        /\ confirmed' = confirmed /\ facts' = facts
    BY <1>6 DEF Dispose, Undisposed
  <2>2. Closed(job[j], DisposedOf(job[j])) /\ DisposedOf(job[j]) \in Row
    BY <1>1, <2>1, DisposedOfRow DEF Closed
  <2> HIDE DEF j
  <2>3. QED
    BY <1>1, <2>1, <2>2, CloseTask
<1>7. QED
  BY <1>2, <1>3, <1>4, <1>5, <1>6 DEF Command

LEMMA FinishCommitPromise ==
    ASSUME Inductive, Inductive', AllOver, PreviewIsThere, NEW e \in Executors, FinishCommit(e)
    PROVE  Silent \/ Promise!Next
<1> DEFINE j == exec[e].job
<1>1. /\ Busy(e) /\ Owns(e) /\ exec[e].pc = "loaded" /\ confirmed' = confirmed
  BY DEF FinishCommit, CompletionLock, Busy
<1>2. /\ j \in Jobs /\ job[j] \in Row /\ job[j].status = "processing"
  BY <1>1 DEF Inductive, TypeOK, Process, Owns
<1>3. job[j].stage = "commit" /\ exec[e].plan = preview[j] /\ confirmed[j] = preview[j]
      /\ facts[j] = <<>> /\ preview[j] # 0
  <2>1. exec[e].stage = job[j].stage /\ exec[e].plan = preview[j]
    BY <1>1 DEF Inductive, HolderIsCurrent
  <2>2. exec[e].stage = "commit"
    BY DEF FinishCommit
  <2>3. QED
    BY <1>2, <2>1, <2>2 DEF Inductive, CommitIsConfirmed, FactsMatchOutcome, PreviewIsThere
<1>4. RowsAreCalm
  BY ExecutorMoves DEF Execute
<1>5. CASE facts' = facts
  BY <1>1, <1>4, <1>5, CalmIsSilent
<1>6. CASE facts' = [facts EXCEPT ![j] = Append(facts[j], exec[e].plan)]
  <2>1. \A k \in Jobs : Accepted(k)' = Accepted(k) /\ (Shut(k)' <=> Shut(k))
    <3> SUFFICES ASSUME NEW k \in Jobs PROVE Accepted(k)' = Accepted(k) /\ (Shut(k)' <=> Shut(k))
      OBVIOUS
    <3>1. Over(job[k]) /\ Calm(job[k], job'[k])
      BY <1>4 DEF AllOver, RowsAreCalm
    <3>2. job'[k].stage = job[k].stage /\ job'[k].disposed = job[k].disposed
      BY <3>1 DEF Calm, Kept, Taken, Ceased, Shelved, Same
    <3>3. job'[k].status = "canceled" <=> job[k].status = "canceled"
      BY <3>1 DEF Calm, Kept, Taken, Ceased, Shelved
    <3>4. QED
      BY <1>1, <3>2, <3>3 DEF Accepted, Shut
  <2>2. ~Shut(j)
    BY <1>2 DEF AllOver, Over, Shut
  <2>3. Accepted(j) = confirmed[j] /\ Accepted(j) # 0
    BY <1>3 DEF Accepted
  <2>4. facts' = [facts EXCEPT ![j] = <<Accepted(j)>>]
    BY <1>2, <1>3, <1>6, <2>3
  <2> HIDE DEF j
  <2>5. QED
    BY <1>2, <1>3, <2>1, <2>2, <2>3, <2>4, FactsAreWritten
<1>7. QED
  BY <1>5, <1>6 DEF FinishCommit

LEMMA StepKeepsPromise ==
    ASSUME Inductive, AllOver, PreviewIsThere, [Next]_vars
    PROVE  Silent \/ Promise!Next
<1>1. Inductive'
  BY NextInductive
<1>2. ASSUME NEW j \in Jobs, Register(j) PROVE Promise!Next
  BY <1>2, RegisterPromise
<1>3. ASSUME NEW j \in Jobs, LeaseExpires(j) \/ Acknowledge(j) PROVE Silent
  BY <1>1, <1>3, MinorMoves, CalmIsSilent DEF LeaseExpires, Acknowledge
<1>4. ASSUME NEW j \in Jobs, Cancel(j) PROVE Promise!Next
  <2>1. job[j] \in Row
    BY DEF Inductive, TypeOK
  <2>2. Closed(job[j], Canceled(job[j])) /\ Canceled(job[j]) \in Row
    BY <1>4, <2>1, CanceledRow DEF Closed, Cancel, Undisposed
  <2>3. QED
    BY <1>4, <2>2, CloseTask DEF Cancel
<1>5. ASSUME NEW e \in Executors, ClaimNext(e) \/ Execute(e) \/ Renew(e) \/ Crash(e)
      PROVE  Silent \/ Promise!Next
  <2>1. CASE FinishCommit(e)
    BY <1>1, <2>1, FinishCommitPromise
  <2>2. CASE ~FinishCommit(e)
    <3>1. UNCHANGED <<confirmed, facts>>
      BY <1>5, <2>2 DEF ClaimNext, Execute, Renew, Crash, LoadSession, FinishPrepare, Abort,
                        RequireReview, DeferAttachments, Settle
    <3>2. QED
      BY <1>1, <1>5, <3>1, ExecutorMoves, CalmIsSilent
  <2>3. QED
    BY <2>1, <2>2
<1>6. ASSUME NEW u \in Users, Command(u) PROVE Silent \/ Promise!Next
  BY <1>1, <1>6, CommandPromise
<1>7. CASE ChangeAuthorization \/ UNCHANGED vars
  BY <1>1, <1>7, NoRowMoves, CalmIsSilent DEF ChangeAuthorization, vars
<1>8. QED
  BY <1>2, <1>3, <1>4, <1>5, <1>6, <1>7 DEF Next

(***************************************************************************)
(* A preview is there before it is confirmed.                              *)
(***************************************************************************)

\* A step that offers nothing new.
LEMMA NothingIsOffered ==
    ASSUME PreviewIsThere, preview' = preview,
           \A j \in Jobs : job'[j].status = "awaiting_confirmation" =>
                               job[j].status = "awaiting_confirmation",
           \A j \in Jobs : job'[j].stage = "commit" => job[j].stage = "commit"
    PROVE  PreviewIsThere'
<1> SUFFICES ASSUME NEW k \in Jobs,
                    job'[k].status = "awaiting_confirmation" \/ job'[k].stage = "commit"
             PROVE  preview'[k] # 0
  BY DEF PreviewIsThere
<1>1. CASE job'[k].status = "awaiting_confirmation"
  <2>1. job[k].status = "awaiting_confirmation"
    BY <1>1
  <2>2. QED
    BY <2>1 DEF PreviewIsThere
<1>2. CASE job'[k].stage = "commit"
  <2>1. job[k].stage = "commit"
    BY <1>2
  <2>2. QED
    BY <2>1 DEF PreviewIsThere
<1>3. QED
  BY <1>1, <1>2

LEMMA OneRowOffersNothing ==
    ASSUME Inductive, PreviewIsThere, preview' = preview, NEW j \in Jobs, NEW row,
           job' = [job EXCEPT ![j] = row],
           row.status = "awaiting_confirmation" => job[j].status = "awaiting_confirmation",
           row.stage = "commit" => job[j].stage = "commit"
    PROVE  PreviewIsThere'
<1>1. job'[j] = row /\ \A k \in Jobs : k # j => job'[k] = job[k]
  BY DEF Inductive, TypeOK
<1>2. QED
  BY <1>1, NothingIsOffered

LEMMA FinishedOffersNothing ==
    ASSUME Inductive, PreviewIsThere, preview' = preview, NEW e \in Executors,
           NEW status \in {"pending", "needs_review", "succeeded", "failed"},
           job' = [job EXCEPT ![exec[e].job] = Finished(job[exec[e].job], status)]
    PROVE  PreviewIsThere'
<1>1. exec[e].job \in Jobs /\ job[exec[e].job] \in Row /\ status \in Status
      /\ status # "awaiting_confirmation"
  BY DEF Inductive, TypeOK, Process, Status
<1>2. /\ Finished(job[exec[e].job], status).status = status
      /\ Finished(job[exec[e].job], status).stage = job[exec[e].job].stage
  BY <1>1, FinishedRow
<1>3. QED
  BY <1>1, <1>2, OneRowOffersNothing

LEMMA FailClaimOffersNothing ==
    ASSUME Inductive, PreviewIsThere, preview' = preview, NEW e \in Executors,
           NEW retry \in BOOLEAN, FailClaim(e, retry)
    PROVE  PreviewIsThere'
<1>1. CASE job' = job
  BY <1>1, NothingIsOffered
<1>2. CASE job' # job
  <2>1. PICK status \in {"pending", "failed"} :
          job' = [job EXCEPT ![exec[e].job] = Finished(job[exec[e].job], status)]
    BY <1>2 DEF FailClaim
  <2>2. QED
    BY <2>1, FinishedOffersNothing
<1>3. QED
  BY <1>1, <1>2

LEMMA ExecutorOffers ==
    ASSUME Inductive, PreviewIsThere, NEW e \in Executors,
           ClaimNext(e) \/ Execute(e) \/ Renew(e) \/ Crash(e)
    PROVE  PreviewIsThere'
<1> DEFINE j == exec[e].job
<1>1. j \in Jobs /\ job[j] \in Row
  BY DEF Inductive, TypeOK, Process
<1>2. CASE ClaimNext(e)
  <2> SUFFICES ASSUME NEW k \in Jobs
               PROVE  /\ job'[k].status = "awaiting_confirmation" =>
                           job[k].status = "awaiting_confirmation"
                      /\ job'[k].stage = "commit" => job[k].stage = "commit"
    BY <1>2, NothingIsOffered DEF ClaimNext
  <2>1. job[k] \in Row /\ Swept[k].stage = job[k].stage
        /\ (Swept[k] = job[k] \/ Swept[k].status = "failed")
    BY SweptRow DEF Inductive, TypeOK
  <2>2. Claimed(job[k], e).status = "processing" /\ Claimed(job[k], e).stage = job[k].stage
    BY <2>1, ClaimedRow
  <2>3. job'[k] = Swept[k] \/ job'[k] = Claimed(job[k], e)
    BY <1>2 DEF ClaimNext, Swept
  <2>4. QED
    BY <2>1, <2>2, <2>3
<1>3. CASE Renew(e)
  <2>1. "held" \in Lease
    BY DEF Lease
  <2>2. Leased(job[j], "held").status = job[j].status /\ Leased(job[j], "held").stage = job[j].stage
    BY <1>1, <2>1, LeasedRow
  <2>3. preview' = preview /\ job' = [job EXCEPT ![j] = Leased(job[j], "held")]
    BY <1>3 DEF Renew
  <2>4. QED
    BY <1>1, <2>2, <2>3, OneRowOffersNothing
<1>4. CASE LoadSession(e) \/ Crash(e)
  BY <1>4, NothingIsOffered DEF LoadSession, Crash
<1>5. CASE FinishPrepare(e)
  <2>1. /\ preview' = [preview EXCEPT ![j] = preview[j] + 1] /\ preview[j] \in Nat
        /\ \A k \in Jobs : k # j => job'[k] = job[k] /\ preview'[k] = preview[k]
    BY <1>1, <1>5 DEF FinishPrepare, Inductive, TypeOK
  <2>2. preview'[j] # 0
    BY <1>1, <2>1 DEF Inductive, TypeOK
  <2>3. QED
    BY <2>1, <2>2 DEF PreviewIsThere
<1>6. CASE FinishCommit(e)
  BY <1>6, FinishedOffersNothing DEF FinishCommit
<1>7. CASE Abort(e)
  BY <1>7, FailClaimOffersNothing DEF Abort
<1>8. CASE RequireReview(e)
  BY <1>8, NothingIsOffered, FinishedOffersNothing DEF RequireReview
<1>9. CASE DeferAttachments(e)
  <2>1. CASE Owns(e)
    <3>1. job[j].attempts >= 1
      BY <1>1, <2>1 DEF Owns, Inductive, CommitIsConfirmed
    <3>2. Deferred(job[j]).status = "pending" /\ Deferred(job[j]).stage = job[j].stage
      BY <1>1, <3>1, DeferredRow
    <3>3. QED
      BY <1>1, <1>9, <2>1, <3>2, OneRowOffersNothing DEF DeferAttachments
  <2>2. CASE ~Owns(e)
    BY <1>9, <2>2, NothingIsOffered DEF DeferAttachments
  <2>3. QED
    BY <2>1, <2>2
<1>10. CASE Settle(e)
  BY <1>10, NothingIsOffered, FailClaimOffersNothing DEF Settle
<1>11. QED
  BY <1>2, <1>3, <1>4, <1>5, <1>6, <1>7, <1>8, <1>9, <1>10 DEF Execute

LEMMA CommandOffers ==
    ASSUME Inductive, PreviewIsThere, NEW u \in Users, Command(u) PROVE PreviewIsThere'
<1> DEFINE j == seen[u].job
<1>1. j \in Jobs /\ job[j] \in Row /\ job[j].stage \in Stage /\ "commit" \in Stage
  BY DEF Inductive, TypeOK, Page, Row, Stage
<1>2. CASE \E i \in Jobs : Look(u, i)
  BY <1>2, NothingIsOffered DEF Look
<1>3. CASE Confirm(u)
  <2>1. job[j].status = "awaiting_confirmation"
    BY <1>1, <1>3 DEF Confirm, Inductive, VersionIdentifiesPage
  <2>2. preview[j] # 0
    BY <1>1, <2>1 DEF PreviewIsThere
  <2>3. preview' = preview /\ \A k \in Jobs : k # j => job'[k] = job[k]
    BY <1>3 DEF Confirm, Inductive, TypeOK
  <2>4. QED
    BY <2>2, <2>3 DEF PreviewIsThere
<1>4. CASE Retry(u)
  <2>1. /\ Requeued(job[j], job[j].stage).status = "pending"
        /\ Requeued(job[j], job[j].stage).stage = job[j].stage
    BY <1>1, RequeuedRow
  <2>2. QED
    BY <1>1, <1>4, <2>1, OneRowOffersNothing DEF Retry
<1>5. CASE Reprepare(u)
  <2>1. Reprepared(job[j]).status = "pending" /\ Reprepared(job[j]).stage = "prepare"
    BY <1>1, RepreparedRow
  <2>2. QED
    BY <1>1, <1>5, <2>1, OneRowOffersNothing DEF Reprepare
<1>6. CASE ParkStalePreview(u)
  <2>1. Parked(job[j]).status = "needs_review" /\ Parked(job[j]).stage = job[j].stage
    BY <1>1, ParkedRow
  <2>2. QED
    BY <1>1, <1>6, <2>1, OneRowOffersNothing DEF ParkStalePreview
<1>7. CASE Dispose(u)
  <2>1. /\ DisposedOf(job[j]).status # "awaiting_confirmation"
        /\ DisposedOf(job[j]).stage = job[j].stage
    BY <1>1, <1>7, DisposedOfRow DEF Dispose
  <2>2. QED
    BY <1>1, <1>7, <2>1, OneRowOffersNothing DEF Dispose
<1>8. QED
  BY <1>2, <1>3, <1>4, <1>5, <1>6, <1>7 DEF Command

LEMMA PreviewInductive == Inductive /\ PreviewIsThere /\ [Next]_vars => PreviewIsThere'
<1> SUFFICES ASSUME Inductive, PreviewIsThere, [Next]_vars PROVE PreviewIsThere'
  OBVIOUS
<1>1. ASSUME NEW j \in Jobs, Register(j) PROVE PreviewIsThere'
  <2>1. \A k \in Jobs : k # j => job'[k] = job[k] /\ preview'[k] = preview[k]
    BY <1>1 DEF Register, Inductive, TypeOK
  <2>2. job'[j].status = "pending" /\ (job'[j].stage = "commit" => preview'[j] = 1)
    BY <1>1 DEF Register, NewRow, Inductive, TypeOK
  <2>3. QED
    BY <2>1, <2>2 DEF PreviewIsThere
<1>2. ASSUME NEW j \in Jobs, LeaseExpires(j) PROVE PreviewIsThere'
  <2>1. job[j] \in Row /\ "expired" \in Lease
    BY DEF Inductive, TypeOK, Lease
  <2>2. /\ Leased(job[j], "expired").status = job[j].status
        /\ Leased(job[j], "expired").stage = job[j].stage
    BY <2>1, LeasedRow
  <2>3. preview' = preview /\ job' = [job EXCEPT ![j] = Leased(job[j], "expired")]
    BY <1>2 DEF LeaseExpires
  <2>4. QED
    BY <2>2, <2>3, OneRowOffersNothing
<1>3. ASSUME NEW j \in Jobs, Acknowledge(j) PROVE PreviewIsThere'
  <2>1. job[j] \in Row
    BY DEF Inductive, TypeOK
  <2>2. QED
    BY <1>3, <2>1, AckedRow, OneRowOffersNothing DEF Acknowledge
<1>4. ASSUME NEW j \in Jobs, Cancel(j) PROVE PreviewIsThere'
  <2>1. job[j] \in Row
    BY DEF Inductive, TypeOK
  <2>2. Canceled(job[j]).status = "canceled" /\ Canceled(job[j]).stage = job[j].stage
    BY <2>1, CanceledRow
  <2>3. QED
    BY <1>4, <2>2, OneRowOffersNothing DEF Cancel
<1>5. CASE ChangeAuthorization \/ UNCHANGED vars
  BY <1>5, NothingIsOffered DEF ChangeAuthorization, vars
<1>6. QED
  BY <1>1, <1>2, <1>3, <1>4, <1>5, ExecutorOffers, CommandOffers DEF Next

\* With leases, incarnations, stale pages and crashes the queue does what
\* ImportPromise says: each of its steps is one of the promise's or none.
THEOREM QueueKeepsPromise == Spec => KeepsPromise
<1>1. Init => PreviewIsThere
  BY DEF Init, PreviewIsThere, AbsentRow
<1>2. Spec => []PreviewIsThere
  BY <1>1, PreviewInductive, Invariance, PTL DEF Spec
<1>3. Init => Promise!Init
  <2> SUFFICES ASSUME Init PROVE Promise!Init
    OBVIOUS
  <2>1. \A j \in Jobs : job[j] = AbsentRow
    BY DEF Init
  <2>2. \A j \in Jobs : /\ job[j].stage # "commit"
                        /\ (job[j].status = "canceled" \/ job[j].disposed) = FALSE
    <3> SUFFICES ASSUME NEW j \in Jobs
                 PROVE  /\ job[j].stage # "commit"
                        /\ (job[j].status = "canceled" \/ job[j].disposed) = FALSE
      OBVIOUS
    <3>1. job[j].stage = "prepare" /\ job[j].status = "absent" /\ job[j].disposed = FALSE
      BY <2>1 DEF AbsentRow
    <3>2. job[j].stage # "commit" /\ job[j].status # "canceled"
      BY <3>1
    <3>3. QED
      BY <3>1, <3>2, Zenon
  <2>3. [j \in Jobs |-> IF job[j].stage = "commit" THEN confirmed[j] ELSE 0] = [j \in Jobs |-> 0]
    BY <2>2
  <2>4. [j \in Jobs |-> job[j].status = "canceled" \/ job[j].disposed] = [j \in Jobs |-> FALSE]
    BY Zenon, <2>2
  <2>5. facts = [j \in Jobs |-> <<>>]
    BY DEF Init
  <2>6. QED
    BY <2>3, <2>4, <2>5 DEF Promise!Init
<1>4. Inductive /\ AllOver /\ PreviewIsThere /\ [Next]_vars => [Promise!Next]_(Promise!vars)
  BY StepKeepsPromise, SilentStutters
<1>5. QED
  BY <1>2, <1>3, <1>4, Invariance, AlwaysOver, PTL DEF Spec, KeepsPromise, Promise!Spec
===============================================================================
