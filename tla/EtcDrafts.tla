------------------------------ MODULE EtcDrafts ------------------------------
(* One ETC batch and the draft of its reimbursement in the OA.  The server  *)
(* keeps the batches in memory, reads them anew at the start of a request   *)
(* and acts on what the memory holds by then: prepare in a transaction, the *)
(* call of the OA outside of any, the outcome in a second transaction, the  *)
(* entry in the reconciliation task in a third.  Its threads take turns on  *)
(* a lock, which the call does not hold.  The import worker and the matcher *)
(* are other processes and write the row in PostgreSQL only.                *)
EXTENDS Naturals

CONSTANTS
    Attempts,    \* attempts at a draft, in the order in which they are prepared
    Keys,        \* idempotency keys a browser may send
    Rows,        \* rows of the OA the batch may be bound to
    None,
    MaxVersion   \* bound: titles, bindings and unread memories stop at this version

ASSUME EtcDraftsAssumption ==
    /\ Attempts \subseteq Nat \ {0} /\ MaxVersion \in Nat
    /\ None \notin Keys \cup Rows

VARIABLES
    db,          \* the batch in app.etc_business_batches
    mem,         \* the batch in the server's memory
    att,         \* the attempts: what the thread of each knows, what it prepared
    flying,      \* attempts whose request may still reach the OA
    drafts,      \* attempts whose draft is in the OA
    task,        \* the batch's reconciliation task
    books,       \* entries a request still has to make in the task
    waived       \* history: attempts whose fate a person has decided

vars == <<db, mem, att, flying, drafts, task, books, waived>>
batch == <<db, mem>>
oa == <<flying, drafts>>
desk == <<task, books>>

\* ready: all that precedes the import; submitted: manually_marked_submitted.
Statuses == {"ready", "imported", "creating", "failed", "pending", "not_submitted",
             "submitted", "deleted"}
Ids == Attempts \cup {0}

\* sub: the submission batch, named after the attempt that made it.
Batch == [status : Statuses, version : Nat, key : Keys \cup {None}, sub : Ids, draft : Ids,
          oaRow : Rows \cup {None}, binding : Rows \cup {None}, invoices : BOOLEAN]
Attempt == [pc : {"none", "sending", "created", "refused", "unknown", "done"},
            key : Keys \cup {None}, sub : Ids, version : Nat]
Task == [status : {"ready", "imported", "closed", "deleted"}, draft : Ids]

Init ==
    /\ db = [status |-> "ready", version |-> 1, key |-> None, sub |-> 0, draft |-> 0,
             oaRow |-> None, binding |-> None, invoices |-> FALSE]
    /\ mem = db
    /\ att = [a \in Attempts |-> [pc |-> "none", key |-> None, sub |-> 0, version |-> 0]]
    /\ flying = {} /\ drafts = {} /\ books = {} /\ waived = {}
    /\ task = [status |-> "ready", draft |-> 0]

-----------------------------------------------------------------------------
(* Writing the batch. *)

\* Mutant: only versions are compared.
OutrunByVersion(row) == db.version > row.version

\* Whether PostgreSQL refuses a snapshot as stale.
Outrun(row) ==
    \/ db.version > row.version
    \/ db.binding # None /\ db.binding # row.binding

\* _persist_oa_draft_attempt: this batch alone, if its version is the expected one.
Saved(row) ==
    /\ db.version = mem.version /\ ~Outrun(row)
    /\ db' = row /\ mem' = row

\* The version differs, or the database fails: the memory is read anew, or
\* stays as it was changed if the database fails again.
NotSaved(row) ==
    /\ UNCHANGED db
    /\ mem' = db \/ (mem' = row /\ row.version <= MaxVersion)

\* _persist: everything the memory holds.  It fails as a whole, also over
\* another batch, and leaves the memory as it was changed.
Kept(row) == ~Outrun(row) /\ db' = row /\ mem' = row
NotKept(row) == UNCHANGED db /\ mem' = row

Bumped(row) == [row EXCEPT !.version = @ + 1]

\* A request begins.
Reload ==
    /\ mem' = db
    /\ UNCHANGED <<db, att, oa, desk, waived>>

\* The attempts a person settles who decides about the batch in memory.
Settled == {a \in Attempts : att[a].pc # "none" /\ att[a].sub = mem.sub}

-----------------------------------------------------------------------------
(* An attempt. *)

\* Mutant: an attempt whose outcome is unknown may be repeated.
StartableAgain == {"imported", "not_submitted", "failed", "creating"}

Startable == {"imported", "not_submitted", "failed"}

Unused(a) == att[a].pc = "none" /\ \A b \in Attempts : b < a => att[b].pc # "none"

\* A failed attempt leaves its submission batch to the next.
Submission(a) == IF mem.status = "failed" /\ mem.sub # 0 THEN mem.sub ELSE a

Prepared(a, k) ==
    Bumped([mem EXCEPT !.status = "creating", !.key = k, !.sub = Submission(a), !.draft = 0])

MayPrepare(k) ==
    /\ ~(mem.key = k /\ mem.status \in {"pending", "creating", "failed"})
    /\ mem.status \in Startable /\ mem.invoices
    /\ task.status \in {"imported", "closed"}

Prepare(a, k) ==
    /\ Unused(a) /\ MayPrepare(k)
    /\ \/ /\ Saved(Prepared(a, k))
          /\ att' = [att EXCEPT ![a] = [pc |-> "sending", key |-> k, sub |-> Submission(a),
                                        version |-> mem.version + 1]]
          /\ flying' = flying \cup {a}
       \/ NotSaved(Prepared(a, k)) /\ UNCHANGED <<att, flying>>
    /\ UNCHANGED <<drafts, desk, waived>>

\* Mutant: the answer is compared with the key only.
CurrentByKey(a) == mem.status = "creating" /\ mem.key = att[a].key

\* _assert_current_oa_draft_attempt
Current(a) ==
    /\ mem.status = "creating" /\ mem.sub = att[a].sub
    /\ mem.key = att[a].key /\ mem.version = att[a].version

Goes(a, pc) == att' = [att EXCEPT ![a].pc = pc]

\* The OA answers with the draft, rejects the request (4xx, or a code), does
\* not answer or not intelligibly (no connection, 5xx, no draft id), or the
\* thread ends in an exception nobody catches (a timeout while reading).
AnswerCreated(a) == a \in drafts /\ Goes(a, "created") /\ UNCHANGED flying
AnswerRefused(a) == a \in flying /\ Goes(a, "refused") /\ flying' = flying \ {a}
AnswerUnknown(a) == (Goes(a, "unknown") \/ Goes(a, "done")) /\ UNCHANGED flying

Answer(a) ==
    /\ att[a].pc = "sending"
    /\ AnswerCreated(a) \/ AnswerRefused(a) \/ AnswerUnknown(a)
    /\ UNCHANGED <<batch, drafts, desk, waived>>

Entry(op) == [op |-> op, sub |-> mem.sub, task |-> task]

Completed(a) == Bumped([mem EXCEPT !.status = "pending", !.draft = a])

\* A draft that cannot be saved is then reported as unknown.
Complete(a) ==
    /\ att[a].pc = "created"
    /\ \/ /\ Current(a) /\ Saved(Completed(a)) /\ Goes(a, "done")
          /\ books' = books \cup {Entry("draft")}
       \/ /\ Current(a) /\ NotSaved(Completed(a)) /\ Goes(a, "unknown") /\ UNCHANGED books
       \/ /\ ~Current(a) /\ Goes(a, "done") /\ UNCHANGED <<batch, books>>
    /\ UNCHANGED <<oa, task, waived>>

Failed == Bumped([mem EXCEPT !.status = "failed"])

\* Mutant: no answer is taken for a refusal.
FailOrUnknown(a) == att[a].pc \in {"refused", "unknown"}

MayFail(a) == att[a].pc = "refused"

Fail(a) ==
    /\ MayFail(a) /\ Goes(a, "done")
    /\ \/ Current(a) /\ (Saved(Failed) \/ NotSaved(Failed))
       \/ ~Current(a) /\ UNCHANGED batch
    /\ UNCHANGED <<oa, desk, waived>>

\* mark_business_batch_oa_draft_outcome_unknown: an entry in the audit trail.
MarkUnknown(a) ==
    /\ att[a].pc = "unknown" /\ Goes(a, "done")
    /\ \/ Current(a) /\ (Saved(Bumped(mem)) \/ NotSaved(Bumped(mem)))
       \/ ~Current(a) /\ UNCHANGED batch
    /\ UNCHANGED <<oa, desk, waived>>

\* The same key again once the draft is there, or the same recovery: the
\* entry in the task is made if it is missing.
Replay ==
    /\ mem.status = "pending"
    /\ books' = books \cup {Entry("draft")}
    /\ UNCHANGED <<batch, att, oa, task, waived>>

-----------------------------------------------------------------------------
(* People. *)

\* recover, with the draft that they found in the OA: it bears the mark of
\* this submission.
Adopt(a) ==
    /\ mem.status = "creating" /\ a \in drafts /\ att[a].sub = mem.sub
    /\ \/ Saved(Completed(a)) /\ books' = books \cup {Entry("draft")}
       \/ NotSaved(Completed(a)) /\ UNCHANGED books
    /\ waived' = waived \cup (Settled \ {a})
    /\ UNCHANGED <<att, oa, task>>

\* recover, confirmed not created; they may be mistaken, or too early.
NotCreated ==
    /\ mem.status = "creating"
    /\ Saved(Failed) \/ NotSaved(Failed)
    /\ waived' = waived \cup Settled
    /\ UNCHANGED <<att, oa, desk>>

Revoked ==
    Bumped([mem EXCEPT !.status = "not_submitted", !.key = None, !.sub = 0, !.draft = 0])

Revoke ==
    /\ mem.status \in {"creating", "pending"}
    /\ Kept(Revoked) \/ NotKept(Revoked)
    /\ waived' = waived \cup Settled
    /\ UNCHANGED <<att, oa, desk>>

Submitted(r) == Bumped([mem EXCEPT !.status = "submitted", !.oaRow = r])

MaySubmit(r) ==
    \/ mem.status \in {"creating", "pending"}
    \/ mem.status = "submitted" /\ mem.oaRow = None /\ r # None

\* Mutant: the task is told even if the batch could not be saved.
ToldAnyway(saved) == {"submitted"}

Told(saved) == IF saved /\ mem.sub # 0 THEN {"submitted"} ELSE {}

\* Marked as submitted, with the row in the OA or without.
Submit(r) ==
    /\ MaySubmit(r)
    /\ \E saved \in BOOLEAN :
         /\ IF saved THEN Saved(Submitted(r)) ELSE NotSaved(Submitted(r))
         /\ books' = books \cup {Entry(op) : op \in Told(saved)}
    /\ waived' = waived \cup (Settled \ {mem.draft})
    /\ UNCHANGED <<att, oa, task>>

\* A submitted batch is reset under a new version, any other removed as it is.
Removed ==
    IF mem.status = "submitted" THEN Bumped([mem EXCEPT !.status = "deleted"])
    ELSE [mem EXCEPT !.status = "deleted"]

Delete ==
    /\ mem.status # "deleted" /\ (mem.status = "submitted" => mem.oaRow = None)
    /\ \/ Kept(Removed) /\ books' = books \cup {Entry("delete")}
       \/ NotKept(Removed) /\ UNCHANGED books
    /\ waived' = waived \cup Settled
    /\ UNCHANGED <<att, oa, task>>

Title ==
    /\ mem.status # "submitted" /\ mem.version < MaxVersion
    /\ Kept(Bumped(mem)) \/ NotKept(Bumped(mem))
    /\ UNCHANGED <<att, oa, desk, waived>>

-----------------------------------------------------------------------------
(* The task, in a transaction of its own. *)

\* One draft is entered, and no other after it.
Entered(e) ==
    [task EXCEPT !.draft = IF @ = 0 /\ task.status \in {"imported", "closed"} THEN e.sub ELSE @]

Closed(e) ==
    IF task.status \in {"imported", "closed"}
    THEN [status |-> "closed", draft |-> IF task.draft = 0 THEN e.sub ELSE task.draft]
    ELSE task

\* The task is deleted as it was read, before the batch was.
Dropped(e) == IF task = e.task THEN [task EXCEPT !.status = "deleted", !.draft = 0] ELSE task

\* It may also fail, or find the task changed: then the entry is missing.
Book(e) ==
    /\ e \in books /\ books' = books \ {e}
    /\ \/ e.op = "draft" /\ task' = Entered(e)
       \/ e.op = "submitted" /\ task' = Closed(e)
       \/ e.op = "delete" /\ task' = Dropped(e)
       \/ UNCHANGED task
    /\ UNCHANGED <<batch, att, oa, waived>>

-----------------------------------------------------------------------------
(* Other processes. *)

\* The import worker: invoices, batch and task in one transaction.
Import ==
    /\ db.status = "ready" /\ task.status = "ready"
    /\ db' = Bumped([db EXCEPT !.status = "imported", !.invoices = TRUE])
    /\ task' = [task EXCEPT !.status = "imported"]
    /\ UNCHANGED <<mem, att, oa, books, waived>>

\* The matcher: bind_etc_oa_sources, inside the relation's transaction.
Bind(r) ==
    /\ db.status = "submitted" /\ db.binding # r /\ db.version < MaxVersion
    /\ db' = Bumped([db EXCEPT !.oaRow = r, !.binding = r])
    /\ UNCHANGED <<mem, att, oa, desk, waived>>

\* The OA handles the request, perhaps long after nobody waits any more.
OaCreates(a) ==
    /\ a \in flying
    /\ flying' = flying \ {a} /\ drafts' = drafts \cup {a}
    /\ UNCHANGED <<batch, att, desk, waived>>

\* The server ends and starts again.
Crash ==
    /\ mem' = db /\ books' = {}
    /\ att' = [a \in Attempts |-> IF att[a].pc = "none" THEN att[a] ELSE [att[a] EXCEPT !.pc = "done"]]
    /\ UNCHANGED <<db, oa, task, waived>>

Next ==
    \/ Reload \/ Replay \/ NotCreated \/ Revoke \/ Delete \/ Title \/ Import \/ Crash
    \/ \E a \in Attempts :
         \/ \E k \in Keys : Prepare(a, k)
         \/ Answer(a) \/ Complete(a) \/ Fail(a) \/ MarkUnknown(a) \/ Adopt(a) \/ OaCreates(a)
    \/ \E r \in Rows \cup {None} : Submit(r)
    \/ \E r \in Rows : Bind(r)
    \/ \E e \in books : Book(e)

Spec == Init /\ [][Next]_vars

-----------------------------------------------------------------------------
(* Properties *)

\* The columns, the memory, the threads and the task keep their types.
TypeOK ==
    /\ db \in Batch /\ mem \in Batch
    /\ att \in [Attempts -> Attempt]
    /\ flying \subseteq Attempts /\ drafts \subseteq Attempts /\ waived \subseteq Attempts
    /\ task \in Task
    /\ books \subseteq [op : {"draft", "submitted", "delete"}, sub : Ids, task : Task]

\* Every draft in the OA is on the batch, or the batch says that an attempt
\* of its submission is open, or a person has decided about that attempt.
NoOrphanDraft ==
    \A a \in drafts \ waived :
        db.draft = a \/ (db.status = "creating" /\ db.sub = att[a].sub)

\* No second draft of the batch is made while nobody has given up the first.
OneDraft == \A a, b \in drafts \ waived : a = b

\* A batch that waits for its confirmation names a draft that the OA has and
\* that was made for the submission it names.
DraftIsOfTheBatch ==
    db.status = "pending" => db.draft \in drafts /\ att[db.draft].sub = db.sub

\* The task names only submissions with a draft in the OA, and is closed only
\* when the batch was marked as submitted.
TaskTellsTheTruth ==
    /\ task.draft # 0 /\ task.status # "closed" => \E a \in drafts : att[a].sub = task.draft
    /\ task.status = "closed" => db.status \in {"submitted", "deleted"}

\* A deleted batch stays deleted, and one that is bound to a row of the OA
\* stays submitted and bound, whatever an older memory of it writes.
EndsAreFinal ==
    [][/\ db.status = "deleted" => db'.status = "deleted"
       /\ db.binding # None => db'.status = "submitted" /\ db'.binding # None]_vars

\* Invoices once imported stay on their batch: a snapshot that was read before
\* the import is refused.
ImportStands == [][db.invoices => db'.invoices]_vars
=============================================================================
