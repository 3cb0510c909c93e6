---------------------------- MODULE PaymentStatus ----------------------------
(* What the OA's own MySQL says of a payment, kept in step with the         *)
(* relations.  A relation command enqueues, in its transaction, an event    *)
(* that names the applications whose status may have changed; the one       *)
(* process that serves such events, and runs the synchronisations from the  *)
(* OA, writes MySQL a flow at a time, then the page's snapshot in           *)
(* PostgreSQL, then settles the event.  Rows of the OA may go and come      *)
(* back, its users may write the status themselves, and the process may     *)
(* die, or fail, between any two steps.                                     *)
EXTENDS Naturals, FiniteSets

CONSTANTS
    OA,          \* applications; the payment flow of each is its own
    InProgress,  \* those not yet approved: admitted only if MySQL has a status
    Cases,
    Shapes,      \* what a command may make of a relation
    None,
    MaxEvents,   \* bound on relation events open at a time
    MaxRemovals, \* bound on removal events open at a time
    MaxTries,    \* the event's max_attempts
    MaxUpsets    \* bound on what the OA's users, the network and crashes do

VARIABLES
    source,      \* applications in the OA's MongoDB
    facts,       \* applications in PostgreSQL: approved ones and admissions
    rel,         \* the relation of each case
    status,      \* t_payment_simple in the OA's MySQL
    snap,        \* oa_pending_payment_status_snapshots
    open,        \* events neither done nor given up
    asks,        \* the applications each names
    removal,     \* those that ask for the removal of missing applications
    tries,
    pc, held,    \* what the process does, and for which event
    todo,        \* flows it still has to treat; in a sync, the batch it read
    want,        \* statuses it will write; in a sync, those it read
    at,          \* the flow it found different
    kept,        \* history: flows whose status an event put right, undisturbed since
    steady,      \* history: in the source ever since the removal began
    upsets

outside == <<source, status, upsets>>
queue == <<open, asks, removal, tries>>
process == <<pc, held, todo, want, at, steady>>
vars == <<source, facts, rel, status, snap, queue, process, kept, upsets>>

Events == 1 .. MaxEvents + MaxRemovals
Value == {"none", "pending", "paid", "failed"}
Relation == [active : BOOLEAN, oas : SUBSET OA, bank : {"none", "in", "out"}, bound : SUBSET OA]

\* Rows of the relation: the applications, a bank row, and the attachment
\* invoice of each bound application.
Members(r) == Cardinality(r.oas) + (IF r.bank = "none" THEN 0 ELSE 1) + Cardinality(r.bound)

ASSUME PaymentStatusAssumption ==
    /\ MaxEvents \in Nat /\ MaxRemovals \in Nat
    /\ MaxTries \in Nat \ {0} /\ MaxUpsets \in Nat
    /\ None \notin OA /\ InProgress \subseteq OA
    /\ Shapes \subseteq Relation
    /\ \A s \in Shapes : s.active /\ s.bound \subseteq s.oas

Blank == [active |-> FALSE, oas |-> {}, bank |-> "none", bound |-> {}]

Init ==
    /\ source = OA /\ facts = OA
    /\ rel = [c \in Cases |-> Blank]
    /\ status = [o \in OA |-> IF o \in InProgress THEN "pending" ELSE "none"]
    /\ snap = status
    /\ open = {} /\ removal = {}
    /\ asks = [e \in Events |-> {}]
    /\ tries = [e \in Events |-> 0]
    /\ pc = "idle" /\ held = 0 /\ todo = {} /\ at = None
    /\ want = [o \in OA |-> "none"]
    /\ kept = {} /\ steady = {} /\ upsets = 0

------------------------------------------------------------------------------
(* Relations and their events *)

\* active_outflow_by_oa_row_id
Outflow(o) == \E c \in Cases : rel[c].active /\ rel[c].bank = "out" /\ o \in rel[c].oas

Right(o) == IF Outflow(o) THEN "paid" ELSE "pending"

\* Mutant: the members the relation had before are not looked at.
PayloadOfNew(old, new) == IF new.bank # "none" THEN new.oas ELSE {}

\* The applications of the relation as it was and as it is, if either has a bank row.
Payload(old, new) ==
    IF old.bank # "none" \/ new.bank # "none" THEN old.oas \cup new.oas ELSE {}

\* A new row of the outbox; nothing when there is nobody to name.
Enqueue(named, remove) ==
    IF named = {}
    THEN UNCHANGED queue
    ELSE \E e \in Events \ open :
           /\ \A f \in Events \ open : e <= f
           /\ open' = open \cup {e}
           /\ asks' = [asks EXCEPT ![e] = named]
           /\ removal' = IF remove THEN removal \cup {e} ELSE removal \ {e}
           /\ tries' = [tries EXCEPT ![e] = 0]

Save(c, new) ==
    /\ new # rel[c] /\ Cardinality(open \ removal) < MaxEvents
    /\ rel' = [rel EXCEPT ![c] = new]
    /\ Enqueue(Payload(rel[c], new), FALSE)
    /\ UNCHANGED <<outside, facts, snap, process, kept>>

\* A command confirms, extends or reduces a relation; an application is in one
\* active relation at most.
Confirm(c) ==
    \E new \in Shapes :
        /\ new.oas \subseteq facts
        /\ \A d \in Cases \ {c} : rel[d].active => rel[d].oas \cap new.oas = {}
        /\ Save(c, new)

\* A cancelled relation keeps its rows.
Cancelled(r) == [active |-> FALSE, oas |-> r.oas, bank |-> r.bank, bound |-> r.bound]

Withdraw(c) == rel[c].active /\ Save(c, Cancelled(rel[c]))

------------------------------------------------------------------------------
(* The process *)

Rest ==
    /\ pc' = "idle" /\ held' = 0 /\ todo' = {} /\ at' = None /\ steady' = {}
    /\ want' = [o \in OA |-> "none"]

Close(e) ==
    /\ open' = open \ {e}
    /\ asks' = [asks EXCEPT ![e] = {}]
    /\ removal' = removal \ {e}
    /\ tries' = [tries EXCEPT ![e] = 0]

Exhausted(e) == tries[e] + 1 >= MaxTries

\* The handler raised: the event waits for another try, or is given up.
Fail(e) ==
    /\ Rest
    /\ IF Exhausted(e)
       THEN /\ Close(e)
            /\ kept' = IF e \in removal THEN kept ELSE kept \ asks[e]
       ELSE /\ tries' = [tries EXCEPT ![e] = @ + 1]
            /\ UNCHANGED <<open, asks, removal, kept>>

Known(e) == asks[e] \subseteq facts

\* The rows resolve, and one query tells which have an outflow.
Begin(e) ==
    /\ pc = "idle" /\ e \in open \ removal /\ Known(e)
    /\ pc' = "look" /\ held' = e /\ todo' = asks[e]
    /\ want' = [o \in OA |-> IF o \in asks[e] THEN Right(o) ELSE "none"]
    /\ UNCHANGED <<outside, facts, rel, snap, queue, at, kept, steady>>

\* A row that is no longer there fails the whole event.
Refuse(e) ==
    /\ pc = "idle" /\ e \in open \ removal /\ ~Known(e)
    /\ Fail(e)
    /\ UNCHANGED <<outside, facts, rel, snap>>

\* _reconcile_flow reads the status ...
Agrees(o) ==
    /\ pc = "look" /\ o \in todo
    /\ status[o] = want[o]
    /\ todo' = todo \ {o}
    /\ kept' = kept \cup {o}
    /\ UNCHANGED <<outside, facts, rel, snap, queue, pc, held, want, at, steady>>

Differs(o) ==
    /\ pc = "look" /\ o \in todo
    /\ status[o] \notin {want[o], "failed"}
    /\ pc' = "mark" /\ at' = o
    /\ UNCHANGED <<outside, facts, rel, snap, queue, held, todo, want, kept, steady>>

\* Mutant: the failure is looked for before the lock only.
WritableUnchecked(o) == TRUE

\* _assert_not_failed, under the row locks of mark_paid and mark_pending.
Writable(o) == status[o] # "failed"

\* ... and writes it in a transaction of its own, a new row if there is none.
Mark ==
    /\ pc = "mark" /\ Writable(at)
    /\ status' = [status EXCEPT ![at] = want[at]]
    /\ pc' = "look" /\ todo' = todo \ {at} /\ at' = None
    /\ kept' = kept \cup {at}
    /\ UNCHANGED <<source, upsets, facts, rel, snap, queue, held, want, steady>>

\* A failed payment is for a person to handle.
StopAtFailure ==
    /\ \/ pc = "look" /\ \E o \in todo : status[o] = "failed"
       \/ pc = "mark" /\ ~Writable(at)
    /\ Fail(held)
    /\ UNCHANGED <<outside, facts, rel, snap>>

\* Mutant: the page is left to the next synchronisation.
RecordedStale(o) == snap[o]

\* record_payment_statuses writes every flow of the event, changed now or before.
Recorded(o) == IF o \in asks[held] THEN want[o] ELSE snap[o]

Record ==
    /\ pc = "look" /\ todo = {}
    /\ snap' = [o \in OA |-> Recorded(o)]
    /\ pc' = "ack"
    /\ UNCHANGED <<outside, facts, rel, queue, held, todo, want, at, kept, steady>>

Ack ==
    /\ pc = "ack"
    /\ Close(held) /\ Rest
    /\ UNCHANGED <<outside, facts, rel, snap, kept>>

\* Mutant: the source is not asked again.
GoneByTheFacts(o) == o \notin facts

\* Mutant: PostgreSQL is not asked what a sync has brought back since.
GoneByTheSource(o) == o \notin source

\* _remove_missing_oa_statuses looks in PostgreSQL and in MongoDB.
Gone(o) == o \notin facts /\ o \notin source

CheckMissing(e) ==
    /\ pc = "idle" /\ e \in open \cap removal
    /\ pc' = "delete" /\ held' = e
    /\ todo' = {o \in asks[e] : Gone(o)}
    /\ steady' = source
    /\ UNCHANGED <<outside, facts, rel, snap, queue, want, at, kept>>

Delete ==
    /\ pc = "delete"
    /\ status' = [o \in OA |-> IF o \in todo THEN "none" ELSE status[o]]
    /\ kept' = kept \ todo
    /\ pc' = "ack"
    /\ UNCHANGED <<source, upsets, facts, rel, snap, queue, held, todo, want, at, steady>>

------------------------------------------------------------------------------
(* The synchronisation from the OA *)

\* _run_sync reads the source, of one month or all of it, and then MySQL,
\* whatever events wait; one that may miss something has room for its event.
SyncRead ==
    /\ pc = "idle"
    /\ \/ pc' = "sync_month"
       \/ pc' = "sync_all" /\ (Cardinality(removal) < MaxRemovals \/ source = OA)
    /\ todo' = source /\ want' = status
    /\ UNCHANGED <<outside, facts, rel, snap, queue, held, at, kept, steady>>

\* The batch without the unapproved applications MySQL has no status of.
Admitted == {o \in todo : o \in InProgress => want[o] # "none"}

Unavailable == facts \ Admitted

\* A full batch without the application proves that it is gone.
Removed == IF pc = "sync_all" THEN {o \in OA : o \notin todo /\ {snap[o], want[o]} # {"none"}} ELSE {}

\* remove_rows_from_active_relations: a relation of one row, or without an
\* application it holds an attachment of, is cancelled.
Cleaned(r) ==
    LET rest == [active |-> TRUE, oas |-> r.oas \ Unavailable, bank |-> r.bank, bound |-> r.bound]
    IN  IF ~r.active \/ r.oas \cap Unavailable = {} THEN r
        ELSE IF Members(rest) >= 2 /\ r.bound \cap Unavailable = {} THEN rest
        ELSE Cancelled(r)

\* The applications of the relations it changes.
Cut == UNION {rel[c].oas : c \in {d \in Cases : Cleaned(rel[d]) # rel[d]}}

\* commit_authoritative_snapshot: one transaction.  The relations it cleans
\* enqueue nothing; the event names removed applications that MySQL knows.
SyncCommit ==
    /\ pc \in {"sync_all", "sync_month"}
    /\ facts' = Admitted
    /\ snap' = [o \in OA |-> IF o \in Removed THEN "none" ELSE want[o]]
    /\ rel' = [c \in Cases |-> Cleaned(rel[c])]
    /\ kept' = kept \ Cut
    /\ Enqueue({o \in Removed : want[o] # "none"}, TRUE)
    /\ Rest
    /\ UNCHANGED outside

------------------------------------------------------------------------------
(* What nobody asked for *)

Upset ==
    /\ upsets < MaxUpsets
    /\ upsets' = upsets + 1

\* An application is deleted from the OA, or restored.
Move(o) ==
    /\ source' = IF o \in source THEN source \ {o} ELSE source \cup {o}
    /\ steady' = steady \ {o}
    /\ Upset
    /\ UNCHANGED <<facts, rel, status, snap, queue, pc, held, todo, want, at, kept>>

\* The OA sets a status of its own: a failed payment, or one it takes back.
Override(o) ==
    /\ \E v \in Value \ {"none", status[o]} : status' = [status EXCEPT ![o] = v]
    /\ kept' = kept \ {o}
    /\ Upset
    /\ UNCHANGED <<source, facts, rel, snap, queue, process>>

\* The process dies, and the event it held is open to a claim; a shutdown gives
\* the try back, a kill does not.
Crash ==
    /\ pc # "idle"
    /\ Rest /\ Upset
    /\ tries' \in {tries} \cup {[tries EXCEPT ![e] = @ + 1] : e \in {held} \cap Events}
    /\ UNCHANGED <<source, status, facts, rel, snap, open, asks, removal, kept>>

\* A database does not answer.
Break ==
    /\ pc \in {"look", "mark", "delete"}
    /\ Fail(held) /\ Upset
    /\ UNCHANGED <<source, status, facts, rel, snap>>

\* What the program does.
Work ==
    \/ \E c \in Cases : Confirm(c) \/ Withdraw(c)
    \/ \E e \in Events : Begin(e) \/ Refuse(e) \/ CheckMissing(e)
    \/ \E o \in OA : Agrees(o) \/ Differs(o)
    \/ Mark \/ StopAtFailure \/ Record \/ Ack \/ Delete
    \/ SyncRead \/ SyncCommit

Next ==
    \/ Work
    \/ \E o \in OA : Move(o) \/ Override(o)
    \/ Crash \/ Break

Spec == Init /\ [][Next]_vars

------------------------------------------------------------------------------
(* Properties *)

\* The values the columns and the process can take, and rest when idle.
TypeOK ==
    /\ source \subseteq OA /\ facts \subseteq OA
    /\ rel \in [Cases -> Relation]
    /\ status \in [OA -> Value] /\ snap \in [OA -> Value]
    /\ open \subseteq Events /\ removal \subseteq open
    /\ asks \in [Events -> SUBSET OA]
    /\ tries \in [Events -> 0 .. MaxTries - 1 + upsets]
    /\ pc \in {"idle", "look", "mark", "ack", "delete", "sync_all", "sync_month"}
    /\ held \in open \cup {0} /\ (held = 0) = (pc \in {"idle", "sync_all", "sync_month"})
    /\ todo \subseteq OA /\ want \in [OA -> Value]
    /\ at \in OA \cup {None} /\ (at = None) = (pc # "mark")
    /\ kept \subseteq OA /\ steady \subseteq OA /\ upsets \in 0 .. MaxUpsets

\* No event still asks for the flow.
Quiet(o) == \A e \in open \ removal : o \notin asks[e]

\* docs/modules/oa-pending-payments/README.md:22: once no event asks for a flow, what the
\* last one wrote is what the relations say now, however many changes, retries and crashes
\* came between its query and its writes.
StatusFollowsRelations == \A o \in kept : Quiet(o) => status[o] = Right(o)

\* Then the page shows it too, for every application it lists.
PageFollowsStatus == \A o \in kept \cap facts : Quiet(o) => snap[o] = Right(o)

\* test_failed_payment_status_is_never_overwritten: only the OA itself, or the removal of
\* an application that is gone, ends a failure.
FailureStands ==
    [][\A o \in OA : status[o] = "failed" /\ status'[o] # "failed"
          => upsets' # upsets \/ (status'[o] = "none" /\ o \notin facts)]_vars

\* A status is deleted only of an application PostgreSQL does not have and that was away
\* from the source at some moment since the removal began, though the sync that asked for
\* it is long past.
OnlyTheGoneAreRemoved ==
    [][\A o \in OA : status[o] # "none" /\ status'[o] = "none"
          => o \notin facts /\ o \notin steady]_vars
==============================================================================
