--------------------------- MODULE EtcDraftsProofs ---------------------------
(* Proofs about EtcDrafts, for any number of attempts, keys and rows.       *)
EXTENDS EtcDrafts, TLAPS

(* What an inductive invariant has to say of a copy of the batch, be it the *)
(* row or the memory: at are the attempts, D the drafts in the OA and L the *)
(* attempts that may have, or get, a draft nobody has decided about.        *)
Covered(row, at, L) ==
    \A a \in L : row.draft = a \/ (row.status = "creating" /\ row.sub = at[a].sub)

Named(row, at, D) ==
    /\ row.draft # 0 =>
         /\ row.status \in {"pending", "submitted", "deleted"}
         /\ row.draft \in D /\ at[row.draft].sub = row.sub
    /\ row.status = "pending" => row.draft # 0

Bound(row) == row.binding # None => row.status = "submitted" /\ row.oaRow # None

Recent(row, at) == \A a \in Attempts : at[a].version <= row.version

Copy(row, at, D, L) ==
    /\ row \in Batch
    /\ Covered(row, at, L) /\ Named(row, at, D) /\ Bound(row) /\ Recent(row, at)

Live == (flying \cup drafts) \ waived

HasDraft(at, D, sub) == \E a \in D : at[a].sub = sub

-----------------------------------------------------------------------------
(* The parts of the invariant. *)

CopiesOK == Copy(db, att, drafts, Live) /\ Copy(mem, att, drafts, Live)

OaOK ==
    /\ att \in [Attempts -> Attempt]
    /\ flying \subseteq Attempts /\ drafts \subseteq Attempts /\ waived \subseteq Attempts
    /\ flying \cap drafts = {}
    /\ \A a \in Attempts :
         /\ att[a].pc = "none" => a \notin flying \cup drafts
         /\ att[a].pc = "created" => a \in drafts
         /\ att[a].pc = "refused" => a \notin flying \cup drafts

\* A live attempt is the last: none was prepared while it was live.
LiveIsLast ==
    \A a \in Live : \A b \in Attempts :
        b # a /\ att[b].pc # "none" => att[b].version < att[a].version

\* The memory knows the end of its batch, for no other process writes it.
EndIsKnown ==
    /\ db.status = "submitted" => mem.status \in {"submitted", "deleted"}
    /\ db.status = "deleted" => mem.status = "deleted"

DeskOK ==
    /\ task \in Task
    /\ books \subseteq [op : {"draft", "submitted", "delete"}, sub : Ids, task : Task]
    /\ \A e \in books :
         /\ e.op = "draft" => HasDraft(att, drafts, e.sub)
         /\ e.op = "submitted" => db.status \in {"submitted", "deleted"}
    /\ task.draft # 0 /\ task.status # "closed" => HasDraft(att, drafts, task.draft)
    /\ task.status = "closed" => db.status \in {"submitted", "deleted"}

Inductive == CopiesOK /\ OaOK /\ LiveIsLast /\ EndIsKnown /\ DeskOK

-----------------------------------------------------------------------------
(* What the writes make of a copy. *)

LEMMA BumpedRow ==
    ASSUME NEW r \in Batch
    PROVE  /\ Bumped(r) \in Batch
           /\ Bumped(r).version = r.version + 1 /\ Bumped(r).version \in Nat
           /\ Bumped(r).status = r.status /\ Bumped(r).key = r.key
           /\ Bumped(r).sub = r.sub /\ Bumped(r).draft = r.draft
           /\ Bumped(r).oaRow = r.oaRow /\ Bumped(r).binding = r.binding
           /\ Bumped(r).invoices = r.invoices
BY DEF Bumped, Batch

LEMMA PreparedRow ==
    ASSUME mem \in Batch, NEW a \in Attempts, NEW k \in Keys
    PROVE  /\ Prepared(a, k) \in Batch
           /\ Prepared(a, k).version = mem.version + 1 /\ mem.version \in Nat
           /\ Prepared(a, k).status = "creating"
           /\ Prepared(a, k).sub = Submission(a) /\ Prepared(a, k).draft = 0
           /\ Prepared(a, k).oaRow = mem.oaRow /\ Prepared(a, k).binding = mem.binding
<1>1. Submission(a) \in Ids
  BY DEF Submission, Ids, Batch
<1> DEFINE r == [mem EXCEPT !.status = "creating", !.key = k, !.sub = Submission(a), !.draft = 0]
<1>2. /\ r \in Batch /\ r.version = mem.version /\ mem.version \in Nat
      /\ r.status = "creating" /\ r.sub = Submission(a) /\ r.draft = 0
      /\ r.oaRow = mem.oaRow /\ r.binding = mem.binding
  BY <1>1 DEF Batch, Statuses, Ids
<1>3. Prepared(a, k) = Bumped(r)
  BY DEF Prepared
<1> HIDE DEF r
<1> QED BY <1>2, <1>3, BumpedRow

LEMMA CompletedRow ==
    ASSUME mem \in Batch, NEW a \in Attempts
    PROVE  /\ Completed(a) \in Batch
           /\ Completed(a).version = mem.version + 1 /\ mem.version \in Nat
           /\ Completed(a).status = "pending" /\ Completed(a).draft = a
           /\ Completed(a).sub = mem.sub
           /\ Completed(a).oaRow = mem.oaRow /\ Completed(a).binding = mem.binding
<1> DEFINE r == [mem EXCEPT !.status = "pending", !.draft = a]
<1>1. /\ r \in Batch /\ r.version = mem.version /\ mem.version \in Nat
      /\ r.status = "pending" /\ r.sub = mem.sub /\ r.draft = a
      /\ r.oaRow = mem.oaRow /\ r.binding = mem.binding
  BY DEF Batch, Statuses, Ids
<1>2. Completed(a) = Bumped(r)
  BY DEF Completed
<1> HIDE DEF r
<1> QED BY <1>1, <1>2, BumpedRow

LEMMA FailedRow ==
    ASSUME mem \in Batch
    PROVE  /\ Failed \in Batch
           /\ Failed.version = mem.version + 1 /\ mem.version \in Nat
           /\ Failed.status = "failed" /\ Failed.draft = mem.draft /\ Failed.sub = mem.sub
           /\ Failed.oaRow = mem.oaRow /\ Failed.binding = mem.binding
<1> DEFINE r == [mem EXCEPT !.status = "failed"]
<1>1. /\ r \in Batch /\ r.version = mem.version /\ mem.version \in Nat
      /\ r.status = "failed" /\ r.sub = mem.sub /\ r.draft = mem.draft
      /\ r.oaRow = mem.oaRow /\ r.binding = mem.binding
  BY DEF Batch, Statuses
<1>2. Failed = Bumped(r)
  BY DEF Failed
<1> HIDE DEF r
<1> QED BY <1>1, <1>2, BumpedRow

LEMMA RevokedRow ==
    ASSUME mem \in Batch
    PROVE  /\ Revoked \in Batch
           /\ Revoked.version = mem.version + 1 /\ mem.version \in Nat
           /\ Revoked.status = "not_submitted" /\ Revoked.draft = 0
           /\ Revoked.oaRow = mem.oaRow /\ Revoked.binding = mem.binding
<1> DEFINE r == [mem EXCEPT !.status = "not_submitted", !.key = None, !.sub = 0, !.draft = 0]
<1>1. /\ r \in Batch /\ r.version = mem.version /\ mem.version \in Nat
      /\ r.status = "not_submitted" /\ r.draft = 0
      /\ r.oaRow = mem.oaRow /\ r.binding = mem.binding
  BY DEF Batch, Statuses, Ids
<1>2. Revoked = Bumped(r)
  BY DEF Revoked
<1> HIDE DEF r
<1> QED BY <1>1, <1>2, BumpedRow

LEMMA SubmittedRow ==
    ASSUME mem \in Batch, NEW o \in Rows \cup {None}
    PROVE  /\ Submitted(o) \in Batch
           /\ Submitted(o).version = mem.version + 1 /\ mem.version \in Nat
           /\ Submitted(o).status = "submitted" /\ Submitted(o).draft = mem.draft
           /\ Submitted(o).sub = mem.sub
           /\ Submitted(o).oaRow = o /\ Submitted(o).binding = mem.binding
<1> DEFINE r == [mem EXCEPT !.status = "submitted", !.oaRow = o]
<1>1. /\ r \in Batch /\ r.version = mem.version /\ mem.version \in Nat
      /\ r.status = "submitted" /\ r.sub = mem.sub /\ r.draft = mem.draft
      /\ r.oaRow = o /\ r.binding = mem.binding
  BY DEF Batch, Statuses
<1>2. Submitted(o) = Bumped(r)
  BY DEF Submitted
<1> HIDE DEF r
<1> QED BY <1>1, <1>2, BumpedRow

LEMMA RemovedRow ==
    ASSUME mem \in Batch
    PROVE  /\ Removed \in Batch /\ mem.version \in Nat
           /\ Removed.version \in {mem.version, mem.version + 1}
           /\ Removed.status = "deleted" /\ Removed.draft = mem.draft /\ Removed.sub = mem.sub
           /\ Removed.oaRow = mem.oaRow /\ Removed.binding = mem.binding
<1> DEFINE r == [mem EXCEPT !.status = "deleted"]
<1>1. /\ r \in Batch /\ r.version = mem.version /\ mem.version \in Nat
      /\ r.status = "deleted" /\ r.sub = mem.sub /\ r.draft = mem.draft
      /\ r.oaRow = mem.oaRow /\ r.binding = mem.binding
  BY DEF Batch, Statuses
<1>2. Removed = Bumped(r) \/ Removed = r
  BY DEF Removed
<1> HIDE DEF r
<1> QED BY <1>1, <1>2, BumpedRow

\* The worker and the matcher write the row.
LEMMA ImportedRow ==
    ASSUME db \in Batch, Import
    PROVE  /\ db' \in Batch /\ db.version \in Nat /\ db'.version = db.version + 1
           /\ db.status = "ready" /\ db'.status = "imported"
           /\ db'.draft = db.draft /\ db'.sub = db.sub
           /\ db'.oaRow = db.oaRow /\ db'.binding = db.binding
<1> DEFINE r == [db EXCEPT !.status = "imported", !.invoices = TRUE]
<1>1. /\ r \in Batch /\ r.version = db.version /\ db.version \in Nat
      /\ r.status = "imported" /\ r.sub = db.sub /\ r.draft = db.draft
      /\ r.oaRow = db.oaRow /\ r.binding = db.binding
  BY DEF Batch, Statuses
<1>2. db' = Bumped(r) /\ db.status = "ready"
  BY DEF Import
<1> HIDE DEF r
<1> QED BY <1>1, <1>2, BumpedRow

LEMMA BoundRow ==
    ASSUME db \in Batch, NEW o \in Rows, Bind(o)
    PROVE  /\ db' \in Batch /\ db.version \in Nat /\ db'.version = db.version + 1
           /\ db.status = "submitted" /\ db'.status = "submitted"
           /\ db'.draft = db.draft /\ db'.sub = db.sub
           /\ db'.oaRow = o /\ db'.binding = o
<1> DEFINE r == [db EXCEPT !.oaRow = o, !.binding = o]
<1>1. /\ r \in Batch /\ r.version = db.version /\ db.version \in Nat
      /\ r.status = db.status /\ r.sub = db.sub /\ r.draft = db.draft
      /\ r.oaRow = o /\ r.binding = o
  BY DEF Batch
<1>2. db' = Bumped(r) /\ db.status = "submitted"
  BY DEF Bind
<1> HIDE DEF r
<1> QED BY <1>1, <1>2, BumpedRow

\* A step of a thread changes where it is and nothing it prepared.
LEMMA GoesOn ==
    ASSUME att \in [Attempts -> Attempt], NEW a \in Attempts,
           NEW pc \in {"created", "refused", "unknown", "done"}, Goes(a, pc)
    PROVE  /\ att' \in [Attempts -> Attempt]
           /\ att'[a].pc = pc
           /\ \A b \in Attempts \ {a} : att'[b] = att[b]
           /\ att'[a].sub = att[a].sub /\ att'[a].version = att[a].version
           /\ att'[a].key = att[a].key
<1>1. att[a] \in Attempt
  OBVIOUS
<1> DEFINE r == [att[a] EXCEPT !.pc = pc]
<1>2. r \in Attempt /\ r.pc = pc /\ r.sub = att[a].sub /\ r.version = att[a].version
      /\ r.key = att[a].key
  BY <1>1 DEF Attempt
<1>3. att' = [att EXCEPT ![a] = r]
  BY DEF Goes
<1> HIDE DEF r
<1> QED BY <1>2, <1>3

-----------------------------------------------------------------------------
(* The ends of a batch. *)

Ends == {"submitted", "deleted"}

\* What a step keeps of the row's end.
EndsHold ==
    /\ db.status = "deleted" => db'.status = "deleted"
    /\ db.status \in Ends => db'.status \in Ends
    /\ db.binding # None => db'.status = "submitted" /\ db'.binding # None

Writes(row) == Saved(row) \/ NotSaved(row) \/ Kept(row) \/ NotKept(row)

\* A server that has the batch open in memory has it right: no end is lost.
LEMMA OpenWrites ==
    ASSUME EndIsKnown, Bound(db), mem.status \notin Ends, NEW row, Writes(row)
    PROVE  EndsHold /\ EndIsKnown'
<1>1. db.status \notin Ends /\ db.binding = None
  BY DEF EndIsKnown, Bound, Ends
<1>2. mem' = db' \/ db' = db
  BY DEF Writes, Saved, NotSaved, Kept, NotKept
<1> QED BY <1>1, <1>2 DEF EndsHold, EndIsKnown, Ends

\* One that does not know of the binding is refused.
LEMMA EndWrites ==
    ASSUME EndIsKnown, Bound(db), Bound(mem), NEW row, Writes(row),
           \/ mem.status = "submitted" /\ mem.oaRow = None /\ row.status \in Ends
           \/ mem.status = "deleted" /\ row.status = "deleted",
           row.binding = mem.binding
    PROVE  EndsHold /\ EndIsKnown'
<1>1. row.binding = None
  BY DEF Bound
<1>2. CASE db' = db /\ mem' \in {db, row}
  BY <1>2 DEF EndsHold, EndIsKnown, Ends, Bound
<1>3. CASE ~Outrun(row) /\ db' = row /\ mem' = row
  <2>1. db.binding = None
    BY <1>1, <1>3 DEF Outrun
  <2>2. db.status = "deleted" => row.status = "deleted"
    BY DEF EndIsKnown
  <2> QED BY <1>3, <2>1, <2>2 DEF EndsHold, EndIsKnown, Ends
<1> QED BY <1>2, <1>3 DEF Writes, Saved, NotSaved, Kept, NotKept

\* No step of any process takes a batch from its end.
LEMMA NextEnds ==
    ASSUME CopiesOK, OaOK, EndIsKnown, [Next]_vars
    PROVE  EndsHold /\ EndIsKnown'
<1>1. Bound(db) /\ Bound(mem) /\ db \in Batch /\ mem \in Batch
  BY DEF CopiesOK, Copy
<1>2. CASE UNCHANGED batch
  BY <1>1, <1>2 DEF batch, EndsHold, EndIsKnown, Bound
<1>3. CASE db' = db /\ mem' = db
  BY <1>1, <1>3 DEF EndsHold, EndIsKnown, Bound
<1>4. ASSUME NEW a \in Attempts, NEW k \in Keys, Prepare(a, k)
      PROVE  EndsHold /\ EndIsKnown'
  <2>1. mem.status \notin Ends /\ Writes(Prepared(a, k))
    BY <1>4 DEF Prepare, MayPrepare, Startable, Ends, Writes
  <2> QED BY <2>1, <1>1, OpenWrites
<1>5. ASSUME NEW a \in Attempts, Complete(a) \/ Fail(a) \/ MarkUnknown(a) \/ Adopt(a)
      PROVE  EndsHold /\ EndIsKnown'
  <2>1. UNCHANGED batch \/ (mem.status = "creating" /\ \E row : Writes(row))
    BY <1>5 DEF Complete, Fail, MarkUnknown, Adopt, Current, Writes
  <2> QED BY <2>1, <1>1, <1>2, OpenWrites DEF Ends
<1>6. ASSUME NotCreated \/ Revoke
      PROVE  EndsHold /\ EndIsKnown'
  <2>1. mem.status \notin Ends /\ \E row : Writes(row)
    BY <1>6 DEF NotCreated, Revoke, Writes, Ends
  <2> QED BY <2>1, <1>1, OpenWrites
<1>7. ASSUME NEW o \in Rows \cup {None}, Submit(o)
      PROVE  EndsHold /\ EndIsKnown'
  <2>1. Writes(Submitted(o)) /\ MaySubmit(o)
    BY <1>7 DEF Submit, Writes
  <2>2. CASE mem.status \in {"creating", "pending"}
    BY <2>1, <2>2, <1>1, OpenWrites DEF Ends
  <2>3. CASE mem.status = "submitted" /\ mem.oaRow = None
    <3>1. Submitted(o).status \in Ends /\ Submitted(o).binding = mem.binding
      BY <1>1, SubmittedRow DEF Ends
    <3> QED BY <3>1, <2>1, <2>3, <1>1, EndWrites
  <2> QED BY <2>1, <2>2, <2>3 DEF MaySubmit
<1>8. ASSUME Delete
      PROVE  EndsHold /\ EndIsKnown'
  <2>1. Writes(Removed)
    BY <1>8 DEF Delete, Writes
  <2>2. CASE mem.status \notin Ends
    BY <2>1, <2>2, <1>1, OpenWrites
  <2>3. CASE mem.status = "submitted"
    <3>1. Removed.status \in Ends /\ Removed.binding = mem.binding
      BY <1>1, RemovedRow DEF Ends
    <3>2. mem.oaRow = None
      BY <1>8, <2>3 DEF Delete
    <3> QED BY <3>1, <3>2, <2>1, <2>3, <1>1, EndWrites
  <2> QED BY <1>8, <2>2, <2>3 DEF Delete, Ends
<1>9. ASSUME Title
      PROVE  EndsHold /\ EndIsKnown'
  <2>1. Writes(Bumped(mem)) /\ mem.status # "submitted"
    BY <1>9 DEF Title, Writes
  <2>2. CASE mem.status \notin Ends
    BY <2>1, <2>2, <1>1, OpenWrites
  <2>3. CASE mem.status = "deleted"
    <3>1. Bumped(mem).status = "deleted" /\ Bumped(mem).binding = mem.binding
      BY <1>1, <2>3, BumpedRow
    <3> QED BY <3>1, <2>1, <2>3, <1>1, EndWrites
  <2> QED BY <2>1, <2>2, <2>3 DEF Ends
<1>10. ASSUME Import
       PROVE  EndsHold /\ EndIsKnown'
  BY <1>10, <1>1, ImportedRow DEF EndsHold, EndIsKnown, Ends, Bound
<1>11. ASSUME NEW o \in Rows, Bind(o)
       PROVE  EndsHold /\ EndIsKnown'
  <2>1. db.status = "submitted" /\ db'.status = "submitted" /\ db'.binding = o
    BY <1>11, <1>1, BoundRow
  <2>2. o # None /\ mem' = mem
    BY <1>11, EtcDraftsAssumption DEF Bind
  <2> QED BY <2>1, <2>2 DEF EndsHold, EndIsKnown, Ends
<1>12. ASSUME Reload \/ Crash
       PROVE  EndsHold /\ EndIsKnown'
  BY <1>12, <1>3 DEF Reload, Crash
<1>13. ASSUME Replay \/ (\E a \in Attempts : Answer(a) \/ OaCreates(a)) \/ (\E e \in books : Book(e))
       PROVE  EndsHold /\ EndIsKnown'
  BY <1>13, <1>2 DEF Replay, Answer, OaCreates, Book
<1>14. CASE UNCHANGED vars
  BY <1>14, <1>2 DEF vars, batch
<1> QED
  BY <1>4, <1>5, <1>6, <1>7, <1>8, <1>9, <1>10, <1>11, <1>12, <1>13, <1>14 DEF Next

-----------------------------------------------------------------------------
(* Steps that prepare nothing. *)

\* What every attempt prepared stands, no draft goes and no attempt revives.
Calm ==
    /\ \A a \in Attempts :
         /\ att'[a].sub = att[a].sub /\ att'[a].version = att[a].version
         /\ att'[a].pc = "none" <=> att[a].pc = "none"
    /\ drafts \subseteq drafts' /\ Live' \subseteq Live

LEMMA CopyStays ==
    ASSUME OaOK, Calm, NEW r, Copy(r, att, drafts, Live)
    PROVE  Copy(r, att', drafts', Live')
<1>1. Live \subseteq Attempts /\ drafts \subseteq Attempts
  BY DEF OaOK, Live
<1>2. Covered(r, att', Live')
  BY <1>1 DEF Copy, Covered, Calm
<1>3. Named(r, att', drafts')
  BY <1>1 DEF Copy, Named, Calm
<1>4. Recent(r, att')
  BY DEF Copy, Recent, Calm
<1> QED BY <1>2, <1>3, <1>4 DEF Copy

LEMMA LastStays ==
    ASSUME OaOK, LiveIsLast, Calm
    PROVE  LiveIsLast'
<1>1. Live \subseteq Attempts
  BY DEF OaOK, Live
<1> QED BY <1>1 DEF LiveIsLast, Calm

LEMMA DraftStays ==
    ASSUME OaOK, Calm, NEW n, HasDraft(att, drafts, n)
    PROVE  HasDraft(att', drafts', n)
BY DEF OaOK, Calm, HasDraft

\* The server writes a sound copy, or reads one anew.
LEMMA CalmWrites ==
    ASSUME CopiesOK, OaOK, Calm, NEW row, Writes(row), Copy(row, att', drafts', Live')
    PROVE  CopiesOK'
<1>1. Copy(db, att', drafts', Live')
  BY CopyStays DEF CopiesOK
<1>2. db' \in {db, row} /\ mem' \in {db, row}
  BY DEF Writes, Saved, NotSaved, Kept, NotKept
<1> QED BY <1>1, <1>2 DEF CopiesOK

LEMMA CalmReads ==
    ASSUME CopiesOK, OaOK, Calm, db' = db, mem' \in {db, mem}
    PROVE  CopiesOK'
BY CopyStays DEF CopiesOK

LEMMA Later ==
    ASSUME NEW n \in Nat, NEW m \in Nat, n <= m, NEW v, v = m \/ v = m + 1
    PROVE  n <= v
OBVIOUS

\* The same copy but for its version.
LEMMA CopyBumped ==
    ASSUME NEW at \in [Attempts -> Attempt], NEW D, NEW L, NEW r, Copy(r, at, D, L)
    PROVE  Copy(Bumped(r), at, D, L)
<1>1. r \in Batch
  BY DEF Copy
<1>2. \A a \in Attempts : at[a].version \in Nat
  BY DEF Attempt
<1>3. r.version \in Nat
  BY <1>1 DEF Batch
<1>4. Recent(Bumped(r), at)
  <2> SUFFICES ASSUME NEW a \in Attempts PROVE at[a].version <= Bumped(r).version
    BY DEF Recent
  <2>1. at[a].version <= r.version
    BY DEF Copy, Recent
  <2>2. Bumped(r).version = r.version + 1
    BY <1>1, BumpedRow
  <2> QED BY <1>2, <1>3, <2>1, <2>2, Later
<1>5. Covered(Bumped(r), at, L) /\ Named(Bumped(r), at, D) /\ Bound(Bumped(r))
  BY <1>1, BumpedRow DEF Copy, Covered, Named, Bound
<1> QED BY <1>1, <1>4, <1>5, BumpedRow DEF Copy

\* An attempt whose answer is current is the last one.
LEMMA CurrentIsLast ==
    ASSUME CopiesOK, OaOK, LiveIsLast, NEW a \in Attempts, Current(a), att[a].pc # "none",
           NEW b \in Live
    PROVE  b = a
<1>1. b \in Attempts /\ att[a].version \in Nat /\ att[b].version \in Nat
  BY DEF OaOK, Live, Attempt
<1>2. att[b].version <= att[a].version
  BY <1>1 DEF CopiesOK, Copy, Recent, Current
<1> QED BY <1>1, <1>2 DEF LiveIsLast

\* While the batch is being created it has no draft, and is not bound.
LEMMA CreatingRow ==
    ASSUME CopiesOK, mem.status = "creating"
    PROVE  mem.draft = 0 /\ mem.binding = None
BY DEF CopiesOK, Copy, Named, Bound

\* What the attempts prepared is never later than the memory.
LEMMA LaterRow ==
    ASSUME CopiesOK, OaOK, NEW r, r.version \in {mem.version, mem.version + 1}
    PROVE  \A a \in Attempts : att[a].version <= r.version
<1>1. mem.version \in Nat /\ \A a \in Attempts : att[a].version \in Nat
  BY DEF CopiesOK, Copy, Batch, OaOK, Attempt
<1>2. \A a \in Attempts : att[a].version <= mem.version
  BY DEF CopiesOK, Copy, Recent
<1> SUFFICES ASSUME NEW a \in Attempts PROVE att[a].version <= r.version
  OBVIOUS
<1>3. r.version = mem.version \/ r.version = mem.version + 1
  OBVIOUS
<1> QED BY <1>1, <1>2, <1>3, Later

\* A step of a thread that leaves the OA alone is calm.
LEMMA ThreadStep ==
    ASSUME OaOK, NEW a \in Attempts, att[a].pc # "none",
           NEW pc \in {"unknown", "done"}, Goes(a, pc), UNCHANGED oa, waived' = waived
    PROVE  Calm /\ OaOK'
<1>1. /\ att' \in [Attempts -> Attempt] /\ att'[a].pc = pc
      /\ \A b \in Attempts \ {a} : att'[b] = att[b]
      /\ att'[a].sub = att[a].sub /\ att'[a].version = att[a].version
  BY GoesOn DEF OaOK
<1>2. Live' = Live
  BY DEF Live, oa
<1>3. Calm
  BY <1>1, <1>2 DEF Calm, oa
<1>4. OaOK'
  BY <1>1 DEF OaOK, oa
<1> QED BY <1>3, <1>4

\* Neither do the steps that leave the attempts alone.
LEMMA OtherStep ==
    ASSUME OaOK, UNCHANGED <<att, oa>>, waived \subseteq waived', waived' \subseteq Attempts
    PROVE  Calm /\ OaOK'
<1>1. Live' \subseteq Live
  BY DEF Live, oa
<1>2. Calm
  BY <1>1 DEF Calm, oa
<1>3. OaOK'
  BY DEF OaOK, oa
<1> QED BY <1>2, <1>3

-----------------------------------------------------------------------------
(* The task. *)

\* New entries tell of drafts there are, and of an end that is there.
LEMMA DeskStays ==
    ASSUME DeskOK, EndsHold, task' = task,
           \A n \in Ids : HasDraft(att, drafts, n) => HasDraft(att', drafts', n),
           NEW B \in SUBSET [op : {"draft", "submitted", "delete"}, sub : Ids, task : Task],
           \A e \in B :
             /\ e.op = "draft" => HasDraft(att', drafts', e.sub)
             /\ e.op = "submitted" => db'.status \in Ends,
           books' \subseteq books \cup B
    PROVE  DeskOK'
<1>1. \A e \in books : e.sub \in Ids
  BY DEF DeskOK
<1>2. task.draft \in Ids
  BY DEF DeskOK, Task
<1>3. books' \subseteq [op : {"draft", "submitted", "delete"}, sub : Ids, task : Task]
  BY DEF DeskOK
<1>4. \A e \in books' :
         /\ e.op = "draft" => HasDraft(att', drafts', e.sub)
         /\ e.op = "submitted" => db'.status \in {"submitted", "deleted"}
  BY <1>1 DEF DeskOK, EndsHold, Ends
<1>5. task.draft # 0 /\ task.status # "closed" => HasDraft(att', drafts', task.draft)
  BY <1>2 DEF DeskOK
<1>6. task.status = "closed" => db'.status \in {"submitted", "deleted"}
  BY DEF DeskOK, EndsHold, Ends
<1>7. task' \in Task
  BY DEF DeskOK
<1> QED BY <1>3, <1>4, <1>5, <1>6, <1>7 DEF DeskOK

LEMMA CalmDesk ==
    ASSUME OaOK, Calm, DeskOK, EndsHold, UNCHANGED desk
    PROVE  DeskOK'
<1>1. \A n \in Ids : HasDraft(att, drafts, n) => HasDraft(att', drafts', n)
  BY DraftStays
<1>2. task' = task /\ books' \subseteq books \cup {}
  BY DEF desk
<1>3. {} \in SUBSET [op : {"draft", "submitted", "delete"}, sub : Ids, task : Task]
  OBVIOUS
<1>4. \A e \in {} : /\ e.op = "draft" => HasDraft(att', drafts', e.sub)
                    /\ e.op = "submitted" => db'.status \in Ends
  OBVIOUS
<1> QED BY ONLY <1>1, <1>2, <1>3, <1>4, DeskStays, DeskOK, EndsHold

\* An entry that a request makes.
LEMMA NewEntry ==
    ASSUME OaOK, Calm, DeskOK, EndsHold, CopiesOK, task' = task,
           NEW op \in {"draft", "submitted", "delete"}, books' \subseteq books \cup {Entry(op)},
           op = "draft" => HasDraft(att', drafts', mem.sub),
           op = "submitted" => db'.status \in Ends
    PROVE  DeskOK'
<1>1. \A n \in Ids : HasDraft(att, drafts, n) => HasDraft(att', drafts', n)
  BY DraftStays
<1>2. mem.sub \in Ids /\ task \in Task
  BY DEF CopiesOK, Copy, Batch, DeskOK
<1>3. /\ Entry(op) \in [op : {"draft", "submitted", "delete"}, sub : Ids, task : Task]
      /\ Entry(op).op = op /\ Entry(op).sub = mem.sub
  BY <1>2 DEF Entry
<1>4. {Entry(op)} \in SUBSET [op : {"draft", "submitted", "delete"}, sub : Ids, task : Task]
  BY <1>3
<1>5. \A e \in {Entry(op)} : /\ e.op = "draft" => HasDraft(att', drafts', e.sub)
                             /\ e.op = "submitted" => db'.status \in Ends
  BY <1>3
<1> QED BY ONLY <1>1, <1>4, <1>5, DeskStays, DeskOK, EndsHold, task' = task,
                books' \subseteq books \cup {Entry(op)}

-----------------------------------------------------------------------------
(* The actions, all but Prepare. *)

Safe == CopiesOK /\ OaOK /\ LiveIsLast /\ DeskOK

\* A person who decides about the batch in memory settles every live attempt.
LEMMA LiveIsSettled ==
    ASSUME CopiesOK, OaOK
    PROVE  Live \subseteq Settled
<1> SUFFICES ASSUME NEW a \in Live PROVE a \in Settled
  OBVIOUS
<1>1. a \in Attempts /\ att[a].pc # "none" /\ a # 0
  BY EtcDraftsAssumption DEF OaOK, Live
<1>2. att[a].sub = mem.sub
  BY <1>1 DEF CopiesOK, Copy, Covered, Named
<1> QED BY <1>1, <1>2 DEF Settled

LEMMA StepReload ==
    ASSUME Safe, EndsHold, Reload
    PROVE  Safe'
<1>1. Calm /\ OaOK'
  BY OtherStep DEF Safe, Reload, OaOK
<1>2. CopiesOK'
  BY <1>1, CalmReads DEF Safe, Reload
<1>3. LiveIsLast'
  BY <1>1, LastStays DEF Safe
<1>4. DeskOK'
  BY <1>1, CalmDesk DEF Safe, Reload
<1> QED BY <1>1, <1>2, <1>3, <1>4 DEF Safe

LEMMA StepCrash ==
    ASSUME Safe, EndsHold, Crash
    PROVE  Safe'
<1>1. \A a \in Attempts : att[a] \in Attempt
  BY DEF Safe, OaOK
<1> DEFINE Ended(a) == IF att[a].pc = "none" THEN att[a] ELSE [att[a] EXCEPT !.pc = "done"]
<1>2. ASSUME NEW a \in Attempts
      PROVE  /\ Ended(a) \in Attempt
             /\ Ended(a).sub = att[a].sub /\ Ended(a).version = att[a].version
             /\ Ended(a).pc \in {"none", "done"}
             /\ Ended(a).pc = "none" <=> att[a].pc = "none"
  <2>1. CASE att[a].pc = "none"
    BY <1>1, <2>1
  <2>2. CASE att[a].pc # "none"
    BY <1>1, <2>2 DEF Attempt
  <2> QED BY <2>1, <2>2
<1>3. att' = [a \in Attempts |-> Ended(a)]
  BY DEF Crash
<1> HIDE DEF Ended
<1>4. /\ att' \in [Attempts -> Attempt]
      /\ \A a \in Attempts : att'[a] = Ended(a)
  BY <1>2, <1>3
<1>5. Live' = Live
  BY DEF Live, Crash, oa
<1>6. Calm
  BY <1>2, <1>4, <1>5 DEF Calm, Crash, oa
<1>7. OaOK'
  BY <1>2, <1>4 DEF Safe, OaOK, Crash, oa
<1>8. CopiesOK'
  BY <1>6, CalmReads DEF Safe, Crash
<1>9. LiveIsLast'
  BY <1>6, LastStays DEF Safe
<1>10. DeskOK'
  <2>1. \A n \in Ids : HasDraft(att, drafts, n) => HasDraft(att', drafts', n)
    BY <1>6, DraftStays DEF Safe
  <2>2. task' = task /\ books' \subseteq books \cup {}
    BY DEF Crash
  <2>3. {} \in SUBSET [op : {"draft", "submitted", "delete"}, sub : Ids, task : Task]
    OBVIOUS
  <2>4. \A e \in {} : /\ e.op = "draft" => HasDraft(att', drafts', e.sub)
                      /\ e.op = "submitted" => db'.status \in Ends
    OBVIOUS
  <2>5. DeskOK
    BY DEF Safe
  <2> QED BY ONLY <2>1, <2>2, <2>3, <2>4, <2>5, DeskStays, EndsHold
<1> QED BY <1>7, <1>8, <1>9, <1>10 DEF Safe

LEMMA StepReplay ==
    ASSUME Safe, EndsHold, Replay
    PROVE  Safe'
<1>1. Calm /\ OaOK'
  BY OtherStep DEF Safe, Replay, OaOK
<1>2. CopiesOK'
  BY <1>1, CalmReads DEF Safe, Replay, batch
<1>3. LiveIsLast'
  BY <1>1, LastStays DEF Safe
<1>4. HasDraft(att, drafts, mem.sub)
  BY DEF Safe, Replay, CopiesOK, Copy, Named, HasDraft
<1>5. HasDraft(att', drafts', mem.sub)
  BY <1>1, <1>4, DraftStays DEF Safe
<1>6. DeskOK'
  BY <1>1, <1>5, NewEntry DEF Safe, Replay
<1> QED BY <1>1, <1>2, <1>3, <1>6 DEF Safe

LEMMA StepNotCreated ==
    ASSUME Safe, EndsHold, NotCreated
    PROVE  Safe'
<1>1. Settled \subseteq Attempts
  BY DEF Settled
<1>2. Calm /\ OaOK'
  BY <1>1, OtherStep DEF Safe, NotCreated, OaOK
<1>3. Live' = {}
  BY LiveIsSettled DEF Safe, Live, NotCreated, oa
<1>4. mem \in Batch /\ mem.draft = 0 /\ mem.binding = None
  BY CreatingRow DEF Safe, NotCreated, CopiesOK, Copy
<1>5. Recent(Failed, att')
  <2>1. Failed.version \in {mem.version, mem.version + 1}
    BY <1>4, FailedRow
  <2>2. att' = att
    BY DEF NotCreated
  <2> QED BY <2>1, <2>2, LaterRow DEF Safe, Recent
<1>6. Copy(Failed, att', drafts', Live')
  BY <1>3, <1>4, <1>5, FailedRow DEF Copy, Covered, Named, Bound
<1>7. Writes(Failed)
  BY DEF NotCreated, Writes
<1>8. CopiesOK'
  BY <1>2, <1>6, <1>7, CalmWrites DEF Safe
<1>9. LiveIsLast'
  BY <1>2, LastStays DEF Safe
<1>10. DeskOK'
  BY <1>2, CalmDesk DEF Safe, NotCreated
<1> QED BY <1>2, <1>8, <1>9, <1>10 DEF Safe

LEMMA StepRevoke ==
    ASSUME Safe, EndsHold, Revoke
    PROVE  Safe'
<1>1. Settled \subseteq Attempts
  BY DEF Settled
<1>2. Calm /\ OaOK'
  BY <1>1, OtherStep DEF Safe, Revoke, OaOK
<1>3. Live' = {}
  BY LiveIsSettled DEF Safe, Live, Revoke, oa
<1>4. mem \in Batch /\ mem.binding = None
  BY DEF Safe, Revoke, CopiesOK, Copy, Bound
<1>5. Recent(Revoked, att')
  <2>1. Revoked.version \in {mem.version, mem.version + 1}
    BY <1>4, RevokedRow
  <2>2. att' = att
    BY DEF Revoke
  <2> QED BY <2>1, <2>2, LaterRow DEF Safe, Recent
<1>6. Copy(Revoked, att', drafts', Live')
  BY <1>3, <1>4, <1>5, RevokedRow DEF Copy, Covered, Named, Bound
<1>7. Writes(Revoked)
  BY DEF Revoke, Writes
<1>8. CopiesOK'
  BY <1>2, <1>6, <1>7, CalmWrites DEF Safe
<1>9. LiveIsLast'
  BY <1>2, LastStays DEF Safe
<1>10. DeskOK'
  BY <1>2, CalmDesk DEF Safe, Revoke
<1> QED BY <1>2, <1>8, <1>9, <1>10 DEF Safe

LEMMA StepTitle ==
    ASSUME Safe, EndsHold, Title
    PROVE  Safe'
<1>1. Calm /\ OaOK'
  BY OtherStep DEF Safe, Title, OaOK
<1>2. Copy(mem, att', drafts', Live')
  BY <1>1, CopyStays DEF Safe, CopiesOK
<1>3. Copy(Bumped(mem), att', drafts', Live')
  BY <1>1, <1>2, CopyBumped DEF OaOK
<1>4. Writes(Bumped(mem))
  BY DEF Title, Writes
<1>5. CopiesOK'
  BY <1>1, <1>3, <1>4, CalmWrites DEF Safe
<1>6. LiveIsLast'
  BY <1>1, LastStays DEF Safe
<1>7. DeskOK'
  BY <1>1, CalmDesk DEF Safe, Title
<1> QED BY <1>1, <1>5, <1>6, <1>7 DEF Safe

LEMMA StepDelete ==
    ASSUME Safe, EndsHold, Delete
    PROVE  Safe'
<1>1. Settled \subseteq Attempts
  BY DEF Settled
<1>2. Calm /\ OaOK'
  BY <1>1, OtherStep DEF Safe, Delete, OaOK
<1>3. Live' = {}
  BY LiveIsSettled DEF Safe, Live, Delete, oa
<1>4. mem \in Batch /\ mem.binding = None
  BY DEF Safe, Delete, CopiesOK, Copy, Bound
<1>5. Recent(Removed, att')
  <2>1. Removed.version \in {mem.version, mem.version + 1}
    BY <1>4, RemovedRow
  <2>2. att' = att
    BY DEF Delete
  <2> QED BY <2>1, <2>2, LaterRow DEF Safe, Recent
<1>6. Named(mem, att', drafts')
  BY <1>2, CopyStays DEF Safe, CopiesOK, Copy
<1>7. Named(Removed, att', drafts')
  BY <1>4, <1>6, RemovedRow DEF Named
<1>8. Copy(Removed, att', drafts', Live')
  BY <1>3, <1>4, <1>5, <1>7, RemovedRow DEF Copy, Covered, Bound
<1>9. Writes(Removed)
  BY DEF Delete, Writes
<1>10. CopiesOK'
  BY <1>2, <1>8, <1>9, CalmWrites DEF Safe
<1>11. LiveIsLast'
  BY <1>2, LastStays DEF Safe
<1>12. DeskOK'
  <2>1. task' = task /\ books' \subseteq books \cup {Entry("delete")}
    BY DEF Delete
  <2> QED BY <1>2, <2>1, NewEntry DEF Safe
<1> QED BY <1>2, <1>10, <1>11, <1>12 DEF Safe

LEMMA StepSubmit ==
    ASSUME Safe, EndsHold, NEW o \in Rows \cup {None}, Submit(o)
    PROVE  Safe'
<1>1. Settled \subseteq Attempts
  BY DEF Settled
<1>2. Calm /\ OaOK'
  BY <1>1, OtherStep DEF Safe, Submit, OaOK
<1>3. Live' \subseteq {mem.draft}
  BY LiveIsSettled DEF Safe, Live, Submit, oa
<1>4. mem \in Batch /\ mem.binding = None
  BY DEF Safe, Submit, MaySubmit, CopiesOK, Copy, Bound
<1>5. Recent(Submitted(o), att')
  <2>1. Submitted(o).version \in {mem.version, mem.version + 1}
    BY <1>4, SubmittedRow
  <2>2. att' = att
    BY DEF Submit
  <2> QED BY <2>1, <2>2, LaterRow DEF Safe, Recent
<1>6. Named(mem, att', drafts')
  BY <1>2, CopyStays DEF Safe, CopiesOK, Copy
<1>7. Named(Submitted(o), att', drafts')
  BY <1>4, <1>6, SubmittedRow DEF Named
<1>8. Covered(Submitted(o), att', Live')
  BY <1>3, <1>4, SubmittedRow DEF Covered
<1>9. Copy(Submitted(o), att', drafts', Live')
  BY <1>4, <1>5, <1>7, <1>8, SubmittedRow DEF Copy, Bound
<1>10. PICK saved \in BOOLEAN :
         /\ IF saved THEN Saved(Submitted(o)) ELSE NotSaved(Submitted(o))
         /\ books' = books \cup {Entry(op) : op \in Told(saved)}
  BY DEF Submit
<1>11. Writes(Submitted(o))
  BY <1>10 DEF Writes
<1>12. CopiesOK'
  BY <1>2, <1>9, <1>11, CalmWrites DEF Safe
<1>13. LiveIsLast'
  BY <1>2, LastStays DEF Safe
<1>14. DeskOK'
  <2>1. task' = task
    BY DEF Submit
  <2>2. CASE Told(saved) = {}
    <3>1. books' = books
      BY <1>10, <2>2
    <3> QED BY <1>2, <2>1, <3>1, CalmDesk DEF Safe, desk
  <2>3. CASE Told(saved) # {}
    <3>1. saved /\ books' = books \cup {Entry("submitted")}
      BY <1>10, <2>3 DEF Told
    <3>2. db'.status \in Ends
      BY <1>4, <1>10, <3>1, SubmittedRow DEF Saved, Ends
    <3> QED BY <1>2, <2>1, <3>1, <3>2, NewEntry DEF Safe
  <2> QED BY <2>2, <2>3
<1> QED BY <1>2, <1>12, <1>13, <1>14 DEF Safe

LEMMA StepAdopt ==
    ASSUME Safe, EndsHold, NEW a \in Attempts, Adopt(a)
    PROVE  Safe'
<1>1. Settled \subseteq Attempts
  BY DEF Settled
<1>2. Calm /\ OaOK'
  BY <1>1, OtherStep DEF Safe, Adopt, OaOK
<1>3. Live' \subseteq {a}
  BY LiveIsSettled DEF Safe, Live, Adopt, oa
<1>4. mem \in Batch /\ mem.binding = None
  BY CreatingRow DEF Safe, Adopt, CopiesOK, Copy
<1>5. Recent(Completed(a), att')
  <2>1. Completed(a).version \in {mem.version, mem.version + 1}
    BY <1>4, CompletedRow
  <2>2. att' = att
    BY DEF Adopt
  <2> QED BY <2>1, <2>2, LaterRow DEF Safe, Recent
<1>6. Named(Completed(a), att', drafts')
  BY <1>4, CompletedRow, EtcDraftsAssumption DEF Named, Adopt, oa
<1>7. Covered(Completed(a), att', Live')
  BY <1>3, <1>4, CompletedRow DEF Covered
<1>8. Copy(Completed(a), att', drafts', Live')
  BY <1>4, <1>5, <1>6, <1>7, CompletedRow DEF Copy, Bound
<1>9. Writes(Completed(a))
  BY DEF Adopt, Writes
<1>10. CopiesOK'
  BY <1>2, <1>8, <1>9, CalmWrites DEF Safe
<1>11. LiveIsLast'
  BY <1>2, LastStays DEF Safe
<1>12. DeskOK'
  <2>1. HasDraft(att', drafts', mem.sub)
    BY DEF Adopt, HasDraft, oa
  <2>2. task' = task /\ books' \subseteq books \cup {Entry("draft")}
    BY DEF Adopt
  <2> QED BY <1>2, <2>1, <2>2, NewEntry DEF Safe
<1> QED BY <1>2, <1>10, <1>11, <1>12 DEF Safe

LEMMA StepAnswer ==
    ASSUME Safe, EndsHold, NEW a \in Attempts, Answer(a)
    PROVE  Safe'
<1>1. PICK pc \in {"created", "refused", "unknown", "done"} :
        /\ Goes(a, pc)
        /\ pc = "created" => a \in drafts
        /\ pc = "refused" => a \in flying /\ flying' = flying \ {a}
        /\ pc # "refused" => flying' = flying
  BY DEF Answer, AnswerCreated, AnswerRefused, AnswerUnknown
<1>2. /\ att' \in [Attempts -> Attempt] /\ att'[a].pc = pc
      /\ \A b \in Attempts \ {a} : att'[b] = att[b]
      /\ att'[a].sub = att[a].sub /\ att'[a].version = att[a].version
  BY <1>1, GoesOn DEF Safe, OaOK
<1>3. Live' \subseteq Live
  BY <1>1 DEF Live, Answer
<1>4. Calm
  BY <1>2, <1>3 DEF Calm, Answer
<1>5. OaOK'
  <2>1. flying' \subseteq flying /\ drafts' = drafts /\ waived' = waived
    BY <1>1 DEF Answer
  <2>2. pc = "refused" => a \notin flying' \cup drafts'
    BY <1>1, <2>1 DEF Safe, OaOK
  <2>3. ASSUME NEW b \in Attempts
        PROVE  /\ att'[b].pc = "none" => b \notin flying' \cup drafts'
               /\ att'[b].pc = "created" => b \in drafts'
               /\ att'[b].pc = "refused" => b \notin flying' \cup drafts'
    BY <1>1, <1>2, <2>1, <2>2 DEF Safe, OaOK
  <2> QED BY <1>2, <2>1, <2>3 DEF Safe, OaOK
<1>6. CopiesOK'
  BY <1>4, CalmReads DEF Safe, Answer, batch
<1>7. LiveIsLast'
  BY <1>4, LastStays DEF Safe
<1>8. DeskOK'
  BY <1>4, CalmDesk DEF Safe, Answer
<1> QED BY <1>5, <1>6, <1>7, <1>8 DEF Safe

LEMMA StepComplete ==
    ASSUME Safe, EndsHold, NEW a \in Attempts, Complete(a)
    PROVE  Safe'
<1>1. PICK pc \in {"unknown", "done"} : Goes(a, pc)
  BY DEF Complete
<1>2. a \in drafts /\ att[a].pc # "none" /\ waived' = waived /\ UNCHANGED oa /\ task' = task
  BY DEF Complete, Safe, OaOK
<1>3. Calm /\ OaOK'
  BY <1>1, <1>2, ThreadStep DEF Safe
<1>4. LiveIsLast'
  BY <1>3, LastStays DEF Safe
<1>5. CASE /\ Current(a) /\ (Saved(Completed(a)) \/ NotSaved(Completed(a)))
           /\ books' \subseteq books \cup {Entry("draft")}
  <2>1. Live \subseteq {a}
    BY <1>2, <1>5, CurrentIsLast DEF Safe
  <2>2. Live' \subseteq {a}
    BY <1>3, <2>1 DEF Calm
  <2>3. mem \in Batch /\ mem.binding = None
    BY <1>5, CreatingRow DEF Safe, CopiesOK, Copy, Current
  <2>4. att'[a].sub = mem.sub /\ a \in drafts'
    BY <1>2, <1>3, <1>5 DEF Calm, Current, oa
  <2>5. Recent(Completed(a), att)
    <3>1. Completed(a).version \in {mem.version, mem.version + 1}
      BY <2>3, CompletedRow
    <3> QED BY <3>1, LaterRow DEF Safe, Recent
  <2>6. Recent(Completed(a), att')
    BY <1>3, <2>5 DEF Recent, Calm
  <2>7. Named(Completed(a), att', drafts')
    BY <2>3, <2>4, CompletedRow, EtcDraftsAssumption DEF Named
  <2>8. Covered(Completed(a), att', Live')
    BY <2>2, <2>3, CompletedRow DEF Covered
  <2>9. Copy(Completed(a), att', drafts', Live')
    BY <2>3, <2>6, <2>7, <2>8, CompletedRow DEF Copy, Bound
  <2>10. CopiesOK'
    BY <1>3, <1>5, <2>9, CalmWrites DEF Safe, Writes
  <2>11. HasDraft(att', drafts', mem.sub)
    BY <2>4 DEF HasDraft
  <2>12. DeskOK'
    BY <1>2, <1>3, <1>5, <2>11, NewEntry DEF Safe
  <2> QED BY <1>3, <1>4, <2>10, <2>12 DEF Safe
<1>6. CASE UNCHANGED <<batch, books>>
  <2>1. CopiesOK'
    BY <1>3, <1>6, CalmReads DEF Safe, batch
  <2>2. DeskOK'
    BY <1>2, <1>3, <1>6, CalmDesk DEF Safe, desk
  <2> QED BY <1>3, <1>4, <2>1, <2>2 DEF Safe
<1> QED BY <1>5, <1>6 DEF Complete

LEMMA StepFail ==
    ASSUME Safe, EndsHold, NEW a \in Attempts, Fail(a)
    PROVE  Safe'
<1>1. /\ Goes(a, "done") /\ att[a].pc = "refused" /\ waived' = waived
      /\ UNCHANGED oa /\ UNCHANGED desk
  BY DEF Fail, MayFail
<1>2. Calm /\ OaOK'
  BY <1>1, ThreadStep DEF Safe
<1>3. LiveIsLast'
  BY <1>2, LastStays DEF Safe
<1>4. DeskOK'
  BY <1>1, <1>2, CalmDesk DEF Safe
<1>5. CASE Current(a) /\ (Saved(Failed) \/ NotSaved(Failed))
  <2>1. Live \subseteq {a}
    BY <1>1, <1>5, CurrentIsLast DEF Safe
  <2>2. a \notin Live
    BY <1>1 DEF Safe, OaOK, Live
  <2>3. Live' = {}
    BY <1>2, <2>1, <2>2 DEF Calm
  <2>4. mem \in Batch /\ mem.draft = 0 /\ mem.binding = None
    BY <1>5, CreatingRow DEF Safe, CopiesOK, Copy, Current
  <2>5. Recent(Failed, att)
    <3>1. Failed.version \in {mem.version, mem.version + 1}
      BY <2>4, FailedRow
    <3> QED BY <3>1, LaterRow DEF Safe, Recent
  <2>6. Recent(Failed, att')
    BY <1>2, <2>5 DEF Recent, Calm
  <2>7. Copy(Failed, att', drafts', Live')
    BY <2>3, <2>4, <2>6, FailedRow DEF Copy, Covered, Named, Bound
  <2>8. CopiesOK'
    BY <1>2, <1>5, <2>7, CalmWrites DEF Safe, Writes
  <2> QED BY <1>2, <1>3, <1>4, <2>8 DEF Safe
<1>6. CASE UNCHANGED batch
  <2>1. CopiesOK'
    BY <1>2, <1>6, CalmReads DEF Safe, batch
  <2> QED BY <1>2, <1>3, <1>4, <2>1 DEF Safe
<1> QED BY <1>5, <1>6 DEF Fail

LEMMA StepMarkUnknown ==
    ASSUME Safe, EndsHold, NEW a \in Attempts, MarkUnknown(a)
    PROVE  Safe'
<1>1. /\ Goes(a, "done") /\ att[a].pc = "unknown" /\ waived' = waived
      /\ UNCHANGED oa /\ UNCHANGED desk
  BY DEF MarkUnknown
<1>2. Calm /\ OaOK'
  BY <1>1, ThreadStep DEF Safe
<1>3. LiveIsLast'
  BY <1>2, LastStays DEF Safe
<1>4. DeskOK'
  BY <1>1, <1>2, CalmDesk DEF Safe
<1>5. CASE Saved(Bumped(mem)) \/ NotSaved(Bumped(mem))
  <2>1. Copy(mem, att', drafts', Live')
    BY <1>2, CopyStays DEF Safe, CopiesOK
  <2>2. Copy(Bumped(mem), att', drafts', Live')
    BY <1>2, <2>1, CopyBumped DEF OaOK
  <2>3. CopiesOK'
    BY <1>2, <1>5, <2>2, CalmWrites DEF Safe, Writes
  <2> QED BY <1>2, <1>3, <1>4, <2>3 DEF Safe
<1>6. CASE UNCHANGED batch
  <2>1. CopiesOK'
    BY <1>2, <1>6, CalmReads DEF Safe, batch
  <2> QED BY <1>2, <1>3, <1>4, <2>1 DEF Safe
<1> QED BY <1>5, <1>6 DEF MarkUnknown

LEMMA StepOaCreates ==
    ASSUME Safe, EndsHold, NEW a \in Attempts, OaCreates(a)
    PROVE  Safe'
<1>1. /\ a \in flying /\ flying' = flying \ {a} /\ drafts' = drafts \cup {a}
      /\ waived' = waived /\ att' = att
  BY DEF OaCreates
<1>2. Live' = Live
  BY <1>1 DEF Live
<1>3. Calm
  BY <1>1, <1>2 DEF Calm
<1>4. OaOK'
  BY <1>1 DEF Safe, OaOK
<1>5. CopiesOK'
  BY <1>3, CalmReads DEF Safe, OaCreates, batch
<1>6. LiveIsLast'
  BY <1>3, LastStays DEF Safe
<1>7. DeskOK'
  BY <1>3, CalmDesk DEF Safe, OaCreates
<1> QED BY <1>4, <1>5, <1>6, <1>7 DEF Safe

LEMMA StepImport ==
    ASSUME Safe, EndsHold, Import
    PROVE  Safe'
<1>1. Calm /\ OaOK'
  BY OtherStep DEF Safe, Import, OaOK
<1>2. Copy(db, att', drafts', Live') /\ Copy(mem, att', drafts', Live')
  BY <1>1, CopyStays DEF Safe, CopiesOK
<1>3. db \in Batch
  BY <1>2 DEF Copy
<1>4. Recent(db', att')
  <2>1. \A a \in Attempts : att'[a].version \in Nat
    BY <1>1 DEF OaOK, Attempt
  <2> SUFFICES ASSUME NEW a \in Attempts PROVE att'[a].version <= db'.version
    BY DEF Recent
  <2>2. att'[a].version <= db.version
    BY <1>2 DEF Copy, Recent
  <2>3. db'.version = db.version + 1 /\ db.version \in Nat
    BY <1>3, ImportedRow
  <2> QED BY <2>1, <2>2, <2>3, Later
<1>5. Copy(db', att', drafts', Live')
  BY <1>2, <1>3, <1>4, ImportedRow DEF Copy, Covered, Named, Bound
<1>6. CopiesOK'
  BY <1>2, <1>5 DEF CopiesOK, Import
<1>7. LiveIsLast'
  BY <1>1, LastStays DEF Safe
<1>8. DeskOK'
  <2>1. \A n \in Ids : HasDraft(att, drafts, n) => HasDraft(att', drafts', n)
    BY <1>1, DraftStays DEF Safe
  <2>2. /\ task' = [task EXCEPT !.status = "imported"] /\ task.status = "ready"
        /\ books' = books /\ task \in Task
    BY DEF Import, Safe, DeskOK
  <2>3. task' \in Task /\ task'.draft = task.draft /\ task'.status = "imported"
    BY <2>2 DEF Task
  <2>4. \A e \in books : /\ e.op = "draft" => HasDraft(att', drafts', e.sub)
                         /\ e.op = "submitted" => db'.status \in {"submitted", "deleted"}
    BY <2>1 DEF Safe, DeskOK, EndsHold, Ends
  <2>5. task.draft # 0 => HasDraft(att', drafts', task.draft)
    BY <2>1, <2>2 DEF Safe, DeskOK, Task
  <2> QED BY <2>2, <2>3, <2>4, <2>5 DEF Safe, DeskOK
<1> QED BY <1>1, <1>6, <1>7, <1>8 DEF Safe

LEMMA StepBind ==
    ASSUME Safe, EndsHold, NEW o \in Rows, Bind(o)
    PROVE  Safe'
<1>1. Calm /\ OaOK'
  BY OtherStep DEF Safe, Bind, OaOK
<1>2. Copy(db, att', drafts', Live') /\ Copy(mem, att', drafts', Live')
  BY <1>1, CopyStays DEF Safe, CopiesOK
<1>3. db \in Batch
  BY <1>2 DEF Copy
<1>4. Recent(db', att')
  <2>1. \A a \in Attempts : att'[a].version \in Nat
    BY <1>1 DEF OaOK, Attempt
  <2> SUFFICES ASSUME NEW a \in Attempts PROVE att'[a].version <= db'.version
    BY DEF Recent
  <2>2. att'[a].version <= db.version
    BY <1>2 DEF Copy, Recent
  <2>3. db'.version = db.version + 1 /\ db.version \in Nat
    BY <1>3, BoundRow
  <2> QED BY <2>1, <2>2, <2>3, Later
<1>5. o # None
  BY EtcDraftsAssumption
<1>6. Copy(db', att', drafts', Live')
  BY <1>2, <1>3, <1>4, <1>5, BoundRow DEF Copy, Covered, Named, Bound
<1>7. CopiesOK'
  BY <1>2, <1>6 DEF CopiesOK, Bind
<1>8. LiveIsLast'
  BY <1>1, LastStays DEF Safe
<1>9. DeskOK'
  BY <1>1, CalmDesk DEF Safe, Bind
<1> QED BY <1>1, <1>7, <1>8, <1>9 DEF Safe

LEMMA StepBook ==
    ASSUME Safe, EndsHold, NEW e \in books, Book(e)
    PROVE  Safe'
<1>1. Calm /\ OaOK'
  BY OtherStep DEF Safe, Book, OaOK
<1>2. CopiesOK'
  BY <1>1, CalmReads DEF Safe, Book, batch
<1>3. LiveIsLast'
  BY <1>1, LastStays DEF Safe
<1>4. \A n \in Ids : HasDraft(att, drafts, n) => HasDraft(att', drafts', n)
  BY <1>1, DraftStays DEF Safe
<1>5. /\ books' \subseteq books /\ task \in Task /\ db' = db
      /\ e.op \in {"draft", "submitted", "delete"} /\ e.sub \in Ids
  BY DEF Book, Safe, DeskOK, batch
<1>6. /\ books' \subseteq [op : {"draft", "submitted", "delete"}, sub : Ids, task : Task]
      /\ \A f \in books' :
           /\ f.op = "draft" => HasDraft(att', drafts', f.sub)
           /\ f.op = "submitted" => db'.status \in {"submitted", "deleted"}
  BY <1>4, <1>5 DEF Safe, DeskOK
<1> DEFINE Honest(t) ==
             /\ t \in Task
             /\ t.draft # 0 /\ t.status # "closed" => HasDraft(att', drafts', t.draft)
             /\ t.status = "closed" => db'.status \in {"submitted", "deleted"}
<1>7. Honest(task)
  <2>1. task.draft \in Ids
    BY <1>5 DEF Task
  <2> QED BY <1>4, <1>5, <2>1 DEF Safe, DeskOK
<1>8. CASE e.op = "draft" /\ task' = Entered(e)
  <2>1. HasDraft(att', drafts', e.sub)
    BY <1>4, <1>5, <1>8 DEF Safe, DeskOK
  <2>2. task'.status = task.status /\ task'.draft \in {task.draft, e.sub} /\ task' \in Task
    BY <1>5, <1>8 DEF Entered, Task
  <2> QED BY <1>7, <2>1, <2>2, <1>1, <1>2, <1>3, <1>6 DEF Safe, DeskOK
<1>9. CASE e.op = "submitted" /\ task' = Closed(e)
  <2>1. db'.status \in {"submitted", "deleted"}
    BY <1>5, <1>9 DEF Safe, DeskOK
  <2>2. CASE task' = task
    BY <1>7, <2>2, <1>1, <1>2, <1>3, <1>6 DEF Safe, DeskOK
  <2>3. CASE task' = [status |-> "closed", draft |-> IF task.draft = 0 THEN e.sub ELSE task.draft]
    <3>1. task' \in Task /\ task'.status = "closed"
      BY <1>5, <2>3 DEF Task
    <3> QED BY <2>1, <3>1, <1>1, <1>2, <1>3, <1>6 DEF Safe, DeskOK
  <2> QED BY <1>9, <2>2, <2>3 DEF Closed
<1>10. CASE e.op = "delete" /\ task' = Dropped(e)
  <2>1. CASE task' = task
    BY <1>7, <2>1, <1>1, <1>2, <1>3, <1>6 DEF Safe, DeskOK
  <2>2. CASE task' = [task EXCEPT !.status = "deleted", !.draft = 0]
    <3>1. task' \in Task /\ task'.status = "deleted" /\ task'.draft = 0
      BY <1>5, <2>2 DEF Task, Ids
    <3> QED BY <3>1, <1>1, <1>2, <1>3, <1>6 DEF Safe, DeskOK
  <2> QED BY <1>10, <2>1, <2>2 DEF Dropped
<1>11. CASE task' = task
  BY <1>7, <1>11, <1>1, <1>2, <1>3, <1>6 DEF Safe, DeskOK
<1> QED BY <1>8, <1>9, <1>10, <1>11 DEF Book

-----------------------------------------------------------------------------
(* Prepare: nothing may be live when a new attempt begins. *)

LEMMA StartsFresh ==
    ASSUME CopiesOK, OaOK, mem.status \in Startable
    PROVE  Live = {} /\ mem.binding = None
<1>1. mem.binding = None
  BY DEF CopiesOK, Copy, Bound, Startable
<1>2. SUFFICES ASSUME NEW a \in Live PROVE FALSE
  BY <1>1
<1>3. a # 0
  BY EtcDraftsAssumption DEF Live, OaOK
<1> QED BY <1>3 DEF CopiesOK, Copy, Covered, Named, Startable

LEMMA StepPrepare ==
    ASSUME Safe, EndsHold, NEW a \in Attempts, NEW k \in Keys, Prepare(a, k)
    PROVE  Safe'
<1>1. CASE NotSaved(Prepared(a, k)) /\ UNCHANGED <<att, flying>>
  <2>1. Calm /\ OaOK'
    BY <1>1, OtherStep DEF Safe, Prepare, OaOK, oa
  <2>2. Live = {} /\ mem.binding = None /\ mem \in Batch
    BY StartsFresh DEF Safe, Prepare, MayPrepare, CopiesOK, Copy
  <2>3. Recent(Prepared(a, k), att')
    <3>1. Prepared(a, k).version \in {mem.version, mem.version + 1}
      BY <2>2, PreparedRow
    <3> QED BY <1>1, <3>1, LaterRow DEF Safe, Recent
  <2>4. Live' = {}
    BY <2>1, <2>2 DEF Calm
  <2>5. Copy(Prepared(a, k), att', drafts', Live')
    BY <2>2, <2>3, <2>4, PreparedRow DEF Copy, Covered, Named, Bound
  <2>6. CopiesOK'
    BY <1>1, <2>1, <2>5, CalmWrites DEF Safe, Writes
  <2>7. LiveIsLast'
    BY <2>1, LastStays DEF Safe
  <2>8. DeskOK'
    BY <2>1, CalmDesk DEF Safe, Prepare
  <2> QED BY <2>1, <2>6, <2>7, <2>8 DEF Safe
<1>2. CASE /\ Saved(Prepared(a, k))
           /\ att' = [att EXCEPT ![a] = [pc |-> "sending", key |-> k, sub |-> Submission(a),
                                         version |-> mem.version + 1]]
           /\ flying' = flying \cup {a}
  <2> DEFINE new == [pc |-> "sending", key |-> k, sub |-> Submission(a), version |-> mem.version + 1]
  <2>1. mem \in Batch /\ mem.version \in Nat /\ Submission(a) \in Ids
    BY DEF Safe, CopiesOK, Copy, Batch, Submission, Ids
  <2>2. /\ new \in Attempt /\ new.pc = "sending" /\ new.sub = Submission(a)
        /\ new.version = mem.version + 1
    BY <2>1 DEF Attempt
  <2>3. att' = [att EXCEPT ![a] = new]
    BY <1>2
  <2> HIDE DEF new
  <2>4. /\ att' \in [Attempts -> Attempt] /\ att'[a] = new
        /\ \A b \in Attempts \ {a} : att'[b] = att[b]
    BY <2>2, <2>3 DEF Safe, OaOK
  <2>5. Live = {} /\ mem.binding = None
    BY StartsFresh DEF Safe, Prepare, MayPrepare
  <2>6. att[a].pc = "none" /\ a \notin flying \cup drafts
    BY DEF Prepare, Unused, Safe, OaOK
  <2>7. drafts' = drafts /\ waived' = waived /\ UNCHANGED desk
    BY DEF Prepare
  <2>8. Live' \subseteq {a}
    BY <1>2, <2>5, <2>7 DEF Live
  <2>9. OaOK'
    <3>1. flying' \subseteq Attempts /\ flying' \cap drafts' = {}
      BY <1>2, <2>6, <2>7 DEF Safe, OaOK
    <3>2. ASSUME NEW b \in Attempts
          PROVE  /\ att'[b].pc = "none" => b \notin flying' \cup drafts'
                 /\ att'[b].pc = "created" => b \in drafts'
                 /\ att'[b].pc = "refused" => b \notin flying' \cup drafts'
      <4>1. CASE b = a
        BY <2>2, <2>4, <4>1
      <4>2. CASE b # a
        BY <1>2, <2>4, <2>7, <4>2 DEF Safe, OaOK
      <4> QED BY <4>1, <4>2
    <3> QED BY <2>4, <2>7, <3>1, <3>2 DEF Safe, OaOK
  <2>10. \A b \in Attempts : att[b].version \in Nat /\ att[b].version <= mem.version
    BY DEF Safe, CopiesOK, Copy, Recent, OaOK, Attempt
  <2>11. LiveIsLast'
    <3> SUFFICES ASSUME NEW b \in Attempts, b # a
                 PROVE  att'[b].version < att'[a].version
      BY <2>8 DEF LiveIsLast
    <3>1. att'[b].version = att[b].version /\ att'[a].version = mem.version + 1
      BY <2>2, <2>4
    <3> QED BY <2>1, <2>10, <3>1
  <2>12. Recent(Prepared(a, k), att')
    <3> SUFFICES ASSUME NEW b \in Attempts
                 PROVE  att'[b].version <= mem.version + 1
      BY <2>1, PreparedRow DEF Recent
    <3>1. CASE b = a
      BY <2>1, <2>2, <2>4, <3>1
    <3>2. CASE b # a
      BY <2>1, <2>4, <2>10, <3>2
    <3> QED BY <3>1, <3>2
  <2>13. Covered(Prepared(a, k), att', Live')
    BY <2>1, <2>2, <2>4, <2>8, PreparedRow DEF Covered
  <2>14. Copy(Prepared(a, k), att', drafts', Live')
    BY <2>1, <2>5, <2>12, <2>13, PreparedRow DEF Copy, Named, Bound
  <2>15. CopiesOK'
    BY <1>2, <2>14 DEF CopiesOK, Saved
  <2>16. DeskOK'
    <3>1. ASSUME NEW n \in Ids, HasDraft(att, drafts, n)
          PROVE  HasDraft(att', drafts', n)
      BY <2>4, <2>6, <2>7, <3>1 DEF HasDraft, Safe, OaOK
    <3>2. task' = task /\ books' \subseteq books \cup {}
      BY <2>7 DEF desk
    <3>3. {} \in SUBSET [op : {"draft", "submitted", "delete"}, sub : Ids, task : Task]
      OBVIOUS
    <3>4. \A e \in {} : /\ e.op = "draft" => HasDraft(att', drafts', e.sub)
                        /\ e.op = "submitted" => db'.status \in Ends
      OBVIOUS
    <3>5. DeskOK
      BY DEF Safe
    <3>6. \A n \in Ids : HasDraft(att, drafts, n) => HasDraft(att', drafts', n)
      BY <3>1
    <3> QED BY ONLY <3>2, <3>3, <3>4, <3>5, <3>6, DeskStays, EndsHold
  <2> QED BY <2>9, <2>11, <2>15, <2>16 DEF Safe
<1> QED BY <1>1, <1>2 DEF Prepare

-----------------------------------------------------------------------------
(* The theorems. *)

LEMMA Start ==
    ASSUME Init
    PROVE  Inductive
<1>1. db \in Batch /\ mem = db
  BY DEF Init, Batch, Statuses, Ids
<1>2. /\ att = [a \in Attempts |-> [pc |-> "none", key |-> None, sub |-> 0, version |-> 0]]
      /\ flying = {} /\ drafts = {} /\ books = {} /\ waived = {}
  BY DEF Init
<1>3. /\ att \in [Attempts -> Attempt]
      /\ \A a \in Attempts : att[a].pc = "none" /\ att[a].version = 0
  BY <1>2 DEF Attempt, Ids
<1>4. Live = {}
  BY <1>2 DEF Live
<1>5. db.status = "ready" /\ db.version = 1 /\ db.draft = 0 /\ db.binding = None
  BY DEF Init
<1>6. CopiesOK
  BY <1>1, <1>3, <1>4, <1>5 DEF CopiesOK, Copy, Covered, Named, Bound, Recent
<1>7. OaOK /\ LiveIsLast
  BY <1>2, <1>3, <1>4 DEF OaOK, LiveIsLast
<1>8. EndIsKnown
  BY <1>5 DEF EndIsKnown
<1>9. DeskOK
  BY <1>2 DEF DeskOK, Init, Task, Ids
<1> QED BY <1>6, <1>7, <1>8, <1>9 DEF Inductive

LEMMA Step ==
    ASSUME Inductive, [Next]_vars
    PROVE  Inductive' /\ EndsHold
<1>1. EndsHold /\ EndIsKnown'
  BY NextEnds DEF Inductive
<1>2. Safe
  BY DEF Safe, Inductive
<1>3. Safe'
  <2>1. ASSUME NEW a \in Attempts,
               (\E k \in Keys : Prepare(a, k)) \/ Answer(a) \/ Complete(a) \/ Fail(a)
                 \/ MarkUnknown(a) \/ Adopt(a) \/ OaCreates(a)
        PROVE  Safe'
    BY <1>1, <1>2, <2>1, StepPrepare, StepAnswer, StepComplete, StepFail, StepMarkUnknown,
       StepAdopt, StepOaCreates
  <2>2. ASSUME Reload \/ Replay \/ NotCreated \/ Revoke \/ Delete \/ Title \/ Import \/ Crash
        PROVE  Safe'
    BY <1>1, <1>2, <2>2, StepReload, StepReplay, StepNotCreated, StepRevoke, StepDelete,
       StepTitle, StepImport, StepCrash
  <2>3. ASSUME NEW o \in Rows \cup {None}, Submit(o)
        PROVE  Safe'
    BY <1>1, <1>2, <2>3, StepSubmit
  <2>4. ASSUME NEW o \in Rows, Bind(o)
        PROVE  Safe'
    BY <1>1, <1>2, <2>4, StepBind
  <2>5. ASSUME NEW e \in books, Book(e)
        PROVE  Safe'
    BY <1>1, <1>2, <2>5, StepBook
  <2>6. CASE UNCHANGED vars
    <3>1. /\ db' = db /\ mem' = mem /\ att' = att /\ flying' = flying /\ drafts' = drafts
          /\ task' = task /\ books' = books /\ waived' = waived
      BY <2>6 DEF vars
    <3>2. Live' = Live
      BY <3>1 DEF Live
    <3> QED BY <1>2, <3>1, <3>2 DEF Safe, CopiesOK, OaOK, LiveIsLast, DeskOK
  <2> QED BY <2>1, <2>2, <2>3, <2>4, <2>5, <2>6 DEF Next
<1> QED BY <1>1, <1>3 DEF Inductive, Safe

\* What holds of the copies, the attempts, the OA and the task at any time.
THEOREM Invariant == Spec => []Inductive
<1>1. Init => Inductive
  BY Start
<1>2. Inductive /\ [Next]_vars => Inductive'
  BY Step
<1> QED BY <1>1, <1>2, PTL DEF Spec

\* The columns, the memory, the threads and the task keep their types.
THEOREM TypeCorrect == Spec => []TypeOK
<1>1. Inductive => TypeOK
  BY DEF Inductive, CopiesOK, Copy, OaOK, DeskOK, TypeOK
<1> QED BY <1>1, Invariant, PTL

\* Every draft in the OA is on its batch, or its submission is open there, or
\* a person has decided about it: whatever dies, lags, repeats or comes late.
THEOREM NoOrphans == Spec => []NoOrphanDraft
<1>1. Inductive => NoOrphanDraft
  BY DEF Inductive, CopiesOK, Copy, Covered, Live, NoOrphanDraft
<1> QED BY <1>1, Invariant, PTL

\* There is never a second draft of a batch while nobody has given up the first.
THEOREM NoSecondDraft == Spec => []OneDraft
<1>1. Inductive => OneDraft
  <2> SUFFICES ASSUME Inductive, NEW a \in drafts \ waived, NEW b \in drafts \ waived, a # b
               PROVE  FALSE
    BY DEF OneDraft
  <2>1. a \in Live /\ b \in Live /\ a \in Attempts /\ b \in Attempts
    BY DEF Inductive, OaOK, Live
  <2>2. att[a].pc # "none" /\ att[b].pc # "none"
    BY <2>1 DEF Inductive, OaOK
  <2>3. att[a].version < att[b].version /\ att[b].version < att[a].version
    BY <2>1, <2>2 DEF Inductive, LiveIsLast
  <2>4. att[a].version \in Nat /\ att[b].version \in Nat
    BY <2>1 DEF Inductive, OaOK, Attempt
  <2> QED BY <2>3, <2>4
<1> QED BY <1>1, Invariant, PTL

\* A batch that waits for its confirmation names a draft of its submission.
THEOREM DraftBelongs == Spec => []DraftIsOfTheBatch
<1>1. Inductive => DraftIsOfTheBatch
  BY DEF Inductive, CopiesOK, Copy, Named, DraftIsOfTheBatch
<1> QED BY <1>1, Invariant, PTL

\* The task names only what has a draft, and is closed only after the batch.
THEOREM TaskIsTruthful == Spec => []TaskTellsTheTruth
<1>1. Inductive => TaskTellsTheTruth
  BY DEF Inductive, DeskOK, HasDraft, TaskTellsTheTruth
<1> QED BY <1>1, Invariant, PTL

\* No step of any process takes a batch from its end.
THEOREM EndsStay == Spec => EndsAreFinal
<1>1. Inductive /\ [Next]_vars =>
        [/\ db.status = "deleted" => db'.status = "deleted"
         /\ db.binding # None => db'.status = "submitted" /\ db'.binding # None]_vars
  BY Step DEF EndsHold
<1> QED BY <1>1, Invariant, PTL DEF Spec, EndsAreFinal
=============================================================================
