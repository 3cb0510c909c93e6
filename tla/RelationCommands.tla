-------------------------- MODULE RelationCommands --------------------------
(***************************************************************************)
(* The formal relations of the reconciliation workbench and the commands   *)
(* that write them (services/workbench_relation_command_service.py over    *)
(* services/workbench_pair_relation_service.py and                         *)
(* services/postgres_repositories/workbench_relation.py).                  *)
(*                                                                         *)
(* A relation is a row of app.workbench_pair_relations: a case, its member *)
(* rows (OA items, bank transactions, invoices), a status and a version.   *)
(* A command is one READ COMMITTED transaction: it takes advisory locks on *)
(* member rows and cases, loads the relations those name, decides in       *)
(* memory, and saves the changed cases as whole rows, unconditionally. No  *)
(* constraint of the database says that a row has one active relation:     *)
(* the locks are all there is.                                             *)
(*                                                                         *)
(* A worker is a connection. Ask is what a command reads before it locks;  *)
(* Take is the lock and the load under it, with the decision; Commit is    *)
(* the save. A lock statement takes its keys in sorted order and changes   *)
(* nothing while it waits, so it is one step, taken when the last key is   *)
(* free. Names, amounts, months and attachments are left out.              *)
(***************************************************************************)
EXTENDS Naturals, FiniteSets

CONSTANTS
    Rows,           \* member rows, typed identities taken as one value
    FreshCases,     \* case ids the allocator hands out, each once
    StableCases,    \* case ids derived from the rows: batches, machine plans
    StableRows,     \* StableRows[c] : the rows the id of c is derived from
    Workers,        \* connections that run commands
    Offered,        \* kinds of command that arrive
    Overlapping,    \* kinds that may run while other commands run
    MaxVersion      \* bound: beyond it, only releases start

Cases == FreshCases \cup StableCases

\* Commands whose locks cover every row they give to a case
LockingKinds ==
    {"confirm", "supplement", "assign", "plan", "cancel", "release", "withdraw"}

\* Commands that rewrite relations some of whose rows they do not lock
PartlyLockingKinds == {"remove", "metadata", "closure"}

Kinds == LockingKinds \cup PartlyLockingKinds

ASSUME ConstantsAssumption ==
    /\ FreshCases \cap StableCases = {}
    /\ StableRows \in [StableCases -> SUBSET Rows]
    /\ Offered \subseteq Kinds
    /\ Overlapping \subseteq Kinds
    /\ MaxVersion \in Nat

VARIABLES
    active,     \* cases whose relation is active
    members,    \* members[c] : the rows of c, kept when c is cancelled
    version,    \* version[c] : 0 when the case was never saved
    undo,       \* the history a withdrawal restores from
    stage,      \* stage[w] : idle, asked, prepared or read
    kind,       \* kind[w] : the command w runs
    target,     \* target[w] : the cases the command names, at most one
    picked,     \* picked[w] : the rows the command names
    known,      \* known[w] : relations as the command saw them unlocked
    wanted,     \* wanted[w] : lock keys the command computed
    held,       \* held[w] : lock keys the transaction holds
    writes,     \* writes[w] : the changed cases the command will save
    entry       \* entry[w] : the history event the command will append

relations == <<active, members, version, undo>>
vars == <<relations, stage, kind, target, picked, known, wanted, held,
          writes, entry>>

Keys == Rows \cup Cases

Images == [case : Cases, rows : SUBSET Rows, version : Nat]

Events == [case : Cases, rows : SUBSET Rows, before : SUBSET Images]

Deltas == [on : SUBSET Cases, off : SUBSET Cases,
           rows : [Cases -> SUBSET Rows], version : [Cases -> Nat]]

NoDelta == [on |-> {}, off |-> {},
            rows |-> [c \in Cases |-> {}], version |-> [c \in Cases |-> 0]]

Stages == {"idle", "asked", "prepared", "read"}

\* The type of every variable; locks and decisions live from the lock
\* statement to the end of the transaction (pg_advisory_xact_lock).
TypeOK ==
    /\ active \subseteq Cases
    /\ members \in [Cases -> SUBSET Rows]
    /\ version \in [Cases -> Nat]
    /\ undo \subseteq Events
    /\ stage \in [Workers -> Stages]
    /\ kind \in [Workers -> Kinds \cup {"none"}]
    /\ target \in [Workers -> SUBSET Cases]
    /\ picked \in [Workers -> SUBSET Rows]
    /\ known \in [Workers -> SUBSET Images]
    /\ wanted \in [Workers -> SUBSET Keys]
    /\ held \in [Workers -> SUBSET Keys]
    /\ writes \in [Workers -> Deltas]
    /\ entry \in [Workers -> SUBSET Events]
    /\ \A w \in Workers :
           stage[w] \in {"idle", "asked"} =>
               held[w] = {} /\ writes[w] = NoDelta /\ entry[w] = {}

Init ==
    /\ active = {}
    /\ members = [c \in Cases |-> {}]
    /\ version = [c \in Cases |-> 0]
    /\ undo = {}
    /\ stage = [w \in Workers |-> "idle"]
    /\ kind = [w \in Workers |-> "none"]
    /\ target = [w \in Workers |-> {}]
    /\ picked = [w \in Workers |-> {}]
    /\ known = [w \in Workers |-> {}]
    /\ wanted = [w \in Workers |-> {}]
    /\ held = [w \in Workers |-> {}]
    /\ writes = [w \in Workers |-> NoDelta]
    /\ entry = [w \in Workers |-> {}]

-----------------------------------------------------------------------------
(* What a command reads.                                                   *)

ImageOf(c) == [case |-> c, rows |-> members[c], version |-> version[c]]

ActiveRows(c) == IF c \in active THEN members[c] ELSE {}

\* active_relations_for_typed_rows
OwnersOf(R) == {c \in active : members[c] \cap R # {}}

\* The predecessors the latest confirmation of c with these rows replaced
Restorable(c) ==
    {b \in UNION {e.before : e \in {x \in undo : x.case = c /\ x.rows = members[c]}} :
        b.rows # members[c]}

RowsOf(images) == UNION {b.rows : b \in images}
CasesOf(images) == {b.case : b \in images}

\* Mutant: only the named rows are locked, not the case.
LockNamedRows(R, cs) == R

\* acquire_relation_member_locks: the rows, the cases, and the members the
\* active relations of those cases have when the keys are computed
LockKeys(R, cs) == R \cup cs \cup UNION {ActiveRows(c) : c \in cs}

-----------------------------------------------------------------------------
(* Beginning a command: what it reads before it holds a lock.              *)

Begin(w, k, cs, R, seen, keys) ==
    /\ stage[w] = "idle"
    /\ k \in Offered
    /\ \A v \in Workers \ {w} :
           stage[v] # "idle" => {k, kind[v]} \subseteq Overlapping
    /\ k = "release" \/ \A c \in Cases : version[c] =< MaxVersion
    /\ stage' = [stage EXCEPT ![w] = "asked"]
    /\ kind' = [kind EXCEPT ![w] = k]
    /\ target' = [target EXCEPT ![w] = cs]
    /\ picked' = [picked EXCEPT ![w] = R]
    /\ known' = [known EXCEPT ![w] = seen]
    /\ wanted' = [wanted EXCEPT ![w] = keys]
    /\ UNCHANGED <<relations, held, writes, entry>>

\* The workbench confirms rows under a new case id. The relations it will
\* record as replaced come from the memory of its process, which may lack
\* what other processes wrote.
AskConfirm(w, c, R) ==
    /\ c \in FreshCases
    /\ version[c] = 0
    /\ \A v \in Workers : c \notin target[v]
    /\ Cardinality(R) >= 2
    /\ \E cs \in SUBSET OwnersOf(R) :
           Begin(w, "confirm", {c}, R, {ImageOf(d) : d \in cs}, LockKeys(R, {c}))

\* A manually entered invoice joins the relation it was entered for.
AskSupplement(w, c, r) ==
    /\ c \in active
    /\ r \notin members[c]
    /\ Begin(w, "supplement", {c}, members[c] \cup {r}, {ImageOf(c)},
             LockKeys(members[c] \cup {r}, {c}))

\* A batch is confirmed under its own case id and replaces nothing.
AskAssign(w, c) ==
    /\ c \in StableCases
    /\ Begin(w, "assign", {c}, StableRows[c], {}, LockKeys(StableRows[c], {c}))

\* The matching worker's plan: a new relation under the id of its rows, or
\* an extension of a relation its batch read as active.
AskPlan(w, c, R) ==
    /\ \/ c \in StableCases /\ c \notin active /\ R = StableRows[c]
       \/ c \in active /\ members[c] \subseteq R /\ members[c] # R
    /\ Begin(w, "plan", {c}, R, IF c \in active THEN {ImageOf(c)} ELSE {},
             LockKeys(R, {c}))

AskCancel(w, c) ==
    /\ c \in active
    /\ Begin(w, "cancel", {c}, {}, {}, LockKeys({}, {c}))

AskRelease(w, R) ==
    /\ R # {}
    /\ Begin(w, "release", {}, R, {}, LockKeys(R, {}))

\* The command reads the relation and its restorable predecessors, and
\* locks the members and the cases of both.
AskWithdraw(w, c) ==
    /\ c \in active
    /\ Begin(w, "withdraw", {c}, {}, {ImageOf(c)} \cup Restorable(c),
             LockKeys(members[c] \cup RowsOf(Restorable(c)),
                      {c} \cup CasesOf(Restorable(c))))

\* The removal of rows that are no longer facts locks those rows only.
AskRemove(w, R) ==
    /\ R # {}
    /\ Begin(w, "remove", {}, R, {}, LockKeys(R, {}))

\* The requirement updater rewrites the metadata of a relation: no lock.
AskMetadata(w, c) ==
    /\ c \in active
    /\ Begin(w, "metadata", {c}, {}, {}, {})

\* A turnover closure prepares with the locks of the selected bank rows.
AskClosure(w, c, R) ==
    /\ c \in FreshCases
    /\ version[c] = 0
    /\ \A v \in Workers : c \notin target[v]
    /\ Cardinality(R) >= 2
    /\ Begin(w, "closure", {c}, R, {}, LockKeys(R, {}))

-----------------------------------------------------------------------------
(* Deciding under the locks.                                               *)

\* Mutant: locks on cases only, the rows being read without a lock.
FreeCaseKeys(w, keys) ==
    \A v \in Workers \ {w} : held[v] \cap keys \cap Cases = {}

Free(w, keys) == \A v \in Workers \ {w} : held[v] \cap keys = {}

\* The whole rows to save: cases that become or stay active, with their new
\* rows and versions, and cases to cancel, with the rows and version read
Delta(on, off, rowsOf, versionOf) ==
    [on |-> on, off |-> off,
     rows |-> [c \in Cases |-> IF c \in on THEN rowsOf[c]
                               ELSE IF c \in off THEN members[c] ELSE {}],
     version |-> [c \in Cases |-> IF c \in on THEN versionOf[c]
                                  ELSE IF c \in off THEN version[c] + 1 ELSE 0]]

\* Locks granted, relations loaded, delta and history event decided
Take(w, next, delta, events) ==
    /\ Free(w, wanted[w])
    /\ stage' = [stage EXCEPT ![w] = next]
    /\ held' = [held EXCEPT ![w] = wanted[w]]
    /\ writes' = [writes EXCEPT ![w] = delta]
    /\ entry' = [entry EXCEPT ![w] = events]
    /\ UNCHANGED <<relations, kind, target, picked, known, wanted>>

Asked(w, k) == stage[w] = "asked" /\ kind[w] = k

\* replace_with_confirmed_relation on relations loaded as active only: an
\* inactive row of the same case is not seen, so its version starts again
ReplaceDelta(c, R) ==
    Delta({c}, OwnersOf(R) \ {c}, [d \in {c} |-> R],
          [d \in {c} |-> IF c \in active THEN version[c] + 2 ELSE 1])

\* create_active_relation refuses a case that is active for other rows
CaseIsUsable(c, R) == c \in active => members[c] \cap R # {}

\* Of the relations known beforehand, those still active with those rows
StillOwned(seen, R) ==
    {b \in seen : b.case \in active /\ b.rows = members[b.case] /\ b.rows # R}

TakeConfirm(w) ==
    /\ Asked(w, "confirm")
    /\ \E c \in target[w] :
        /\ CaseIsUsable(c, picked[w])
        /\ Take(w, "read", ReplaceDelta(c, picked[w]),
                {[case |-> c, rows |-> picked[w],
                  before |-> StillOwned(known[w], picked[w])]})

\* attach_manual_oa_invoices is no operation a withdrawal restores from
TakeSupplement(w) ==
    /\ Asked(w, "supplement")
    /\ \E c \in target[w] :
        /\ CaseIsUsable(c, picked[w])
        /\ Take(w, "read", ReplaceDelta(c, picked[w]), {})

TakeAssign(w) ==
    /\ Asked(w, "assign")
    /\ \E c \in target[w] :
        /\ OwnersOf(picked[w]) \subseteq {c}
        /\ CaseIsUsable(c, picked[w])
        /\ Take(w, "read",
                Delta({c}, {}, [d \in {c} |-> picked[w]],
                      [d \in {c} |-> IF c \notin active THEN 1
                                     ELSE IF members[c] = picked[w] THEN version[c]
                                     ELSE version[c] + 1]),
                {})

PlanVersion(w, c) ==
    version[c] + IF known[w] # {} THEN 2
                 ELSE IF c \in active /\ members[c] = picked[w] THEN 0 ELSE 1

\* A plan that extends wants its target active and contained in it; a plan
\* that is already in force to the letter changes nothing. Relations of
\* every status are loaded, so a cancelled one passes on its version.
TakePlan(w) ==
    /\ Asked(w, "plan")
    /\ \E c \in target[w] :
        /\ OwnersOf(picked[w]) \subseteq {c}
        /\ CaseIsUsable(c, picked[w])
        /\ known[w] # {} => c \in active /\ members[c] \subseteq picked[w]
        /\ \/ /\ c \in active /\ members[c] = picked[w]
              /\ Take(w, "read", NoDelta, {})
           \/ Take(w, "read",
                   Delta({c}, {}, [d \in {c} |-> picked[w]],
                         [d \in {c} |-> PlanVersion(w, c)]),
                   {[case |-> c, rows |-> picked[w],
                     before |-> IF known[w] = {} THEN {}
                                ELSE {b \in {ImageOf(c)} : b.rows # picked[w]}]})

TakeCancel(w) ==
    /\ Asked(w, "cancel")
    /\ target[w] \subseteq active
    /\ Take(w, "read", Delta({}, target[w], <<>>, <<>>), {})

TakeRelease(w) ==
    /\ Asked(w, "release")
    /\ Take(w, "read", Delta({}, OwnersOf(picked[w]), <<>>, <<>>), {})

Greater(m, n) == IF m > n THEN m ELSE n

\* The topology read under the locks is the one read before them; the
\* predecessors are disjoint, still cancelled with the rows the history
\* gives them, and none of their rows has another owner
CanRestore(c, predecessors) ==
    /\ \A b \in predecessors :
           b.case # c => b.case \notin active /\ members[b.case] = b.rows
    /\ \A b1, b2 \in predecessors :
           b1 # b2 => b1.case # b2.case /\ b1.rows \cap b2.rows = {}
    /\ OwnersOf(RowsOf(predecessors)) \subseteq {c}

\* Mutant: a restored relation goes on from its version in the history.
RestoredFromHistory(b, c) == b.version + 1

RestoredVersion(b, c) ==
    Greater(b.version, IF b.case = c THEN version[c] + 1 ELSE version[b.case]) + 1

WithdrawDelta(c, predecessors) ==
    LET back == CasesOf(predecessors)
        Of(d) == CHOOSE b \in predecessors : b.case = d
    IN  Delta(back, {c} \ back, [d \in back |-> Of(d).rows],
              [d \in back |-> RestoredVersion(Of(d), c)])

SameTopology(w, c) == known[w] = {ImageOf(c)} \cup Restorable(c)

TakeWithdraw(w) ==
    /\ Asked(w, "withdraw")
    /\ \E c \in target[w] :
        /\ c \in active
        /\ SameTopology(w, c)
        /\ CanRestore(c, Restorable(c))
        /\ Take(w, "read", WithdrawDelta(c, Restorable(c)), {})

\* Relations that keep two members go on without the removed rows
TakeRemove(w) ==
    /\ Asked(w, "remove")
    /\ LET found == OwnersOf(picked[w])
           kept == {c \in found : Cardinality(members[c] \ picked[w]) >= 2}
       IN  Take(w, "read",
                Delta(kept, found \ kept, [c \in kept |-> members[c] \ picked[w]],
                      [c \in kept |-> version[c] + 2]),
                {})

TakeMetadata(w) ==
    /\ Asked(w, "metadata")
    /\ target[w] \subseteq active
    /\ Take(w, "read",
            Delta(target[w], {}, [c \in target[w] |-> members[c]],
                  [c \in target[w] |-> version[c]]),
            {})

\* The closure takes in every row of the relations it found under its first
\* locks and replaces them
TakeClosure(w) ==
    /\ Asked(w, "closure")
    /\ \E c \in target[w] :
        LET found == OwnersOf(picked[w])
            merged == picked[w] \cup UNION {members[d] : d \in found}
        IN  /\ CaseIsUsable(c, picked[w])
            /\ Take(w, "prepared",
                    Delta({c}, found \ {c}, [d \in {c} |-> merged],
                          [d \in {c} |-> IF c \in active THEN version[c] + 2 ELSE 1]),
                    {[case |-> c, rows |-> merged,
                      before |-> {b \in {ImageOf(d) : d \in found} : b.rows # merged}]})

\* The second lock of the closure, on the merged rows and the case; the
\* relations are not loaded again
LockMerged(w) ==
    /\ stage[w] = "prepared"
    /\ \E c \in target[w] :
        LET more == LockKeys(writes[w].rows[c], {c})
        IN  /\ Free(w, more)
            /\ held' = [held EXCEPT ![w] = @ \cup more]
    /\ stage' = [stage EXCEPT ![w] = "read"]
    /\ UNCHANGED <<relations, kind, target, picked, known, wanted, writes, entry>>

-----------------------------------------------------------------------------
(* Saving and leaving.                                                     *)

\* Mutant: locks of the session, which outlive the transaction.
LeaveKeepingLocks(w) ==
    /\ stage' = [stage EXCEPT ![w] = "idle"]
    /\ kind' = [kind EXCEPT ![w] = "none"]
    /\ target' = [target EXCEPT ![w] = {}]
    /\ picked' = [picked EXCEPT ![w] = {}]
    /\ known' = [known EXCEPT ![w] = {}]
    /\ wanted' = [wanted EXCEPT ![w] = {}]
    /\ writes' = [writes EXCEPT ![w] = NoDelta]
    /\ entry' = [entry EXCEPT ![w] = {}]
    /\ UNCHANGED held

Leave(w) ==
    /\ stage' = [stage EXCEPT ![w] = "idle"]
    /\ kind' = [kind EXCEPT ![w] = "none"]
    /\ target' = [target EXCEPT ![w] = {}]
    /\ picked' = [picked EXCEPT ![w] = {}]
    /\ known' = [known EXCEPT ![w] = {}]
    /\ wanted' = [wanted EXCEPT ![w] = {}]
    /\ held' = [held EXCEPT ![w] = {}]
    /\ writes' = [writes EXCEPT ![w] = NoDelta]
    /\ entry' = [entry EXCEPT ![w] = {}]

\* The upsert of the changed cases compares no version: what was read goes
\* over whatever is there
Commit(w) ==
    /\ stage[w] = "read"
    /\ LET d == writes[w]
       IN  /\ active' = (active \ d.off) \cup d.on
           /\ members' = [c \in Cases |->
                             IF c \in d.on \cup d.off THEN d.rows[c] ELSE members[c]]
           /\ version' = [c \in Cases |->
                             IF c \in d.on \cup d.off THEN d.version[c] ELSE version[c]]
    /\ undo' = {e \in undo : \A n \in entry[w] : <<n.case, n.rows>> # <<e.case, e.rows>>}
               \cup entry[w]
    /\ Leave(w)

\* Refusals, lost connections, deadlock victims, errors of the rest of the
\* caller's transaction: everything is rolled back
Abort(w) ==
    /\ stage[w] # "idle"
    /\ Leave(w)
    /\ UNCHANGED relations

Ask(w) ==
    \/ \E c \in Cases :
        \/ AskAssign(w, c)
        \/ AskCancel(w, c)
        \/ AskWithdraw(w, c)
        \/ AskMetadata(w, c)
        \/ \E r \in Rows : AskSupplement(w, c, r)
        \/ \E R \in SUBSET Rows :
            \/ AskConfirm(w, c, R)
            \/ AskPlan(w, c, R)
            \/ AskClosure(w, c, R)
    \/ \E R \in SUBSET Rows : AskRelease(w, R) \/ AskRemove(w, R)

Decide(w) ==
    \/ TakeConfirm(w) \/ TakeSupplement(w) \/ TakeAssign(w) \/ TakePlan(w)
    \/ TakeCancel(w) \/ TakeRelease(w) \/ TakeWithdraw(w)
    \/ TakeRemove(w) \/ TakeMetadata(w) \/ TakeClosure(w)

Next == \E w \in Workers :
            Ask(w) \/ Decide(w) \/ LockMerged(w) \/ Commit(w) \/ Abort(w)

Spec == Init /\ [][Next]_vars

-----------------------------------------------------------------------------
(* Properties.                                                             *)

\* A row belongs to at most one active relation: "active relations own
\* their typed members", and nothing but the locks keeps two commands from
\* giving a row away twice (acquire_relation_member_locks).
ExclusiveOwnership ==
    \A c, d \in active : c # d => members[c] \cap members[d] = {}

\* A relation a person confirmed ends only by a command that had read it as
\* it was: no command cancels, with an old copy, what it has not seen
\* (_save_changed_cases writes whole rows without comparing versions).
EndsWhatItRead ==
    [][\A c \in FreshCases :
          c \in active /\ c \notin active' =>
              \E w \in Workers :
                  /\ stage[w] = "read" /\ stage'[w] = "idle"
                  /\ c \in writes[w].off
                  /\ writes[w].rows[c] = members[c]
                  /\ writes[w].version[c] = version[c] + 1]_vars

\* The version of a relation a person confirmed grows with every change of
\* its rows or its status: the withdrawal preview rests on it
\* (_relation_topology_identity, _withdraw_expected_versions).
VersionsMoveForward ==
    [][\A c \in FreshCases :
          \/ version'[c] > version[c]
          \/ /\ members'[c] = members[c]
             /\ c \in active <=> c \in active']_vars

=============================================================================
