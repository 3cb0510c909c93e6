--------------------------- MODULE MatchingScopes ---------------------------
(***************************************************************************)
(* The matching queue: one row per month in                                *)
(* job.workbench_matching_dirty_scopes, and the workers that claim rows,   *)
(* match the facts of the month and write the outcome back.  A writer that *)
(* changes facts announces the months it touched, most often in its own    *)
(* transaction, sometimes in a second one.  A row that is announced while  *)
(* it is worked on keeps its lease and gets a flag: its outcome sends it   *)
(* back to the queue.                                                      *)
(*                                                                         *)
(* Time is abstract: a row is due at any moment, a lease ends at any       *)
(* moment.  The facts of a month are a version, counted up by every        *)
(* change; so are the rules and settings the worker stamps on a row.       *)
(***************************************************************************)
EXTENDS Naturals, FiniteSets

CONSTANTS
    Months,        \* the scope months that have a row or may get one
    Executors,     \* worker processes of kind workbench-matching
    RunIds,        \* identities of runs, one uuid per run_once
    BatchSize,     \* rows claimed by one run
    MaxAttempts,   \* DEFAULT_RETRY_MAX_ATTEMPTS
    MaxFacts,      \* bound: changes of one month's facts
    MaxVersion,    \* bound: changes of the rules
    MaxFails,      \* bound: failures of one month
    Crashes,       \* bound: lost runs and lost announcements
    Slows,         \* bound: leases that end under a live run
    Retries        \* bound: retries by an operator

ASSUME RunIdsAssumption == RunIds \subseteq Nat \ {0}
ASSUME BoundsAssumption ==
    /\ BatchSize \in Nat \ {0} /\ MaxAttempts \in Nat \ {0}
    /\ MaxFacts \in Nat /\ MaxVersion \in Nat /\ MaxFails \in Nat
    /\ Crashes \in Nat /\ Slows \in Nat /\ Retries \in Nat

VARIABLES
    fact,          \* version of the facts of a month
    version,       \* version of the rules and settings (source_versions)
    owed,          \* months changed and not announced yet (in a writer's memory)
    status, owner, request, leased, attempts, versions, refresh,    \* the row
    pc, batch, cur, run, captured, snap, used,                      \* a worker
    plan,          \* what an operator saw in the retry tool's dry run
    spent,         \* how much of the bounds is used up
    marked,        \* history: version of the facts when last announced
    applied,       \* history: newest version of the facts matched and committed
    ranWith        \* history: newest version of the rules matched with

rowVars  == <<status, owner, request, leased, attempts, versions, refresh>>
execVars == <<pc, batch, cur, run, captured, snap, used>>
histVars == <<marked, applied, ranWith>>
vars == <<fact, version, owed, rowVars, execVars, plan, spent, histVars>>

NoOne   == "nobody"
NoRun   == 0
NoMonth == "none"
NoPlan  == [month |-> NoMonth]
Unset   == 0            \* source_versions = {}

Statuses == {"none", "dirty", "processing", "completed", "retry", "failed"}
Steps    == {"idle", "polled", "swept", "busy", "read", "applied"}
Budgets  == {"crash", "slow", "retry"}
Plans    == [month : Months, status : Statuses, attempts : Nat,
             request : RunIds \cup {NoRun}, versions : Nat, current : BOOLEAN]

Later(a, b) == IF a >= b THEN a ELSE b
Spend(b) == spent' = [spent EXCEPT ![b] = @ + 1]

Init ==
    /\ fact = [m \in Months |-> 0] /\ version = 1 /\ owed = {}
    /\ status = [m \in Months |-> "none"]
    /\ owner = [m \in Months |-> NoOne]
    /\ request = [m \in Months |-> NoRun]
    /\ leased = [m \in Months |-> FALSE]
    /\ attempts = [m \in Months |-> 0]
    /\ versions = [m \in Months |-> Unset]
    /\ refresh = [m \in Months |-> FALSE]
    /\ pc = [w \in Executors |-> "idle"]
    /\ batch = [w \in Executors |-> {}]
    /\ cur = [w \in Executors |-> NoMonth]
    /\ run = [w \in Executors |-> NoRun]
    /\ captured = [w \in Executors |-> Unset]
    /\ snap = [w \in Executors |-> 0]
    /\ used = [w \in Executors |-> Unset]
    /\ plan = NoPlan
    /\ spent = [b \in Budgets |-> 0]
    /\ marked = [m \in Months |-> 0]
    /\ applied = [m \in Months |-> 0]
    /\ ranWith = [m \in Months |-> Unset]

-----------------------------------------------------------------------------
(* Writers. *)

\* Mutant: an announcement during a run leaves no trace on the row.
FlaggedNever(S, m) == refresh[m]

\* refresh_requested_while_processing, after an announcement.
Flagged(S, m) == refresh[m] \/ (m \in S /\ status[m] = "processing")

(* The upsert: a row being worked on keeps its lease and is flagged, any   *)
(* other row is due again.  The given versions are merged into the row's.  *)
Mark(S, v) ==
    LET kept(m) == m \notin S \/ status[m] = "processing" IN
    /\ status' = [m \in Months |-> IF kept(m) THEN status[m] ELSE "dirty"]
    /\ owner'  = [m \in Months |-> IF kept(m) THEN owner[m] ELSE NoOne]
    /\ leased' = [m \in Months |-> IF kept(m) THEN leased[m] ELSE FALSE]
    /\ versions' = [m \in Months |-> IF m \in S /\ v # Unset THEN v ELSE versions[m]]
    /\ refresh' = [m \in Months |-> Flagged(S, m)]
    /\ marked' = [m \in Months |-> IF m \in S THEN fact'[m] ELSE marked[m]]
    /\ UNCHANGED <<request, attempts, applied, ranWith>>

ChangeFacts(S) ==
    /\ S # {} /\ \A m \in S : fact[m] < MaxFacts
    /\ fact' = [m \in Months |-> IF m \in S THEN fact[m] + 1 ELSE fact[m]]

(* Imports, relation commands, OA snapshots, ETC batches: the facts and    *)
(* the announcement are one transaction.  Some give the rules' version.    *)
ChangeAndMark(S) ==
    /\ ChangeFacts(S)
    /\ \E v \in {Unset, version} : Mark(S, v)
    /\ UNCHANGED <<version, owed, execVars, plan, spent>>

(* Commands of the server process that announce after their commit. *)
ChangeFirst(S) ==
    /\ ChangeFacts(S)
    /\ owed' = owed \cup S
    /\ UNCHANGED <<version, rowVars, execVars, plan, spent, histVars>>

MarkLater ==
    /\ owed # {}
    /\ fact' = fact /\ Mark(owed, version)
    /\ owed' = {}
    /\ UNCHANGED <<version, execVars, plan, spent>>

(* The process ends, or the second transaction fails, between the two. *)
LoseMark ==
    /\ owed # {} /\ spent["crash"] < Crashes
    /\ owed' = {} /\ Spend("crash")
    /\ UNCHANGED <<fact, version, rowVars, execVars, plan, histVars>>

ChangeRules ==
    /\ version < MaxVersion /\ version' = version + 1
    /\ UNCHANGED <<fact, owed, rowVars, execVars, plan, spent, histVars>>

-----------------------------------------------------------------------------
(* A worker: run_once. *)

Poll(w) ==
    /\ pc[w] = "idle"
    /\ pc' = [pc EXCEPT ![w] = "polled"]
    /\ captured' = [captured EXCEPT ![w] = version]
    /\ UNCHANGED <<fact, version, owed, rowVars, batch, cur, run, snap, used, plan, spent, histVars>>

(* At most a batch of ended rows that lack the captured versions. *)
Sweep(w) ==
    /\ pc[w] = "polled"
    /\ \E S \in SUBSET {m \in Months : status[m] \in {"completed", "failed"}
                                       /\ versions[m] # captured[w]} :
         /\ Cardinality(S) <= BatchSize
         /\ S = {} => \A m \in Months : status[m] \in {"completed", "failed"}
                                        => versions[m] = captured[w]
         /\ status' = [m \in Months |-> IF m \in S THEN "dirty" ELSE status[m]]
         /\ owner' = [m \in Months |-> IF m \in S THEN NoOne ELSE owner[m]]
         /\ leased' = [m \in Months |-> leased[m] /\ m \notin S]
         /\ versions' = [m \in Months |-> IF m \in S THEN captured[w] ELSE versions[m]]
         /\ refresh' = [m \in Months |-> refresh[m] /\ m \notin S]
    /\ pc' = [pc EXCEPT ![w] = "swept"]
    /\ UNCHANGED <<fact, version, owed, request, attempts, batch, cur, run, captured, snap,
                   used, plan, spent, histVars>>

\* Mutant: rows whose worker died are not claimed again.
ClaimableDue == {m \in Months : status[m] \in {"dirty", "retry"}}

Claimable == {m \in Months : \/ status[m] \in {"dirty", "retry"}
                             \/ status[m] = "processing" /\ ~leased[m]}

(* A uuid is an identity nothing else holds. *)
RunsInUse == {run[w] : w \in Executors} \cup {request[m] : m \in Months}
             \cup (IF plan = NoPlan THEN {} ELSE {plan.request})
FreshRuns == RunIds \ RunsInUse

(* The flag of a row whose lease ended is not touched. *)
Claim(w) ==
    /\ pc[w] = "swept" /\ FreshRuns # {}
    /\ \E S \in SUBSET Claimable :
         LET r == CHOOSE x \in FreshRuns : TRUE IN
         /\ S # {} /\ Cardinality(S) <= BatchSize
         /\ status' = [m \in Months |-> IF m \in S THEN "processing" ELSE status[m]]
         /\ owner' = [m \in Months |-> IF m \in S THEN w ELSE owner[m]]
         /\ request' = [m \in Months |-> IF m \in S THEN r ELSE request[m]]
         /\ leased' = [m \in Months |-> leased[m] \/ m \in S]
         /\ plan' = IF plan # NoPlan /\ plan.month \in S
                    THEN [plan EXCEPT !.current = FALSE] ELSE plan
         /\ batch' = [batch EXCEPT ![w] = S]
         /\ run' = [run EXCEPT ![w] = r]
    /\ pc' = [pc EXCEPT ![w] = "busy"]
    /\ UNCHANGED <<fact, version, owed, attempts, versions, refresh, cur, captured, snap, used,
                   spent, histVars>>

ClaimNothing(w) ==
    /\ pc[w] = "swept" /\ Claimable = {}
    /\ pc' = [pc EXCEPT ![w] = "idle"]
    /\ captured' = [captured EXCEPT ![w] = Unset]
    /\ UNCHANGED <<fact, version, owed, rowVars, batch, cur, run, snap, used, plan,
                   spent, histVars>>

(* The orchestrator reads its versions and loads the batch of facts. *)
Load(w) ==
    /\ pc[w] = "busy"
    /\ \E m \in batch[w] :
         /\ cur' = [cur EXCEPT ![w] = m]
         /\ snap' = [snap EXCEPT ![w] = fact[m]]
    /\ used' = [used EXCEPT ![w] = version]
    /\ pc' = [pc EXCEPT ![w] = "read"]
    /\ UNCHANGED <<fact, version, owed, rowVars, batch, run, captured, plan, spent, histVars>>

(* The unit of work commits the planned relations.  It checks the planned  *)
(* members' versions, not the lease.                                       *)
Apply(w) ==
    /\ pc[w] = "read"
    /\ applied' = [applied EXCEPT ![cur[w]] = Later(@, snap[w])]
    /\ ranWith' = [ranWith EXCEPT ![cur[w]] = Later(@, used[w])]
    /\ pc' = [pc EXCEPT ![w] = "applied"]
    /\ UNCHANGED <<fact, version, owed, rowVars, batch, cur, run, captured, snap, used, plan,
                   spent, marked>>

\* Mutant: complete and fail look at the row's status alone.
HoldsAnyRun(w, m) == status[m] = "processing"

Holds(w, m) == status[m] = "processing" /\ owner[m] = w /\ request[m] = run[w]

Done(w) ==
    LET rest == batch[w] \ {cur[w]} IN
    /\ batch' = [batch EXCEPT ![w] = rest]
    /\ cur' = [cur EXCEPT ![w] = NoMonth]
    /\ pc' = [pc EXCEPT ![w] = IF rest = {} THEN "idle" ELSE "busy"]
    /\ run' = [run EXCEPT ![w] = IF rest = {} THEN NoRun ELSE @]
    /\ captured' = [captured EXCEPT ![w] = IF rest = {} THEN Unset ELSE @]
    /\ snap' = [snap EXCEPT ![w] = 0]
    /\ used' = [used EXCEPT ![w] = Unset]

Drop(w) ==
    /\ batch' = [batch EXCEPT ![w] = {}]
    /\ cur' = [cur EXCEPT ![w] = NoMonth]
    /\ pc' = [pc EXCEPT ![w] = "idle"]
    /\ run' = [run EXCEPT ![w] = NoRun]
    /\ captured' = [captured EXCEPT ![w] = Unset]
    /\ snap' = [snap EXCEPT ![w] = 0]
    /\ used' = [used EXCEPT ![w] = Unset]

\* Mutant: the flag outlives the run.
FreeRowKeepsFlag(m) ==
    /\ owner' = [owner EXCEPT ![m] = NoOne]
    /\ leased' = [leased EXCEPT ![m] = FALSE]
    /\ UNCHANGED refresh

\* Both outcomes give the row back and drop the flag.
FreeRow(m) ==
    /\ owner' = [owner EXCEPT ![m] = NoOne]
    /\ leased' = [leased EXCEPT ![m] = FALSE]
    /\ refresh' = [refresh EXCEPT ![m] = FALSE]

\* Mutant: the stamp is read when the outcome is written.
StampLatest(w) == version

\* The versions read at the start of run_once.
Stamp(w) == captured[w]

(* A flagged row goes back to the queue. *)
Complete(w) ==
    LET m == cur[w] IN
    /\ pc[w] = "applied" /\ Holds(w, m)
    /\ status' = [status EXCEPT ![m] = IF refresh[m] THEN "dirty" ELSE "completed"]
    /\ versions' = [versions EXCEPT ![m] = Stamp(w)]
    /\ FreeRow(m) /\ Done(w)
    /\ UNCHANGED <<fact, version, owed, request, attempts, plan, spent, histVars>>

(* The matching or the write of its outcome raised: one attempt is counted *)
(* and the flag is dropped, since the row is matched again or has failed.  *)
Fail(w) ==
    LET m == cur[w] IN
    /\ pc[w] \in {"read", "applied"} /\ Holds(w, m)
    /\ attempts[m] < MaxFails
    /\ attempts' = [attempts EXCEPT ![m] = @ + 1]
    /\ status' = [status EXCEPT ![m] = IF attempts[m] + 1 >= MaxAttempts THEN "failed" ELSE "retry"]
    /\ FreeRow(m) /\ Done(w)
    /\ UNCHANGED <<fact, version, owed, request, versions, plan, spent, histVars>>

(* complete raises, then fail raises: the run ends and leaves the rest of  *)
(* its batch to the end of their leases.                                   *)
LostLease(w) ==
    /\ pc[w] \in {"read", "applied"} /\ ~Holds(w, cur[w])
    /\ Drop(w)
    /\ UNCHANGED <<fact, version, owed, rowVars, plan, spent, histVars>>

(* The process ends, or run_once raises outside of a scope's try.  No      *)
(* attempt is counted.                                                     *)
Crash(w) ==
    /\ pc[w] # "idle" /\ spent["crash"] < Crashes
    /\ Drop(w) /\ Spend("crash")
    /\ UNCHANGED <<fact, version, owed, rowVars, plan, histVars>>

Held(m) == \E w \in Executors : m \in batch[w] /\ Holds(w, m)

OrphanExpires(m) ==
    /\ leased[m] /\ ~Held(m)
    /\ leased' = [leased EXCEPT ![m] = FALSE]
    /\ UNCHANGED <<fact, version, owed, status, owner, request, attempts, versions, refresh,
                   execVars, plan, spent, histVars>>

(* One lease for the whole batch, and nothing renews it. *)
TooSlow(m) ==
    /\ leased[m] /\ Held(m) /\ spent["slow"] < Slows
    /\ leased' = [leased EXCEPT ![m] = FALSE]
    /\ Spend("slow")
    /\ UNCHANGED <<fact, version, owed, status, owner, request, attempts, versions, refresh,
                   execVars, plan, histVars>>

-----------------------------------------------------------------------------
(* The operator's tool: a dry run, then an execution that compares. *)

Look(m) ==
    /\ status[m] \in {"failed", "completed"} /\ spent["retry"] < Retries
    /\ plan' = [month |-> m, status |-> status[m], attempts |-> attempts[m],
                request |-> request[m], versions |-> versions[m], current |-> TRUE]
    /\ UNCHANGED <<fact, version, owed, rowVars, execVars, spent, histVars>>

\* Mutant: the tool compares what a person sees and not the run.
SeenByStatus(m) == status[m] = plan.status /\ attempts[m] = plan.attempts

SameAsSeen(m) ==
    /\ status[m] = plan.status /\ attempts[m] = plan.attempts
    /\ request[m] = plan.request /\ versions[m] = plan.versions

RetryScope ==
    /\ plan # NoPlan /\ spent["retry"] < Retries
    /\ SameAsSeen(plan.month)
    /\ status' = [status EXCEPT ![plan.month] = "dirty"]
    /\ owner' = [owner EXCEPT ![plan.month] = NoOne]
    /\ leased' = [leased EXCEPT ![plan.month] = FALSE]
    /\ plan' = NoPlan /\ Spend("retry")
    /\ UNCHANGED <<fact, version, owed, request, attempts, versions, refresh, execVars, histVars>>

RetryRefused ==
    /\ plan # NoPlan /\ ~SameAsSeen(plan.month)
    /\ plan' = NoPlan
    /\ UNCHANGED <<fact, version, owed, rowVars, execVars, spent, histVars>>

-----------------------------------------------------------------------------
Next ==
    \/ \E S \in SUBSET Months : ChangeAndMark(S) \/ ChangeFirst(S)
    \/ MarkLater \/ LoseMark \/ ChangeRules
    \/ \E w \in Executors :
         \/ Poll(w) \/ Sweep(w) \/ Claim(w) \/ ClaimNothing(w) \/ Load(w) \/ Apply(w)
         \/ Complete(w) \/ Fail(w) \/ LostLease(w) \/ Crash(w)
    \/ \E m \in Months : OrphanExpires(m) \/ TooSlow(m) \/ Look(m)
    \/ RetryScope \/ RetryRefused

Spec == Init /\ [][Next]_vars

(* A live worker goes on, leases that nobody holds end, and a writer that  *)
(* stays alive announces what it changed.  A failure, a crash, a slow run  *)
(* and an operator owe nothing.                                            *)
Fairness ==
    /\ \A w \in Executors :
         WF_vars(\/ Poll(w) \/ Sweep(w) \/ Claim(w) \/ ClaimNothing(w) \/ Load(w) \/ Apply(w)
                 \/ Complete(w) \/ LostLease(w))
    /\ \A m \in Months : WF_vars(OrphanExpires(m))
    /\ WF_vars(MarkLater \/ LoseMark)

FairSpec == Spec /\ Fairness

-----------------------------------------------------------------------------
TypeOK ==
    /\ fact \in [Months -> Nat] /\ version \in Nat \ {0} /\ owed \subseteq Months
    /\ status \in [Months -> Statuses]
    /\ owner \in [Months -> Executors \cup {NoOne}]
    /\ request \in [Months -> RunIds \cup {NoRun}]
    /\ leased \in [Months -> BOOLEAN]
    /\ attempts \in [Months -> Nat]
    /\ versions \in [Months -> Nat]
    /\ refresh \in [Months -> BOOLEAN]
    /\ pc \in [Executors -> Steps]
    /\ batch \in [Executors -> SUBSET Months]
    /\ \A w \in Executors : /\ pc[w] \in {"read", "applied"} => cur[w] \in batch[w]
                            /\ pc[w] \in {"busy", "read", "applied"} <=> run[w] # NoRun
    /\ cur \in [Executors -> Months \cup {NoMonth}]
    /\ run \in [Executors -> RunIds \cup {NoRun}]
    /\ captured \in [Executors -> Nat] /\ snap \in [Executors -> Nat] /\ used \in [Executors -> Nat]
    /\ plan \in Plans \cup {NoPlan}
    /\ spent \in [Budgets -> Nat]
    /\ marked \in [Months -> Nat] /\ applied \in [Months -> Nat] /\ ranWith \in [Months -> Nat]

(* A completed month was matched, and the outcome committed, on facts that *)
(* contain every change announced for it, whatever was announced during    *)
(* the run and whoever else ran the month: the flag, the fence of complete *)
(* and the flag's survival of a second claim together.                     *)
CompletedIsFresh == \A m \in Months : status[m] = "completed" => applied[m] >= marked[m]

(* The versions stamped on a completed month are never newer than the      *)
(* rules it was matched with: a change of the rules during a run cannot be *)
(* hidden from the sweep by the stamp.                                     *)
StampIsHonest == \A m \in Months : status[m] = "completed" => versions[m] <= ranWith[m]

(* A lease and the flag belong to a row that is being worked on: no row    *)
(* leaves processing with a flag that a later outcome would take for a new *)
(* announcement.                                                           *)
FlagIsForThisRun == \A m \in Months : refresh[m] \/ leased[m] => status[m] = "processing"

(* An operator's retry acts on the very ending the dry run showed: a month *)
(* that ran again in between is refused, also when it ended the same way.  *)
RetryIsForTheEndingSeen ==
    [][spent'["retry"] > spent["retry"] => plan.current]_vars

(* Every month comes to rest, completed under the last rules or failed,    *)
(* and every announcement a live writer owed is made.                      *)
ScopesComeToRest ==
    <>[](/\ owed = {}
         /\ \A m \in Months : \/ status[m] \in {"none", "failed"}
                              \/ status[m] = "completed" /\ versions[m] = version)
=============================================================================
