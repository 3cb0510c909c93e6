------------------------ MODULE MatchingScopesProofs ------------------------
(***************************************************************************)
(* Proofs about the matching queue: types first, then the invariant that   *)
(* ties what a run has read to what was announced for its month.           *)
(***************************************************************************)
EXTENDS MatchingScopes, TLAPS

\* A month that is being matched, by the run that holds it.
Matching(w) == pc[w] \in {"read", "applied"}

\* What a holding run has not read was announced during the run and left the
\* flag.
UnreadIsFlagged ==
    \A w \in Executors :
        Matching(w) /\ Holds(w, cur[w]) => snap[w] >= marked[cur[w]] \/ refresh[cur[w]]

\* A run that is about to write its outcome has committed what it read.
CommittedAsRead ==
    \A w \in Executors :
        pc[w] = "applied" => applied[cur[w]] >= snap[w] /\ ranWith[cur[w]] >= used[w]

\* Announcements are of facts that exist; versions are captured before use.
Causes ==
    /\ \A m \in Months : marked[m] <= fact[m]
    /\ \A w \in Executors : captured[w] <= version
    /\ \A w \in Executors : Matching(w) => captured[w] <= used[w]

\* A dry run that is out of date names a run the row no longer carries.
OldPlansDiffer ==
    plan # NoPlan =>
        /\ plan.status \in {"failed", "completed"}
        /\ ~plan.current => request[plan.month] # plan.request

Inductive ==
    /\ UnreadIsFlagged /\ CommittedAsRead /\ Causes /\ OldPlansDiffer
    /\ FlagIsForThisRun /\ CompletedIsFresh /\ StampIsHonest

-----------------------------------------------------------------------------
LEMMA LaterIsLater ==
    ASSUME NEW a \in Nat, NEW b \in Nat
    PROVE  Later(a, b) \in Nat /\ Later(a, b) >= a /\ Later(a, b) >= b
BY DEF Later

LEMMA RunIdsArePositive == RunIds \subseteq Nat /\ NoRun \notin RunIds
BY RunIdsAssumption DEF NoRun

LEMMA PlanHasMonth ==
    ASSUME plan \in Plans \cup {NoPlan}, plan # NoPlan
    PROVE  /\ plan \in Plans /\ plan.month \in Months /\ plan.current \in BOOLEAN
           /\ plan.request \in RunIds \cup {NoRun}
BY DEF Plans

LEMMA InitTyped == Init => TypeOK
BY DEF Init, TypeOK, Statuses, Steps, Budgets, Plans, NoPlan, NoRun, Unset

LEMMA SpendTyped ==
    ASSUME TypeOK, NEW b \in Budgets, Spend(b)
    PROVE  spent' \in [Budgets -> Nat]
BY DEF TypeOK, Spend

LEMMA MarkTyped ==
    ASSUME TypeOK, NEW S \in SUBSET Months, NEW v \in Nat, fact' \in [Months -> Nat], Mark(S, v)
    PROVE  /\ status' \in [Months -> Statuses]
           /\ owner' \in [Months -> Executors \cup {NoOne}]
           /\ request' \in [Months -> RunIds \cup {NoRun}]
           /\ leased' \in [Months -> BOOLEAN]
           /\ attempts' \in [Months -> Nat]
           /\ versions' \in [Months -> Nat]
           /\ refresh' \in [Months -> BOOLEAN]
           /\ marked' \in [Months -> Nat]
           /\ applied' \in [Months -> Nat] /\ ranWith' \in [Months -> Nat]
<1>1. status' \in [Months -> Statuses]
  BY DEF TypeOK, Mark, Statuses
<1>2. owner' \in [Months -> Executors \cup {NoOne}]
  BY DEF TypeOK, Mark
<1>3. leased' \in [Months -> BOOLEAN]
  BY DEF TypeOK, Mark
<1>4. versions' \in [Months -> Nat]
  BY DEF TypeOK, Mark
<1>5. refresh' \in [Months -> BOOLEAN]
  BY DEF TypeOK, Mark, Flagged
<1>6. marked' \in [Months -> Nat]
  BY DEF TypeOK, Mark
<1>7. QED
  BY <1>1, <1>2, <1>3, <1>4, <1>5, <1>6 DEF TypeOK, Mark

\* What the end of a month, or of a run, leaves of an executor.
ExecTyped ==
    /\ pc \in [Executors -> Steps]
    /\ batch \in [Executors -> SUBSET Months]
    /\ \A w \in Executors : /\ pc[w] \in {"read", "applied"} => cur[w] \in batch[w]
                            /\ pc[w] \in {"busy", "read", "applied"} <=> run[w] # NoRun
    /\ cur \in [Executors -> Months \cup {NoMonth}]
    /\ run \in [Executors -> RunIds \cup {NoRun}]
    /\ captured \in [Executors -> Nat] /\ snap \in [Executors -> Nat] /\ used \in [Executors -> Nat]

LEMMA DoneTyped ==
    ASSUME TypeOK, NEW w \in Executors, pc[w] \in {"read", "applied"}, Done(w)
    PROVE  ExecTyped'
BY RunIdsArePositive DEF TypeOK, ExecTyped, Done, Steps, Unset

LEMMA DropTyped ==
    ASSUME TypeOK, NEW w \in Executors, Drop(w)
    PROVE  ExecTyped'
BY RunIdsArePositive DEF TypeOK, ExecTyped, Drop, Steps, Unset

LEMMA WritersTyped ==
    ASSUME TypeOK,
           \/ \E S \in SUBSET Months : ChangeAndMark(S) \/ ChangeFirst(S)
           \/ MarkLater \/ LoseMark \/ ChangeRules
    PROVE  TypeOK'
<1>1. ASSUME NEW S \in SUBSET Months, ChangeAndMark(S) PROVE TypeOK'
  <2>1. fact' \in [Months -> Nat]
    BY <1>1 DEF TypeOK, ChangeAndMark, ChangeFacts
  <2>2. PICK v \in {Unset, version} : Mark(S, v)
    BY <1>1 DEF ChangeAndMark
  <2>3. v \in Nat
    BY <2>2 DEF TypeOK, Unset
  <2>4. QED
    BY <1>1, <2>1, <2>2, <2>3, MarkTyped DEF TypeOK, ChangeAndMark, execVars
<1>2. ASSUME NEW S \in SUBSET Months, ChangeFirst(S) PROVE TypeOK'
  BY <1>2 DEF TypeOK, ChangeFirst, ChangeFacts, rowVars, execVars, histVars
<1>3. CASE MarkLater
  <2>1. fact' \in [Months -> Nat] /\ owed \in SUBSET Months /\ version \in Nat /\ Mark(owed, version)
    BY <1>3 DEF TypeOK, MarkLater
  <2>2. QED
    BY <1>3, <2>1, MarkTyped DEF TypeOK, MarkLater, execVars
<1>4. CASE LoseMark
  BY <1>4, SpendTyped DEF TypeOK, LoseMark, rowVars, execVars, histVars, Budgets
<1>5. CASE ChangeRules
  BY <1>5 DEF TypeOK, ChangeRules, rowVars, execVars, histVars
<1>6. QED
  BY <1>1, <1>2, <1>3, <1>4, <1>5

\* What a claim takes, and the identity it takes it under.
ClaimAs(w, S, r) ==
    /\ S # {} /\ S \subseteq Claimable
    /\ status' = [m \in Months |-> IF m \in S THEN "processing" ELSE status[m]]
    /\ owner' = [m \in Months |-> IF m \in S THEN w ELSE owner[m]]
    /\ request' = [m \in Months |-> IF m \in S THEN r ELSE request[m]]
    /\ leased' = [m \in Months |-> leased[m] \/ m \in S]
    /\ plan' = IF plan # NoPlan /\ plan.month \in S
               THEN [plan EXCEPT !.current = FALSE] ELSE plan
    /\ batch' = [batch EXCEPT ![w] = S]
    /\ run' = [run EXCEPT ![w] = r]

LEMMA ClaimTakes ==
    ASSUME NEW w \in Executors, Claim(w)
    PROVE  \E S \in SUBSET Months, r \in FreshRuns : ClaimAs(w, S, r)
<1> DEFINE r == CHOOSE x \in FreshRuns : TRUE
<1>1. r \in FreshRuns
  BY DEF Claim
<1>2. PICK S \in SUBSET Claimable : ClaimAs(w, S, r)
  BY DEF Claim, ClaimAs
<1>3. S \in SUBSET Months
  BY DEF Claimable
<1>4. QED
  <2> HIDE DEF r
  <2> QED BY <1>1, <1>2, <1>3

LEMMA WorkerTyped ==
    ASSUME TypeOK, NEW w \in Executors,
           \/ Poll(w) \/ Sweep(w) \/ Claim(w) \/ ClaimNothing(w) \/ Load(w) \/ Apply(w)
           \/ Complete(w) \/ Fail(w) \/ LostLease(w) \/ Crash(w)
    PROVE  TypeOK'
<1>1. CASE Poll(w)
  BY <1>1 DEF TypeOK, Poll, rowVars, histVars, Steps
<1>2. CASE Sweep(w)
  <2>1. PICK S \in SUBSET Months :
          /\ status' = [m \in Months |-> IF m \in S THEN "dirty" ELSE status[m]]
          /\ owner' = [m \in Months |-> IF m \in S THEN NoOne ELSE owner[m]]
          /\ leased' = [m \in Months |-> leased[m] /\ m \notin S]
          /\ versions' = [m \in Months |-> IF m \in S THEN captured[w] ELSE versions[m]]
          /\ refresh' = [m \in Months |-> refresh[m] /\ m \notin S]
    BY <1>2 DEF Sweep
  <2>2. status' \in [Months -> Statuses]
    BY <2>1 DEF TypeOK, Statuses
  <2>3. /\ owner' \in [Months -> Executors \cup {NoOne}]
        /\ leased' \in [Months -> BOOLEAN]
        /\ versions' \in [Months -> Nat]
        /\ refresh' \in [Months -> BOOLEAN]
    BY <2>1 DEF TypeOK
  <2>4. pc' = [pc EXCEPT ![w] = "swept"] /\ pc[w] = "polled"
    BY <1>2 DEF Sweep
  <2>5. QED
    BY <1>2, <2>2, <2>3, <2>4 DEF TypeOK, Sweep, histVars, Steps
<1>3. CASE Claim(w)
  <2>1. PICK S \in SUBSET Months, r \in FreshRuns : ClaimAs(w, S, r)
    BY <1>3, ClaimTakes
  <2>2. status' \in [Months -> Statuses]
    BY <2>1 DEF TypeOK, Statuses, ClaimAs
  <2>3. /\ owner' \in [Months -> Executors \cup {NoOne}]
        /\ request' \in [Months -> RunIds \cup {NoRun}]
        /\ leased' \in [Months -> BOOLEAN]
    BY <2>1 DEF TypeOK, ClaimAs, FreshRuns
  <2>4. plan' \in Plans \cup {NoPlan}
    <3>1. CASE plan # NoPlan /\ plan.month \in S
      BY <2>1, <3>1, PlanHasMonth DEF TypeOK, Plans, ClaimAs
    <3>2. QED
      BY <2>1, <3>1 DEF TypeOK, ClaimAs
  <2>5. /\ pc' = [pc EXCEPT ![w] = "busy"] /\ pc[w] = "swept"
        /\ batch' = [batch EXCEPT ![w] = S] /\ run' = [run EXCEPT ![w] = r]
        /\ r \in RunIds /\ cur' = cur /\ captured' = captured /\ snap' = snap /\ used' = used
    BY <1>3, <2>1 DEF Claim, ClaimAs, FreshRuns
  <2>6. ExecTyped'
    BY <2>5, RunIdsArePositive DEF TypeOK, ExecTyped, Steps
  <2>7. QED
    BY <1>3, <2>2, <2>3, <2>4, <2>6 DEF TypeOK, ExecTyped, Claim, histVars
<1>4. CASE ClaimNothing(w)
  BY <1>4 DEF TypeOK, ClaimNothing, rowVars, histVars, Steps, Unset
<1>5. CASE Load(w)
  <2>1. PICK m \in batch[w] : /\ cur' = [cur EXCEPT ![w] = m]
                              /\ snap' = [snap EXCEPT ![w] = fact[m]]
    BY <1>5 DEF Load
  <2>2. m \in Months /\ fact[m] \in Nat
    BY <2>1 DEF TypeOK
  <2>3. QED
    BY <1>5, <2>1, <2>2 DEF TypeOK, Load, rowVars, histVars, Steps
<1>6. CASE Apply(w)
  <2>1. cur[w] \in Months
    BY <1>6 DEF TypeOK, Apply
  <2>2. applied' \in [Months -> Nat] /\ ranWith' \in [Months -> Nat]
    BY <1>6, <2>1, LaterIsLater DEF TypeOK, Apply
  <2>3. QED
    BY <1>6, <2>2 DEF TypeOK, Apply, rowVars, Steps
<1>7. CASE Complete(w)
  <2>1. cur[w] \in Months /\ ExecTyped'
    BY <1>7, DoneTyped DEF TypeOK, Complete
  <2>2. /\ status' \in [Months -> Statuses]
        /\ versions' \in [Months -> Nat]
        /\ owner' \in [Months -> Executors \cup {NoOne}]
        /\ leased' \in [Months -> BOOLEAN] /\ refresh' \in [Months -> BOOLEAN]
    BY <1>7, <2>1 DEF TypeOK, Complete, FreeRow, Stamp, Statuses
  <2>3. QED
    BY <1>7, <2>1, <2>2 DEF TypeOK, ExecTyped, Complete, histVars
<1>8. CASE Fail(w)
  <2>1. cur[w] \in Months /\ ExecTyped'
    BY <1>8, DoneTyped DEF TypeOK, Fail
  <2>2. /\ status' \in [Months -> Statuses]
        /\ attempts' \in [Months -> Nat]
        /\ owner' \in [Months -> Executors \cup {NoOne}]
        /\ leased' \in [Months -> BOOLEAN] /\ refresh' \in [Months -> BOOLEAN]
    BY <1>8, <2>1 DEF TypeOK, Fail, FreeRow, Statuses
  <2>3. QED
    BY <1>8, <2>1, <2>2 DEF TypeOK, ExecTyped, Fail, histVars
<1>9. CASE LostLease(w)
  <2>1. ExecTyped'
    BY <1>9, DropTyped DEF LostLease
  <2>2. QED
    BY <1>9, <2>1 DEF TypeOK, ExecTyped, LostLease, rowVars, histVars
<1>10. CASE Crash(w)
  <2>1. ExecTyped' /\ spent' \in [Budgets -> Nat]
    BY <1>10, DropTyped, SpendTyped DEF Crash, Budgets
  <2>2. QED
    BY <1>10, <2>1 DEF TypeOK, ExecTyped, Crash, rowVars, histVars
<1>11. QED
  BY <1>1, <1>2, <1>3, <1>4, <1>5, <1>6, <1>7, <1>8, <1>9, <1>10

LEMMA RowsTyped ==
    ASSUME TypeOK, NEW m \in Months, OrphanExpires(m) \/ TooSlow(m) \/ Look(m)
    PROVE  TypeOK'
<1>1. CASE OrphanExpires(m)
  BY <1>1 DEF TypeOK, OrphanExpires, execVars, histVars
<1>2. CASE TooSlow(m)
  BY <1>2, SpendTyped DEF TypeOK, TooSlow, execVars, histVars, Budgets
<1>3. CASE Look(m)
  <2>1. plan' \in Plans
    BY <1>3 DEF Look, TypeOK, Plans
  <2>2. QED
    BY <1>3, <2>1 DEF TypeOK, Look, rowVars, execVars, histVars
<1>4. QED
  BY <1>1, <1>2, <1>3

LEMMA OperatorTyped ==
    ASSUME TypeOK, RetryScope \/ RetryRefused
    PROVE  TypeOK'
<1>1. CASE RetryScope
  <2>1. plan.month \in Months
    BY <1>1, PlanHasMonth DEF RetryScope, TypeOK
  <2>2. /\ status' \in [Months -> Statuses]
        /\ owner' \in [Months -> Executors \cup {NoOne}]
        /\ leased' \in [Months -> BOOLEAN]
        /\ spent' \in [Budgets -> Nat]
    BY <1>1, <2>1, SpendTyped DEF TypeOK, RetryScope, Statuses, Budgets
  <2>3. QED
    BY <1>1, <2>2 DEF TypeOK, RetryScope, execVars, histVars
<1>2. CASE RetryRefused
  BY <1>2 DEF TypeOK, RetryRefused, rowVars, execVars, histVars
<1>3. QED
  BY <1>1, <1>2

LEMMA StepTyped == TypeOK /\ [Next]_vars => TypeOK'
<1>1. CASE UNCHANGED vars
  BY <1>1 DEF TypeOK, vars, rowVars, execVars, histVars
<1>2. QED
  BY <1>1, WritersTyped, WorkerTyped, RowsTyped, OperatorTyped DEF Next

\* Rows, runs and plans keep their shape.
THEOREM TypeCorrect == Spec => []TypeOK
BY InitTyped, StepTyped, PTL DEF Spec

-----------------------------------------------------------------------------
LEMMA InitInductive == Init => Inductive
BY DEF Init, Inductive, UnreadIsFlagged, CommittedAsRead, Causes, OldPlansDiffer, Matching,
   FlagIsForThisRun, CompletedIsFresh, StampIsHonest, Unset

\* The steps that leave the rows, the facts' announcements and the runs alone.
LEMMA NothingMoves ==
    ASSUME TypeOK, Inductive, UNCHANGED <<rowVars, execVars, histVars, plan>>, TypeOK',
           \A m \in Months : fact[m] <= fact'[m], version <= version'
    PROVE  Inductive'
<1>1. Causes'
  BY DEF rowVars, execVars, histVars, TypeOK, Inductive, Causes, Matching
<1>2. /\ UnreadIsFlagged' /\ CommittedAsRead' /\ OldPlansDiffer'
      /\ FlagIsForThisRun' /\ CompletedIsFresh' /\ StampIsHonest'
  BY DEF rowVars, execVars, histVars, Inductive, Matching, Holds,
     UnreadIsFlagged, CommittedAsRead, OldPlansDiffer,
     FlagIsForThisRun, CompletedIsFresh, StampIsHonest
<1>3. QED
  BY <1>1, <1>2 DEF Inductive

LEMMA MarkStep ==
    ASSUME TypeOK, Inductive, TypeOK', NEW S \in SUBSET Months, NEW v, Mark(S, v),
           UNCHANGED <<execVars, version, plan>>, \A m \in Months : fact[m] <= fact'[m]
    PROVE  Inductive'
<1> USE DEF TypeOK, Inductive, Mark
<1>1. UnreadIsFlagged'
  <2> SUFFICES ASSUME NEW w \in Executors, Matching(w)', Holds(w, cur[w])'
               PROVE  snap'[w] >= marked'[cur'[w]] \/ refresh'[cur'[w]]
    BY DEF UnreadIsFlagged
  <2>1. cur[w] \in Months /\ Matching(w) /\ cur' = cur /\ snap' = snap /\ run' = run
    BY DEF Matching, execVars
  <2>2. status'[cur[w]] = "processing" /\ owner'[cur[w]] = w
    BY <2>1 DEF Holds
  <2>3. status[cur[w]] = "processing" /\ owner[cur[w]] = w /\ request[cur[w]] = run[w]
    BY <2>1, <2>2 DEF Holds
  <2>4. snap[w] >= marked[cur[w]] \/ refresh[cur[w]]
    BY <2>1, <2>3 DEF UnreadIsFlagged, Holds
  <2>5. QED
    BY <2>1, <2>3, <2>4 DEF Flagged
<1>2. CommittedAsRead'
  BY DEF CommittedAsRead, execVars
<1>3. Causes'
  BY DEF Causes, Matching, execVars
<1>4. OldPlansDiffer'
  BY DEF OldPlansDiffer
<1>5. FlagIsForThisRun'
  BY DEF FlagIsForThisRun, Flagged
<1>6. CompletedIsFresh'
  BY DEF CompletedIsFresh
<1>7. StampIsHonest'
  BY DEF StampIsHonest
<1>8. QED
  BY <1>1, <1>2, <1>3, <1>4, <1>5, <1>6, <1>7

LEMMA WritersStep ==
    ASSUME TypeOK, Inductive, TypeOK',
           \/ \E S \in SUBSET Months : ChangeAndMark(S) \/ ChangeFirst(S)
           \/ MarkLater \/ LoseMark \/ ChangeRules
    PROVE  Inductive'
<1>1. ASSUME NEW S \in SUBSET Months, ChangeAndMark(S) PROVE Inductive'
  <2>1. PICK v \in {Unset, version} : Mark(S, v)
    BY <1>1 DEF ChangeAndMark
  <2>2. \A m \in Months : fact[m] <= fact'[m]
    BY <1>1 DEF ChangeAndMark, ChangeFacts, TypeOK
  <2>3. QED
    BY <1>1, <2>1, <2>2, MarkStep DEF ChangeAndMark
<1>2. ASSUME NEW S \in SUBSET Months, ChangeFirst(S) PROVE Inductive'
  <2>1. \A m \in Months : fact[m] <= fact'[m]
    BY <1>2 DEF ChangeFirst, ChangeFacts, TypeOK
  <2>2. version <= version'
    BY <1>2 DEF ChangeFirst, TypeOK
  <2>3. QED
    BY <1>2, <2>1, <2>2, NothingMoves DEF ChangeFirst
<1>3. CASE MarkLater
  <2>1. owed \in SUBSET Months /\ Mark(owed, version)
    BY <1>3 DEF MarkLater, TypeOK
  <2>2. \A m \in Months : fact[m] <= fact'[m]
    BY <1>3 DEF MarkLater, TypeOK
  <2>3. QED
    BY <1>3, <2>1, <2>2, MarkStep DEF MarkLater
<1>4. CASE LoseMark
  BY <1>4, NothingMoves DEF LoseMark, TypeOK
<1>5. CASE ChangeRules
  BY <1>5, NothingMoves DEF ChangeRules, TypeOK
<1>6. QED
  BY <1>1, <1>2, <1>3, <1>4, <1>5

\* Polling and looking for rows.
LEMMA PollStep ==
    ASSUME TypeOK, Inductive, TypeOK', NEW w \in Executors, Poll(w) \/ ClaimNothing(w)
    PROVE  Inductive'
<1> USE DEF TypeOK, Inductive, Poll, ClaimNothing, rowVars, histVars
<1>1. UnreadIsFlagged' /\ CommittedAsRead'
  BY DEF UnreadIsFlagged, CommittedAsRead, Matching, Holds
<1>2. Causes'
  <2>1. /\ UNCHANGED <<fact, version, marked, used>>
        /\ pc'[w] \in {"idle", "polled"} /\ captured'[w] <= version
        /\ \A v \in Executors \ {w} : pc'[v] = pc[v] /\ captured'[v] = captured[v]
    BY DEF Unset
  <2>2. QED
    BY <2>1 DEF Causes, Matching
<1>3. OldPlansDiffer' /\ FlagIsForThisRun' /\ CompletedIsFresh' /\ StampIsHonest'
  BY DEF OldPlansDiffer, FlagIsForThisRun, CompletedIsFresh, StampIsHonest
<1>4. QED
  BY <1>1, <1>2, <1>3

LEMMA SweepStep ==
    ASSUME TypeOK, Inductive, TypeOK', NEW w \in Executors, Sweep(w)
    PROVE  Inductive'
<1>1. PICK S \in SUBSET {m \in Months : status[m] \in {"completed", "failed"}
                                         /\ versions[m] # captured[w]} :
          /\ status' = [m \in Months |-> IF m \in S THEN "dirty" ELSE status[m]]
          /\ owner' = [m \in Months |-> IF m \in S THEN NoOne ELSE owner[m]]
          /\ leased' = [m \in Months |-> leased[m] /\ m \notin S]
          /\ versions' = [m \in Months |-> IF m \in S THEN captured[w] ELSE versions[m]]
          /\ refresh' = [m \in Months |-> refresh[m] /\ m \notin S]
  BY DEF Sweep
<1> USE DEF TypeOK, Inductive
<1>2. /\ pc[w] = "polled" /\ pc' = [pc EXCEPT ![w] = "swept"]
      /\ UNCHANGED <<fact, version, request, batch, cur, run, captured, snap, used, plan>>
      /\ UNCHANGED histVars
  BY DEF Sweep
<1>3. UnreadIsFlagged'
  BY <1>1, <1>2 DEF UnreadIsFlagged, Matching, Holds, histVars
<1>4. CommittedAsRead' /\ Causes'
  BY <1>2 DEF CommittedAsRead, Causes, Matching, histVars
<1>5. OldPlansDiffer'
  BY <1>2 DEF OldPlansDiffer
<1>6. FlagIsForThisRun' /\ CompletedIsFresh' /\ StampIsHonest'
  BY <1>1, <1>2 DEF FlagIsForThisRun, CompletedIsFresh, StampIsHonest, histVars
<1>7. QED
  BY <1>3, <1>4, <1>5, <1>6

LEMMA ClaimStep ==
    ASSUME TypeOK, Inductive, TypeOK', NEW w \in Executors, Claim(w)
    PROVE  Inductive'
<1> USE DEF TypeOK, Inductive
<1>1. PICK S \in SUBSET Months, r \in FreshRuns : ClaimAs(w, S, r)
  BY ClaimTakes
<1>2. /\ pc[w] = "swept" /\ pc' = [pc EXCEPT ![w] = "busy"]
      /\ UNCHANGED <<fact, version, refresh, versions, cur, captured, snap, used>>
      /\ UNCHANGED histVars
  BY DEF Claim
<1>3. UnreadIsFlagged'
  <2> SUFFICES ASSUME NEW v \in Executors, Matching(v)', Holds(v, cur[v])'
               PROVE  snap[v] >= marked[cur[v]] \/ refresh[cur[v]]
    BY <1>2 DEF UnreadIsFlagged, Matching, Holds, histVars
  <2>1. v # w /\ Matching(v) /\ cur[v] \in Months
    BY <1>2 DEF Matching
  <2>2. cur[v] \notin S /\ run'[v] = run[v]
    BY <1>1, <1>2, <2>1 DEF ClaimAs, Holds
  <2>3. Holds(v, cur[v])
    BY <1>1, <1>2, <2>1, <2>2 DEF ClaimAs, Holds
  <2>4. QED
    BY <2>1, <2>3 DEF UnreadIsFlagged
<1>4. CommittedAsRead' /\ Causes'
  BY <1>2 DEF CommittedAsRead, Causes, Matching, histVars
<1>5. OldPlansDiffer'
  <2>1. CASE plan = NoPlan
    BY <1>1, <2>1 DEF OldPlansDiffer, ClaimAs
  <2>2. CASE plan # NoPlan
    <3>1. r # plan.request
      BY <1>1, <2>2 DEF FreshRuns, RunsInUse
    <3>2. plan \in Plans /\ plan.month \in Months
      BY <2>2, PlanHasMonth
    <3>3. /\ plan'.status = plan.status /\ plan'.month = plan.month /\ plan'.request = plan.request
          /\ plan.month \notin S => plan' = plan
      BY <1>1, <3>2 DEF ClaimAs, Plans
    <3>4. plan.month \in S => request'[plan.month] = r
      BY <1>1, <3>2 DEF ClaimAs
    <3>5. plan.month \notin S => request'[plan.month] = request[plan.month]
      BY <1>1, <3>2 DEF ClaimAs
    <3>6. QED
      BY <2>2, <3>1, <3>2, <3>3, <3>4, <3>5 DEF OldPlansDiffer
  <2>3. QED
    BY <2>1, <2>2
<1>6. FlagIsForThisRun' /\ CompletedIsFresh' /\ StampIsHonest'
  BY <1>1, <1>2 DEF ClaimAs, FlagIsForThisRun, CompletedIsFresh, StampIsHonest, histVars
<1>7. QED
  BY <1>3, <1>4, <1>5, <1>6

LEMMA LoadStep ==
    ASSUME TypeOK, Inductive, TypeOK', NEW w \in Executors, Load(w)
    PROVE  Inductive'
<1> USE DEF TypeOK, Inductive
<1>1. PICK m \in batch[w] : /\ cur' = [cur EXCEPT ![w] = m]
                            /\ snap' = [snap EXCEPT ![w] = fact[m]]
  BY DEF Load
<1>2. m \in Months /\ fact[m] >= marked[m]
  BY <1>1 DEF Causes
<1>3. /\ pc[w] = "busy" /\ pc' = [pc EXCEPT ![w] = "read"] /\ used' = [used EXCEPT ![w] = version]
      /\ UNCHANGED <<fact, version, run, captured, plan>> /\ UNCHANGED rowVars /\ UNCHANGED histVars
  BY DEF Load
<1>4. UnreadIsFlagged'
  <2> SUFFICES ASSUME NEW v \in Executors, Matching(v)', Holds(v, cur[v])'
               PROVE  snap'[v] >= marked[cur'[v]] \/ refresh[cur'[v]]
    BY <1>3 DEF UnreadIsFlagged, histVars, rowVars
  <2>1. CASE v = w
    BY <1>1, <1>2, <2>1
  <2>2. CASE v # w
    BY <1>1, <1>3, <2>2 DEF UnreadIsFlagged, Matching, Holds, rowVars
  <2>3. QED
    BY <2>1, <2>2
<1>5. CommittedAsRead'
  BY <1>1, <1>3 DEF CommittedAsRead, histVars
<1>6. Causes'
  BY <1>1, <1>3 DEF Causes, Matching, histVars
<1>7. OldPlansDiffer' /\ FlagIsForThisRun' /\ CompletedIsFresh' /\ StampIsHonest'
  BY <1>3 DEF OldPlansDiffer, FlagIsForThisRun, CompletedIsFresh, StampIsHonest, rowVars, histVars
<1>8. QED
  BY <1>4, <1>5, <1>6, <1>7

LEMMA ApplyStep ==
    ASSUME TypeOK, Inductive, TypeOK', NEW w \in Executors, Apply(w)
    PROVE  Inductive'
<1> USE DEF TypeOK, Inductive
<1>1. /\ pc[w] = "read" /\ pc' = [pc EXCEPT ![w] = "applied"] /\ marked' = marked
      /\ UNCHANGED <<fact, version, cur, run, captured, snap, used, plan>> /\ UNCHANGED rowVars
  BY DEF Apply
<1>2. cur[w] \in Months
  BY <1>1
<1>3. /\ applied'[cur[w]] >= snap[w] /\ ranWith'[cur[w]] >= used[w]
      /\ \A m \in Months : applied'[m] >= applied[m] /\ ranWith'[m] >= ranWith[m]
  <2>1. /\ applied' = [applied EXCEPT ![cur[w]] = Later(applied[cur[w]], snap[w])]
        /\ ranWith' = [ranWith EXCEPT ![cur[w]] = Later(ranWith[cur[w]], used[w])]
    BY DEF Apply
  <2>2. /\ Later(applied[cur[w]], snap[w]) >= applied[cur[w]]
        /\ Later(applied[cur[w]], snap[w]) >= snap[w]
        /\ Later(ranWith[cur[w]], used[w]) >= ranWith[cur[w]]
        /\ Later(ranWith[cur[w]], used[w]) >= used[w]
    BY <1>2, LaterIsLater
  <2>3. QED
    BY <1>2, <2>1, <2>2
<1>4. UnreadIsFlagged'
  BY <1>1 DEF UnreadIsFlagged, Matching, Holds, rowVars
<1>5. CommittedAsRead'
  <2> SUFFICES ASSUME NEW v \in Executors, pc'[v] = "applied"
               PROVE  applied'[cur[v]] >= snap[v] /\ ranWith'[cur[v]] >= used[v]
    BY <1>1 DEF CommittedAsRead
  <2>1. CASE v = w
    BY <1>3, <2>1
  <2>2. CASE v # w
    <3>1. pc[v] = "applied" /\ cur[v] \in Months
      BY <1>1, <2>2
    <3>2. applied[cur[v]] >= snap[v] /\ ranWith[cur[v]] >= used[v]
      BY <3>1 DEF CommittedAsRead
    <3>3. QED
      BY <1>3, <3>1, <3>2
  <2>3. QED
    BY <2>1, <2>2
<1>6. Causes' /\ OldPlansDiffer' /\ FlagIsForThisRun'
  BY <1>1 DEF Causes, OldPlansDiffer, FlagIsForThisRun, Matching, rowVars
<1>7. CompletedIsFresh' /\ StampIsHonest'
  BY <1>1, <1>3 DEF CompletedIsFresh, StampIsHonest, rowVars
<1>8. QED
  BY <1>4, <1>5, <1>6, <1>7

\* An executor that is done with a month, or with all of them, is matching
\* none; the others go on.
LEMMA ExecutorLeaves ==
    ASSUME TypeOK, NEW w \in Executors, Done(w) \/ Drop(w)
    PROVE  /\ pc'[w] \in {"idle", "busy"} /\ captured'[w] <= captured[w]
           /\ \A v \in Executors \ {w} :
                /\ pc'[v] = pc[v] /\ cur'[v] = cur[v] /\ run'[v] = run[v]
                /\ captured'[v] = captured[v] /\ snap'[v] = snap[v] /\ used'[v] = used[v]
BY DEF TypeOK, Done, Drop, Unset

LEMMA OthersGoOn ==
    ASSUME TypeOK, Inductive, TypeOK', NEW w \in Executors, Done(w) \/ Drop(w),
           UNCHANGED <<fact, version>>, UNCHANGED histVars
    PROVE  CommittedAsRead' /\ Causes'
<1>1. /\ pc'[w] \in {"idle", "busy"} /\ captured'[w] <= captured[w]
      /\ \A v \in Executors \ {w} :
           /\ pc'[v] = pc[v] /\ cur'[v] = cur[v] /\ captured'[v] = captured[v]
           /\ snap'[v] = snap[v] /\ used'[v] = used[v]
  BY ExecutorLeaves
<1>2. CommittedAsRead'
  BY <1>1 DEF Inductive, CommittedAsRead, histVars
<1>3. \A v \in Executors : captured'[v] <= version'
  <2>1. captured[w] <= version /\ captured[w] \in Nat /\ captured'[w] \in Nat /\ version \in Nat
    BY DEF Inductive, Causes, TypeOK
  <2>2. QED
    BY <1>1, <2>1 DEF Inductive, Causes
<1>4. Causes'
  BY <1>1, <1>3 DEF Inductive, Causes, Matching, histVars
<1>5. QED
  BY <1>2, <1>4

LEMMA CompleteStep ==
    ASSUME TypeOK, Inductive, TypeOK', NEW w \in Executors, Complete(w)
    PROVE  Inductive'
<1> DEFINE m == cur[w]
<1>1. /\ pc[w] = "applied" /\ Holds(w, m) /\ m \in Months /\ Done(w)
      /\ status' = [status EXCEPT ![m] = IF refresh[m] THEN "dirty" ELSE "completed"]
      /\ versions' = [versions EXCEPT ![m] = captured[w]]
      /\ owner' = [owner EXCEPT ![m] = NoOne]
      /\ leased' = [leased EXCEPT ![m] = FALSE]
      /\ refresh' = [refresh EXCEPT ![m] = FALSE]
      /\ UNCHANGED <<fact, version, request, plan>> /\ UNCHANGED histVars
  BY DEF Complete, FreeRow, Stamp, TypeOK
<1>2. CommittedAsRead' /\ Causes'
  BY <1>1, OthersGoOn
<1>3. UnreadIsFlagged'
  <2> SUFFICES ASSUME NEW v \in Executors, Matching(v)', Holds(v, cur[v])'
               PROVE  snap'[v] >= marked[cur'[v]] \/ refresh'[cur'[v]]
    BY <1>1 DEF UnreadIsFlagged, histVars
  <2>1. v # w /\ pc[v] = pc'[v] /\ cur'[v] = cur[v] /\ run'[v] = run[v] /\ snap'[v] = snap[v]
    BY <1>1, ExecutorLeaves DEF Matching
  <2>2. cur[v] \in Months
    BY <2>1 DEF Matching, TypeOK
  <2>3. cur[v] # m
    BY <1>1, <2>1, <2>2 DEF Holds, TypeOK
  <2>4. Matching(v) /\ Holds(v, cur[v]) /\ refresh'[cur[v]] = refresh[cur[v]]
    BY <1>1, <2>1, <2>2, <2>3 DEF Holds, Matching, TypeOK
  <2>5. QED
    BY <2>1, <2>4 DEF Inductive, UnreadIsFlagged
<1>4. OldPlansDiffer'
  BY <1>1 DEF Inductive, OldPlansDiffer
<1>5. FlagIsForThisRun'
  BY <1>1 DEF Inductive, FlagIsForThisRun, TypeOK
<1>6. ~refresh[m] => applied[m] >= marked[m]
  <2>1. snap[w] >= marked[m] \/ refresh[m]
    BY <1>1 DEF Inductive, UnreadIsFlagged, Matching
  <2>2. applied[m] >= snap[w]
    BY <1>1 DEF Inductive, CommittedAsRead
  <2>3. QED
    BY <1>1, <2>1, <2>2 DEF TypeOK
<1>7. CompletedIsFresh'
  BY <1>1, <1>6 DEF Inductive, CompletedIsFresh, TypeOK, histVars
<1>8. captured[w] <= ranWith[m]
  <2>1. captured[w] <= used[w] /\ used[w] <= ranWith[m]
    BY <1>1 DEF Inductive, Causes, CommittedAsRead, Matching, TypeOK
  <2>2. QED
    BY <1>1, <2>1 DEF TypeOK
<1>9. StampIsHonest'
  BY <1>1, <1>8 DEF Inductive, StampIsHonest, TypeOK, histVars
<1>10. QED
  BY <1>2, <1>3, <1>4, <1>5, <1>7, <1>9 DEF Inductive

LEMMA FailStep ==
    ASSUME TypeOK, Inductive, TypeOK', NEW w \in Executors, Fail(w)
    PROVE  Inductive'
<1> DEFINE m == cur[w]
<1>1. /\ Matching(w) /\ Holds(w, m) /\ m \in Months /\ Done(w)
      /\ status' = [status EXCEPT ![m] = IF attempts[m] + 1 >= MaxAttempts THEN "failed" ELSE "retry"]
      /\ owner' = [owner EXCEPT ![m] = NoOne]
      /\ leased' = [leased EXCEPT ![m] = FALSE]
      /\ refresh' = [refresh EXCEPT ![m] = FALSE]
      /\ UNCHANGED <<fact, version, request, versions, plan>> /\ UNCHANGED histVars
  BY DEF Fail, FreeRow, Matching, TypeOK
<1>2. CommittedAsRead' /\ Causes'
  BY <1>1, OthersGoOn
<1>3. UnreadIsFlagged'
  <2> SUFFICES ASSUME NEW v \in Executors, Matching(v)', Holds(v, cur[v])'
               PROVE  snap'[v] >= marked[cur'[v]] \/ refresh'[cur'[v]]
    BY <1>1 DEF UnreadIsFlagged, histVars
  <2>1. v # w /\ pc[v] = pc'[v] /\ cur'[v] = cur[v] /\ run'[v] = run[v] /\ snap'[v] = snap[v]
    BY <1>1, ExecutorLeaves DEF Matching
  <2>2. cur[v] \in Months
    BY <2>1 DEF Matching, TypeOK
  <2>3. cur[v] # m
    BY <1>1, <2>1, <2>2 DEF Holds, TypeOK
  <2>4. Matching(v) /\ Holds(v, cur[v]) /\ refresh'[cur[v]] = refresh[cur[v]]
    BY <1>1, <2>1, <2>2, <2>3 DEF Holds, Matching, TypeOK
  <2>5. QED
    BY <2>1, <2>4 DEF Inductive, UnreadIsFlagged
<1>4. OldPlansDiffer' /\ FlagIsForThisRun' /\ CompletedIsFresh' /\ StampIsHonest'
  BY <1>1 DEF Inductive, OldPlansDiffer, FlagIsForThisRun, CompletedIsFresh, StampIsHonest,
     TypeOK, histVars
<1>5. QED
  BY <1>2, <1>3, <1>4 DEF Inductive

LEMMA LeaveStep ==
    ASSUME TypeOK, Inductive, TypeOK', NEW w \in Executors, LostLease(w) \/ Crash(w)
    PROVE  Inductive'
<1>1. Drop(w) /\ UNCHANGED <<fact, version, plan>> /\ UNCHANGED rowVars /\ UNCHANGED histVars
  BY DEF LostLease, Crash
<1>2. CommittedAsRead' /\ Causes'
  BY <1>1, OthersGoOn
<1>3. UnreadIsFlagged'
  <2> SUFFICES ASSUME NEW v \in Executors, Matching(v)', Holds(v, cur[v])'
               PROVE  snap'[v] >= marked[cur'[v]] \/ refresh[cur'[v]]
    BY <1>1 DEF UnreadIsFlagged, rowVars, histVars
  <2>1. v # w /\ pc[v] = pc'[v] /\ cur'[v] = cur[v] /\ run'[v] = run[v] /\ snap'[v] = snap[v]
    BY <1>1, ExecutorLeaves DEF Matching
  <2>2. Matching(v) /\ Holds(v, cur[v])
    BY <1>1, <2>1 DEF Holds, Matching, rowVars
  <2>3. QED
    BY <2>1, <2>2 DEF Inductive, UnreadIsFlagged
<1>4. OldPlansDiffer' /\ FlagIsForThisRun' /\ CompletedIsFresh' /\ StampIsHonest'
  BY <1>1 DEF Inductive, OldPlansDiffer, FlagIsForThisRun, CompletedIsFresh, StampIsHonest,
     rowVars, histVars
<1>5. QED
  BY <1>2, <1>3, <1>4 DEF Inductive

LEMMA LeaseEndStep ==
    ASSUME TypeOK, Inductive, TypeOK', NEW m \in Months, OrphanExpires(m) \/ TooSlow(m)
    PROVE  Inductive'
<1>1. /\ leased' = [leased EXCEPT ![m] = FALSE]
      /\ UNCHANGED <<fact, version, status, owner, request, versions, refresh, plan>>
      /\ UNCHANGED execVars /\ UNCHANGED histVars
  BY DEF OrphanExpires, TooSlow
<1>2. UnreadIsFlagged' /\ CommittedAsRead' /\ Causes' /\ OldPlansDiffer'
  BY <1>1 DEF Inductive, UnreadIsFlagged, CommittedAsRead, Causes, OldPlansDiffer, Matching, Holds,
     execVars, histVars
<1>3. FlagIsForThisRun' /\ CompletedIsFresh' /\ StampIsHonest'
  BY <1>1 DEF Inductive, FlagIsForThisRun, CompletedIsFresh, StampIsHonest, TypeOK, histVars
<1>4. QED
  BY <1>2, <1>3 DEF Inductive

LEMMA LookStep ==
    ASSUME TypeOK, Inductive, TypeOK', NEW m \in Months, Look(m)
    PROVE  Inductive'
<1>1. /\ UNCHANGED <<fact, version>> /\ UNCHANGED rowVars /\ UNCHANGED execVars /\ UNCHANGED histVars
      /\ plan'.status \in {"failed", "completed"} /\ plan'.current
  BY DEF Look
<1>2. OldPlansDiffer'
  BY <1>1 DEF OldPlansDiffer
<1>3. UnreadIsFlagged' /\ CommittedAsRead' /\ Causes'
  BY <1>1 DEF Inductive, UnreadIsFlagged, CommittedAsRead, Causes, Matching, Holds,
     rowVars, execVars, histVars
<1>4. FlagIsForThisRun' /\ CompletedIsFresh' /\ StampIsHonest'
  BY <1>1 DEF Inductive, FlagIsForThisRun, CompletedIsFresh, StampIsHonest, rowVars, histVars
<1>5. QED
  BY <1>2, <1>3, <1>4 DEF Inductive

LEMMA OperatorStep ==
    ASSUME TypeOK, Inductive, TypeOK', RetryScope \/ RetryRefused
    PROVE  Inductive'
<1>1. CASE RetryScope
  <2>1. plan # NoPlan /\ plan.month \in Months
    BY <1>1, PlanHasMonth DEF RetryScope, TypeOK
  <2>2. status[plan.month] \in {"failed", "completed"}
    BY <1>1, <2>1 DEF RetryScope, SameAsSeen, Inductive, OldPlansDiffer
  <2>3. /\ status' = [status EXCEPT ![plan.month] = "dirty"]
        /\ owner' = [owner EXCEPT ![plan.month] = NoOne]
        /\ leased' = [leased EXCEPT ![plan.month] = FALSE]
        /\ plan' = NoPlan
        /\ UNCHANGED <<fact, version, request, versions, refresh>>
        /\ UNCHANGED execVars /\ UNCHANGED histVars
    BY <1>1 DEF RetryScope
  <2>4. UnreadIsFlagged'
    BY <2>1, <2>2, <2>3 DEF TypeOK, Inductive, UnreadIsFlagged, Matching, Holds, execVars, histVars
  <2>5. CommittedAsRead' /\ Causes' /\ OldPlansDiffer'
    BY <2>3 DEF Inductive, CommittedAsRead, Causes, OldPlansDiffer, Matching, execVars, histVars
  <2>6. FlagIsForThisRun' /\ CompletedIsFresh' /\ StampIsHonest'
    BY <2>1, <2>2, <2>3 DEF TypeOK, Inductive, FlagIsForThisRun, CompletedIsFresh, StampIsHonest,
       histVars
  <2>7. QED
    BY <2>4, <2>5, <2>6 DEF Inductive
<1>2. CASE RetryRefused
  <2>1. /\ plan' = NoPlan /\ UNCHANGED <<fact, version>>
        /\ UNCHANGED rowVars /\ UNCHANGED execVars /\ UNCHANGED histVars
    BY <1>2 DEF RetryRefused
  <2>2. UnreadIsFlagged' /\ CommittedAsRead' /\ Causes' /\ OldPlansDiffer'
    BY <2>1 DEF Inductive, UnreadIsFlagged, CommittedAsRead, Causes, OldPlansDiffer, Matching, Holds,
       rowVars, execVars, histVars
  <2>3. FlagIsForThisRun' /\ CompletedIsFresh' /\ StampIsHonest'
    BY <2>1 DEF Inductive, FlagIsForThisRun, CompletedIsFresh, StampIsHonest, rowVars, histVars
  <2>4. QED
    BY <2>2, <2>3 DEF Inductive
<1>3. QED
  BY <1>1, <1>2

LEMMA StepInductive == TypeOK /\ TypeOK' /\ Inductive /\ [Next]_vars => Inductive'
<1> SUFFICES ASSUME TypeOK, TypeOK', Inductive, [Next]_vars PROVE Inductive'
  OBVIOUS
<1>1. CASE UNCHANGED vars
  BY <1>1, NothingMoves DEF vars, TypeOK
<1>2. QED
  BY <1>1, WritersStep, PollStep, SweepStep, ClaimStep, LoadStep, ApplyStep, CompleteStep,
     FailStep, LeaveStep, LeaseEndStep, LookStep, OperatorStep DEF Next

\* The inductive invariant holds in every reachable state of the queue.
THEOREM Invariance == Spec => []Inductive
BY InitInductive, StepInductive, TypeCorrect, PTL DEF Spec

\* A completed month was matched on all that was announced for it, for any
\* number of months, workers, changes, crashes and lost leases.
THEOREM CompletedMonthsAreFresh == Spec => []CompletedIsFresh
<1>1. Inductive => CompletedIsFresh
  BY DEF Inductive
<1>2. QED
  BY <1>1, Invariance, PTL

\* A change of the rules cannot hide behind the stamp of a completed month.
THEOREM StampsAreHonest == Spec => []StampIsHonest
<1>1. Inductive => StampIsHonest
  BY DEF Inductive
<1>2. QED
  BY <1>1, Invariance, PTL

\* Lease and flag never outlive a run's outcome.
THEOREM FlagsBelongToRuns == Spec => []FlagIsForThisRun
<1>1. Inductive => FlagIsForThisRun
  BY DEF Inductive
<1>2. QED
  BY <1>1, Invariance, PTL

\* The operator's comparison cannot be deceived by a month that ran again.
THEOREM RetriesAreExact == Spec => RetryIsForTheEndingSeen
<1>1. ASSUME TypeOK, Inductive, RetryScope PROVE plan.current
  <2>1. plan # NoPlan /\ request[plan.month] = plan.request
    BY <1>1 DEF RetryScope, SameAsSeen
  <2>2. QED
    BY <1>1, <2>1 DEF Inductive, OldPlansDiffer
<1>2. ASSUME TypeOK, Inductive, [Next]_vars, spent'["retry"] > spent["retry"]
      PROVE  plan.current
  <2>1. spent["retry"] \in Nat /\ "crash" \in Budgets /\ "slow" \in Budgets
    BY <1>2 DEF TypeOK, Budgets
  <2>2. ASSUME NEW b \in {"crash", "slow"}, Spend(b) PROVE FALSE
    BY <1>2, <2>1, <2>2 DEF Spend, TypeOK, Budgets
  <2>3. ASSUME spent' = spent PROVE FALSE
    BY <1>2, <2>1, <2>3
  <2>4. ASSUME NEW S \in SUBSET Months, ChangeAndMark(S) \/ ChangeFirst(S) PROVE FALSE
    BY <2>3, <2>4 DEF ChangeAndMark, ChangeFirst
  <2>5. CASE MarkLater \/ LoseMark \/ ChangeRules
    BY <2>2, <2>3, <2>5 DEF MarkLater, LoseMark, ChangeRules
  <2>6. ASSUME NEW w \in Executors,
               \/ Poll(w) \/ Sweep(w) \/ Claim(w) \/ ClaimNothing(w) \/ Load(w) \/ Apply(w)
               \/ Complete(w) \/ Fail(w) \/ LostLease(w) \/ Crash(w)
        PROVE  FALSE
    BY <2>2, <2>3, <2>6
    DEF Poll, Sweep, Claim, ClaimNothing, Load, Apply, Complete, Fail, LostLease, Crash
  <2>7. ASSUME NEW m \in Months, OrphanExpires(m) \/ TooSlow(m) \/ Look(m) PROVE FALSE
    BY <2>2, <2>3, <2>7 DEF OrphanExpires, TooSlow, Look
  <2>8. CASE RetryRefused \/ UNCHANGED vars
    BY <2>3, <2>8 DEF RetryRefused, vars
  <2>9. QED
    BY <1>1, <1>2, <2>4, <2>5, <2>6, <2>7, <2>8 DEF Next
<1>3. TypeOK /\ Inductive /\ [Next]_vars => [spent'["retry"] > spent["retry"] => plan.current]_vars
  BY <1>2
<1>4. QED
  BY <1>3, TypeCorrect, Invariance, PTL DEF Spec, RetryIsForTheEndingSeen
=============================================================================
