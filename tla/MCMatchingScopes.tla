-------------------------- MODULE MCMatchingScopes --------------------------
(* Instances of MatchingScopes for TLC. *)
EXTENDS MatchingScopes, TLC

CONSTANTS w1, w2, m1, m2

\* Changes of the facts and of the rules share one bound.
Quiet == \E m \in Months : fact[m] + version <= MaxFacts

MCNext ==
    \/ /\ Quiet
       /\ ChangeRules \/ \E S \in SUBSET Months : ChangeAndMark(S) \/ ChangeFirst(S)
    \/ MarkLater \/ LoseMark
    \/ \E w \in Executors :
         \/ Poll(w) \/ Sweep(w) \/ Claim(w) \/ ClaimNothing(w) \/ Load(w) \/ Apply(w)
         \/ Complete(w) \/ Fail(w) \/ LostLease(w) \/ Crash(w)
    \/ \E m \in Months : OrphanExpires(m) \/ TooSlow(m) \/ Look(m)
    \/ RetryScope \/ RetryRefused

MCFairSpec == Init /\ [][MCNext]_vars /\ Fairness
=============================================================================
