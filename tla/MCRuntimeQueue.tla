---------------------------- MODULE MCRuntimeQueue ----------------------------
(* Two worker processes on a few events of one scope.                      *)
EXTENDS RuntimeQueue, TLC

CONSTANTS w1, w2

\* The workers are alike: the one that claims while no row names a worker is w1.
ClaimInTurn(w) == (w = w1 \/ \E e \in Events : event[e].owner # NoWorker) /\ Claim(w)

MCNext ==
    \/ \E kind \in Kinds : Enqueue(kind)
    \/ \E w \in Workers : ClaimInTurn(w) \/ Execute(w) \/ Shutdown(w) \/ Crash(w)
    \/ \E e \in Events : LeaseExpires(e) \/ OperatorNext(e)

MCFairSpec ==
    /\ Init /\ [][MCNext]_vars
    /\ \A w \in Workers : WF_vars(ClaimInTurn(w)) /\ WF_vars(Execute(w))
    /\ \A e \in Events : WF_vars(LeaseExpires(e))
=============================================================================
