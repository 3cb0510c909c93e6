---------------------------- MODULE MCImportJobs ----------------------------
(* Two incarnations of worker w1 and one of w2, on tasks taken one by one.  *)
EXTENDS ImportJobs, TLC

CONSTANTS e1, e2, e3, w1, w2

MCWorkerOf == [e \in Executors |-> IF e = e3 THEN w2 ELSE w1]

\* The incarnations of one worker are interchangeable.
Incarnations == Permutations({e1, e2})

\* Of the rows that may be created one is.
RegisterOne(j) == (\A i \in Jobs : job[i].status = "absent") /\ Register(j)
MCNext ==
    \/ \E j \in Jobs : RegisterOne(j) \/ LeaseExpires(j) \/ Cancel(j) \/ Acknowledge(j)
    \/ \E e \in Executors : ClaimNext(e) \/ Execute(e) \/ Renew(e) \/ Crash(e)
    \/ \E u \in Users : Command(u)
    \/ ChangeAuthorization
MCFairSpec == Init /\ [][MCNext]_vars /\ Fairness
=============================================================================
