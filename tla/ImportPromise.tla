---------------------------- MODULE ImportPromise ----------------------------
(***************************************************************************)
(* What the import queue promises a person, with leases, processes,        *)
(* versions and retries left out.  A task may hold one accepted preview,   *)
(* the one its confirmer saw.  Its facts are written at most once, from    *)
(* the accepted preview, while the task is open.  Withdrawing a preview    *)
(* (preparing the task again) and closing it (cancel, discard, dispose)    *)
(* are possible until the facts are written, and closing is for good.      *)
(***************************************************************************)
EXTENDS Naturals, Sequences

CONSTANT Tasks

VARIABLES
    accepted,  \* the preview to be written; 0: none
    written,   \* the previews whose facts exist
    closed     \* the task was canceled or disposed of

vars == <<accepted, written, closed>>

Init ==
    /\ accepted = [t \in Tasks |-> 0]
    /\ written = [t \in Tasks |-> <<>>]
    /\ closed = [t \in Tasks |-> FALSE]

Open(t) == written[t] = <<>> /\ ~closed[t]

Accept(t) ==
    /\ Open(t)
    /\ accepted' = [accepted EXCEPT ![t] = accepted'[t]]
    /\ accepted'[t] \in Nat \ {0}
    /\ UNCHANGED <<written, closed>>

Withdraw(t) ==
    /\ Open(t)
    /\ accepted' = [accepted EXCEPT ![t] = 0]
    /\ UNCHANGED <<written, closed>>

Write(t) ==
    /\ Open(t)
    /\ accepted[t] # 0
    /\ written' = [written EXCEPT ![t] = <<accepted[t]>>]
    /\ UNCHANGED <<accepted, closed>>

Close(t) ==
    /\ Open(t)
    /\ closed' = [closed EXCEPT ![t] = TRUE]
    /\ UNCHANGED <<accepted, written>>

Next == \E t \in Tasks : Accept(t) \/ Withdraw(t) \/ Write(t) \/ Close(t)

Spec == Init /\ [][Next]_vars

=============================================================================
