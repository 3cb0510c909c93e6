--------------------------- MODULE MCPaymentStatus ---------------------------
(* An approved application and one in progress, paid together, or the second *)
(* only received for.                                                        *)
EXTENDS PaymentStatus, TLC

CONSTANTS o1, o2

Shape(oas, bank, bound) == [active |-> TRUE, oas |-> oas, bank |-> bank, bound |-> bound]
MCShapes == {Shape({o1, o2}, "out", {o1}), Shape({o2}, "in", {o2})}
MCSymmetry == Permutations(Cases)

\* The last upset is kept for an application that leaves the OA although it
\* was away before and is back, while the removal of that time still waits.
Early == upsets + 1 < MaxUpsets
NamedStill(o) == o \in source \cap facts /\ \E e \in removal : o \in asks[e]

EarlyMove(o) == Early /\ Move(o)
LeaveAgain(o) == NamedStill(o) /\ Move(o)
EarlyOverride(o) == Early /\ Override(o)
EarlyCrash == Early /\ Crash
EarlyBreak == Early /\ Break

MCNext ==
    \/ Work
    \/ \E o \in OA : EarlyMove(o) \/ LeaveAgain(o) \/ EarlyOverride(o)
    \/ EarlyCrash \/ EarlyBreak
MCSpec == Init /\ [][MCNext]_vars
==============================================================================
