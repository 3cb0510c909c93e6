---------------------------- MODULE MCCashLedger ----------------------------
(* Two flows, a loan, a receivable, an expense, a ticket source and two     *)
(* settlements in two projects, from three ledgers with free ids.           *)
EXTENDS CashSerial, TLC

CONSTANTS f1, f2, l1, r1, e1, t1, s1, s2, p1, p2

Flow(a, k) == [amount |-> a, kind |-> k, project |-> p1, first |-> TRUE]
Item(a, f, e) == [amount |-> a, origin |-> f, made |-> f # None, related |-> e, project |-> p1, first |-> TRUE]
Sett(k, i, f, t) == [kind |-> k, item |-> i, flow |-> f, source |-> t, amount |-> 1, first |-> TRUE]
Opening(R) == [x \in Ids |-> IF x \in DOMAIN R THEN R[x] ELSE None]

\* A flow of payments and a loan that came from no flow.
Free == Opening(f1 :> Flow(2, "payment") @@ l1 :> Item(2, None, None))

\* The loan is half repaid by a second flow, and an expense for it came from the first.
Repaid == Opening(f1 :> Flow(2, "payment") @@ l1 :> Bump(Item(2, None, None)) @@ e1 :> Item(1, f1, l1)
               @@ f2 :> Flow(1, "receipt") @@ s1 :> Sett("cash_repayment", l1, f2, None))

\* A receivable is half collected by a flow and half offset by tickets.
Offset == Opening(f1 :> Flow(2, "receipt") @@ r1 :> Bump(Item(2, None, None)) @@ t1 :> Bump(Item(2, None, None))
               @@ s1 :> Sett("company_collection", r1, f1, None)
               @@ s2 :> Sett("ticket_offset", r1, None, t1))
MCOpenings == {Free, Repaid, Offset}

MCSymmetry == Permutations(Handlers)
=============================================================================
