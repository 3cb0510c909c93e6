----------------------------- MODULE CashSerial -----------------------------
(***************************************************************************)
(* What the cash ledger promises its clients, with transactions, locks,    *)
(* graphs and drafts left out: commands take effect one at a time. Each    *)
(* finds the ledger as the last one left it, changes only rows that are as *)
(* its client saw them, and leaves books that balance as a whole.          *)
(* CashLedger implements it: of its variables, these are the ones a client *)
(* can know of.                                                            *)
(***************************************************************************)
EXTENDS CashLedger

promised == <<rows, gone, issued, req, stale>>

Creating == {"create_flow", "create_item", "create_settlement"}

SerialInit ==
    /\ rows \in Openings
    /\ gone = {}
    /\ issued = {x \in Ids : rows[x] # None}
    /\ req = [h \in Handlers |-> None]
    /\ stale = [h \in Handlers |-> {}]

\* A client asks for something; what it creates has ids of its own.
Pose(h) ==
    /\ req[h] = None
    /\ req' = [req EXCEPT ![h] = req'[h]]
    /\ req'[h] # None /\ req'[h].op \in Offered
    /\ req'[h].op \in Creating => DOMAIN req'[h].rows \cap issued = {}
    /\ issued' = issued \cup DOMAIN req'[h].rows
    /\ UNCHANGED <<rows, gone, stale>>

\* It asks again with the same page.
Repeat(h, g) ==
    /\ req[h] # None /\ req[g] = None
    /\ req' = [req EXCEPT ![g] = req[h]]
    /\ stale' = [stale EXCEPT ![g] = stale[h]]
    /\ UNCHANGED <<rows, gone, issued>>

\* It has its answer.
Leave(h) ==
    /\ req[h] # None
    /\ req' = [req EXCEPT ![h] = None]
    /\ stale' = [stale EXCEPT ![h] = {}]
    /\ UNCHANGED <<rows, gone, issued>>

\* A command runs alone: it reads the ledger, decides, and leaves a valid one.
Execute(d) ==
    /\ Validated(Overlay(d), Ids)
    /\ rows' = Overlay(d)
    /\ gone' = gone \cup {x \in DOMAIN d : d[x] = None}
    /\ stale' = [g \in Handlers |-> IF req[g] = None THEN {} ELSE stale[g] \cup DOMAIN d]
    /\ UNCHANGED <<issued, req>>

Command(q, seen) ==
    \/ q.op = "create_flow" /\ MayCreateFlow(q, seen) /\ Execute(CreateFlowWrites(q))
    \/ q.op = "update_flow" /\ MayUpdateFlow(q, seen) /\ Execute(UpdateFlowWrites(q))
    \/ q.op = "delete_flow" /\ MayDeleteFlow(q, seen) /\ Execute(DeleteFlowWrites(q))
    \/ q.op = "create_item" /\ MayCreateItem(q, seen) /\ Execute(CreateItemWrites(q))
    \/ q.op = "update_item" /\ MayUpdateItem(q, seen) /\ Execute(UpdateItemWrites(q))
    \/ q.op = "delete_item" /\ MayDeleteItem(q, seen) /\ Execute(DeleteItemWrites(q))
    \/ q.op = "create_settlement" /\ MayCreateSettlement(q, seen) /\ Execute(CreateSettlementWrites(q))
    \/ q.op = "update_settlement" /\ MayUpdateSettlement(q, seen) /\ Execute(UpdateSettlementWrites(q))
    \/ q.op = "delete_settlement" /\ MayDeleteSettlement(q, seen) /\ Execute(DeleteSettlementWrites(q))

SerialNext ==
    \E h \in Handlers :
        \/ Pose(h)
        \/ \E g \in Handlers : Repeat(h, g)
        \/ Leave(h)
        \/ req[h] # None /\ Command(req[h], Seen(h))

\* Two commands side by side, their repetitions and lost answers: what becomes of the
\* ledger is what some order of the same commands, each run alone, makes of it. This is what
\* locking the graph (_lock_graph) and reading it a second time are for.
SerialSpec == SerialInit /\ [][SerialNext]_promised
=============================================================================
