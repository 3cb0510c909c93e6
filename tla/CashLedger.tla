----------------------------- MODULE CashLedger -----------------------------
(***************************************************************************)
(* The cash ledger (services/cash_service.py, services/cash_domain.py over *)
(* services/postgres_repositories/cash.py): flows of money, items that     *)
(* came from them (loans, company receivables, expenses, ticket sources)   *)
(* and settlements that spend the one on the other.                        *)
(*                                                                         *)
(* A command is one READ COMMITTED transaction. It reads the graph of rows *)
(* around the ones it names, locks that graph, reads it again, refuses if  *)
(* it grew or shrank or if a row is not of the version the client saw,     *)
(* writes, validates the sums of the rows it locked, and commits. Nothing  *)
(* else keeps the books: the database has no constraint on any sum.        *)
(*                                                                         *)
(* The three tables are one function from ids to rows. A handler is one    *)
(* execution of a client's request: Ask is the client's page and the first *)
(* unlocked read, a Take action is the locks, the second read and the      *)
(* decision, Commit the commit. The client may send a request again while  *)
(* it runs or after its answer. Locks of one command are taken in a sorted *)
(* order and nothing is written while it waits: they are one step, when    *)
(* the last row is free. The version a client saw is modelled by what      *)
(* happened since: the set stale of rows written after its page.           *)
(* Left out: accounts, categories, labels and settings, which a command    *)
(* share-locks and its writers lock; personal accounts; dates, which       *)
(* follow the rules of the project; texts; transfers.                      *)
(***************************************************************************)
EXTENDS Integers, Functions

CONSTANTS
    Flows, Setts,       \* ids the clients may give to flows and settlements
    Lent, Borrowed,     \* ids for loans to others and from others
    Receivables, Expenses, Tickets,     \* ids for the other types of item
    Amounts, Projects,
    Handlers,           \* executions of requests
    Openings,           \* ledgers to start from
    Offered,            \* commands that arrive
    MaxRequests,        \* bound: requests, not counting repetitions
    None

Loans == Lent \cup Borrowed
Obligations == Loans \cup Receivables
Items == Obligations \cup Expenses \cup Tickets
Ids == Flows \cup Setts \cup Items

CashKinds == {"cash_repayment", "company_collection", "expense_payment", "expense_refund"}
SettlementKinds == CashKinds \cup {"ticket_use", "ticket_offset", "non_ticket_offset"}
Commands == {"create_flow", "update_flow", "delete_flow", "create_item", "update_item",
             "delete_item", "create_settlement", "update_settlement", "delete_settlement"}
SourceActions == {"correct_amount", "delete_false_item", "keep_independent", "rebind_flow"}

\* first: the row is of version 1. made: origin_mode is "created", not "linked".
FlowRow == [amount : Amounts, kind : {"receipt", "payment"}, project : Projects, first : BOOLEAN]
ItemRow == [amount : Amounts, origin : Flows \cup {None}, made : BOOLEAN,
            related : Obligations \cup {None}, project : Projects, first : BOOLEAN]
SettRow == [kind : SettlementKinds, item : Items \cup {None}, flow : Flows \cup {None},
            source : Items \cup {None}, amount : Amounts, first : BOOLEAN]
Rows == FlowRow \cup ItemRow \cup SettRow
RowsOf(x) == IF x \in Flows THEN FlowRow ELSE IF x \in Items THEN ItemRow ELSE SettRow
Ledgers == {v \in [Ids -> Rows \cup {None}] : \A x \in Ids : v[x] \in RowsOf(x) \cup {None}}

\* What a client sends: rows by id, loans to link, and a correction of a flow's sources.
Requests == [op : Commands, id : Ids, rows : UNION {[D -> Rows] : D \in SUBSET Ids},
             link : SUBSET Loans, act : SourceActions \cup {None},
             item : Items \cup {None}, target : Flows \cup {None}]
NoRows == [x \in {} |-> None]

VARIABLES
    rows,       \* the committed rows, None where there is none
    gone,       \* ids whose row was deleted (deleted_submission_ids has the flows and items)
    issued,     \* ids some client has generated
    asks,       \* requests so far
    at,         \* per handler: stage
    req,        \* the request: the rows it proposes by id, the loans it links, its correction
    stale,      \* rows written since the client's page
    graph,      \* rows read around the request, locked once decided
    draft       \* the rows the transaction has written, until it commits

vars == <<rows, gone, issued, asks, at, req, stale, graph, draft>>

-----------------------------------------------------------------------------
(* Sums and checks over a view v of the ledger.                            *)

Total(v, T) == SumFunctionOnSet([x \in T |-> v[x].amount], T)
Against(v, i, K) == {s \in Setts : v[s] # None /\ v[s].item = i /\ v[s].kind \in K}
OutOf(v, i, K) == {s \in Setts : v[s] # None /\ v[s].source = i /\ v[s].kind \in K}
Origin(v, f, T) == {i \in T : v[i] # None /\ v[i].origin = f}
Allocated(v, f, K) == {s \in Setts : v[s] # None /\ v[s].flow = f /\ v[s].kind \in K}

\* validate_item_amounts.
Adds(v, i) ==
    LET paid == Total(v, Against(v, i, {"expense_payment"}))
                 + (IF v[i].origin = None THEN 0 ELSE v[i].amount)
        refund == Total(v, Against(v, i, {"expense_refund"}))
    IN  /\ i \in Obligations => Total(v, Against(v, i, SettlementKinds)) <= v[i].amount
        /\ i \in Expenses => /\ paid <= v[i].amount
                             /\ refund <= paid
                             /\ refund + Total(v, OutOf(v, i, {"non_ticket_offset"})) <= v[i].amount
        /\ i \in Tickets => Total(v, OutOf(v, i, {"ticket_use", "ticket_offset"})) <= v[i].amount

\* flow_budget against the amount of the flow.
Covers(v, f) ==
    /\ Total(v, Origin(v, f, Loans)) + Total(v, Allocated(v, f, {"cash_repayment", "company_collection"}))
         <= v[f].amount
    /\ Total(v, Origin(v, f, Expenses)) + Total(v, Allocated(v, f, {"expense_payment", "expense_refund"}))
         <= v[f].amount

\* _validate_item.
Fits(v, i) ==
    /\ v[i].related # None => /\ v[v[i].related] # None
                              /\ v[v[i].related].project = v[i].project
    /\ v[i].origin # None => /\ v[v[i].origin] # None
                             /\ v[v[i].origin].kind = IF i \in Expenses \cup Lent THEN "payment" ELSE "receipt"
                             /\ v[v[i].origin].project = v[i].project

TargetsOf(k) == IF k = "cash_repayment" THEN Loans
                ELSE IF k = "company_collection" THEN Receivables
                ELSE IF k \in {"expense_payment", "expense_refund"} THEN Expenses
                ELSE IF k = "ticket_use" THEN {None} ELSE Obligations
SourcesOf(k) == IF k \in CashKinds THEN {None}
                ELSE IF k = "non_ticket_offset" THEN Expenses \cup {None} ELSE Tickets
Direction(k, i) == IF k = "expense_payment" \/ (k = "cash_repayment" /\ i \in Borrowed)
                   THEN "payment" ELSE "receipt"
Shaped(r) == /\ r.item \in TargetsOf(r.kind)
             /\ r.source \in SourcesOf(r.kind)
             /\ (r.flow # None) <=> (r.kind \in CashKinds)

\* _validate_settlement.
Settles(v, s) ==
    /\ v[s].item # None => v[v[s].item] # None
    /\ v[s].source # None => v[v[s].source] # None
    /\ v[s].flow # None => /\ v[v[s].flow] # None
                           /\ v[v[s].flow].kind = Direction(v[s].kind, v[s].item)
                           /\ v[v[s].flow].project = v[v[s].item].project
                           /\ v[s].kind = "expense_payment" => v[v[s].item].origin # v[s].flow
    /\ (v[s].item # None /\ v[s].source # None) => v[v[s].item].project = v[v[s].source].project

\* _validate_balances over the rows of G, after the writes.
Validated(v, G) ==
    /\ \A i \in G \cap Items : v[i] # None => Fits(v, i) /\ Adds(v, i)
    /\ \A f \in G \cap Flows : v[f] # None => Covers(v, f)
    /\ \A s \in Setts : v[s] # None /\ {v[s].item, v[s].source} \cap G # {} => Settles(v, s)

\* Tables have their own ids, and a ledger to start from is one the program can have written.
ASSUME CashLedgerAssumption ==
    /\ Flows \cap Setts = {} /\ Flows \cap Items = {} /\ Setts \cap Items = {}
    /\ None \notin Ids \cup Rows \cup Requests \cup SourceActions
    /\ Amounts \subseteq Nat /\ MaxRequests \in Nat
    /\ Offered \subseteq Commands
    /\ \A v \in Openings : /\ v \in Ledgers /\ Validated(v, Ids)
                            /\ \A s \in Setts : v[s] # None => Shaped(v[s])
-----------------------------------------------------------------------------
(* The graph a command locks.                                              *)

Alive(x) == rows[x] # None
Owned(F) == {i \in Items : Alive(i) /\ rows[i].origin \in F}
RefsTo(I) == {i \in Items : Alive(i) /\ rows[i].related \in I}
Touching(F, I) == {s \in Setts : Alive(s) /\ (rows[s].flow \in F \/ rows[s].item \in I \/ rows[s].source \in I)}

\* The flows and items a row points to.
Ends(r, x) == IF r = None \/ x \in Flows THEN {}
              ELSE (IF x \in Items THEN {r.related, r.origin}
                                   ELSE {r.item, r.source, r.flow}) \ {None}
Around(T) == UNION {Ends(rows[x], x) : x \in T}

\* A graph without the rows at the other end of the settlements.
Relations_NoFarEnds(R) ==
    LET own == (R \cap Items) \cup Owned(R \cap Flows)
        near == own \cup RefsTo(own)
    IN  Touching(R \cap Flows, near) \cup near \cup (R \cap Flows) \cup Around(near)

\* relations: what the roots own, what refers to that, the settlements on either, the rows
\* those settle, and the rows all of these came from.
Relations(R) ==
    LET own == (R \cap Items) \cup Owned(R \cap Flows)
        near == own \cup RefsTo(own)
        settled == Touching(R \cap Flows, near)
        all == near \cup (R \cap Flows) \cup Around(settled)
    IN  settled \cup all \cup Around(all \cap Items)

\* The rows a request starts from: _lock_graph's flow_ids, item_ids and extras.
Roots(q) ==
    IF q.op = "create_settlement" THEN Ends(q.rows[q.id], q.id)
    ELSE IF q.op = "update_settlement" THEN Ends(q.rows[q.id], q.id) \cup Around({q.id})
    ELSE IF q.op = "delete_settlement" THEN Around({q.id})
    ELSE IF q.op = "update_item" THEN {q.id} \cup Ends(q.rows[q.id], q.id)
    ELSE IF q.op = "delete_item" THEN {q.id}
    ELSE {q.id, q.item, q.target} \ {None}

\* A creation of a flow that does not lock the loans it links.
Held_NoLinks(q) ==
    IF q.op \in {"create_flow", "create_item"}
    THEN DOMAIN q.rows \cup UNION {Ends(q.rows[x], x) : x \in DOMAIN q.rows}
    ELSE Relations(Roots(q)) \cup {q.id}

\* What the transaction of a request holds when it decides. A creation locks the rows it
\* refers to and, by the insert, the ids it uses; the others lock their graph.
Held(q) ==
    IF q.op \in {"create_flow", "create_item"}
    THEN DOMAIN q.rows \cup q.link \cup UNION {Ends(q.rows[x], x) : x \in DOMAIN q.rows}
    ELSE Relations(Roots(q)) \cup {q.id}
-----------------------------------------------------------------------------
(* What a request writes, as a function from the ids it touches.           *)

Bump(r) == IF r = None THEN None ELSE [r EXCEPT !.first = FALSE]
Cashed(I) == \A s \in Touching({}, I) : rows[s].kind \in CashKinds

\* UNIQUE (flow_id, item_id, kind), and _check_unique_cash_allocation before it.
Unique(q) ==
    \A x \in DOMAIN q.rows \cap Setts, s \in Setts \ {q.id} :
        (Alive(s) /\ rows[s].flow # None) =>
            <<rows[s].flow, rows[s].item, rows[s].kind>>
                # <<q.rows[x].flow, q.rows[x].item, q.rows[x].kind>>

Settled(q) == {q.rows[s].item : s \in DOMAIN q.rows \cap Setts}
Inserts(q) == \A x \in DOMAIN q.rows : ~Alive(x) /\ x \notin gone \ Setts

Refers(q) == \A x \in Held(q) \ DOMAIN q.rows : Alive(x)

\* create_flow_in_transaction.
MayCreateFlow(q, seen) ==
    /\ Inserts(q)
    /\ Refers(q)
    /\ \A i \in q.link : rows[i].origin = None
    /\ q.link \cup Settled(q) \subseteq seen
CreateFlowWrites(q) ==
    [x \in DOMAIN q.rows \cup q.link \cup Settled(q) |->
        IF x \in DOMAIN q.rows THEN q.rows[x]
        ELSE IF x \in q.link THEN [rows[x] EXCEPT !.origin = q.id, !.made = FALSE, !.first = FALSE]
        ELSE Bump(rows[x])]

MayCreateItem(q, seen) ==
    /\ Inserts(q)
    /\ Refers(q)
    /\ Held(q) \ {q.id} \subseteq seen
CreateItemWrites(q) == q.rows

MayCreateSettlement(q, seen) ==
    /\ ~Alive(q.id)
    /\ Refers(q)
    /\ Roots(q) \subseteq seen
    /\ Unique(q)
CreateSettlementWrites(q) ==
    [x \in {q.id} \cup Roots(q) |-> IF x = q.id THEN q.rows[x] ELSE Bump(rows[x])]

MayUpdateSettlement(q, seen) ==
    /\ \A x \in Held(q) : Alive(x)
    /\ {q.id} \cup Roots(q) \subseteq seen
    /\ \/ q.rows[q.id].kind = rows[q.id].kind
       \/ {q.rows[q.id].kind, rows[q.id].kind} = {"ticket_use", "ticket_offset"}
    /\ Unique(q)
UpdateSettlementWrites(q) ==
    [x \in {q.id} \cup Roots(q) |-> IF x = q.id THEN Bump(q.rows[x]) ELSE Bump(rows[x])]

MayDeleteSettlement(q, seen) ==
    /\ \A x \in Held(q) : Alive(x)
    /\ {q.id} \cup Roots(q) \subseteq seen
DeleteSettlementWrites(q) ==
    [x \in {q.id} \cup Roots(q) |-> IF x = q.id THEN None ELSE Bump(rows[x])]

\* An item that is saved whether or not it is still there.
MayUpdateItem_Upsert(q, seen) ==
    Alive(q.id) =>
        /\ {q.id} \cup ({q.rows[q.id].related} \ {rows[q.id].related, None}) \subseteq seen
        /\ rows[q.id].origin # None => /\ q.rows[q.id].amount = rows[q.id].amount
                                       /\ q.rows[q.id].project = rows[q.id].project

\* An item that came from a flow changes its amount and project with the flow only.
MayUpdateItem(q, seen) ==
    /\ \A x \in Held(q) : Alive(x)
    /\ {q.id} \cup ({q.rows[q.id].related} \ {rows[q.id].related, None}) \subseteq seen
    /\ rows[q.id].origin # None => /\ q.rows[q.id].amount = rows[q.id].amount
                                   /\ q.rows[q.id].project = rows[q.id].project
UpdateItemWrites(q) == [x \in {q.id} |-> Bump(q.rows[x])]

MayDeleteItem(q, seen) ==
    /\ \A x \in Held(q) : Alive(x)
    /\ q.id \in seen
    /\ rows[q.id].origin = None
    /\ RefsTo({q.id}) = {}
    /\ Cashed({q.id})
DeleteItemWrites(q) ==
    LET dropped == Touching({}, {q.id})
    IN  [x \in {q.id} \cup dropped \cup Around(dropped) |->
            IF x \in {q.id} \cup dropped THEN None ELSE Bump(rows[x])]

\* What becomes of an item that came from flow f under the correction of request q.
Rebound(q, i) == IF q.act = "keep_independent" THEN [Bump(rows[i]) EXCEPT !.origin = None, !.made = FALSE]
                 ELSE IF q.act = "rebind_flow" THEN [Bump(rows[i]) EXCEPT !.origin = q.target, !.made = FALSE]
                 ELSE [Bump(rows[i]) EXCEPT !.amount = q.rows[i].amount, !.project = q.rows[q.id].project]

MayCorrect(q, seen) ==
    /\ \A x \in Held(q) : Alive(x)
    /\ {q.id, q.item, q.target} \ {None} \subseteq seen
    /\ q.act # None => q.item \in Owned({q.id})
    /\ q.act = "rebind_flow" => q.target # q.id

MayUpdateFlow(q, seen) ==
    /\ MayCorrect(q, seen)
    /\ q.act = "delete_false_item" => RefsTo({q.item}) = {} /\ Cashed({q.item})
UpdateFlowWrites(q) ==
    LET false == IF q.act = "delete_false_item" THEN {q.item} ELSE {}
        dropped == Touching({}, false)
        moved == {i \in Owned({q.id}) \ {q.item} : rows[i].made /\ rows[i].project # q.rows[q.id].project}
    IN  [x \in ({q.id, q.item, q.target} \ {None}) \cup moved \cup dropped \cup Around(dropped) |->
            IF x = q.id THEN Bump(q.rows[x])
            ELSE IF x \in false \cup dropped THEN None
            ELSE IF x = q.item THEN Rebound(q, x)
            ELSE IF x \in moved THEN [Bump(rows[x]) EXCEPT !.project = q.rows[q.id].project]
            ELSE Bump(rows[x])]

\* The items a deleted flow takes with it, expenses before the loans they belong to.
Fallen(q) == {i \in Owned({q.id}) : IF i = q.item THEN q.act = "delete_false_item" ELSE rows[i].made}
MayDeleteFlow(q, seen) ==
    /\ MayCorrect(q, seen)
    /\ q.act # "correct_amount"
    /\ RefsTo(Fallen(q)) \subseteq Fallen(q)
    /\ Cashed(Fallen(q))
    /\ \A s \in Touching({}, Fallen(q) \ {q.item}) : rows[s].flow = q.id
DeleteFlowWrites(q) ==
    LET dropped == Touching({q.id}, Fallen(q))
    IN  [x \in ({q.id, q.target} \ {None}) \cup Owned({q.id}) \cup dropped \cup Around(dropped) |->
            IF x \in {q.id} \cup Fallen(q) \cup dropped THEN None
            ELSE IF x = q.item THEN Rebound(q, x)
            ELSE IF x \in Owned({q.id}) THEN [Bump(rows[x]) EXCEPT !.origin = None, !.made = FALSE]
            ELSE Bump(rows[x])]
-----------------------------------------------------------------------------
(* Requests of the clients.                                                *)

Init ==
    /\ rows \in Openings
    /\ gone = {}
    /\ issued = {x \in Ids : rows[x] # None}
    /\ asks = 0
    /\ at = [h \in Handlers |-> "idle"]
    /\ req = [h \in Handlers |-> None]
    /\ stale = [h \in Handlers |-> {}]
    /\ graph = [h \in Handlers |-> {}]
    /\ draft = [h \in Handlers |-> NoRows]

Plain(op, x, new) == [op |-> op, id |-> x, rows |-> new, link |-> {}, act |-> None, item |-> None, target |-> None]

MayAsk(h) == at[h] = "idle" /\ asks < MaxRequests

\* A new request: its new ids are the client's own.
Ask(h, q) ==
    /\ q.op \in Offered
    /\ asks' = asks + 1
    /\ issued' = issued \cup DOMAIN q.rows
    /\ at' = [at EXCEPT ![h] = "read"]
    /\ req' = [req EXCEPT ![h] = q]
    /\ graph' = [graph EXCEPT ![h] = Held(q)]
    /\ UNCHANGED <<rows, gone, stale, draft>>

New(T) == T \ issued
NewItem(a, f, e, p) == [amount |-> a, origin |-> f, made |-> f # None, related |-> e, project |-> p, first |-> TRUE]
RelatedTo(x) == {None} \cup (IF x \in Expenses THEN {i \in Obligations : Alive(i)} ELSE {})

AskCreateFlow(h) ==
    /\ MayAsk(h)
    /\ \E f \in New(Flows), a \in Amounts, k \in {"receipt", "payment"}, p \in Projects :
      \E I \in {{}} \cup {{i} : i \in New(Loans \cup Expenses)}, S \in {{}} \cup {{s} : s \in New(Setts)},
         L \in {{}} \cup {{i} : i \in {j \in Loans : Alive(j)}} :
      \E e \in UNION {{None}, UNION {RelatedTo(i) : i \in I}}, b, c \in Amounts, ck \in CashKinds, t \in Items :
          /\ I = {} => b = a /\ e = None
          /\ IF S = {} THEN c = a /\ ck = "cash_repayment" /\ t = CHOOSE i \in Items : TRUE
                       ELSE t \in TargetsOf(ck) /\ Alive(t)
          /\ Ask(h, [Plain("create_flow", f,
                      [x \in {f} \cup I \cup S |->
                          IF x = f THEN [amount |-> a, kind |-> k, project |-> p, first |-> TRUE]
                          ELSE IF x \in I THEN NewItem(b, f, e, p)
                          ELSE [kind |-> ck, item |-> t, flow |-> f, source |-> None, amount |-> c, first |-> TRUE]])
                     EXCEPT !.link = L])

AskCreateItem(h) ==
    /\ MayAsk(h)
    /\ \E i \in New(Items), a \in Amounts, p \in Projects : \E e \in RelatedTo(i) :
          Ask(h, Plain("create_item", i, [x \in {i} |-> NewItem(a, None, e, p)]))

ShapedRows == {r \in SettRow : r.first /\ Shaped(r)}
Proposals == {r \in ShapedRows : \A y \in {r.item, r.source, r.flow} \ {None} : Alive(y)}

AskCreateSettlement(h) ==
    /\ MayAsk(h)
    /\ \E s \in New(Setts), r \in Proposals :
          Ask(h, Plain("create_settlement", s, [x \in {s} |-> r]))

AskUpdateSettlement(h) ==
    /\ MayAsk(h)
    /\ \E s \in Setts, r \in Proposals :
          /\ Alive(s)
          /\ r # [rows[s] EXCEPT !.first = TRUE]
          /\ Ask(h, Plain("update_settlement", s, [x \in {s} |-> r]))

AskDeleteSettlement(h) ==
    /\ MayAsk(h)
    /\ \E s \in Setts : Alive(s) /\ Ask(h, Plain("delete_settlement", s, NoRows))

AskUpdateItem(h) ==
    /\ MayAsk(h)
    /\ \E i \in Items, a \in Amounts, p \in Projects : \E e \in RelatedTo(i) :
          /\ Alive(i)
          /\ Ask(h, Plain("update_item", i,
                  [x \in {i} |-> [rows[i] EXCEPT !.amount = a, !.project = p, !.related = e, !.first = TRUE]]))

AskDeleteItem(h) ==
    /\ MayAsk(h)
    /\ \E i \in Items : Alive(i) /\ Ask(h, Plain("delete_item", i, NoRows))

\* A source correction names an item of the flow, and another flow to bind it to.
Corrections(f) ==
    {[act |-> None, item |-> None, target |-> None]} \cup
    {[act |-> c, item |-> i, target |-> g] : c \in SourceActions, i \in Owned({f}), g \in Flows \cup {None}}
Named(c) == IF c.act = "rebind_flow" THEN c.target # None /\ Alive(c.target) ELSE c.target = None

AskUpdateFlow(h) ==
    /\ MayAsk(h)
    /\ \E f \in Flows, a, b \in Amounts, k \in {"receipt", "payment"}, p \in Projects :
      \E c \in Corrections(f) :
          /\ Alive(f)
          /\ Named(c)
          /\ c.act # "correct_amount" => b = a
          /\ Ask(h, [op |-> "update_flow", id |-> f, link |-> {}, act |-> c.act, item |-> c.item, target |-> c.target,
                     rows |-> [x \in {f} \cup (IF c.act = "correct_amount" THEN {c.item} ELSE {}) |->
                          IF x = f THEN [amount |-> a, kind |-> k, project |-> p, first |-> TRUE]
                          ELSE [rows[x] EXCEPT !.amount = b, !.first = TRUE]]])

AskDeleteFlow(h) ==
    /\ MayAsk(h)
    /\ \E f \in Flows : \E c \in Corrections(f) :
          /\ Alive(f)
          /\ Named(c)
          /\ Ask(h, [op |-> "delete_flow", id |-> f, rows |-> NoRows, link |-> {},
                     act |-> c.act, item |-> c.item, target |-> c.target])

Request(h) ==
    \/ AskCreateFlow(h) \/ AskUpdateFlow(h) \/ AskDeleteFlow(h)
    \/ AskCreateItem(h) \/ AskUpdateItem(h) \/ AskDeleteItem(h)
    \/ AskCreateSettlement(h) \/ AskUpdateSettlement(h) \/ AskDeleteSettlement(h)

\* The client has no answer and sends the request again while it runs.
Duplicate(h, g) ==
    /\ at[h] \in {"read", "decided"}
    /\ at[g] = "idle"
    /\ at' = [at EXCEPT ![g] = "read"]
    /\ req' = [req EXCEPT ![g] = req[h]]
    /\ stale' = [stale EXCEPT ![g] = stale[h]]
    /\ graph' = [graph EXCEPT ![g] = Held(req[h])]
    /\ UNCHANGED <<rows, gone, issued, asks, draft>>

\* Or after it ended, without looking at the page again.
Resend(h) ==
    /\ at[h] = "answered"
    /\ at' = [at EXCEPT ![h] = "read"]
    /\ graph' = [graph EXCEPT ![h] = Held(req[h])]
    /\ UNCHANGED <<rows, gone, issued, asks, req, stale, draft>>

Forget(h) ==
    /\ at[h] = "answered"
    /\ at' = [at EXCEPT ![h] = "idle"]
    /\ req' = [req EXCEPT ![h] = None]
    /\ stale' = [stale EXCEPT ![h] = {}]
    /\ UNCHANGED <<rows, gone, issued, asks, graph, draft>>

-----------------------------------------------------------------------------
(* The transaction.                                                        *)

Overlay(d) == [x \in Ids |-> IF x \in DOMAIN d THEN d[x] ELSE rows[x]]
Locked(h) == IF at[h] = "decided" THEN graph[h] ELSE {}
Seen(h) == Ids \ stale[h]

\* Without the second read of the graph.
Take_StaleGraph(h, d, V) ==
    /\ at[h] = "read"
    /\ \A g \in Handlers \ {h} : Locked(g) \cap graph[h] = {}
    /\ DOMAIN d \subseteq graph[h]
    /\ Validated(Overlay(d), V)
    /\ at' = [at EXCEPT ![h] = "decided"]
    /\ draft' = [draft EXCEPT ![h] = d]
    /\ UNCHANGED <<rows, gone, issued, asks, req, stale, graph>>

\* The rows are locked, the graph is still the one that was read, and what the request
\* writes keeps the books on the rows V it validates.
Take(h, d, V) ==
    /\ at[h] = "read"
    /\ \A g \in Handlers \ {h} : Locked(g) \cap graph[h] = {}
    /\ Held(req[h]) = graph[h]
    /\ Validated(Overlay(d), V)
    /\ at' = [at EXCEPT ![h] = "decided"]
    /\ draft' = [draft EXCEPT ![h] = d]
    /\ UNCHANGED <<rows, gone, issued, asks, req, stale, graph>>

TakeCreateFlow(h) ==
    /\ req[h] # None /\ req[h].op = "create_flow"
    /\ MayCreateFlow(req[h], Seen(h))
    /\ Take(h, CreateFlowWrites(req[h]), graph[h])

TakeUpdateFlow(h) ==
    /\ req[h] # None /\ req[h].op = "update_flow"
    /\ MayUpdateFlow(req[h], Seen(h))
    /\ Take(h, UpdateFlowWrites(req[h]), graph[h])

TakeDeleteFlow(h) ==
    /\ req[h] # None /\ req[h].op = "delete_flow"
    /\ MayDeleteFlow(req[h], Seen(h))
    /\ Take(h, DeleteFlowWrites(req[h]), graph[h])

TakeCreateItem(h) ==
    /\ req[h] # None /\ req[h].op = "create_item"
    /\ MayCreateItem(req[h], Seen(h))
    /\ Take(h, CreateItemWrites(req[h]), {req[h].id})

TakeUpdateItem(h) ==
    /\ req[h] # None /\ req[h].op = "update_item"
    /\ MayUpdateItem(req[h], Seen(h))
    /\ Take(h, UpdateItemWrites(req[h]), graph[h])

TakeDeleteItem(h) ==
    /\ req[h] # None /\ req[h].op = "delete_item"
    /\ MayDeleteItem(req[h], Seen(h))
    /\ Take(h, DeleteItemWrites(req[h]), graph[h])

TakeCreateSettlement(h) ==
    /\ req[h] # None /\ req[h].op = "create_settlement"
    /\ MayCreateSettlement(req[h], Seen(h))
    /\ Take(h, CreateSettlementWrites(req[h]), graph[h])

TakeUpdateSettlement(h) ==
    /\ req[h] # None /\ req[h].op = "update_settlement"
    /\ MayUpdateSettlement(req[h], Seen(h))
    /\ Take(h, UpdateSettlementWrites(req[h]), graph[h])

TakeDeleteSettlement(h) ==
    /\ req[h] # None /\ req[h].op = "delete_settlement"
    /\ MayDeleteSettlement(req[h], Seen(h))
    /\ Take(h, DeleteSettlementWrites(req[h]), graph[h])

Commit(h) ==
    /\ at[h] = "decided"
    /\ rows' = Overlay(draft[h])
    /\ gone' = gone \cup {x \in DOMAIN draft[h] : draft[h][x] = None}
    /\ stale' = [g \in Handlers |-> IF at[g] = "idle" THEN {} ELSE stale[g] \cup DOMAIN draft[h]]
    /\ at' = [at EXCEPT ![h] = "answered"]
    /\ graph' = [graph EXCEPT ![h] = {}]
    /\ draft' = [draft EXCEPT ![h] = NoRows]
    /\ UNCHANGED <<issued, asks, req>>

\* The decision is a refusal or the replay of what is done already: nothing is written, and
\* the client looks at its page again before it asks for anything else.
Refuse(h) ==
    /\ at[h] = "read"
    /\ at' = [at EXCEPT ![h] = "idle"]
    /\ req' = [req EXCEPT ![h] = None]
    /\ stale' = [stale EXCEPT ![h] = {}]
    /\ graph' = [graph EXCEPT ![h] = {}]
    /\ UNCHANGED <<rows, gone, issued, asks, draft>>

\* A deadlock broken by the database, a lost connection, a process that ends: the
\* transaction leaves nothing, and the client knows no better than after a lost answer.
Abort(h) ==
    /\ at[h] = "decided"
    /\ at' = [at EXCEPT ![h] = "answered"]
    /\ graph' = [graph EXCEPT ![h] = {}]
    /\ draft' = [draft EXCEPT ![h] = NoRows]
    /\ UNCHANGED <<rows, gone, issued, asks, req, stale>>

Next ==
    \E h \in Handlers :
        \/ Request(h)
        \/ \E g \in Handlers : Duplicate(h, g)
        \/ Resend(h) \/ Forget(h)
        \/ TakeCreateFlow(h) \/ TakeUpdateFlow(h) \/ TakeDeleteFlow(h)
        \/ TakeCreateItem(h) \/ TakeUpdateItem(h) \/ TakeDeleteItem(h)
        \/ TakeCreateSettlement(h) \/ TakeUpdateSettlement(h) \/ TakeDeleteSettlement(h)
        \/ Commit(h) \/ Refuse(h) \/ Abort(h)

Spec == Init /\ [][Next]_vars
-----------------------------------------------------------------------------
(* Properties.                                                             *)

\* State keeps its shape: a draft is rows of the right tables.
TypeOK ==
    /\ rows \in Ledgers
    /\ gone \subseteq issued /\ issued \subseteq Ids
    /\ asks \in 0 .. MaxRequests
    /\ at \in [Handlers -> {"idle", "read", "decided", "answered"}]
    /\ \A h \in Handlers :
        /\ (req[h] = None) <=> (at[h] = "idle")
        /\ stale[h] \subseteq Ids /\ graph[h] \subseteq Ids
        /\ DOMAIN draft[h] \subseteq graph[h]
        /\ \A x \in DOMAIN draft[h] : draft[h][x] \in RowsOf(x) \cup {None}

\* No item is settled beyond its amount, no flow is allocated beyond its own in either
\* budget, and whatever a row points to exists and agrees with it, whichever commands run
\* side by side (the checks of _validate_balances hold of the whole ledger, always).
BooksBalance == Validated(rows, Ids)

\* A repeated request never brings back what was deleted: flows and items by the list of
\* deleted ids, settlements because the rows they settled have moved on.
GoneStaysGone == \A x \in gone : ~Alive(x)

\* What a transaction decided is what it would decide at any moment until it commits:
\* commands take effect one after the other, each on a ledger its client has seen.
DecisionsStand ==
    \A h \in Handlers : at[h] = "decided" =>
        LET q == req[h]
        IN  /\ Held(q) = graph[h]
            /\ Validated(Overlay(draft[h]), IF q.op = "create_item" THEN {q.id} ELSE graph[h])
            /\ q.op = "create_flow" => MayCreateFlow(q, Seen(h)) /\ draft[h] = CreateFlowWrites(q)
            /\ q.op = "update_flow" => MayUpdateFlow(q, Seen(h)) /\ draft[h] = UpdateFlowWrites(q)
            /\ q.op = "delete_flow" => MayDeleteFlow(q, Seen(h)) /\ draft[h] = DeleteFlowWrites(q)
            /\ q.op = "create_item" => MayCreateItem(q, Seen(h)) /\ draft[h] = CreateItemWrites(q)
            /\ q.op = "update_item" => MayUpdateItem(q, Seen(h)) /\ draft[h] = UpdateItemWrites(q)
            /\ q.op = "delete_item" => MayDeleteItem(q, Seen(h)) /\ draft[h] = DeleteItemWrites(q)
            /\ q.op = "create_settlement" => MayCreateSettlement(q, Seen(h)) /\ draft[h] = CreateSettlementWrites(q)
            /\ q.op = "update_settlement" => MayUpdateSettlement(q, Seen(h)) /\ draft[h] = UpdateSettlementWrites(q)
            /\ q.op = "delete_settlement" => MayDeleteSettlement(q, Seen(h)) /\ draft[h] = DeleteSettlementWrites(q)
=============================================================================
