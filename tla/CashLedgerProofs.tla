-------------------------- MODULE CashLedgerProofs --------------------------
(***************************************************************************)
(* Proofs about CashLedger, for any ids, amounts, projects, handlers and   *)
(* ledgers to start from.                                                  *)
(*                                                                         *)
(* The argument has three parts. Writes are guarded (Guarded) when they    *)
(* change a row only where all that points to it, and all it points to, is *)
(* locked and validated, and change nothing that other rows look at        *)
(* elsewhere: guarded writes that are validated keep the books of the      *)
(* whole ledger (BooksStay). Every command's writes are guarded by its     *)
(* graph (DecidedSound). And whatever is guarded by one graph leaves every *)
(* disjoint graph as it was, with the decision of the command that holds   *)
(* it (DecidedStays). The invariant adds what the clients' requests may    *)
(* be.                                                                     *)
(***************************************************************************)
EXTENDS CashSerial, TLAPS

\* A ledger in which every settlement has the shape of its kind.
Ledger(v) == v \in Ledgers /\ \A s \in Setts : v[s] # None => Shaped(v[s])

\* The rows whose sums count a row, or whose settlement it is.
Anchors(r, x) == IF r # None /\ x \in Items THEN {r.origin} \ {None} ELSE Ends(r, x)

\* The row n in the place of r moves nothing that rows outside T look at.
Soft(T, x, r, n) ==
    /\ r # None /\ n # None
    /\ x \in Flows => n.amount = r.amount /\ n.kind = r.kind /\ n.project = r.project
    /\ x \in Setts => /\ n.amount = r.amount /\ n.kind = r.kind
                      /\ n.item = r.item /\ n.flow = r.flow /\ n.source = r.source
    /\ x \in Items => /\ n.amount = r.amount /\ n.project = r.project /\ n.related = r.related
                      /\ n.origin = r.origin \/ {n.origin, r.origin} \subseteq T \cup {None}

\* The row n may be anything in the place of v[x]: all it points to and all
\* that points to it is in hand, G being locked and T validated.
Real(v, G, T, x, n) ==
    /\ Ends(v[x], x) \cup Ends(n, x) \subseteq G
    /\ Anchors(v[x], x) \cup Anchors(n, x) \subseteq T
    /\ \A y \in Ids : x \in Ends(v[y], y) => y \in T /\ (y \in Setts => Ends(v[y], y) \subseteq T)

Guarded(v, G, T, d) ==
    /\ DOMAIN d \subseteq T /\ T \subseteq G
    /\ \A x \in DOMAIN d : Soft(T, x, v[x], d[x]) \/ Real(v, G, T, x, d[x])

\* The ledger v after the writes d.
Written(v, d) == [x \in Ids |-> IF x \in DOMAIN d THEN d[x] ELSE v[x]]

\* Between v and w, nothing changed that the rows of U have to do with.
Untouched(v, w, U) ==
    /\ \A x \in U : w[x] = v[x]
    /\ \A s \in Setts : (Ends(v[s], s) \cup Ends(w[s], s)) \cap U # {} =>
           /\ v[s] # None /\ w[s] # None
           /\ w[s].item = v[s].item /\ w[s].source = v[s].source /\ w[s].flow = v[s].flow
           /\ w[s].kind = v[s].kind /\ w[s].amount = v[s].amount
    /\ \A i \in Items : \A f \in U :
           (v[i] # None /\ v[i].origin = f) \/ (w[i] # None /\ w[i].origin = f) =>
               /\ v[i] # None /\ w[i] # None
               /\ w[i].origin = v[i].origin /\ w[i].amount = v[i].amount

-----------------------------------------------------------------------------
(* Rows.                                                                   *)

\* The tables have their own ids, and None is neither an id nor a row.
LEMMA RowTypes ==
    ASSUME NEW x \in Ids
    PROVE  /\ x \in Flows => RowsOf(x) = FlowRow /\ x \notin Items /\ x \notin Setts
           /\ x \in Items => RowsOf(x) = ItemRow /\ x \notin Flows /\ x \notin Setts
           /\ x \in Setts => RowsOf(x) = SettRow /\ x \notin Flows /\ x \notin Items
           /\ x \in Flows \/ x \in Items \/ x \in Setts
           /\ x # None /\ None \notin RowsOf(x)
           /\ RowsOf(x) \subseteq Rows
BY CashLedgerAssumption DEF RowsOf, Ids, Rows

\* A row of a ledger is a row of its table.
LEMMA LedgerRow ==
    ASSUME NEW v, Ledger(v), NEW x \in Ids, v[x] # None
    PROVE  v[x] \in RowsOf(x)
BY DEF Ledger, Ledgers

\* What the fields of an item and of a settlement are.
LEMMA ItemFields ==
    ASSUME NEW v, Ledger(v), NEW i \in Items, v[i] # None
    PROVE  /\ v[i].related \in Obligations \cup {None}
           /\ v[i].origin \in Flows \cup {None}
           /\ Ends(v[i], i) = {v[i].related, v[i].origin} \ {None}
           /\ Anchors(v[i], i) = {v[i].origin} \ {None}
<1>1. i \in Ids /\ i \notin Flows /\ v[i] \in ItemRow
  BY LedgerRow, RowTypes DEF Ids
<1>. QED  BY <1>1 DEF ItemRow, Ends, Anchors

\* What a settlement points to.
LEMMA SettFields ==
    ASSUME NEW v, Ledger(v), NEW s \in Setts, v[s] # None
    PROVE  /\ v[s].item \in Items \cup {None}
           /\ v[s].source \in Items \cup {None}
           /\ v[s].flow \in Flows \cup {None}
           /\ v[s].kind \in SettlementKinds
           /\ Ends(v[s], s) = {v[s].item, v[s].source, v[s].flow} \ {None}
           /\ Anchors(v[s], s) = Ends(v[s], s)
<1>1. s \in Ids /\ s \notin Flows /\ s \notin Items /\ v[s] \in SettRow
  BY LedgerRow, RowTypes DEF Ids
<1>. QED  BY <1>1 DEF SettRow, Ends, Anchors

\* A flow points to nothing.
LEMMA FlowEnds ==
    ASSUME NEW r, NEW f \in Flows
    PROVE  Ends(r, f) = {} /\ Anchors(r, f) = {}
<1>1. f \notin Items
  BY CashLedgerAssumption
<1>. QED  BY <1>1 DEF Ends, Anchors

\* A settlement has an item or a source; what is paid with cash has no source.
LEMMA ShapeFacts ==
    ASSUME NEW r \in SettRow, Shaped(r)
    PROVE  /\ r.item \in Items \/ r.source \in Items
           /\ r.kind \in CashKinds => r.source = None /\ r.item \in Items
           /\ r.flow # None => r.kind \in CashKinds
<1>1. r.kind \in SettlementKinds
  BY DEF SettRow
<1>2. CASE r.kind = "ticket_use"
  BY <1>2 DEF Shaped, SourcesOf, TargetsOf, CashKinds, Items
<1>3. CASE r.kind \in {"ticket_offset", "non_ticket_offset"}
  BY <1>3 DEF Shaped, SourcesOf, TargetsOf, CashKinds, Items
<1>4. CASE r.kind \in CashKinds
  BY <1>4 DEF Shaped, SourcesOf, TargetsOf, CashKinds, Items, Obligations
<1>. QED  BY <1>1, <1>2, <1>3, <1>4 DEF SettlementKinds

\* Rows point to items and flows.
LEMMA EndsAreIds ==
    ASSUME NEW v, Ledger(v), NEW x \in Ids
    PROVE  Ends(v[x], x) \subseteq Items \cup Flows
<1>1. CASE v[x] = None \/ x \in Flows
  BY <1>1 DEF Ends
<1>2. CASE v[x] # None /\ x \in Items
  BY <1>2, ItemFields DEF Items
<1>3. CASE v[x] # None /\ x \in Setts
  BY <1>3, SettFields
<1>. QED  BY <1>1, <1>2, <1>3 DEF Ids

-----------------------------------------------------------------------------
(* What guarded writes leave alone.                                        *)

\* Guarded writes of validated rows T leave the rest of the ledger alone.
LEMMA GuardedLeave ==
    ASSUME NEW v, Ledger(v), NEW G, NEW T, NEW d, Guarded(v, G, T, d),
           Ledger(Written(v, d)), NEW U \in SUBSET Ids, U \cap T = {}
    PROVE  Untouched(v, Written(v, d), U)
<1>. DEFINE w == Written(v, d)
<1>1. \A x \in Ids : w[x] = IF x \in DOMAIN d THEN d[x] ELSE v[x]
  BY DEF Written
<1>2. \A x \in U : w[x] = v[x]
  BY <1>1 DEF Guarded
<1>. HIDE DEF w
<1>3. ASSUME NEW x \in Ids
      PROVE  w[x] = v[x] \/ Soft(T, x, v[x], w[x]) \/ Real(v, G, T, x, w[x])
  BY <1>1 DEF Guarded
<1>4. ASSUME NEW s \in Setts, (Ends(v[s], s) \cup Ends(w[s], s)) \cap U # {}
      PROVE  /\ v[s] # None /\ w[s] # None
             /\ w[s].item = v[s].item /\ w[s].source = v[s].source /\ w[s].flow = v[s].flow
             /\ w[s].kind = v[s].kind /\ w[s].amount = v[s].amount
  <2>0. s \in Ids /\ s \notin Items
    BY RowTypes DEF Ids
  <2>1. CASE w[s] = v[s]
    BY <2>1, <1>4 DEF Ends
  <2>2. CASE Soft(T, s, v[s], w[s])
    BY <2>2 DEF Soft
  <2>3. CASE Real(v, G, T, s, w[s])
    <3>1. Ends(v[s], s) \cup Ends(w[s], s) \subseteq T
      BY <2>0, <2>3 DEF Real, Anchors
    <3>. QED  BY <1>4, <3>1
  <2>. QED  BY <2>0, <2>1, <2>2, <2>3, <1>3
<1>5. ASSUME NEW i \in Items, NEW f \in U,
             (v[i] # None /\ v[i].origin = f) \/ (w[i] # None /\ w[i].origin = f)
      PROVE  /\ v[i] # None /\ w[i] # None
             /\ w[i].origin = v[i].origin /\ w[i].amount = v[i].amount
  <2>0. i \in Ids /\ f # None /\ f \notin T
    BY RowTypes DEF Ids
  <2>1. CASE w[i] = v[i]
    BY <2>1, <1>5
  <2>2. CASE Soft(T, i, v[i], w[i])
    BY <1>5, <2>0, <2>2 DEF Soft
  <2>3. CASE Real(v, G, T, i, w[i])
    <3>1. Anchors(v[i], i) \cup Anchors(w[i], i) \subseteq T
      BY <2>3 DEF Real
    <3>. QED  BY <1>5, <2>0, <3>1 DEF Anchors
  <2>. QED  BY <2>0, <2>1, <2>2, <2>3, <1>3
<1>6. Untouched(v, w, U)
  BY <1>2, <1>4, <1>5 DEF Untouched
<1>. QED  BY <1>6 DEF w

\* Equal amounts have equal sums.
LEMMA SameTotal ==
    ASSUME NEW v, NEW w, NEW T, \A x \in T : w[x].amount = v[x].amount
    PROVE  Total(w, T) = Total(v, T)
<1>1. [x \in T |-> w[x].amount] = [x \in T |-> v[x].amount]
  OBVIOUS
<1>. QED  BY <1>1 DEF Total

\* The sums of untouched rows are the same.
LEMMA SameSums ==
    ASSUME NEW v, Ledger(v), NEW w, Ledger(w), NEW U \in SUBSET Ids, Untouched(v, w, U),
           NEW x \in U, NEW K
    PROVE  /\ x \in Items => /\ Total(w, Against(w, x, K)) = Total(v, Against(v, x, K))
                             /\ Total(w, OutOf(w, x, K)) = Total(v, OutOf(v, x, K))
           /\ x \in Flows => Total(w, Allocated(w, x, K)) = Total(v, Allocated(v, x, K))
<1>0. x # None
  BY RowTypes
<1>1. ASSUME NEW s \in Setts
      PROVE  /\ v[s] # None /\ x \in {v[s].item, v[s].source, v[s].flow} => x \in Ends(v[s], s)
             /\ w[s] # None /\ x \in {w[s].item, w[s].source, w[s].flow} => x \in Ends(w[s], s)
  BY <1>0, SettFields
<1>2. ASSUME NEW s \in Setts,
             \/ v[s] # None /\ x \in {v[s].item, v[s].source, v[s].flow}
             \/ w[s] # None /\ x \in {w[s].item, w[s].source, w[s].flow}
      PROVE  /\ v[s] # None /\ w[s] # None
             /\ w[s].item = v[s].item /\ w[s].source = v[s].source /\ w[s].flow = v[s].flow
             /\ w[s].kind = v[s].kind /\ w[s].amount = v[s].amount
  <2>1. (Ends(v[s], s) \cup Ends(w[s], s)) \cap U # {}
    BY <1>1, <1>2
  <2>. QED  BY <2>1 DEF Untouched
<1>3. Against(w, x, K) = Against(v, x, K)
  BY <1>2 DEF Against
<1>4. \A s \in Against(v, x, K) : w[s].amount = v[s].amount
  BY <1>2 DEF Against
<1>5. OutOf(w, x, K) = OutOf(v, x, K)
  BY <1>2 DEF OutOf
<1>6. \A s \in OutOf(v, x, K) : w[s].amount = v[s].amount
  BY <1>2 DEF OutOf
<1>7. Allocated(w, x, K) = Allocated(v, x, K)
  BY <1>2 DEF Allocated
<1>8. \A s \in Allocated(v, x, K) : w[s].amount = v[s].amount
  BY <1>2 DEF Allocated
<1>. QED  BY <1>3, <1>4, <1>5, <1>6, <1>7, <1>8, SameTotal

\* What came from a flow that nothing touched adds up to the same.
LEMMA SameOrigins ==
    ASSUME NEW v, NEW w, NEW U \in SUBSET Ids, Untouched(v, w, U), NEW f \in U,
           NEW T \in SUBSET Items
    PROVE  Total(w, Origin(w, f, T)) = Total(v, Origin(v, f, T))
<1>1. ASSUME NEW i \in T, (v[i] # None /\ v[i].origin = f) \/ (w[i] # None /\ w[i].origin = f)
      PROVE  /\ v[i] # None /\ w[i] # None
             /\ w[i].origin = v[i].origin /\ w[i].amount = v[i].amount
  BY <1>1 DEF Untouched
<1>2. Origin(w, f, T) = Origin(v, f, T)
  BY <1>1 DEF Origin
<1>3. \A i \in Origin(v, f, T) : w[i].amount = v[i].amount
  BY <1>1 DEF Origin
<1>. QED  BY <1>2, <1>3, SameTotal

\* A row that a row outside T points to is as it was, but for its origin.
LEMMA EndsKept ==
    ASSUME NEW v, Ledger(v), NEW G, NEW T, NEW d, Guarded(v, G, T, d),
           NEW y \in Ids, NEW x \in Ends(v[y], y), v[x] # None,
           y \notin T \/ (y \in Setts /\ ~(Ends(v[y], y) \subseteq T))
    PROVE  /\ Written(v, d)[x] # None
           /\ x \in Items => Written(v, d)[x].project = v[x].project
           /\ x \in Flows => /\ Written(v, d)[x].project = v[x].project
                             /\ Written(v, d)[x].kind = v[x].kind
<1>1. x \in Ids
  BY EndsAreIds DEF Ids
<1>2. Written(v, d)[x] = IF x \in DOMAIN d THEN d[x] ELSE v[x]
  BY <1>1 DEF Written
<1>3. CASE x \notin DOMAIN d
  BY <1>2, <1>3
<1>4. CASE x \in DOMAIN d
  <2>1. ~Real(v, G, T, x, d[x])
    BY DEF Real
  <2>2. Soft(T, x, v[x], d[x])
    BY <1>4, <2>1 DEF Guarded
  <2>. QED  BY <1>2, <1>4, <2>2 DEF Soft
<1>. QED  BY <1>3, <1>4

\* Guarded writes keep what was validated of rows they do not validate.
LEMMA Stay ==
    ASSUME NEW v, Ledger(v), NEW G, NEW T, NEW d, Guarded(v, G, T, d),
           Ledger(Written(v, d)), NEW U \in SUBSET Ids, U \cap T = {}, Validated(v, U)
    PROVE  Validated(Written(v, d), U)
<1>. DEFINE w == Written(v, d)
<1>1. Untouched(v, w, U) /\ Ledger(w)
  BY GuardedLeave
<1>2. ASSUME NEW y \in Ids, NEW x \in Ends(v[y], y), v[x] # None,
             y \notin T \/ (y \in Setts /\ ~(Ends(v[y], y) \subseteq T))
      PROVE  /\ w[x] # None
             /\ x \in Items => w[x].project = v[x].project
             /\ x \in Flows => w[x].project = v[x].project /\ w[x].kind = v[x].kind
  BY <1>2, EndsKept
<1>. HIDE DEF w
<1>3. ASSUME NEW i \in U \cap Items, w[i] # None
      PROVE  Fits(w, i) /\ Adds(w, i)
  <2>1. w[i] = v[i] /\ i \in Ids /\ i \notin T
    BY <1>1 DEF Untouched
  <2>2. Fits(v, i) /\ Adds(v, i)
    BY <1>3, <2>1 DEF Validated
  <2>3. /\ v[i].related \in Obligations \cup {None} /\ v[i].origin \in Flows \cup {None}
        /\ Ends(v[i], i) = {v[i].related, v[i].origin} \ {None}
    BY <1>3, <2>1, ItemFields
  <2>4. v[i].related # None => /\ w[v[i].related] # None
                               /\ w[v[i].related].project = v[i].project
    <3>. SUFFICES ASSUME v[i].related # None
                  PROVE  w[v[i].related] # None /\ w[v[i].related].project = v[i].project
      OBVIOUS
    <3>1. v[i].related \in Ends(v[i], i) /\ v[i].related \in Items
      BY <2>3 DEF Items
    <3>2. v[v[i].related] # None /\ v[v[i].related].project = v[i].project
      BY <2>2 DEF Fits
    <3>. QED  BY <1>2, <2>1, <3>1, <3>2
  <2>5. v[i].origin # None => /\ w[v[i].origin] # None
                              /\ w[v[i].origin].project = v[v[i].origin].project
                              /\ w[v[i].origin].kind = v[v[i].origin].kind
    <3>. SUFFICES ASSUME v[i].origin # None
                  PROVE  /\ w[v[i].origin] # None
                         /\ w[v[i].origin].project = v[v[i].origin].project
                         /\ w[v[i].origin].kind = v[v[i].origin].kind
      OBVIOUS
    <3>1. v[i].origin \in Ends(v[i], i) /\ v[i].origin \in Flows
      BY <2>3
    <3>2. v[v[i].origin] # None
      BY <2>2 DEF Fits
    <3>. QED  BY <1>2, <2>1, <3>1, <3>2
  <2>6. Fits(w, i)
    BY <2>1, <2>2, <2>4, <2>5 DEF Fits
  <2>7. \A K : /\ Total(w, Against(w, i, K)) = Total(v, Against(v, i, K))
               /\ Total(w, OutOf(w, i, K)) = Total(v, OutOf(v, i, K))
    BY <1>1, SameSums
  <2>8. Adds(w, i)
    BY <2>1, <2>2, <2>7 DEF Adds
  <2>. QED  BY <2>6, <2>8
<1>4. ASSUME NEW f \in U \cap Flows, w[f] # None
      PROVE  Covers(w, f)
  <2>1. w[f] = v[f]
    BY <1>1 DEF Untouched
  <2>2. Covers(v, f)
    BY <1>4, <2>1 DEF Validated
  <2>3. \A K : Total(w, Allocated(w, f, K)) = Total(v, Allocated(v, f, K))
    BY <1>1, SameSums
  <2>4. Total(w, Origin(w, f, Loans)) = Total(v, Origin(v, f, Loans))
    BY <1>1, SameOrigins, Loans \subseteq Items DEF Items, Obligations
  <2>5. Total(w, Origin(w, f, Expenses)) = Total(v, Origin(v, f, Expenses))
    BY <1>1, SameOrigins, Expenses \subseteq Items DEF Items
  <2>. QED  BY <2>1, <2>2, <2>3, <2>4, <2>5 DEF Covers
<1>5. ASSUME NEW s \in Setts, w[s] # None, {w[s].item, w[s].source} \cap U # {}
      PROVE  Settles(w, s)
  <2>0. s \in Ids
    BY DEF Ids
  <2>1. None \notin U
    BY RowTypes
  <2>2. Ends(w[s], s) \cap U # {}
    BY <1>1, <1>5, <2>1, SettFields
  <2>3. /\ v[s] # None
        /\ w[s].item = v[s].item /\ w[s].source = v[s].source /\ w[s].flow = v[s].flow
        /\ w[s].kind = v[s].kind
    BY <1>1, <2>2 DEF Untouched
  <2>4. Settles(v, s)
    BY <1>5, <2>3 DEF Validated
  <2>5. /\ Ends(v[s], s) = {v[s].item, v[s].source, v[s].flow} \ {None}
        /\ v[s].item \in Items \cup {None} /\ v[s].source \in Items \cup {None}
        /\ v[s].flow \in Flows \cup {None}
    BY <2>3, SettFields
  <2>6. ~(Ends(v[s], s) \subseteq T)
    BY <1>5, <2>1, <2>3, <2>5
  <2>7. v[s].item # None => w[v[s].item] # None /\ w[v[s].item].project = v[v[s].item].project
    <3>. SUFFICES ASSUME v[s].item # None
                  PROVE  w[v[s].item] # None /\ w[v[s].item].project = v[v[s].item].project
      OBVIOUS
    <3>1. v[s].item \in Ends(v[s], s) /\ v[s].item \in Items
      BY <2>5
    <3>2. v[v[s].item] # None
      BY <2>4 DEF Settles
    <3>. QED  BY <1>2, <2>0, <2>6, <3>1, <3>2
  <2>8. v[s].source # None => w[v[s].source] # None /\ w[v[s].source].project = v[v[s].source].project
    <3>. SUFFICES ASSUME v[s].source # None
                  PROVE  w[v[s].source] # None /\ w[v[s].source].project = v[v[s].source].project
      OBVIOUS
    <3>1. v[s].source \in Ends(v[s], s) /\ v[s].source \in Items
      BY <2>5
    <3>2. v[v[s].source] # None
      BY <2>4 DEF Settles
    <3>. QED  BY <1>2, <2>0, <2>6, <3>1, <3>2
  <2>9. v[s].flow # None => /\ w[v[s].flow] # None
                            /\ w[v[s].flow].project = v[v[s].flow].project
                            /\ w[v[s].flow].kind = v[v[s].flow].kind
    <3>. SUFFICES ASSUME v[s].flow # None
                  PROVE  /\ w[v[s].flow] # None
                         /\ w[v[s].flow].project = v[v[s].flow].project
                         /\ w[v[s].flow].kind = v[v[s].flow].kind
      OBVIOUS
    <3>1. v[s].flow \in Ends(v[s], s) /\ v[s].flow \in Flows
      BY <2>5
    <3>2. v[v[s].flow] # None
      BY <2>4 DEF Settles
    <3>. QED  BY <1>2, <2>0, <2>6, <3>1, <3>2
  \* An expense paid with cash has no source: its item is of U.
  <2>10. v[s].kind = "expense_payment" => /\ v[s].item # None
                                          /\ w[v[s].item].origin = v[v[s].item].origin
    <3>. SUFFICES ASSUME v[s].kind = "expense_payment"
                  PROVE  v[s].item \in U /\ v[s].item # None
      BY <1>1 DEF Untouched
    <3>1. v[s] \in SettRow /\ Shaped(v[s])
      BY <2>0, <2>3, LedgerRow, RowTypes DEF Ledger
    <3>2. v[s].source = None /\ v[s].item \in Items
      BY <3>1, ShapeFacts DEF CashKinds
    <3>. QED  BY <1>5, <2>1, <2>3, <3>2
  <2>11. v[s].flow # None => v[s].item # None
    <3>1. v[s] \in SettRow /\ Shaped(v[s])
      BY <2>0, <2>3, LedgerRow, RowTypes DEF Ledger
    <3>. QED  BY <3>1, <2>5, RowTypes, ShapeFacts DEF Ids
  <2>. QED  BY <2>3, <2>4, <2>7, <2>8, <2>9, <2>10, <2>11 DEF Settles
<1>6. Validated(w, U)
  BY <1>3, <1>4, <1>5 DEF Validated
<1>. QED  BY <1>6 DEF w

\* Guarded writes that are validated keep the books of the whole ledger.
LEMMA BooksStay ==
    ASSUME NEW v, Ledger(v), NEW G, NEW T \in SUBSET Ids, NEW d, Guarded(v, G, T, d),
           Ledger(Written(v, d)), Validated(v, Ids), Validated(Written(v, d), T)
    PROVE  Validated(Written(v, d), Ids)
<1>. DEFINE w == Written(v, d)
            U == Ids \ T
<1>1. Validated(v, U)
  BY DEF Validated
<1>2. Validated(w, U)
  BY <1>1, Stay
<1>3. Validated(w, T)
  OBVIOUS
<1>. HIDE DEF w
<1>4. Validated(w, Ids)
  BY <1>2, <1>3 DEF Validated
<1>. QED  BY <1>4 DEF w

\* In balanced books, what a row points to is there.
LEMMA EndsThere ==
    ASSUME NEW v, Ledger(v), Validated(v, Ids), NEW y \in Ids, NEW x \in Ends(v[y], y)
    PROVE  v[x] # None
<1>1. v[y] # None /\ y \notin Flows
  BY DEF Ends
<1>2. CASE y \in Items
  <2>1. Fits(v, y)
    BY <1>1, <1>2 DEF Validated
  <2>. QED  BY <1>1, <1>2, <2>1, ItemFields DEF Fits
<1>3. CASE y \in Setts
  <2>1. v[y] \in SettRow /\ Shaped(v[y])
    BY <1>1, <1>3, LedgerRow, RowTypes DEF Ledger
  <2>2. {v[y].item, v[y].source} \cap Ids # {}
    BY <2>1, ShapeFacts DEF Ids
  <2>3. Settles(v, y)
    BY <1>1, <1>3, <2>2 DEF Validated
  <2>. QED  BY <1>1, <1>3, <2>3, SettFields DEF Settles
<1>. QED  BY <1>1, <1>2, <1>3 DEF Ids

\* Writes stay guarded when the rows of another lock set are written.
LEMMA GuardStays ==
    ASSUME NEW v, NEW G, NEW T, NEW d, Guarded(v, G, T, d), T \in SUBSET Ids,
           NEW H, NEW S \in SUBSET Ids, NEW e, Guarded(v, H, S, e), G \cap H = {}
    PROVE  Guarded(Written(v, e), G, T, d)
<1>. DEFINE w == Written(v, e)
<1>1. T \subseteq G /\ S \subseteq H /\ DOMAIN d \subseteq T /\ DOMAIN e \subseteq S
  BY DEF Guarded
<1>2. \A x \in Ids : w[x] = IF x \in DOMAIN e THEN e[x] ELSE v[x]
  BY DEF Written
<1>3. \A x \in DOMAIN d : w[x] = v[x]
  BY <1>1, <1>2
<1>. HIDE DEF w
<1>4. ASSUME NEW x \in DOMAIN d, Real(v, G, T, x, d[x]), NEW y \in Ids, x \in Ends(w[y], y)
      PROVE  x \in Ends(v[y], y) /\ w[y] = v[y]
  <2>0. x \in Ids /\ x \notin S
    BY <1>1
  <2>1. CASE y \notin DOMAIN e
    BY <1>2, <1>4, <2>1
  <2>2. CASE y \in DOMAIN e /\ Real(v, H, S, y, e[y])
    <3>1. Ends(e[y], y) \subseteq H
      BY <2>2 DEF Real
    <3>. QED  BY <1>1, <1>2, <1>4, <2>2, <3>1
  <2>3. CASE y \in DOMAIN e /\ Soft(S, y, v[y], e[y])
    <3>1. x \in Ends(e[y], y) /\ e[y] # None /\ v[y] # None /\ y \notin Flows
      BY <1>2, <1>4, <2>3 DEF Ends, Soft
    <3>2. x \in Ends(v[y], y)
      BY <2>0, <2>3, <3>1 DEF Soft, Ends, Ids
    <3>3. y \in T
      BY <1>4, <3>2 DEF Real
    <3>. QED  BY <1>1, <2>3, <3>3
  <2>. QED  BY <2>1, <2>2, <2>3 DEF Guarded
<1>5. ASSUME NEW x \in DOMAIN d
      PROVE  Soft(T, x, w[x], d[x]) \/ Real(w, G, T, x, d[x])
  <2>1. CASE Soft(T, x, v[x], d[x])
    BY <1>3, <2>1
  <2>2. CASE Real(v, G, T, x, d[x])
    BY <1>3, <1>4, <2>2 DEF Real
  <2>. QED  BY <2>1, <2>2 DEF Guarded
<1>6. Guarded(w, G, T, d)
  BY <1>1, <1>5 DEF Guarded
<1>. QED  BY <1>6 DEF w

-----------------------------------------------------------------------------
(* The graph of a command.                                                 *)

\* The parts of a graph: what is owned, what is near it, the settlements that are met and
\* everything but the far ends of the items.
OwnOf(R) == (R \cap Items) \cup Owned(R \cap Flows)
NearOf(R) == OwnOf(R) \cup RefsTo(OwnOf(R))
MetBy(R) == Touching(R \cap Flows, NearOf(R))
AllOf(R) == NearOf(R) \cup (R \cap Flows) \cup Around(MetBy(R))

\* A graph in its three parts: settlements, rows they settle, rows these came from.
LEMMA GraphParts ==
    ASSUME NEW R
    PROVE  Relations(R) = MetBy(R) \cup AllOf(R) \cup Around(AllOf(R) \cap Items)
BY DEF Relations, MetBy, AllOf, NearOf, OwnOf

\* What a row of T points to is around T.
LEMMA AroundHas ==
    ASSUME NEW T, NEW x \in T
    PROVE  Ends(rows[x], x) \subseteq Around(T)
BY DEF Around

\* What is around T is pointed to by a row of T.
LEMMA AroundIn ==
    ASSUME NEW T, NEW y \in Around(T)
    PROVE  \E x \in T : y \in Ends(rows[x], x)
BY DEF Around

\* Around rows are items and flows.
LEMMA AroundIds ==
    ASSUME Ledger(rows), NEW T \in SUBSET Ids
    PROVE  Around(T) \subseteq Items \cup Flows
BY EndsAreIds, AroundIn

\* A graph has its roots, what they own and what refers to it, and both ends of
\* everything there; whatever points to a root or to what it owns is in it too.
LEMMA GraphCovers ==
    ASSUME Ledger(rows), NEW R \in SUBSET (Items \cup Flows)
    PROVE  /\ R \subseteq Relations(R) /\ Relations(R) \subseteq Ids
           /\ OwnOf(R) \subseteq Items /\ NearOf(R) \subseteq Items /\ MetBy(R) \subseteq Setts
           /\ NearOf(R) \cup MetBy(R) \subseteq Relations(R)
           /\ \A x \in NearOf(R) \cup MetBy(R) : Ends(rows[x], x) \subseteq Relations(R)
           /\ \A x \in OwnOf(R) \cup (R \cap Flows) : \A y \in Ids :
                  x \in Ends(rows[y], y) => y \in NearOf(R) \cup MetBy(R)
<1>1. OwnOf(R) \subseteq Items /\ NearOf(R) \subseteq Items /\ MetBy(R) \subseteq Setts
  BY DEF OwnOf, NearOf, MetBy, Owned, RefsTo, Touching
<1>2. AllOf(R) \subseteq Items \cup Flows
  BY <1>1, AroundIds DEF AllOf, Ids
<1>3. Relations(R) \subseteq Ids
  BY <1>1, <1>2, GraphParts, AroundIds DEF Ids
<1>4. R \subseteq AllOf(R) /\ NearOf(R) \subseteq AllOf(R)
  BY DEF AllOf, NearOf, OwnOf
<1>5. \A x \in NearOf(R) : Ends(rows[x], x) \subseteq Relations(R)
  BY <1>1, <1>4, GraphParts, AroundHas
<1>6. \A x \in MetBy(R) : Ends(rows[x], x) \subseteq Relations(R)
  BY GraphParts, AroundHas DEF AllOf
<1>7. ASSUME NEW x \in OwnOf(R) \cup (R \cap Flows), NEW y \in Ids, x \in Ends(rows[y], y)
      PROVE  y \in NearOf(R) \cup MetBy(R)
  <2>1. rows[y] # None /\ y \notin Flows
    BY <1>7 DEF Ends
  <2>2. CASE y \in Items
    <3>1. x \in {rows[y].related, rows[y].origin}
      BY <1>7, <2>1, <2>2, ItemFields
    <3>2. rows[y].related \in Items \cup {None} /\ rows[y].origin \in Flows \cup {None}
      BY <2>1, <2>2, ItemFields DEF Items
    <3>3. x # None
      BY <1>1, RowTypes DEF Ids
    <3>4. CASE x = rows[y].related
      <4>1. x \in OwnOf(R)
        BY <1>7, <3>2, <3>3, <3>4, RowTypes DEF Ids
      <4>. QED  BY <2>1, <2>2, <3>4, <4>1 DEF NearOf, RefsTo, Alive
    <3>5. CASE x = rows[y].origin
      <4>1. x \in R \cap Flows
        BY <1>1, <1>7, <3>2, <3>3, <3>5, RowTypes DEF Ids
      <4>. QED  BY <2>1, <2>2, <3>5, <4>1 DEF NearOf, OwnOf, Owned, Alive
    <3>. QED  BY <3>1, <3>4, <3>5
  <2>3. CASE y \in Setts
    <3>1. x \in {rows[y].item, rows[y].source, rows[y].flow}
      BY <1>7, <2>1, <2>3, SettFields
    <3>2. /\ rows[y].item \in Items \cup {None} /\ rows[y].source \in Items \cup {None}
          /\ rows[y].flow \in Flows \cup {None}
      BY <2>1, <2>3, SettFields
    <3>3. x # None /\ (x \in Items => x \notin Flows)
      BY <1>1, RowTypes DEF Ids
    <3>4. x \in OwnOf(R) => x \in NearOf(R)
      BY DEF NearOf
    <3>. QED  BY <1>1, <1>7, <2>1, <2>3, <3>1, <3>2, <3>3, <3>4 DEF MetBy, Touching, Alive
  <2>. QED  BY <2>1, <2>2, <2>3 DEF Ids
<1>. QED  BY <1>1, <1>3, <1>4, <1>5, <1>6, <1>7, GraphParts

\* A row is counted by rows it points to.
LEMMA AnchorsAreEnds ==
    ASSUME NEW r, NEW x \in Ids
    PROVE  Anchors(r, x) \subseteq Ends(r, x)
BY RowTypes DEF Anchors, Ends

\* A root of the graph, or what it owns, may become any row with ends in the graph.
LEMMA RealRoot ==
    ASSUME Ledger(rows), NEW R \in SUBSET (Items \cup Flows), NEW G, Relations(R) \subseteq G,
           NEW x \in OwnOf(R) \cup (R \cap Flows), NEW n, Ends(n, x) \subseteq G
    PROVE  Real(rows, G, G, x, n)
<1>1. x \in Ids
  BY GraphCovers DEF Ids
<1>2. Ends(rows[x], x) \subseteq G
  <2>1. CASE x \in OwnOf(R)
    BY <2>1, GraphCovers DEF NearOf
  <2>2. CASE x \in Flows
    BY <2>2, FlowEnds
  <2>. QED  BY <2>1, <2>2
<1>3. \A y \in Ids : x \in Ends(rows[y], y) => y \in G /\ Ends(rows[y], y) \subseteq G
  BY GraphCovers
<1>. QED  BY <1>1, <1>2, <1>3, AnchorsAreEnds DEF Real

\* Nothing points to a settlement: it changes freely between its ends.
LEMMA RealSett ==
    ASSUME Ledger(rows), NEW G, NEW s \in Setts, Ends(rows[s], s) \subseteq G,
           NEW n, Ends(n, s) \subseteq G
    PROVE  Real(rows, G, G, s, n)
<1>1. s \in Ids /\ s \notin Items \cup Flows
  BY RowTypes DEF Ids
<1>2. \A y \in Ids : s \notin Ends(rows[y], y)
  BY <1>1, EndsAreIds
<1>. QED  BY <1>1, <1>2, AnchorsAreEnds DEF Real

\* Nothing points to an id without a row.
LEMMA RealNew ==
    ASSUME Ledger(rows), Validated(rows, Ids), NEW G, NEW T, NEW x \in Ids, ~Alive(x),
           NEW n, Ends(n, x) \subseteq G, Anchors(n, x) \subseteq T
    PROVE  Real(rows, G, T, x, n)
<1>1. Ends(rows[x], x) = {} /\ Anchors(rows[x], x) = {}
  BY DEF Alive, Ends, Anchors
<1>2. \A y \in Ids : x \notin Ends(rows[y], y)
  BY EndsThere DEF Alive
<1>. QED  BY <1>1, <1>2 DEF Real

\* A new version of a row is the same row but for its version.
LEMMA BumpRow ==
    ASSUME NEW x \in Ids, NEW r \in RowsOf(x), NEW T
    PROVE  /\ Bump(r) \in RowsOf(x) /\ Bump(r) # None /\ Soft(T, x, r, Bump(r))
           /\ Ends(Bump(r), x) = Ends(r, x)
           /\ x \in Setts /\ Shaped(r) => Shaped(Bump(r))
<1>0. r # None /\ Bump(r) = [r EXCEPT !.first = FALSE]
  BY RowTypes DEF Bump
<1>1. CASE x \in Flows
  <2>1. r \in FlowRow /\ x \notin Items /\ x \notin Setts
    BY <1>1, RowTypes
  <2>2. /\ Bump(r) \in FlowRow /\ Bump(r).amount = r.amount /\ Bump(r).kind = r.kind
        /\ Bump(r).project = r.project
    BY <1>0, <2>1 DEF FlowRow
  <2>3. Bump(r) \in RowsOf(x) /\ Bump(r) # None
    BY <1>1, <2>2, RowTypes
  <2>4. Ends(Bump(r), x) = Ends(r, x)
    BY <1>1, FlowEnds
  <2>5. r # None
    BY <1>0
  <2>. QED  BY <1>1, <2>1, <2>2, <2>3, <2>4, <2>5 DEF Soft
<1>2. CASE x \in Items
  <2>1. r \in ItemRow /\ x \notin Flows /\ x \notin Setts
    BY <1>2, RowTypes
  <2>2. /\ Bump(r) \in ItemRow /\ Bump(r).amount = r.amount /\ Bump(r).origin = r.origin
        /\ Bump(r).project = r.project /\ Bump(r).related = r.related
    BY <1>0, <2>1 DEF ItemRow
  <2>3. Bump(r) \in RowsOf(x) /\ Bump(r) # None
    BY <1>2, <2>2, RowTypes
  <2>. QED  BY <1>0, <1>2, <2>1, <2>2, <2>3 DEF Soft, Ends
<1>3. CASE x \in Setts
  <2>1. r \in SettRow /\ x \notin Flows /\ x \notin Items
    BY <1>3, RowTypes
  <2>2. /\ Bump(r) \in SettRow /\ Bump(r).amount = r.amount /\ Bump(r).kind = r.kind
        /\ Bump(r).item = r.item /\ Bump(r).source = r.source /\ Bump(r).flow = r.flow
    BY <1>0, <2>1 DEF SettRow
  <2>3. Bump(r) \in RowsOf(x) /\ Bump(r) # None
    BY <1>3, <2>2, RowTypes
  <2>. QED  BY <1>0, <1>3, <2>1, <2>2, <2>3 DEF Soft, Ends, Shaped
<1>. QED  BY <1>1, <1>2, <1>3, RowTypes

-----------------------------------------------------------------------------
(* What a client may have asked.                                           *)

\* The rows of a request are of their tables, and each command has the rows it needs.
WellFormed(q) ==
    /\ q.op \in Commands /\ q.id \in Ids /\ q.link \subseteq Loans
    /\ q.act \in SourceActions \cup {None}
    /\ q.item \in Items \cup {None} /\ q.target \in Flows \cup {None}
    /\ DOMAIN q.rows \subseteq Ids
    /\ \A x \in DOMAIN q.rows : q.rows[x] \in RowsOf(x) /\ (x \in Setts => Shaped(q.rows[x]))
    /\ q.op = "create_flow" =>
           /\ q.id \in Flows /\ q.id \in DOMAIN q.rows
           /\ \A s \in DOMAIN q.rows \cap Setts : q.rows[s].item \in Items
    /\ q.op = "create_item" =>
           q.id \in Items /\ DOMAIN q.rows = {q.id} /\ q.rows[q.id].origin = None
    /\ q.op \in {"create_settlement", "update_settlement"} =>
           q.id \in Setts /\ DOMAIN q.rows = {q.id}
    /\ q.op = "delete_settlement" => q.id \in Setts
    /\ q.op = "update_item" => q.id \in Items /\ DOMAIN q.rows = {q.id}
    /\ q.op = "delete_item" => q.id \in Items
    /\ q.op = "update_flow" =>
           q.id \in DOMAIN q.rows /\ (q.act = "correct_amount" => q.item \in DOMAIN q.rows)
    /\ q.op \in {"update_flow", "delete_flow"} =>
           /\ q.id \in Flows
           /\ q.act = None => q.item = None
           /\ q.act = "rebind_flow" => q.target # None

\* The writes d of the request q, validated on the rows T: guarded, of their tables, and
\* new rows only where the request creates them.
Sound(q, T, d) ==
    /\ Guarded(rows, Held(q), T, d)
    /\ Held(q) \subseteq Ids
    /\ \A x \in DOMAIN d :
          /\ d[x] \in RowsOf(x) \cup {None}
          /\ x \in Setts /\ d[x] # None => Shaped(d[x])
          /\ ~Alive(x) => /\ d[x] # None
                          /\ q.op \in Creating /\ x \in DOMAIN q.rows /\ x \notin gone \ Setts

\* A proposed row points to items and flows.
LEMMA RowEnds ==
    ASSUME NEW x \in Ids, NEW r \in RowsOf(x)
    PROVE  Ends(r, x) \subseteq Items \cup Flows
<1>1. CASE x \in Flows
  BY <1>1, FlowEnds
<1>2. CASE x \in Items
  <2>1. r \in ItemRow /\ x \notin Flows
    BY <1>2, RowTypes
  <2>2. r.related \in Items \cup {None} /\ r.origin \in Flows \cup {None}
    BY <2>1 DEF ItemRow, Items
  <2>. QED  BY <1>2, <2>1, <2>2 DEF Ends
<1>3. CASE x \in Setts
  <2>1. r \in SettRow /\ x \notin Flows /\ x \notin Items
    BY <1>3, RowTypes
  <2>2. /\ r.item \in Items \cup {None} /\ r.source \in Items \cup {None}
        /\ r.flow \in Flows \cup {None}
    BY <2>1 DEF SettRow
  <2>. QED  BY <1>3, <2>1, <2>2 DEF Ends
<1>. QED  BY <1>1, <1>2, <1>3 DEF Ids

\* The rows of a request are of their tables.
LEMMA Proposed ==
    ASSUME NEW q, WellFormed(q), NEW x \in DOMAIN q.rows
    PROVE  /\ x \in Ids /\ q.rows[x] \in RowsOf(x) /\ q.rows[x] # None
           /\ x \in Setts => Shaped(q.rows[x])
           /\ Ends(q.rows[x], x) \subseteq Items \cup Flows
<1>1. x \in Ids /\ q.rows[x] \in RowsOf(x) /\ (x \in Setts => Shaped(q.rows[x]))
  BY DEF WellFormed
<1>. QED  BY <1>1, RowEnds, RowTypes

\* A row whose version moves on.
LEMMA Bumped ==
    ASSUME Ledger(rows), NEW x \in Ids, Alive(x), NEW T
    PROVE  /\ Bump(rows[x]) \in RowsOf(x) /\ Bump(rows[x]) # None
           /\ Soft(T, x, rows[x], Bump(rows[x]))
           /\ Ends(Bump(rows[x]), x) = Ends(rows[x], x)
           /\ x \in Setts => Shaped(Bump(rows[x]))
<1>1. rows[x] \in RowsOf(x) /\ (x \in Setts => Shaped(rows[x]))
  BY LedgerRow DEF Ledger, Alive
<1>. QED  BY <1>1, BumpRow

\* An item of the ledger is an item.
LEMMA ItemThere ==
    ASSUME Ledger(rows), NEW i \in Items, Alive(i)
    PROVE  rows[i] \in ItemRow /\ i \in Ids /\ i \notin Setts /\ i \notin Flows
<1>1. i \in Ids
  BY DEF Ids
<1>. QED  BY <1>1, LedgerRow, RowTypes DEF Alive

\* A creation locks what it inserts, what it links and what these point to.
LEMMA HeldCreating ==
    ASSUME NEW q, WellFormed(q), q.op \in {"create_flow", "create_item"}
    PROVE  /\ Held(q) \subseteq Ids
           /\ DOMAIN q.rows \subseteq Held(q) /\ q.link \subseteq Held(q)
           /\ \A x \in DOMAIN q.rows : Ends(q.rows[x], x) \subseteq Held(q)
<1>1. Held(q) = DOMAIN q.rows \cup q.link \cup UNION {Ends(q.rows[x], x) : x \in DOMAIN q.rows}
  BY DEF Held
<1>2. \A x \in DOMAIN q.rows : x \in Ids /\ Ends(q.rows[x], x) \subseteq Ids
  BY Proposed DEF Ids
<1>3. q.link \subseteq Ids
  BY DEF WellFormed, Ids, Items, Obligations
<1>. QED  BY <1>1, <1>2, <1>3

\* A new flow, its item, its settlement and its link: every row they count on is locked.
LEMMA CreateFlowSound ==
    ASSUME Ledger(rows), Validated(rows, Ids), NEW q, WellFormed(q), q.op = "create_flow",
           NEW seen, MayCreateFlow(q, seen)
    PROVE  Sound(q, Held(q), CreateFlowWrites(q))
<1>. DEFINE G == Held(q)
            d == CreateFlowWrites(q)
<1>1. /\ G \subseteq Ids /\ DOMAIN q.rows \subseteq G /\ q.link \subseteq G
      /\ \A x \in DOMAIN q.rows : Ends(q.rows[x], x) \subseteq G
  BY HeldCreating
<1>2. Settled(q) \subseteq G
  <2>. SUFFICES ASSUME NEW s \in DOMAIN q.rows \cap Setts
                PROVE  q.rows[s].item \in G
    BY DEF Settled
  <2>1. q.rows[s].item \in Items /\ q.rows[s] # None /\ s \notin Items /\ s \notin Flows
    BY Proposed, RowTypes DEF WellFormed, Ids
  <2>2. q.rows[s].item \in Ends(q.rows[s], s)
    BY <2>1, RowTypes DEF Ends, Ids
  <2>. QED  BY <1>1, <2>2
<1>3. DOMAIN d = DOMAIN q.rows \cup q.link \cup Settled(q)
  BY DEF CreateFlowWrites
<1>4. ASSUME NEW x \in DOMAIN q.rows
      PROVE  /\ d[x] = q.rows[x] /\ ~Alive(x) /\ x \notin gone \ Setts
             /\ Real(rows, G, G, x, d[x])
  <2>1. d[x] = q.rows[x]
    BY DEF CreateFlowWrites
  <2>2. ~Alive(x) /\ x \notin gone \ Setts
    BY DEF MayCreateFlow, Inserts
  <2>. QED  BY <1>1, <2>1, <2>2, RealNew, AnchorsAreEnds
<1>5. \A x \in DOMAIN d \ DOMAIN q.rows : Alive(x) /\ x \in Ids
  BY <1>1, <1>2, <1>3 DEF MayCreateFlow, Refers
<1>6. ASSUME NEW x \in q.link \ DOMAIN q.rows
      PROVE  d[x] \in RowsOf(x) /\ d[x] # None /\ Soft(G, x, rows[x], d[x]) /\ x \notin Setts
  <2>1. d[x] = [rows[x] EXCEPT !.origin = q.id, !.made = FALSE, !.first = FALSE]
    BY DEF CreateFlowWrites
  <2>2. x \in Items /\ rows[x] \in ItemRow /\ rows[x] # None
    BY <1>3, <1>5, LedgerRow, RowTypes DEF Alive, WellFormed, Items, Obligations, Ids
  <2>3. rows[x].origin = None /\ q.id \in Flows /\ q.id \in G
    BY <1>1 DEF MayCreateFlow, WellFormed
  <2>4. /\ d[x] \in ItemRow /\ d[x].origin = q.id
        /\ d[x].amount = rows[x].amount /\ d[x].project = rows[x].project
        /\ d[x].related = rows[x].related
    BY <2>1, <2>2, <2>3 DEF ItemRow
  <2>5. d[x] \in RowsOf(x) /\ d[x] # None /\ x \notin Setts /\ x \notin Flows
    BY <2>2, <2>4, RowTypes DEF Ids
  <2>. HIDE DEF d
  <2>. QED  BY <2>2, <2>3, <2>4, <2>5 DEF Soft
<1>7. ASSUME NEW x \in Settled(q) \ (DOMAIN q.rows \cup q.link)
      PROVE  /\ d[x] \in RowsOf(x) /\ d[x] # None /\ Soft(G, x, rows[x], d[x])
             /\ x \in Setts => Shaped(d[x])
  <2>1. d[x] = Bump(rows[x])
    BY DEF CreateFlowWrites
  <2>. QED  BY <1>3, <1>5, <2>1, Bumped
<1>. HIDE DEF d
<1>8. Guarded(rows, G, G, d)
  BY <1>1, <1>2, <1>3, <1>4, <1>6, <1>7 DEF Guarded
<1>9. ASSUME NEW x \in DOMAIN d
      PROVE  /\ d[x] \in RowsOf(x) /\ d[x] # None /\ (x \in Setts => Shaped(d[x]))
             /\ ~Alive(x) => x \in DOMAIN q.rows /\ x \notin gone \ Setts
  BY <1>3, <1>4, <1>5, <1>6, <1>7, Proposed
<1>10. Sound(q, G, d)
  BY <1>1, <1>8, <1>9 DEF Sound, Creating
<1>. QED  BY <1>10 DEF d

\* A new item has no origin: nothing but itself counts it.
LEMMA CreateItemSound ==
    ASSUME Ledger(rows), Validated(rows, Ids), NEW q, WellFormed(q), q.op = "create_item",
           NEW seen, MayCreateItem(q, seen)
    PROVE  Sound(q, {q.id}, CreateItemWrites(q))
<1>. DEFINE G == Held(q)
            x == q.id
<1>1. /\ x \in Items /\ DOMAIN q.rows = {x} /\ q.rows[x].origin = None
  BY DEF WellFormed
<1>2. G \subseteq Ids /\ x \in G /\ Ends(q.rows[x], x) \subseteq G
  BY <1>1, HeldCreating
<1>3. ~Alive(x) /\ x \notin gone \ Setts
  BY <1>1 DEF MayCreateItem, Inserts
<1>4. q.rows[x] \in RowsOf(x) /\ q.rows[x] # None /\ x \notin Setts
  BY <1>1, Proposed, RowTypes DEF Ids
<1>5. Anchors(q.rows[x], x) = {}
  BY <1>1, <1>4 DEF Anchors
<1>6. Real(rows, G, {x}, x, q.rows[x])
  BY <1>2, <1>3, <1>5, RealNew
<1>7. Guarded(rows, G, {x}, q.rows)
  BY <1>1, <1>2, <1>6 DEF Guarded
<1>8. Sound(q, {x}, q.rows)
  BY <1>1, <1>2, <1>3, <1>4, <1>7 DEF Sound, Creating
<1>. QED  BY <1>8 DEF CreateItemWrites

\* The other commands lock the graph of their roots, with their own row.
LEMMA HeldGraph ==
    ASSUME Ledger(rows), NEW q, WellFormed(q), q.op \notin {"create_flow", "create_item"}
    PROVE  /\ Roots(q) \subseteq Items \cup Flows
           /\ Held(q) = Relations(Roots(q)) \cup {q.id}
           /\ Held(q) \subseteq Ids /\ Roots(q) \subseteq Held(q) /\ q.id \in Held(q)
<1>0. q.id \in Ids /\ q.op \in Commands
  BY DEF WellFormed
<1>1. Around({q.id}) \subseteq Items \cup Flows
  BY <1>0, AroundIds
<1>2. CASE q.op \in {"create_settlement", "update_settlement"}
  <2>1. Ends(q.rows[q.id], q.id) \subseteq Items \cup Flows
    BY <1>2, Proposed DEF WellFormed
  <2>. QED  BY <1>1, <1>2, <2>1, <1>0, GraphCovers DEF Roots, Held
<1>3. CASE q.op = "delete_settlement"
  BY <1>0, <1>1, <1>3, GraphCovers DEF Roots, Held
<1>4. CASE q.op = "update_item"
  <2>1. Ends(q.rows[q.id], q.id) \subseteq Items \cup Flows /\ q.id \in Items
    BY <1>4, Proposed DEF WellFormed
  <2>. QED  BY <1>0, <1>4, <2>1, GraphCovers DEF Roots, Held
<1>5. CASE q.op = "delete_item"
  <2>1. q.id \in Items
    BY <1>5 DEF WellFormed
  <2>. QED  BY <1>0, <1>5, <2>1, GraphCovers DEF Roots, Held
<1>6. CASE q.op \in {"update_flow", "delete_flow"}
  <2>1. q.id \in Flows /\ q.item \in Items \cup {None} /\ q.target \in Flows \cup {None}
    BY <1>6 DEF WellFormed
  <2>2. Roots(q) = {q.id, q.item, q.target} \ {None}
    BY <1>6 DEF Roots
  <2>. QED  BY <1>0, <1>6, <2>1, <2>2, GraphCovers DEF Held
<1>. QED  BY <1>0, <1>2, <1>3, <1>4, <1>5, <1>6 DEF Commands

\* The versions of rows in the graph, and a settlement that moves between ends in it.
LEMMA SettSound ==
    ASSUME Ledger(rows), NEW q, WellFormed(q), q.op \notin {"create_flow", "create_item"},
           NEW d, DOMAIN d = {q.id} \cup Roots(q),
           \A x \in Roots(q) : Alive(x) /\ d[x] = Bump(rows[x]),
           q.id \in Setts,
           Real(rows, Held(q), Held(q), q.id, d[q.id]),
           d[q.id] \in RowsOf(q.id) \cup {None}, d[q.id] # None => Shaped(d[q.id]),
           ~Alive(q.id) => d[q.id] # None /\ q.op \in Creating /\ q.id \in DOMAIN q.rows
    PROVE  Sound(q, Held(q), d)
<1>1. Held(q) \subseteq Ids /\ Roots(q) \subseteq Held(q) /\ q.id \in Held(q)
  BY HeldGraph
<1>2. ASSUME NEW x \in Roots(q)
      PROVE  /\ d[x] \in RowsOf(x) /\ d[x] # None /\ Soft(Held(q), x, rows[x], d[x])
             /\ x \in Setts => Shaped(d[x])
  BY <1>1, Bumped
<1>3. Guarded(rows, Held(q), Held(q), d)
  BY <1>1, <1>2 DEF Guarded
<1>4. \A x \in DOMAIN d : /\ d[x] \in RowsOf(x) \cup {None}
                          /\ x \in Setts /\ d[x] # None => Shaped(d[x])
                          /\ ~Alive(x) => /\ d[x] # None
                                          /\ q.op \in Creating /\ x \in DOMAIN q.rows
                                          /\ x \notin gone \ Setts
  BY <1>2
<1>. QED  BY <1>1, <1>3, <1>4 DEF Sound

\* A new settlement writes itself and the versions of what it points to.
LEMMA CreateSettlementSound ==
    ASSUME Ledger(rows), Validated(rows, Ids), NEW q, WellFormed(q),
           q.op = "create_settlement", NEW seen, MayCreateSettlement(q, seen)
    PROVE  Sound(q, Held(q), CreateSettlementWrites(q))
<1>. DEFINE d == CreateSettlementWrites(q)
<1>1. q.id \in Setts /\ DOMAIN q.rows = {q.id} /\ q.id \in Ids
  BY DEF WellFormed
<1>2. /\ q.rows[q.id] \in RowsOf(q.id) /\ q.rows[q.id] # None /\ Shaped(q.rows[q.id])
  BY <1>1, Proposed
<1>3. /\ Roots(q) \subseteq Items \cup Flows /\ Roots(q) \subseteq Held(q)
      /\ q.id \notin Roots(q)
  BY <1>1, HeldGraph, RowTypes
<1>4. DOMAIN d = {q.id} \cup Roots(q) /\ d[q.id] = q.rows[q.id]
  BY DEF CreateSettlementWrites
<1>5. \A x \in Roots(q) : d[x] = Bump(rows[x])
  BY <1>3 DEF CreateSettlementWrites
<1>6. \A x \in Roots(q) : Alive(x)
  BY <1>1, <1>3 DEF MayCreateSettlement, Refers
<1>7. ~Alive(q.id)
  BY DEF MayCreateSettlement
<1>8. Ends(q.rows[q.id], q.id) \subseteq Held(q)
  BY <1>3 DEF Roots
<1>. HIDE DEF d
<1>9. Real(rows, Held(q), Held(q), q.id, d[q.id])
  BY <1>1, <1>4, <1>7, <1>8, RealNew, AnchorsAreEnds
<1>10. Sound(q, Held(q), d)
  BY <1>1, <1>2, <1>4, <1>5, <1>6, <1>9, SettSound DEF Creating
<1>. QED  BY <1>10 DEF d

\* A changed settlement writes the rows it pointed to before as well.
LEMMA UpdateSettlementSound ==
    ASSUME Ledger(rows), NEW q, WellFormed(q),
           q.op = "update_settlement", NEW seen, MayUpdateSettlement(q, seen)
    PROVE  Sound(q, Held(q), UpdateSettlementWrites(q))
<1>. DEFINE d == UpdateSettlementWrites(q)
<1>1. q.id \in Setts /\ DOMAIN q.rows = {q.id} /\ q.id \in Ids
  BY DEF WellFormed
<1>2. /\ q.rows[q.id] \in RowsOf(q.id) /\ Shaped(q.rows[q.id])
  BY <1>1, Proposed
<1>3. /\ Bump(q.rows[q.id]) \in RowsOf(q.id) /\ Bump(q.rows[q.id]) # None
      /\ Shaped(Bump(q.rows[q.id]))
      /\ Ends(Bump(q.rows[q.id]), q.id) = Ends(q.rows[q.id], q.id)
  BY <1>1, <1>2, BumpRow
<1>4. /\ Roots(q) \subseteq Items \cup Flows /\ Roots(q) \subseteq Held(q)
      /\ q.id \notin Roots(q) /\ q.id \in Held(q)
  BY <1>1, HeldGraph, RowTypes
<1>5. DOMAIN d = {q.id} \cup Roots(q) /\ d[q.id] = Bump(q.rows[q.id])
  BY DEF UpdateSettlementWrites
<1>6. \A x \in Roots(q) : d[x] = Bump(rows[x])
  BY <1>4 DEF UpdateSettlementWrites
<1>7. \A x \in Held(q) : Alive(x)
  BY DEF MayUpdateSettlement
<1>8. Ends(q.rows[q.id], q.id) \cup Ends(rows[q.id], q.id) \subseteq Held(q)
  BY <1>4, AroundHas DEF Roots
<1>. HIDE DEF d
<1>9. Real(rows, Held(q), Held(q), q.id, d[q.id])
  BY <1>1, <1>3, <1>5, <1>8, RealSett
<1>10. Sound(q, Held(q), d)
  BY <1>1, <1>3, <1>4, <1>5, <1>6, <1>7, <1>9, SettSound
<1>. QED  BY <1>10 DEF d

\* A deleted settlement leaves its item and its source with new versions.
LEMMA DeleteSettlementSound ==
    ASSUME Ledger(rows), NEW q, WellFormed(q),
           q.op = "delete_settlement", NEW seen, MayDeleteSettlement(q, seen)
    PROVE  Sound(q, Held(q), DeleteSettlementWrites(q))
<1>. DEFINE d == DeleteSettlementWrites(q)
<1>1. q.id \in Setts /\ q.id \in Ids
  BY DEF WellFormed
<1>2. /\ Roots(q) \subseteq Items \cup Flows /\ Roots(q) \subseteq Held(q)
      /\ q.id \notin Roots(q) /\ q.id \in Held(q)
  BY <1>1, HeldGraph, RowTypes
<1>3. DOMAIN d = {q.id} \cup Roots(q) /\ d[q.id] = None
  BY DEF DeleteSettlementWrites
<1>4. \A x \in Roots(q) : d[x] = Bump(rows[x])
  BY <1>2 DEF DeleteSettlementWrites
<1>5. \A x \in Held(q) : Alive(x)
  BY DEF MayDeleteSettlement
<1>6. Ends(rows[q.id], q.id) \subseteq Held(q) /\ Ends(None, q.id) = {}
  BY <1>2, AroundHas DEF Roots, Ends
<1>. HIDE DEF d
<1>7. Real(rows, Held(q), Held(q), q.id, d[q.id])
  BY <1>1, <1>3, <1>6, RealSett
<1>8. Sound(q, Held(q), d)
  BY <1>1, <1>2, <1>3, <1>4, <1>5, <1>7, SettSound
<1>. QED  BY <1>8 DEF d

\* A command that finds every row of its graph there creates none.
LEMMA SoundIfAlive ==
    ASSUME NEW q, \A x \in Held(q) : Alive(x), Held(q) \subseteq Ids,
           NEW d, DOMAIN d \subseteq Held(q),
           \A x \in DOMAIN d : /\ d[x] \in RowsOf(x) \cup {None}
                               /\ x \in Setts /\ d[x] # None => Shaped(d[x])
                               /\ \/ Soft(Held(q), x, rows[x], d[x])
                                  \/ Real(rows, Held(q), Held(q), x, d[x])
    PROVE  Sound(q, Held(q), d)
BY DEF Sound, Guarded

\* A changed item is a root: all that counts it is locked.
LEMMA UpdateItemSound ==
    ASSUME Ledger(rows), NEW q, WellFormed(q),
           q.op = "update_item", NEW seen, MayUpdateItem(q, seen)
    PROVE  Sound(q, Held(q), UpdateItemWrites(q))
<1>. DEFINE d == UpdateItemWrites(q)
<1>1. q.id \in Items /\ DOMAIN q.rows = {q.id} /\ q.id \in Ids /\ q.id \notin Setts
  BY RowTypes DEF WellFormed
<1>2. Roots(q) = {q.id} \cup Ends(q.rows[q.id], q.id)
  BY DEF Roots
<1>3. /\ Roots(q) \in SUBSET (Items \cup Flows) /\ Roots(q) \subseteq Held(q)
      /\ Relations(Roots(q)) \subseteq Held(q) /\ Held(q) \subseteq Ids
  BY HeldGraph
<1>4. q.id \in OwnOf(Roots(q))
  BY <1>1, <1>2 DEF OwnOf
<1>5. /\ Bump(q.rows[q.id]) \in RowsOf(q.id)
      /\ Ends(Bump(q.rows[q.id]), q.id) = Ends(q.rows[q.id], q.id)
  BY <1>1, Proposed, BumpRow
<1>6. Real(rows, Held(q), Held(q), q.id, Bump(q.rows[q.id]))
  BY <1>2, <1>3, <1>4, <1>5, RealRoot
<1>7. DOMAIN d = {q.id} /\ d[q.id] = Bump(q.rows[q.id])
  BY DEF UpdateItemWrites
<1>8. \A x \in Held(q) : Alive(x)
  BY DEF MayUpdateItem
<1>. HIDE DEF d
<1>9. Sound(q, Held(q), d)
  BY <1>1, <1>2, <1>3, <1>5, <1>6, <1>7, <1>8, SoundIfAlive
<1>. QED  BY <1>9 DEF d

\* The settlements on items near the roots, and what is at their ends.
LEMMA DroppedIn ==
    ASSUME Ledger(rows), NEW R \in SUBSET (Items \cup Flows), NEW F, NEW I,
           F \subseteq R \cap Flows, I \subseteq NearOf(R)
    PROVE  /\ Touching(F, I) \subseteq MetBy(R) /\ Touching(F, I) \subseteq Setts
           /\ Around(Touching(F, I)) \subseteq Relations(R)
           /\ Around(Touching(F, I)) \subseteq Items \cup Flows
<1>1. Touching(F, I) \subseteq MetBy(R) /\ Touching(F, I) \subseteq Setts
  BY DEF Touching, MetBy
<1>2. Around(Touching(F, I)) \subseteq Relations(R)
  BY <1>1, AroundIn, GraphCovers
<1>. QED  BY <1>1, <1>2, AroundIds DEF Ids

\* A deleted item takes its settlements along, and nothing refers to it.
LEMMA DeleteItemSound ==
    ASSUME Ledger(rows), NEW q, WellFormed(q),
           q.op = "delete_item", NEW seen, MayDeleteItem(q, seen)
    PROVE  Sound(q, Held(q), DeleteItemWrites(q))
<1>. DEFINE d == DeleteItemWrites(q)
            G == Held(q)
            dropped == Touching({}, {q.id})
<1>1. q.id \in Items /\ q.id \in Ids /\ q.id \notin Setts
  BY RowTypes DEF WellFormed
<1>2. Roots(q) = {q.id}
  BY DEF Roots
<1>3. /\ Roots(q) \in SUBSET (Items \cup Flows) /\ Roots(q) \subseteq G
      /\ Relations(Roots(q)) \subseteq G /\ G \subseteq Ids
  BY HeldGraph
<1>4. q.id \in OwnOf(Roots(q)) /\ {q.id} \subseteq NearOf(Roots(q))
  BY <1>1, <1>2 DEF OwnOf, NearOf
<1>5. /\ dropped \subseteq MetBy(Roots(q)) /\ dropped \subseteq Setts
      /\ Around(dropped) \subseteq G /\ Around(dropped) \subseteq Items \cup Flows
  BY <1>3, <1>4, DroppedIn
<1>6. DOMAIN d = {q.id} \cup dropped \cup Around(dropped)
  BY DEF DeleteItemWrites
<1>7. /\ \A x \in {q.id} \cup dropped : d[x] = None
      /\ \A x \in Around(dropped) \ ({q.id} \cup dropped) : d[x] = Bump(rows[x])
  BY DEF DeleteItemWrites
<1>8. \A x \in G : Alive(x)
  BY DEF MayDeleteItem
<1>9. \A x : Ends(None, x) = {}
  BY DEF Ends
<1>10. DOMAIN d \subseteq G
  BY <1>2, <1>3, <1>5, <1>6, GraphCovers
<1>. HIDE DEF d, dropped
<1>11. Real(rows, G, G, q.id, d[q.id])
  BY <1>3, <1>4, <1>7, <1>9, RealRoot
<1>12. ASSUME NEW x \in dropped
       PROVE  Real(rows, G, G, x, d[x])
  <2>1. Ends(rows[x], x) \subseteq G
    BY <1>3, <1>5, GraphCovers
  <2>. QED  BY <1>5, <1>7, <1>9, <2>1, RealSett
<1>13. ASSUME NEW x \in Around(dropped) \ ({q.id} \cup dropped)
       PROVE  /\ d[x] \in RowsOf(x) /\ (x \in Setts => Shaped(d[x]))
              /\ Soft(G, x, rows[x], d[x])
  <2>1. x \in Ids /\ Alive(x)
    BY <1>3, <1>5, <1>8
  <2>. QED  BY <1>7, <2>1, Bumped
<1>14. Sound(q, G, d)
  BY <1>3, <1>6, <1>7, <1>8, <1>10, <1>11, <1>12, <1>13, SoundIfAlive
<1>. QED  BY <1>14 DEF d

\* An item with another project, with another amount too, and one with another origin.
Relocated(r, p) == [Bump(r) EXCEPT !.project = p]
Corrected(r, a, p) == [Bump(r) EXCEPT !.amount = a, !.project = p]
Loosened(r, o) == [Bump(r) EXCEPT !.origin = o, !.made = FALSE]

\* What a correction makes of an item is an item.
LEMMA ItemVariants ==
    ASSUME NEW i \in Items, NEW r \in ItemRow
    PROVE  /\ \A p \in Projects : /\ Relocated(r, p) \in RowsOf(i)
                                  /\ Ends(Relocated(r, p), i) = Ends(r, i)
           /\ \A a \in Amounts, p \in Projects : /\ Corrected(r, a, p) \in RowsOf(i)
                                                 /\ Ends(Corrected(r, a, p), i) = Ends(r, i)
           /\ \A o \in Flows \cup {None} : /\ Loosened(r, o) \in RowsOf(i)
                                          /\ Ends(Loosened(r, o), i) \subseteq Ends(r, i) \cup ({o} \ {None})
<1>0. i \in Ids /\ RowsOf(i) = ItemRow /\ i \notin Flows /\ None \notin ItemRow
  BY RowTypes DEF Ids
<1>1. Bump(r) = [r EXCEPT !.first = FALSE]
  BY <1>0 DEF Bump
<1>2. /\ Bump(r) \in ItemRow
      /\ Bump(r).related = r.related /\ Bump(r).origin = r.origin
  BY <1>1 DEF ItemRow
<1>3. ASSUME NEW p \in Projects
      PROVE  Relocated(r, p) \in RowsOf(i) /\ Ends(Relocated(r, p), i) = Ends(r, i)
  <2>. DEFINE s == Relocated(r, p)
  <2>1. s \in ItemRow /\ s.related = r.related /\ s.origin = r.origin
    BY <1>2 DEF ItemRow, Relocated
  <2>. HIDE DEF s
  <2>2. s \in RowsOf(i) /\ Ends(s, i) = Ends(r, i)
    BY <1>0, <2>1 DEF Ends
  <2>. QED  BY <2>2 DEF s
<1>4. ASSUME NEW a \in Amounts, NEW p \in Projects
      PROVE  Corrected(r, a, p) \in RowsOf(i) /\ Ends(Corrected(r, a, p), i) = Ends(r, i)
  <2>. DEFINE s == Corrected(r, a, p)
  <2>1. s \in ItemRow /\ s.related = r.related /\ s.origin = r.origin
    BY <1>2 DEF ItemRow, Corrected
  <2>. HIDE DEF s
  <2>2. s \in RowsOf(i) /\ Ends(s, i) = Ends(r, i)
    BY <1>0, <2>1 DEF Ends
  <2>. QED  BY <2>2 DEF s
<1>5. ASSUME NEW o \in Flows \cup {None}
      PROVE  /\ Loosened(r, o) \in RowsOf(i)
             /\ Ends(Loosened(r, o), i) \subseteq Ends(r, i) \cup ({o} \ {None})
  <2>. DEFINE s == Loosened(r, o)
  <2>1. s \in ItemRow /\ s.related = r.related /\ s.origin = o
    BY <1>2 DEF ItemRow, Loosened
  <2>. HIDE DEF s
  <2>2. s \in RowsOf(i) /\ Ends(s, i) \subseteq Ends(r, i) \cup ({o} \ {None})
    BY <1>0, <2>1 DEF Ends
  <2>. QED  BY <2>2 DEF s
<1>. QED  BY <1>3, <1>4, <1>5

\* The roots of a command on a flow: what comes from the flow, and the corrected item.
LEMMA FlowRoots ==
    ASSUME Ledger(rows), NEW q, WellFormed(q), q.op \in {"update_flow", "delete_flow"},
           NEW seen, MayCorrect(q, seen)
    PROVE  /\ Roots(q) = {q.id, q.item, q.target} \ {None}
           /\ Roots(q) \in SUBSET (Items \cup Flows) /\ Roots(q) \subseteq Held(q)
           /\ Relations(Roots(q)) \subseteq Held(q) /\ Held(q) \subseteq Ids
           /\ q.id \in Roots(q) \cap Flows
           /\ q.target # None => q.target \in Roots(q) \cap Flows
           /\ Owned({q.id}) \subseteq OwnOf(Roots(q)) /\ Owned({q.id}) \subseteq Items
           /\ OwnOf(Roots(q)) \subseteq Held(q) /\ OwnOf(Roots(q)) \subseteq NearOf(Roots(q))
           /\ q.item # None => q.item \in Owned({q.id}) /\ q.act # None
           /\ \A x \in Held(q) : Alive(x)
<1>1. /\ q.id \in Flows /\ q.target \in Flows \cup {None} /\ q.id # None
      /\ q.act = None => q.item = None
  BY RowTypes DEF WellFormed, Ids
<1>2. Roots(q) = {q.id, q.item, q.target} \ {None}
  BY DEF Roots
<1>3. q.id \in Roots(q) \cap Flows /\ (q.target # None => q.target \in Roots(q) \cap Flows)
  BY <1>1, <1>2
<1>4. /\ Roots(q) \in SUBSET (Items \cup Flows) /\ Roots(q) \subseteq Held(q)
      /\ Relations(Roots(q)) \subseteq Held(q) /\ Held(q) \subseteq Ids
  BY HeldGraph
<1>5. Owned({q.id}) \subseteq OwnOf(Roots(q)) /\ Owned({q.id}) \subseteq Items
  BY <1>3 DEF OwnOf, Owned
<1>6. OwnOf(Roots(q)) \subseteq NearOf(Roots(q)) /\ OwnOf(Roots(q)) \subseteq Held(q)
  BY <1>4, GraphCovers DEF NearOf
<1>7. q.item # None => q.item \in Owned({q.id}) /\ q.act # None
  BY <1>1 DEF MayCorrect
<1>8. \A x \in Held(q) : Alive(x)
  BY DEF MayCorrect
<1>. QED  BY <1>2, <1>3, <1>4, <1>5, <1>6, <1>7, <1>8

\* The item a correction names, after it: it came from the old flow, the new one or none.
LEMMA ReboundRow ==
    ASSUME Ledger(rows), NEW q, WellFormed(q), q.op \in {"update_flow", "delete_flow"},
           NEW seen, MayCorrect(q, seen), q.item # None, q.act # "delete_false_item",
           q.act = "correct_amount" => q.op = "update_flow"
    PROVE  /\ Rebound(q, q.item) \in RowsOf(q.item)
           /\ Ends(Rebound(q, q.item), q.item) \subseteq Held(q)
<1>. DEFINE i == q.item
<1>0. /\ i \in Owned({q.id}) /\ i \in OwnOf(Roots(q)) /\ i \in NearOf(Roots(q))
      /\ Owned({q.id}) \subseteq Items /\ Alive(i) /\ q.act # None
      /\ Relations(Roots(q)) \subseteq Held(q) /\ Roots(q) \in SUBSET (Items \cup Flows)
      /\ q.target # None => q.target \in Held(q)
  BY FlowRoots
<1>1. i \in Items /\ i \in Ids /\ rows[i] \in ItemRow
  BY <1>0, ItemThere
<1>2. Ends(rows[i], i) \subseteq Held(q)
  BY <1>0, GraphCovers
<1>3. CASE q.act = "keep_independent"
  <2>1. Rebound(q, i) = Loosened(rows[i], None)
    BY <1>3 DEF Rebound, Loosened
  <2>. QED  BY <1>1, <1>2, <2>1, ItemVariants
<1>4. CASE q.act = "rebind_flow"
  <2>1. Rebound(q, i) = Loosened(rows[i], q.target)
    BY <1>4 DEF Rebound, Loosened
  <2>2. q.target \in Flows /\ q.target \in Held(q)
    BY <1>0, <1>4 DEF WellFormed
  <2>. QED  BY <1>1, <1>2, <2>1, <2>2, ItemVariants
<1>5. CASE q.act = "correct_amount"
  <2>1. Rebound(q, i) = Corrected(rows[i], q.rows[i].amount, q.rows[q.id].project)
    BY <1>5 DEF Rebound, Corrected
  <2>2. q.rows[i] \in ItemRow /\ q.rows[q.id] \in FlowRow
    BY <1>1, <1>5, Proposed, RowTypes DEF WellFormed
  <2>3. q.rows[i].amount \in Amounts /\ q.rows[q.id].project \in Projects
    BY <2>2 DEF ItemRow, FlowRow
  <2>. QED  BY <1>1, <1>2, <2>1, <2>3, ItemVariants
<1>6. q.act \in SourceActions
  BY <1>0 DEF WellFormed
<1>. QED  BY <1>3, <1>4, <1>5, <1>6 DEF SourceActions

\* A changed flow, the items that follow its project and the corrected one are in its graph.
LEMMA UpdateFlowSound ==
    ASSUME Ledger(rows), NEW q, WellFormed(q),
           q.op = "update_flow", NEW seen, MayUpdateFlow(q, seen)
    PROVE  Sound(q, Held(q), UpdateFlowWrites(q))
<1>. DEFINE d == UpdateFlowWrites(q)
            G == Held(q)
            R == Roots(q)
            false == IF q.act = "delete_false_item" THEN {q.item} ELSE {}
            dropped == Touching({}, false)
            moved == {i \in Owned({q.id}) \ {q.item} :
                          rows[i].made /\ rows[i].project # q.rows[q.id].project}
<1>0. MayCorrect(q, seen)
  BY DEF MayUpdateFlow
<1>1. /\ R = {q.id, q.item, q.target} \ {None}
      /\ R \in SUBSET (Items \cup Flows) /\ R \subseteq G
      /\ Relations(R) \subseteq G /\ G \subseteq Ids
      /\ q.id \in R \cap Flows
      /\ q.target # None => q.target \in R \cap Flows
      /\ Owned({q.id}) \subseteq OwnOf(R) /\ Owned({q.id}) \subseteq Items
      /\ OwnOf(R) \subseteq G /\ OwnOf(R) \subseteq NearOf(R)
      /\ q.item # None => q.item \in Owned({q.id}) /\ q.act # None
      /\ \A x \in G : Alive(x)
  BY <1>0, FlowRoots
<1>2. q.act = "delete_false_item" => q.item \in Owned({q.id}) /\ q.item # None
  <2>1. "delete_false_item" # None
    BY CashLedgerAssumption DEF SourceActions
  <2>2. q.act = "delete_false_item" => q.item \in Owned({q.id})
    BY <1>0, <2>1 DEF MayCorrect
  <2>. QED  BY <1>1, <2>2, RowTypes DEF Ids
<1>3. false \subseteq NearOf(R) /\ false \subseteq OwnOf(R)
  BY <1>1, <1>2
<1>4. /\ dropped \subseteq MetBy(R) /\ dropped \subseteq Setts
      /\ Around(dropped) \subseteq G /\ Around(dropped) \subseteq Items \cup Flows
  BY <1>1, <1>3, DroppedIn
<1>5. moved \subseteq OwnOf(R) /\ moved \subseteq Items
  BY <1>1
<1>6. DOMAIN d = ({q.id, q.item, q.target} \ {None}) \cup moved \cup dropped \cup Around(dropped)
  BY DEF UpdateFlowWrites
<1>7. ASSUME NEW x \in DOMAIN d
      PROVE  d[x] = IF x = q.id THEN Bump(q.rows[x])
                    ELSE IF x \in false \cup dropped THEN None
                    ELSE IF x = q.item THEN Rebound(q, x)
                    ELSE IF x \in moved THEN Relocated(rows[x], q.rows[q.id].project)
                    ELSE Bump(rows[x])
  BY <1>7 DEF UpdateFlowWrites, Relocated
<1>8. \A x : Ends(None, x) = {}
  BY DEF Ends
<1>9. DOMAIN d \subseteq G
  BY <1>1, <1>4, <1>5, <1>6, GraphCovers
<1>10. q.id \in DOMAIN q.rows /\ q.rows[q.id] \in RowsOf(q.id) /\ q.id \in Ids
  BY Proposed DEF WellFormed
<1>. HIDE DEF d, dropped, moved, false
<1>. DEFINE Fine(x) == /\ d[x] \in RowsOf(x) \cup {None}
                       /\ x \in Setts /\ d[x] # None => Shaped(d[x])
                       /\ \/ Soft(G, x, rows[x], d[x])
                          \/ Real(rows, G, G, x, d[x])
<1>11. ASSUME NEW x \in DOMAIN d, x = q.id
       PROVE  Fine(x)
  <2>1. d[x] = Bump(q.rows[x]) /\ d[x] \in RowsOf(x) /\ x \notin Setts
    BY <1>1, <1>7, <1>10, <1>11, BumpRow, RowTypes
  <2>2. Real(rows, G, G, x, d[x])
    BY <1>1, <1>11, FlowEnds, RealRoot
  <2>. QED  BY <2>1, <2>2
<1>12. ASSUME NEW x \in DOMAIN d, x # q.id, x \in false
       PROVE  Fine(x)
  <2>1. d[x] = None
    BY <1>7, <1>12
  <2>2. Real(rows, G, G, x, d[x])
    BY <1>1, <1>3, <1>8, <1>12, <2>1, RealRoot
  <2>. QED  BY <2>1, <2>2
<1>13. ASSUME NEW x \in DOMAIN d, x # q.id, x \in dropped
       PROVE  Fine(x)
  <2>1. d[x] = None
    BY <1>7, <1>13
  <2>2. Ends(rows[x], x) \subseteq G
    BY <1>1, <1>4, <1>13, GraphCovers
  <2>3. Real(rows, G, G, x, d[x])
    BY <1>4, <1>8, <1>13, <2>1, <2>2, RealSett
  <2>. QED  BY <2>1, <2>3
<1>14. ASSUME NEW x \in DOMAIN d, x # q.id, x \notin false \cup dropped, x = q.item
       PROVE  Fine(x)
  <2>1. d[x] = Rebound(q, x)
    BY <1>7, <1>14
  <2>2. q.item # None /\ q.act # "delete_false_item" /\ x \in Ids
    BY <1>1, <1>9, <1>14, RowTypes DEF false
  <2>3. d[x] \in RowsOf(x) /\ Ends(d[x], x) \subseteq G
    BY <1>0, <1>14, <2>1, <2>2, ReboundRow
  <2>4. x \in OwnOf(R) /\ x \notin Setts
    BY <1>1, <1>14, <2>2, RowTypes
  <2>5. Real(rows, G, G, x, d[x])
    BY <1>1, <2>3, <2>4, RealRoot
  <2>. QED  BY <2>3, <2>4, <2>5
<1>15. ASSUME NEW x \in DOMAIN d, x # q.id, x \notin false \cup dropped, x # q.item, x \in moved
       PROVE  Fine(x)
  <2>1. d[x] = Relocated(rows[x], q.rows[q.id].project)
    BY <1>7, <1>15
  <2>2. x \in Items /\ rows[x] \in ItemRow /\ x \notin Setts /\ x \in OwnOf(R)
    BY <1>1, <1>5, <1>9, <1>15, ItemThere
  <2>3. q.rows[q.id].project \in Projects
    <3>1. q.rows[q.id] \in FlowRow
      BY <1>1, <1>10, RowTypes
    <3>. QED  BY <3>1 DEF FlowRow
  <2>4. d[x] \in RowsOf(x) /\ Ends(d[x], x) = Ends(rows[x], x)
    BY <2>1, <2>2, <2>3, ItemVariants
  <2>5. Ends(rows[x], x) \subseteq G
    BY <1>1, <2>2, GraphCovers
  <2>6. Real(rows, G, G, x, d[x])
    BY <1>1, <2>2, <2>4, <2>5, RealRoot
  <2>. QED  BY <2>2, <2>4, <2>6
<1>16. ASSUME NEW x \in DOMAIN d, x # q.id, x \notin false \cup dropped, x # q.item, x \notin moved
       PROVE  Fine(x)
  <2>1. d[x] = Bump(rows[x]) /\ x \in Ids /\ Alive(x)
    BY <1>1, <1>7, <1>9, <1>16
  <2>. QED  BY <2>1, Bumped
<1>17. \A x \in DOMAIN d : Fine(x)
  BY <1>11, <1>12, <1>13, <1>14, <1>15, <1>16
<1>18. Sound(q, G, d)
  BY <1>1, <1>9, <1>17, SoundIfAlive
<1>. QED  BY <1>18 DEF d

\* A deleted flow takes what was made with it and loosens what was linked to it.
LEMMA DeleteFlowSound ==
    ASSUME Ledger(rows), NEW q, WellFormed(q),
           q.op = "delete_flow", NEW seen, MayDeleteFlow(q, seen)
    PROVE  Sound(q, Held(q), DeleteFlowWrites(q))
<1>. DEFINE d == DeleteFlowWrites(q)
            G == Held(q)
            R == Roots(q)
            dropped == Touching({q.id}, Fallen(q))
<1>0. MayCorrect(q, seen) /\ q.act # "correct_amount"
  BY DEF MayDeleteFlow
<1>1. /\ R = {q.id, q.item, q.target} \ {None}
      /\ R \in SUBSET (Items \cup Flows) /\ R \subseteq G
      /\ Relations(R) \subseteq G /\ G \subseteq Ids
      /\ q.id \in R \cap Flows
      /\ q.target # None => q.target \in R \cap Flows
      /\ Owned({q.id}) \subseteq OwnOf(R) /\ Owned({q.id}) \subseteq Items
      /\ OwnOf(R) \subseteq G /\ OwnOf(R) \subseteq NearOf(R)
      /\ q.item # None => q.item \in Owned({q.id}) /\ q.act # None
      /\ \A x \in G : Alive(x)
  BY <1>0, FlowRoots
<1>2. Fallen(q) \subseteq Owned({q.id})
  BY DEF Fallen
<1>3. /\ dropped \subseteq MetBy(R) /\ dropped \subseteq Setts
      /\ Around(dropped) \subseteq G /\ Around(dropped) \subseteq Items \cup Flows
  <2>1. {q.id} \subseteq R \cap Flows /\ Fallen(q) \subseteq NearOf(R)
    BY <1>1, <1>2
  <2>. QED  BY <1>1, <2>1, DroppedIn
<1>4. DOMAIN d = ({q.id, q.target} \ {None}) \cup Owned({q.id}) \cup dropped \cup Around(dropped)
  BY DEF DeleteFlowWrites
<1>5. ASSUME NEW x \in DOMAIN d
      PROVE  d[x] = IF x \in {q.id} \cup Fallen(q) \cup dropped THEN None
                    ELSE IF x = q.item THEN Rebound(q, x)
                    ELSE IF x \in Owned({q.id}) THEN Loosened(rows[x], None)
                    ELSE Bump(rows[x])
  BY <1>5 DEF DeleteFlowWrites, Loosened
<1>6. \A x : Ends(None, x) = {}
  BY DEF Ends
<1>7. DOMAIN d \subseteq G
  BY <1>1, <1>3, <1>4, GraphCovers
<1>. HIDE DEF d, dropped
<1>. DEFINE Fine(x) == /\ d[x] \in RowsOf(x) \cup {None}
                       /\ x \in Setts /\ d[x] # None => Shaped(d[x])
                       /\ \/ Soft(G, x, rows[x], d[x])
                          \/ Real(rows, G, G, x, d[x])
<1>8. ASSUME NEW x \in DOMAIN d, x \in {q.id} \cup Fallen(q)
      PROVE  Fine(x)
  <2>1. d[x] = None /\ x \in OwnOf(R) \cup (R \cap Flows)
    BY <1>1, <1>2, <1>5, <1>8
  <2>2. Real(rows, G, G, x, d[x])
    BY <1>1, <1>6, <2>1, RealRoot
  <2>. QED  BY <2>1, <2>2
<1>9. ASSUME NEW x \in DOMAIN d, x \in dropped
      PROVE  Fine(x)
  <2>1. d[x] = None
    BY <1>5, <1>9
  <2>2. Ends(rows[x], x) \subseteq G
    BY <1>1, <1>3, <1>9, GraphCovers
  <2>3. Real(rows, G, G, x, d[x])
    BY <1>3, <1>6, <1>9, <2>1, <2>2, RealSett
  <2>. QED  BY <2>1, <2>3
<1>10. ASSUME NEW x \in DOMAIN d, x \notin {q.id} \cup Fallen(q) \cup dropped, x = q.item
       PROVE  Fine(x)
  <2>1. d[x] = Rebound(q, x)
    BY <1>5, <1>10
  <2>2. q.item # None /\ x \in Ids
    BY <1>1, <1>7, <1>10, RowTypes
  <2>3. x \in Owned({q.id}) /\ x \in OwnOf(R) /\ x \notin Setts
    BY <1>1, <1>10, <2>2, RowTypes
  <2>4. q.act # "delete_false_item"
    BY <1>10, <2>3 DEF Fallen
  <2>5. d[x] \in RowsOf(x) /\ Ends(d[x], x) \subseteq G
    BY <1>0, <1>10, <2>1, <2>2, <2>4, ReboundRow
  <2>6. Real(rows, G, G, x, d[x])
    BY <1>1, <2>3, <2>5, RealRoot
  <2>. QED  BY <2>3, <2>5, <2>6
<1>11. ASSUME NEW x \in DOMAIN d, x \notin {q.id} \cup Fallen(q) \cup dropped, x # q.item,
              x \in Owned({q.id})
       PROVE  Fine(x)
  <2>1. d[x] = Loosened(rows[x], None)
    BY <1>5, <1>11
  <2>2. x \in Items /\ rows[x] \in ItemRow /\ x \notin Setts /\ x \in OwnOf(R)
    BY <1>1, <1>7, <1>11, ItemThere
  <2>3. d[x] \in RowsOf(x) /\ Ends(d[x], x) \subseteq Ends(rows[x], x)
    BY <2>1, <2>2, ItemVariants
  <2>4. Ends(rows[x], x) \subseteq G
    BY <1>1, <2>2, GraphCovers
  <2>5. Real(rows, G, G, x, d[x])
    BY <1>1, <2>2, <2>3, <2>4, RealRoot
  <2>. QED  BY <2>2, <2>3, <2>5
<1>12. ASSUME NEW x \in DOMAIN d, x \notin {q.id} \cup Fallen(q) \cup dropped, x # q.item,
              x \notin Owned({q.id})
       PROVE  Fine(x)
  <2>1. d[x] = Bump(rows[x]) /\ x \in Ids /\ Alive(x)
    BY <1>1, <1>5, <1>7, <1>12
  <2>. QED  BY <2>1, Bumped
<1>13. \A x \in DOMAIN d : Fine(x)
  BY <1>8, <1>9, <1>10, <1>11, <1>12
<1>14. Sound(q, G, d)
  BY <1>1, <1>7, <1>13, SoundIfAlive
<1>. QED  BY <1>14 DEF d

-----------------------------------------------------------------------------
(* What a step that leaves a graph alone does to the command that holds it. *)

\* Between v and w nothing changed that has to do with the rows of U.
Apart(v, w, U) ==
    /\ Untouched(v, w, U)
    /\ \A i \in Items : \A y \in U :
           (v[i] # None /\ v[i].related = y) <=> (w[i] # None /\ w[i].related = y)

\* Guarded writes touch nothing that rows outside the locks have to do with.
LEMMA GuardedApart ==
    ASSUME NEW v, Ledger(v), NEW G, NEW T, NEW d, Guarded(v, G, T, d),
           Ledger(Written(v, d)), NEW U \in SUBSET Ids, U \cap G = {}
    PROVE  Apart(v, Written(v, d), U)
<1>. DEFINE w == Written(v, d)
<1>1. U \cap T = {}
  BY DEF Guarded
<1>2. Untouched(v, w, U) /\ Ledger(w)
  BY <1>1, GuardedLeave
<1>3. \A x \in Ids : w[x] = IF x \in DOMAIN d THEN d[x] ELSE v[x]
  BY DEF Written
<1>. HIDE DEF w
<1>4. ASSUME NEW i \in Items, NEW y \in U
      PROVE  (v[i] # None /\ v[i].related = y) <=> (w[i] # None /\ w[i].related = y)
  <2>0. i \in Ids /\ y # None
    BY RowTypes DEF Ids
  <2>1. CASE i \notin DOMAIN d
    BY <1>3, <2>0, <2>1
  <2>2. CASE i \in DOMAIN d /\ Soft(T, i, v[i], d[i])
    BY <1>3, <2>0, <2>2 DEF Soft
  <2>3. CASE i \in DOMAIN d /\ Real(v, G, T, i, d[i])
    <3>1. Ends(v[i], i) \cup Ends(w[i], i) \subseteq G
      BY <1>3, <2>0, <2>3 DEF Real
    <3>2. v[i] # None /\ v[i].related = y => y \in Ends(v[i], i)
      BY <2>0, ItemFields
    <3>3. w[i] # None /\ w[i].related = y => y \in Ends(w[i], i)
      BY <1>2, <2>0, ItemFields
    <3>. QED  BY <3>1, <3>2, <3>3
  <2>. QED  BY <2>1, <2>2, <2>3 DEF Guarded
<1>5. Apart(v, w, U)
  BY <1>2, <1>4 DEF Apart
<1>. QED  BY <1>5 DEF w

\* No writes, nothing touched.
LEMMA NothingApart ==
    ASSUME NEW v, NEW U
    PROVE  Apart(v, v, U)
<1>1. Untouched(v, v, U)
  <2>1. ASSUME NEW s \in Setts, (Ends(v[s], s) \cup Ends(v[s], s)) \cap U # {}
        PROVE  v[s] # None
    BY <2>1 DEF Ends
  <2>. QED  BY <2>1 DEF Untouched
<1>. QED  BY <1>1 DEF Apart

\* The rows of an untouched set are the same.
LEMMA SameThere ==
    ASSUME NEW G \in SUBSET Ids, Apart(rows, rows', G), NEW x \in G
    PROVE  rows'[x] = rows[x] /\ (Alive(x)' <=> Alive(x)) /\ Ends(rows'[x], x) = Ends(rows[x], x)
BY DEF Apart, Untouched, Alive

\* An untouched set owns the same items.
LEMMA SameOwned ==
    ASSUME NEW G \in SUBSET Ids, Apart(rows, rows', G), NEW F, F \subseteq G
    PROVE  Owned(F)' = Owned(F)
<1>1. \A i \in Items : \A f \in G :
          (rows[i] # None /\ rows[i].origin = f) <=> (rows'[i] # None /\ rows'[i].origin = f)
  BY DEF Apart, Untouched
<1>. QED  BY <1>1 DEF Owned, Alive

\* The same items refer to an untouched set.
LEMMA SameRefs ==
    ASSUME NEW G \in SUBSET Ids, Apart(rows, rows', G), NEW I, I \subseteq G
    PROVE  RefsTo(I)' = RefsTo(I)
<1>1. \A i \in Items : \A y \in G :
          (rows[i] # None /\ rows[i].related = y) <=> (rows'[i] # None /\ rows'[i].related = y)
  BY DEF Apart
<1>. QED  BY <1>1 DEF RefsTo, Alive

\* The ends of a settlement are what its fields name.
LEMMA PointsTo ==
    ASSUME NEW v, Ledger(v), NEW s \in Setts, v[s] # None,
           NEW y \in {v[s].item, v[s].source, v[s].flow}, y # None
    PROVE  y \in Ends(v[s], s)
BY SettFields

\* A settlement with an end in G is as it was, apart from its version.
LEMMA SameSett ==
    ASSUME Ledger(rows), Ledger(rows'), NEW G \in SUBSET Ids, Apart(rows, rows', G),
           NEW s \in Setts, NEW y \in G,
           \/ Alive(s) /\ y \in {rows[s].item, rows[s].source, rows[s].flow}
           \/ Alive(s)' /\ y \in {rows'[s].item, rows'[s].source, rows'[s].flow}
    PROVE  /\ Alive(s) /\ Alive(s)'
           /\ rows'[s].item = rows[s].item /\ rows'[s].source = rows[s].source
           /\ rows'[s].flow = rows[s].flow /\ rows'[s].kind = rows[s].kind
           /\ Ends(rows'[s], s) = Ends(rows[s], s)
<1>0. y # None
  BY RowTypes
<1>1. Alive(s) /\ y \in {rows[s].item, rows[s].source, rows[s].flow} => y \in Ends(rows[s], s)
  BY <1>0, PointsTo DEF Alive
<1>2. Alive(s)' /\ y \in {rows'[s].item, rows'[s].source, rows'[s].flow} => y \in Ends(rows'[s], s)
  BY <1>0, PointsTo DEF Alive
<1>3. (Ends(rows[s], s) \cup Ends(rows'[s], s)) \cap G # {}
  BY <1>1, <1>2
<1>4. /\ rows[s] # None /\ rows'[s] # None
      /\ rows'[s].item = rows[s].item /\ rows'[s].source = rows[s].source
      /\ rows'[s].flow = rows[s].flow /\ rows'[s].kind = rows[s].kind
  BY <1>3 DEF Apart, Untouched
<1>. QED  BY <1>4, SettFields DEF Alive

\* The same settlements are on an untouched set.
LEMMA SameTouching ==
    ASSUME Ledger(rows), Ledger(rows'), NEW G \in SUBSET Ids, Apart(rows, rows', G),
           NEW F, NEW I, F \subseteq G, I \subseteq G
    PROVE  /\ Touching(F, I)' = Touching(F, I)
           /\ \A s \in Touching(F, I) :
                  /\ rows'[s].flow = rows[s].flow /\ rows'[s].kind = rows[s].kind
                  /\ Ends(rows'[s], s) = Ends(rows[s], s)
<1>1. ASSUME NEW s \in Setts
      PROVE  s \in Touching(F, I)' <=> s \in Touching(F, I)
  <2>1. ASSUME s \in Touching(F, I)
        PROVE  s \in Touching(F, I)'
    <3>1. PICK y \in G : Alive(s) /\ y \in {rows[s].item, rows[s].source, rows[s].flow}
      BY <2>1 DEF Touching
    <3>2. /\ Alive(s)' /\ rows'[s].item = rows[s].item /\ rows'[s].source = rows[s].source
          /\ rows'[s].flow = rows[s].flow
      BY <3>1, SameSett
    <3>. QED  BY <2>1, <3>2 DEF Touching
  <2>2. ASSUME s \in Touching(F, I)'
        PROVE  s \in Touching(F, I)
    <3>1. PICK y \in G : Alive(s)' /\ y \in {rows'[s].item, rows'[s].source, rows'[s].flow}
      BY <2>2 DEF Touching
    <3>2. /\ Alive(s) /\ rows'[s].item = rows[s].item /\ rows'[s].source = rows[s].source
          /\ rows'[s].flow = rows[s].flow
      BY <3>1, SameSett
    <3>. QED  BY <2>2, <3>2 DEF Touching
  <2>. QED  BY <2>1, <2>2
<1>2. Touching(F, I)' \subseteq Setts /\ Touching(F, I) \subseteq Setts
  BY DEF Touching
<1>3. ASSUME NEW s \in Touching(F, I)
      PROVE  /\ rows'[s].flow = rows[s].flow /\ rows'[s].kind = rows[s].kind
             /\ Ends(rows'[s], s) = Ends(rows[s], s)
  <2>1. PICK y \in G : Alive(s) /\ y \in {rows[s].item, rows[s].source, rows[s].flow}
    BY DEF Touching
  <2>. QED  BY <1>2, <2>1, SameSett
<1>. QED  BY <1>1, <1>2, <1>3

\* The same rows are around rows that point to the same.
LEMMA SameAround ==
    ASSUME NEW T, \A x \in T : Ends(rows'[x], x) = Ends(rows[x], x)
    PROVE  Around(T)' = Around(T)
BY DEF Around

\* A graph is the same when nothing in it changed and nothing points to it anew.
LEMMA SameRelations ==
    ASSUME Ledger(rows), Ledger(rows'), NEW G \in SUBSET Ids, Apart(rows, rows', G),
           NEW R \in SUBSET (Items \cup Flows), Relations(R) \subseteq G
    PROVE  Relations(R)' = Relations(R)
<1>1. /\ R \subseteq G /\ OwnOf(R) \subseteq G /\ NearOf(R) \subseteq G /\ AllOf(R) \subseteq G
  BY GraphCovers, GraphParts DEF NearOf
<1>2. OwnOf(R)' = OwnOf(R)
  <2>1. Owned(R \cap Flows)' = Owned(R \cap Flows)
    BY <1>1, SameOwned
  <2>. QED  BY <2>1 DEF OwnOf
<1>3. NearOf(R)' = NearOf(R)
  <2>. DEFINE O == OwnOf(R)
  <2>1. PICK on : on = OwnOf(R)
    OBVIOUS
  <2>2. RefsTo(on)' = RefsTo(on)
    BY <1>1, <2>1, SameRefs
  <2>3. OwnOf(R)' = on
    BY <1>2, <2>1
  <2>4. NearOf(R) = on \cup RefsTo(on)
    BY <2>1 DEF NearOf
  <2>5. NearOf(R)' = on \cup RefsTo(on)'
    BY <2>3 DEF NearOf
  <2>. QED  BY <2>2, <2>4, <2>5
<1>4. /\ MetBy(R)' = MetBy(R)
      /\ \A s \in MetBy(R) : Ends(rows'[s], s) = Ends(rows[s], s)
  <2>1. PICK near : near = NearOf(R)
    OBVIOUS
  <2>2. /\ Touching(R \cap Flows, near)' = Touching(R \cap Flows, near)
        /\ \A s \in Touching(R \cap Flows, near) : Ends(rows'[s], s) = Ends(rows[s], s)
    BY <1>1, <2>1, SameTouching
  <2>3. NearOf(R)' = near
    BY <1>3, <2>1
  <2>4. MetBy(R) = Touching(R \cap Flows, near)
    BY <2>1 DEF MetBy
  <2>5. MetBy(R)' = Touching(R \cap Flows, near)'
    BY <2>3 DEF MetBy
  <2>. QED  BY <2>2, <2>4, <2>5
<1>5. AllOf(R)' = AllOf(R)
  <2>1. PICK met : met = MetBy(R)
    OBVIOUS
  <2>2. Around(met)' = Around(met)
    BY <1>4, <2>1, SameAround
  <2>3. MetBy(R)' = met
    BY <1>4, <2>1
  <2>4. AllOf(R) = NearOf(R) \cup (R \cap Flows) \cup Around(met)
    BY <2>1 DEF AllOf
  <2>5. AllOf(R)' = NearOf(R)' \cup (R \cap Flows) \cup Around(met)'
    BY <2>3 DEF AllOf
  <2>. QED  BY <1>3, <2>2, <2>4, <2>5
<1>6. Relations(R) = MetBy(R) \cup AllOf(R) \cup Around(AllOf(R) \cap Items)
  BY GraphParts
<1>7. Relations(R)' = (MetBy(R) \cup AllOf(R) \cup Around(AllOf(R) \cap Items))'
  BY DEF Relations, MetBy, AllOf, NearOf, OwnOf
<1>8. PICK all : all = AllOf(R) \cap Items
  OBVIOUS
<1>9. Around(all)' = Around(all)
  BY <1>1, <1>8, SameThere, SameAround
<1>10. (AllOf(R) \cap Items)' = all
  BY <1>5, <1>8
<1>11. Around(AllOf(R) \cap Items) = Around(all)
  BY <1>8
<1>12. Around(AllOf(R) \cap Items)' = Around(all)'
  BY <1>10
<1>. QED  BY <1>4, <1>5, <1>6, <1>7, <1>9, <1>11, <1>12

\* So what a request holds is the same.
LEMMA SameHeld ==
    ASSUME Ledger(rows), Ledger(rows'), NEW q, WellFormed(q),
           NEW G \in SUBSET Ids, Apart(rows, rows', G), Held(q) = G
    PROVE  /\ Held(q)' = G
           /\ q.op \notin {"create_flow", "create_item"} => Roots(q)' = Roots(q)
<1>1. CASE q.op \in {"create_flow", "create_item"}
  BY <1>1 DEF Held
<1>2. CASE q.op \notin {"create_flow", "create_item"}
  <2>1. /\ Roots(q) \subseteq Items \cup Flows /\ Roots(q) \subseteq G /\ q.id \in G
        /\ Relations(Roots(q)) \subseteq G
    BY <1>2, HeldGraph
  <2>2. Around({q.id})' = Around({q.id})
    BY <2>1, SameThere, SameAround
  <2>3. Roots(q)' = Roots(q)
    BY <1>2, <2>2 DEF Roots
  <2>4. PICK R : R = Roots(q)
    OBVIOUS
  <2>5. Relations(R)' = Relations(R)
    BY <2>1, <2>4, SameRelations
  <2>6. Roots(q)' = R
    BY <2>3, <2>4
  <2>7. Relations(Roots(q))' = Relations(R)'
    BY <2>6
  <2>8. Relations(Roots(q)) = Relations(R)
    BY <2>4
  <2>9. Held(q) = Relations(Roots(q)) \cup {q.id} /\ Held(q)' = Relations(Roots(q))' \cup {q.id}
    BY <1>2 DEF Held
  <2>. QED  BY <2>3, <2>5, <2>7, <2>8, <2>9
<1>. QED  BY <1>1, <1>2

\* The request q, of a client that has seen these versions, decides to write d.
Decided(q, seen, d) ==
    /\ q.op = "create_flow" => MayCreateFlow(q, seen) /\ d = CreateFlowWrites(q)
    /\ q.op = "update_flow" => MayUpdateFlow(q, seen) /\ d = UpdateFlowWrites(q)
    /\ q.op = "delete_flow" => MayDeleteFlow(q, seen) /\ d = DeleteFlowWrites(q)
    /\ q.op = "create_item" => MayCreateItem(q, seen) /\ d = CreateItemWrites(q)
    /\ q.op = "update_item" => MayUpdateItem(q, seen) /\ d = UpdateItemWrites(q)
    /\ q.op = "delete_item" => MayDeleteItem(q, seen) /\ d = DeleteItemWrites(q)
    /\ q.op = "create_settlement" => MayCreateSettlement(q, seen) /\ d = CreateSettlementWrites(q)
    /\ q.op = "update_settlement" => MayUpdateSettlement(q, seen) /\ d = UpdateSettlementWrites(q)
    /\ q.op = "delete_settlement" => MayDeleteSettlement(q, seen) /\ d = DeleteSettlementWrites(q)

ValidatedRows(q) == IF q.op = "create_item" THEN {q.id} ELSE Held(q)

\* Whatever is decided is sound.
LEMMA DecidedSound ==
    ASSUME Ledger(rows), Validated(rows, Ids), NEW q, WellFormed(q), NEW seen, NEW d,
           Decided(q, seen, d)
    PROVE  Sound(q, ValidatedRows(q), d)
<1>1. q.op \in Commands
  BY DEF WellFormed
<1>2. CASE q.op = "create_item"
  BY <1>2, CreateItemSound DEF Decided, ValidatedRows
<1>3. CASE q.op = "create_flow"
  BY <1>3, CreateFlowSound DEF Decided, ValidatedRows
<1>4. CASE q.op = "update_flow"
  BY <1>4, UpdateFlowSound DEF Decided, ValidatedRows
<1>5. CASE q.op = "delete_flow"
  BY <1>5, DeleteFlowSound DEF Decided, ValidatedRows
<1>6. CASE q.op = "update_item"
  BY <1>6, UpdateItemSound DEF Decided, ValidatedRows
<1>7. CASE q.op = "delete_item"
  BY <1>7, DeleteItemSound DEF Decided, ValidatedRows
<1>8. CASE q.op = "create_settlement"
  BY <1>8, CreateSettlementSound DEF Decided, ValidatedRows
<1>9. CASE q.op = "update_settlement"
  BY <1>9, UpdateSettlementSound DEF Decided, ValidatedRows
<1>10. CASE q.op = "delete_settlement"
  BY <1>10, DeleteSettlementSound DEF Decided, ValidatedRows
<1>. QED  BY <1>1, <1>2, <1>3, <1>4, <1>5, <1>6, <1>7, <1>8, <1>9, <1>10 DEF Commands

\* A step that leaves the graph G of a request alone: nothing in it is deleted, and what the
\* client has seen of it stays seen.
Leaves(G, seen, new) ==
    /\ Ledger(rows) /\ Ledger(rows') /\ Apart(rows, rows', G) /\ G \in SUBSET Ids
    /\ gone' \cap G \subseteq gone
    /\ seen \cap G \subseteq new

\* What is written is locked.
LEMMA WritesIn ==
    ASSUME NEW q, NEW T, NEW d, Sound(q, T, d), T \subseteq Held(q)
    PROVE  DOMAIN d \subseteq Held(q)
BY DEF Sound, Guarded

\* Ids that were free stay free while others commit.
LEMMA SameInserts ==
    ASSUME NEW q, NEW G, NEW seen, NEW new, Leaves(G, seen, new), DOMAIN q.rows \subseteq G, Inserts(q)
    PROVE  Inserts(q)'
<1>1. \A x \in DOMAIN q.rows : (Alive(x)' <=> Alive(x)) /\ (x \in gone' => x \in gone)
  BY SameThere DEF Leaves
<1>. QED  BY <1>1 DEF Inserts

\* Rows that were there stay there while others commit.
LEMMA SameRefers ==
    ASSUME NEW q, WellFormed(q), NEW G, NEW seen, NEW new, Leaves(G, seen, new), Held(q) = G, Refers(q)
    PROVE  Refers(q)'
<1>1. Held(q)' = G /\ \A x \in G : Alive(x)' <=> Alive(x)
  BY SameHeld, SameThere DEF Leaves
<1>. QED  BY <1>1 DEF Refers

\* Settlements in cash stay settlements in cash.
LEMMA SameCashed ==
    ASSUME NEW G, NEW seen, NEW new, Leaves(G, seen, new), NEW I, I \subseteq G, Cashed(I)
    PROVE  Cashed(I)'
<1>1. /\ Touching({}, I)' = Touching({}, I)
      /\ \A s \in Touching({}, I) : rows'[s].kind = rows[s].kind
  BY SameTouching DEF Leaves
<1>. QED  BY <1>1 DEF Cashed

\* No other transaction adds the same allocation to a flow this one holds.
LEMMA SameUnique ==
    ASSUME NEW q, NEW G, NEW seen, NEW new, Leaves(G, seen, new), Unique(q),
           \A x \in DOMAIN q.rows \cap Setts : q.rows[x].flow \in G \cup {None}
    PROVE  Unique(q)'
<1>. SUFFICES ASSUME NEW x \in DOMAIN q.rows \cap Setts, NEW s \in Setts \ {q.id},
                     Alive(s)', rows'[s].flow # None,
                     <<rows'[s].flow, rows'[s].item, rows'[s].kind>>
                        = <<q.rows[x].flow, q.rows[x].item, q.rows[x].kind>>
              PROVE  FALSE
  BY DEF Unique
<1>1. rows'[s].flow = q.rows[x].flow /\ rows'[s].flow \in G
  OBVIOUS
<1>2. /\ Alive(s) /\ rows'[s].item = rows[s].item
      /\ rows'[s].flow = rows[s].flow /\ rows'[s].kind = rows[s].kind
  BY <1>1, SameSett DEF Leaves
<1>. QED  BY <1>2 DEF Unique

\* The decision to create a flow stands while another transaction commits.
LEMMA CreateFlowStays ==
    ASSUME NEW q, WellFormed(q), NEW G, NEW seen, NEW new, Leaves(G, seen, new), Held(q) = G,
           q.op = "create_flow", MayCreateFlow(q, seen), DOMAIN CreateFlowWrites(q) \subseteq G
    PROVE  MayCreateFlow(q, new)' /\ CreateFlowWrites(q)' = CreateFlowWrites(q)
<1>. DEFINE Linked(r) == [r EXCEPT !.origin = q.id, !.made = FALSE, !.first = FALSE]
            D == DOMAIN q.rows \cup q.link \cup Settled(q)
<1>1. D \subseteq G
  BY DEF CreateFlowWrites
<1>2. \A x \in D : rows'[x] = rows[x]
  BY <1>1, SameThere DEF Leaves
<1>3. Settled(q)' = Settled(q)
  BY DEF Settled
<1>4. MayCreateFlow(q, new)'
  <2>1. Inserts(q)'
    BY <1>1, SameInserts DEF MayCreateFlow
  <2>2. Refers(q)'
    BY SameRefers DEF MayCreateFlow
  <2>3. q.link \cup Settled(q) \subseteq new
    BY <1>1 DEF MayCreateFlow, Leaves
  <2>4. \A i \in q.link : rows'[i].origin = None
    BY <1>2 DEF MayCreateFlow
  <2>. QED  BY <1>3, <2>1, <2>2, <2>3, <2>4 DEF MayCreateFlow
<1>5. CreateFlowWrites(q) = [x \in D |-> IF x \in DOMAIN q.rows THEN q.rows[x]
                                         ELSE IF x \in q.link THEN Linked(rows[x])
                                         ELSE Bump(rows[x])]
  BY DEF CreateFlowWrites
<1>6. CreateFlowWrites(q)' = [x \in D |-> IF x \in DOMAIN q.rows THEN q.rows[x]
                                          ELSE IF x \in q.link THEN Linked(rows'[x])
                                          ELSE Bump(rows'[x])]
  BY <1>3 DEF CreateFlowWrites
<1>. HIDE DEF Linked, D
<1>. QED  BY <1>2, <1>4, <1>5, <1>6

\* The decision to create an item stands.
LEMMA CreateItemStays ==
    ASSUME NEW q, WellFormed(q), NEW G, NEW seen, NEW new, Leaves(G, seen, new), Held(q) = G,
           q.op = "create_item", MayCreateItem(q, seen)
    PROVE  MayCreateItem(q, new)' /\ CreateItemWrites(q)' = CreateItemWrites(q)
<1>1. DOMAIN q.rows \subseteq G
  BY HeldCreating
<1>2. Inserts(q)' /\ Refers(q)' /\ Held(q)' = G
  BY <1>1, SameInserts, SameRefers, SameHeld DEF MayCreateItem, Leaves
<1>3. G \ {q.id} \subseteq new
  BY DEF MayCreateItem, Leaves
<1>. QED  BY <1>2, <1>3 DEF MayCreateItem, CreateItemWrites

\* The writes of a command on a settlement look at its graph only.
LEMMA SettStays ==
    ASSUME NEW q, WellFormed(q), NEW G, NEW seen, NEW new, Leaves(G, seen, new), Held(q) = G,
           q.op \in {"create_settlement", "update_settlement", "delete_settlement"}
    PROVE  /\ Held(q)' = G /\ Roots(q)' = Roots(q) /\ q.id \in G /\ Roots(q) \subseteq G
           /\ \A x \in G : rows'[x] = rows[x] /\ (Alive(x)' <=> Alive(x))
           /\ q.op # "delete_settlement" /\ Unique(q) => Unique(q)'
<1>1. Held(q)' = G /\ Roots(q)' = Roots(q)
  BY SameHeld DEF Leaves
<1>2. q.id \in G /\ Roots(q) \subseteq G
  BY HeldGraph DEF Leaves
<1>3. \A x \in G : rows'[x] = rows[x] /\ (Alive(x)' <=> Alive(x))
  BY SameThere DEF Leaves
<1>4. ASSUME q.op # "delete_settlement", Unique(q)
      PROVE  Unique(q)'
  <2>1. q.id \in Setts /\ DOMAIN q.rows = {q.id} /\ q.id \notin Items \cup Flows
    BY <1>4, RowTypes DEF WellFormed, Ids
  <2>2. q.rows[q.id] # None /\ Ends(q.rows[q.id], q.id) \subseteq G
    BY <1>2, <1>4, <2>1, Proposed DEF Roots
  <2>3. q.rows[q.id].flow \in G \cup {None}
    BY <2>1, <2>2 DEF Ends
  <2>. QED  BY <1>4, <2>1, <2>3, SameUnique
<1>. QED  BY <1>1, <1>2, <1>3, <1>4

\* The decision to create a settlement stands.
LEMMA CreateSettlementStays ==
    ASSUME NEW q, WellFormed(q), NEW G, NEW seen, NEW new, Leaves(G, seen, new), Held(q) = G,
           q.op = "create_settlement", MayCreateSettlement(q, seen)
    PROVE  MayCreateSettlement(q, new)' /\ CreateSettlementWrites(q)' = CreateSettlementWrites(q)
<1>1. /\ Roots(q)' = Roots(q) /\ q.id \in G /\ Roots(q) \subseteq G
      /\ \A x \in G : rows'[x] = rows[x] /\ (Alive(x)' <=> Alive(x))
      /\ Unique(q)'
  BY SettStays DEF MayCreateSettlement
<1>2. Refers(q)'
  BY SameRefers DEF MayCreateSettlement
<1>3. Roots(q) \subseteq new
  BY <1>1 DEF MayCreateSettlement, Leaves
<1>4. MayCreateSettlement(q, new)'
  BY <1>1, <1>2, <1>3 DEF MayCreateSettlement
<1>5. CreateSettlementWrites(q)' = CreateSettlementWrites(q)
  BY <1>1 DEF CreateSettlementWrites
<1>. QED  BY <1>4, <1>5

\* The decision to change a settlement stands.
LEMMA UpdateSettlementStays ==
    ASSUME NEW q, WellFormed(q), NEW G, NEW seen, NEW new, Leaves(G, seen, new), Held(q) = G,
           q.op = "update_settlement", MayUpdateSettlement(q, seen)
    PROVE  MayUpdateSettlement(q, new)' /\ UpdateSettlementWrites(q)' = UpdateSettlementWrites(q)
<1>1. /\ Held(q)' = G /\ Roots(q)' = Roots(q) /\ q.id \in G /\ Roots(q) \subseteq G
      /\ \A x \in G : rows'[x] = rows[x] /\ (Alive(x)' <=> Alive(x))
      /\ Unique(q)'
  BY SettStays DEF MayUpdateSettlement
<1>2. {q.id} \cup Roots(q) \subseteq new
  BY <1>1 DEF MayUpdateSettlement, Leaves
<1>3. MayUpdateSettlement(q, new)'
  BY <1>1, <1>2 DEF MayUpdateSettlement
<1>4. UpdateSettlementWrites(q)' = UpdateSettlementWrites(q)
  BY <1>1 DEF UpdateSettlementWrites
<1>. QED  BY <1>3, <1>4

\* The decision to delete a settlement stands.
LEMMA DeleteSettlementStays ==
    ASSUME NEW q, WellFormed(q), NEW G, NEW seen, NEW new, Leaves(G, seen, new), Held(q) = G,
           q.op = "delete_settlement", MayDeleteSettlement(q, seen)
    PROVE  MayDeleteSettlement(q, new)' /\ DeleteSettlementWrites(q)' = DeleteSettlementWrites(q)
<1>1. /\ Held(q)' = G /\ Roots(q)' = Roots(q) /\ q.id \in G /\ Roots(q) \subseteq G
      /\ \A x \in G : rows'[x] = rows[x] /\ (Alive(x)' <=> Alive(x))
  BY SettStays
<1>2. {q.id} \cup Roots(q) \subseteq new
  BY <1>1 DEF MayDeleteSettlement, Leaves
<1>3. MayDeleteSettlement(q, new)'
  BY <1>1, <1>2 DEF MayDeleteSettlement
<1>4. DeleteSettlementWrites(q)' = DeleteSettlementWrites(q)
  BY <1>1 DEF DeleteSettlementWrites
<1>. QED  BY <1>3, <1>4

\* The decision to change an item stands.
LEMMA UpdateItemStays ==
    ASSUME NEW q, WellFormed(q), NEW G, NEW seen, NEW new, Leaves(G, seen, new), Held(q) = G,
           q.op = "update_item", MayUpdateItem(q, seen)
    PROVE  MayUpdateItem(q, new)' /\ UpdateItemWrites(q)' = UpdateItemWrites(q)
<1>1. Held(q)' = G /\ q.id \in G /\ Roots(q) \subseteq G
  BY SameHeld, HeldGraph DEF Leaves
<1>2. \A x \in G : rows'[x] = rows[x] /\ (Alive(x)' <=> Alive(x))
  BY SameThere DEF Leaves
<1>3. q.id \in Items /\ q.id \notin Flows /\ q.rows[q.id] # None
  BY Proposed, RowTypes DEF WellFormed, Ids
<1>4. q.rows[q.id].related \in G \cup {None}
  <2>1. Ends(q.rows[q.id], q.id) \subseteq G
    BY <1>1 DEF Roots
  <2>. QED  BY <1>3, <2>1 DEF Ends
<1>5. rows'[q.id] = rows[q.id]
  BY <1>1, <1>2
<1>6. {q.id} \cup ({q.rows[q.id].related} \ {rows[q.id].related, None}) \subseteq new
  BY <1>1, <1>4 DEF MayUpdateItem, Leaves
<1>7. MayUpdateItem(q, new)'
  BY <1>1, <1>2, <1>5, <1>6 DEF MayUpdateItem
<1>8. UpdateItemWrites(q)' = UpdateItemWrites(q)
  BY DEF UpdateItemWrites
<1>. QED  BY <1>7, <1>8

\* The decision to delete an item stands.
LEMMA DeleteItemStays ==
    ASSUME NEW q, WellFormed(q), NEW G, NEW seen, NEW new, Leaves(G, seen, new), Held(q) = G,
           q.op = "delete_item", MayDeleteItem(q, seen), DOMAIN DeleteItemWrites(q) \subseteq G
    PROVE  MayDeleteItem(q, new)' /\ DeleteItemWrites(q)' = DeleteItemWrites(q)
<1>1. Held(q)' = G /\ q.id \in G /\ {q.id} \subseteq G
  BY SameHeld, HeldGraph DEF Leaves
<1>2. \A x \in G : rows'[x] = rows[x] /\ (Alive(x)' <=> Alive(x))
  BY SameThere DEF Leaves
<1>3. RefsTo({q.id})' = RefsTo({q.id})
  BY <1>1, SameRefs DEF Leaves
<1>4. Cashed({q.id})'
  BY <1>1, SameCashed DEF MayDeleteItem
<1>5. MayDeleteItem(q, new)'
  BY <1>1, <1>2, <1>3, <1>4 DEF MayDeleteItem, Leaves
<1>6. PICK dropped : dropped = Touching({}, {q.id})
  OBVIOUS
<1>7. /\ Touching({}, {q.id})' = dropped
      /\ \A s \in dropped : Ends(rows'[s], s) = Ends(rows[s], s)
  BY <1>1, <1>6, SameTouching DEF Leaves
<1>8. Around(dropped)' = Around(dropped)
  BY <1>7, SameAround
<1>9. DeleteItemWrites(q) = [x \in {q.id} \cup dropped \cup Around(dropped) |->
                                IF x \in {q.id} \cup dropped THEN None ELSE Bump(rows[x])]
  BY <1>6 DEF DeleteItemWrites
<1>10. DeleteItemWrites(q)' = [x \in {q.id} \cup dropped \cup Around(dropped)' |->
                                IF x \in {q.id} \cup dropped THEN None ELSE Bump(rows'[x])]
  BY <1>7 DEF DeleteItemWrites
<1>11. \A x \in {q.id} \cup dropped \cup Around(dropped) : rows'[x] = rows[x]
  BY <1>2, <1>9
<1>12. DeleteItemWrites(q)' = DeleteItemWrites(q)
  BY <1>8, <1>9, <1>10, <1>11
<1>. QED  BY <1>5, <1>12

\* What the rebinding of an item reads of it.
ReboundFrom(q, i, r) == IF q.act = "keep_independent" THEN Loosened(r, None)
                        ELSE IF q.act = "rebind_flow" THEN Loosened(r, q.target)
                        ELSE Corrected(r, q.rows[i].amount, q.rows[q.id].project)

\* A correction reads the item it corrects and no other row.
LEMMA ReboundIs ==
    ASSUME NEW q, NEW i
    PROVE  /\ Rebound(q, i) = ReboundFrom(q, i, rows[i])
           /\ Rebound(q, i)' = ReboundFrom(q, i, rows'[i])
BY DEF Rebound, ReboundFrom, Loosened, Corrected

\* A correction of a flow's sources stays possible.
LEMMA CorrectStays ==
    ASSUME NEW q, WellFormed(q), NEW G, NEW seen, NEW new, Leaves(G, seen, new), Held(q) = G,
           q.op \in {"update_flow", "delete_flow"}, MayCorrect(q, seen)
    PROVE  /\ MayCorrect(q, new)'
           /\ Owned({q.id})' = Owned({q.id}) /\ Owned({q.id}) \subseteq G
           /\ {q.id} \subseteq G
<1>1. /\ Roots(q) = {q.id, q.item, q.target} \ {None} /\ Roots(q) \subseteq G
      /\ Owned({q.id}) \subseteq G /\ q.id \in Roots(q)
  BY FlowRoots DEF Leaves
<1>2. Held(q)' = G /\ \A x \in G : Alive(x)' <=> Alive(x)
  BY SameHeld, SameThere DEF Leaves
<1>3. Owned({q.id})' = Owned({q.id})
  BY <1>1, SameOwned DEF Leaves
<1>4. {q.id, q.item, q.target} \ {None} \subseteq new
  BY <1>1 DEF MayCorrect, Leaves
<1>5. MayCorrect(q, new)'
  BY <1>2, <1>3, <1>4 DEF MayCorrect
<1>. QED  BY <1>1, <1>3, <1>5

\* The decision to change a flow stands.
LEMMA UpdateFlowStays ==
    ASSUME NEW q, WellFormed(q), NEW G, NEW seen, NEW new, Leaves(G, seen, new), Held(q) = G,
           q.op = "update_flow", MayUpdateFlow(q, seen), DOMAIN UpdateFlowWrites(q) \subseteq G
    PROVE  MayUpdateFlow(q, new)' /\ UpdateFlowWrites(q)' = UpdateFlowWrites(q)
<1>. DEFINE false == IF q.act = "delete_false_item" THEN {q.item} ELSE {}
            Moved(I, v) == {i \in I \ {q.item} : v[i].made /\ v[i].project # q.rows[q.id].project}
<1>1. /\ MayCorrect(q, new)' /\ Owned({q.id})' = Owned({q.id}) /\ Owned({q.id}) \subseteq G
  BY CorrectStays DEF MayUpdateFlow
<1>2. \A x \in G : rows'[x] = rows[x]
  BY SameThere DEF Leaves
<1>3. q.act = "delete_false_item" => q.item \in G
  <2>1. "delete_false_item" # None
    BY CashLedgerAssumption DEF SourceActions
  <2>2. MayCorrect(q, seen)
    BY DEF MayUpdateFlow
  <2>3. q.act = "delete_false_item" => q.item \in Owned({q.id})
    BY <2>1, <2>2 DEF MayCorrect
  <2>. QED  BY <1>1, <2>3
<1>4. MayUpdateFlow(q, new)'
  <2>1. ASSUME q.act = "delete_false_item"
        PROVE  RefsTo({q.item})' = {} /\ Cashed({q.item})'
    <3>1. {q.item} \subseteq G /\ RefsTo({q.item}) = {} /\ Cashed({q.item})
      BY <1>3, <2>1 DEF MayUpdateFlow
    <3>2. RefsTo({q.item})' = RefsTo({q.item})
      BY <3>1, SameRefs DEF Leaves
    <3>. QED  BY <3>1, <3>2, SameCashed
  <2>. QED  BY <1>1, <2>1 DEF MayUpdateFlow
<1>5. PICK dropped : dropped = Touching({}, false)
  OBVIOUS
<1>6. /\ Touching({}, false)' = dropped
      /\ \A s \in dropped : Ends(rows'[s], s) = Ends(rows[s], s)
  <2>1. false \subseteq G
    BY <1>3
  <2>. QED  BY <1>5, <2>1, SameTouching DEF Leaves
<1>7. Around(dropped)' = Around(dropped)
  BY <1>6, SameAround
<1>8. Moved(Owned({q.id}), rows) = Moved(Owned({q.id}), rows)
  OBVIOUS
<1>9. PICK owned : owned = Owned({q.id})
  OBVIOUS
<1>10. Moved(owned, rows') = Moved(owned, rows)
  BY <1>1, <1>2, <1>9
<1>. DEFINE Dom(m, a) == ({q.id, q.item, q.target} \ {None}) \cup m \cup dropped \cup a
            Row(x, m, r) == IF x = q.id THEN Bump(q.rows[x])
                            ELSE IF x \in false \cup dropped THEN None
                            ELSE IF x = q.item THEN ReboundFrom(q, x, r)
                            ELSE IF x \in m THEN Relocated(r, q.rows[q.id].project)
                            ELSE Bump(r)
<1>11. UpdateFlowWrites(q) = [x \in Dom(Moved(owned, rows), Around(dropped)) |->
                                Row(x, Moved(owned, rows), rows[x])]
  BY <1>5, <1>9, ReboundIs DEF UpdateFlowWrites, Relocated
<1>12. UpdateFlowWrites(q)' = [x \in Dom(Moved(owned, rows'), Around(dropped)') |->
                                Row(x, Moved(owned, rows'), rows'[x])]
  BY <1>1, <1>6, <1>9, ReboundIs DEF UpdateFlowWrites, Relocated
<1>13. PICK m : m = Moved(owned, rows)
  OBVIOUS
<1>14. PICK a : a = Around(dropped)
  OBVIOUS
<1>15. UpdateFlowWrites(q) = [x \in Dom(m, a) |-> Row(x, m, rows[x])]
  BY <1>11, <1>13, <1>14
<1>16. UpdateFlowWrites(q)' = [x \in Dom(m, a) |-> Row(x, m, rows'[x])]
  BY <1>7, <1>10, <1>12, <1>13, <1>14
<1>. HIDE DEF Dom, Row
<1>17. \A x \in Dom(m, a) : rows'[x] = rows[x]
  BY <1>2, <1>15
<1>. QED  BY <1>4, <1>15, <1>16, <1>17

\* The decision to delete a flow stands.
LEMMA DeleteFlowStays ==
    ASSUME NEW q, WellFormed(q), NEW G, NEW seen, NEW new, Leaves(G, seen, new), Held(q) = G,
           q.op = "delete_flow", MayDeleteFlow(q, seen), DOMAIN DeleteFlowWrites(q) \subseteq G
    PROVE  MayDeleteFlow(q, new)' /\ DeleteFlowWrites(q)' = DeleteFlowWrites(q)
<1>1. /\ MayCorrect(q, new)' /\ Owned({q.id})' = Owned({q.id}) /\ Owned({q.id}) \subseteq G
      /\ {q.id} \subseteq G
  BY CorrectStays DEF MayDeleteFlow
<1>2. \A x \in G : rows'[x] = rows[x]
  BY SameThere DEF Leaves
<1>3. Fallen(q)' = Fallen(q) /\ Fallen(q) \subseteq G
  BY <1>1, <1>2 DEF Fallen
<1>4. PICK fallen : fallen = Fallen(q)
  OBVIOUS
<1>5. Fallen(q)' = fallen /\ fallen \subseteq G
  BY <1>3, <1>4
<1>6. MayDeleteFlow(q, new)'
  <2>1. /\ q.act # "correct_amount" /\ RefsTo(fallen) \subseteq fallen /\ Cashed(fallen)
        /\ \A s \in Touching({}, fallen \ {q.item}) : rows[s].flow = q.id
    BY <1>4 DEF MayDeleteFlow
  <2>2. RefsTo(fallen)' \subseteq fallen
    BY <1>5, <2>1, SameRefs DEF Leaves
  <2>3. Cashed(fallen)'
    BY <1>5, <2>1, SameCashed
  <2>4. \A s \in Touching({}, fallen \ {q.item})' : rows'[s].flow = q.id
    <3>1. fallen \ {q.item} \subseteq G
      BY <1>5
    <3>2. /\ Touching({}, fallen \ {q.item})' = Touching({}, fallen \ {q.item})
          /\ \A s \in Touching({}, fallen \ {q.item}) : rows'[s].flow = rows[s].flow
      BY <3>1, SameTouching DEF Leaves
    <3>. QED  BY <2>1, <3>2
  <2>5. (RefsTo(Fallen(q)) \subseteq Fallen(q))' /\ Cashed(Fallen(q))'
    BY <1>5, <2>2, <2>3
  <2>6. Touching({}, Fallen(q) \ {q.item})' = Touching({}, fallen \ {q.item})'
    BY <1>5
  <2>7. (\A s \in Touching({}, Fallen(q) \ {q.item}) : rows[s].flow = q.id)'
    BY <2>4, <2>6
  <2>. QED  BY <1>1, <2>1, <2>5, <2>7 DEF MayDeleteFlow
<1>7. PICK dropped : dropped = Touching({q.id}, fallen)
  OBVIOUS
<1>8. /\ Touching({q.id}, fallen)' = dropped
      /\ \A s \in dropped : Ends(rows'[s], s) = Ends(rows[s], s)
  BY <1>1, <1>5, <1>7, SameTouching DEF Leaves
<1>9. Around(dropped)' = Around(dropped)
  BY <1>8, SameAround
<1>10. PICK owned : owned = Owned({q.id})
  OBVIOUS
<1>. DEFINE Dom(a) == ({q.id, q.target} \ {None}) \cup owned \cup dropped \cup a
            Row(x, r) == IF x \in {q.id} \cup fallen \cup dropped THEN None
                         ELSE IF x = q.item THEN ReboundFrom(q, x, r)
                         ELSE IF x \in owned THEN Loosened(r, None)
                         ELSE Bump(r)
<1>11. Touching({q.id}, Fallen(q)) = dropped /\ Touching({q.id}, Fallen(q))' = dropped
  BY <1>4, <1>5, <1>7, <1>8
<1>12. DeleteFlowWrites(q) = [x \in Dom(Around(dropped)) |-> Row(x, rows[x])]
  BY <1>4, <1>10, <1>11, ReboundIs DEF DeleteFlowWrites, Loosened
<1>13. DeleteFlowWrites(q)' = [x \in Dom(Around(dropped)') |-> Row(x, rows'[x])]
  BY <1>1, <1>5, <1>10, <1>11, ReboundIs DEF DeleteFlowWrites, Loosened
<1>14. PICK a : a = Around(dropped)
  OBVIOUS
<1>15. /\ DeleteFlowWrites(q) = [x \in Dom(a) |-> Row(x, rows[x])]
       /\ DeleteFlowWrites(q)' = [x \in Dom(a) |-> Row(x, rows'[x])]
  BY <1>9, <1>12, <1>13, <1>14
<1>. HIDE DEF Dom, Row
<1>16. \A x \in Dom(a) : rows'[x] = rows[x]
  BY <1>2, <1>15
<1>. QED  BY <1>6, <1>15, <1>16

\* A decision stands when its graph is left alone.
LEMMA DecidedStays ==
    ASSUME Validated(rows, Ids), NEW q, WellFormed(q), NEW G, NEW seen, NEW new,
           Leaves(G, seen, new), Held(q) = G, NEW d, Decided(q, seen, d)
    PROVE  Decided(q, new, d)' /\ Held(q)' = G
<1>0. q.op \in Commands /\ Ledger(rows) /\ Held(q) \subseteq Ids
  BY DEF WellFormed, Leaves
<1>1. Held(q)' = G
  BY SameHeld DEF Leaves
<1>2. Sound(q, ValidatedRows(q), d)
  BY <1>0, DecidedSound
<1>3. DOMAIN d \subseteq G
  <2>1. ValidatedRows(q) \subseteq Held(q)
    BY <1>2 DEF Sound, Guarded
  <2>. QED  BY <1>2, <2>1, WritesIn
<1>4. ASSUME q.op = "create_flow"
      PROVE  MayCreateFlow(q, new)' /\ d = CreateFlowWrites(q)'
  BY <1>3, <1>4, CreateFlowStays DEF Decided
<1>5. ASSUME q.op = "update_flow"
      PROVE  MayUpdateFlow(q, new)' /\ d = UpdateFlowWrites(q)'
  BY <1>3, <1>5, UpdateFlowStays DEF Decided
<1>6. ASSUME q.op = "delete_flow"
      PROVE  MayDeleteFlow(q, new)' /\ d = DeleteFlowWrites(q)'
  BY <1>3, <1>6, DeleteFlowStays DEF Decided
<1>7. ASSUME q.op = "create_item"
      PROVE  MayCreateItem(q, new)' /\ d = CreateItemWrites(q)'
  BY <1>7, CreateItemStays DEF Decided
<1>8. ASSUME q.op = "update_item"
      PROVE  MayUpdateItem(q, new)' /\ d = UpdateItemWrites(q)'
  BY <1>8, UpdateItemStays DEF Decided
<1>9. ASSUME q.op = "delete_item"
      PROVE  MayDeleteItem(q, new)' /\ d = DeleteItemWrites(q)'
  BY <1>3, <1>9, DeleteItemStays DEF Decided
<1>10. ASSUME q.op = "create_settlement"
       PROVE  MayCreateSettlement(q, new)' /\ d = CreateSettlementWrites(q)'
  BY <1>10, CreateSettlementStays DEF Decided
<1>11. ASSUME q.op = "update_settlement"
       PROVE  MayUpdateSettlement(q, new)' /\ d = UpdateSettlementWrites(q)'
  BY <1>11, UpdateSettlementStays DEF Decided
<1>12. ASSUME q.op = "delete_settlement"
       PROVE  MayDeleteSettlement(q, new)' /\ d = DeleteSettlementWrites(q)'
  BY <1>12, DeleteSettlementStays DEF Decided
<1>13. Decided(q, new, d)'
  BY <1>4, <1>5, <1>6, <1>7, <1>8, <1>9, <1>10, <1>11, <1>12 DEF Decided
<1>. QED  BY <1>1, <1>13

-----------------------------------------------------------------------------
(* The requests clients make.                                              *)

\* A request of the right type, with ids of its own for what it creates.
Good(q) ==
    /\ q \in Requests /\ WellFormed(q)
    /\ q.op \in Creating => DOMAIN q.rows \cap issued = {}

\* A record with the fields of a request is a request.
LEMMA RequestIs ==
    ASSUME NEW op \in Commands, NEW x \in Ids, NEW D \in SUBSET Ids, NEW r \in [D -> Rows],
           NEW L \in SUBSET Loans, NEW a \in SourceActions \cup {None},
           NEW i \in Items \cup {None}, NEW t \in Flows \cup {None}
    PROVE  [op |-> op, id |-> x, rows |-> r, link |-> L, act |-> a, item |-> i, target |-> t] \in Requests
<1>1. r \in UNION {[E -> Rows] : E \in SUBSET Ids}
  OBVIOUS
<1>. QED  BY <1>1 DEF Requests

\* A request about one row, without links or corrections.
LEMMA PlainGood ==
    ASSUME NEW op \in Commands \ {"create_flow", "update_flow", "delete_flow"}, NEW x \in Ids,
           NEW r, DOMAIN r \subseteq {x}, r = [y \in DOMAIN r |-> r[y]],
           op \notin {"delete_settlement", "delete_item"} => DOMAIN r = {x},
           \A y \in DOMAIN r : r[y] \in RowsOf(y) /\ (y \in Setts => Shaped(r[y])),
           op \in {"create_item", "update_item", "delete_item"} => x \in Items,
           op \in {"create_settlement", "update_settlement", "delete_settlement"} => x \in Setts,
           op = "create_item" => r[x].origin = None,
           op \in Creating => x \notin issued
    PROVE  Good(Plain(op, x, r))
<1>1. r \in [DOMAIN r -> Rows] /\ DOMAIN r \in SUBSET Ids
  BY RowTypes
<1>2. /\ None \in SourceActions \cup {None} /\ None \in Items \cup {None} /\ None \in Flows \cup {None}
      /\ {} \in SUBSET Loans /\ op \in Commands
  OBVIOUS
<1>. DEFINE q == Plain(op, x, r)
<1>3. q \in Requests
  BY <1>1, <1>2, RequestIs DEF Plain
<1>4. /\ q.op = op /\ q.id = x /\ q.rows = r /\ q.link = {} /\ q.act = None
      /\ q.item = None /\ q.target = None
  BY DEF Plain
<1>. HIDE DEF q
<1>5. WellFormed(q)
  BY <1>1, <1>4 DEF WellFormed, Commands
<1>6. q.op \in Creating => DOMAIN q.rows \cap issued = {}
  BY <1>4
<1>7. Good(q)
  BY <1>3, <1>5, <1>6 DEF Good
<1>. QED  BY <1>7 DEF q

\* A new item is an item.
LEMMA NewItemRow ==
    ASSUME NEW a \in Amounts, NEW f \in Flows \cup {None}, NEW e \in Obligations \cup {None},
           NEW p \in Projects
    PROVE  NewItem(a, f, e, p) \in ItemRow /\ NewItem(a, f, e, p).origin = f
BY DEF NewItem, ItemRow

\* What a page asks when it creates an item.
LEMMA AskCreateItemGood ==
    ASSUME NEW h, AskCreateItem(h)
    PROVE  \E q : Ask(h, q) /\ Good(q)
<1>1. PICK i \in New(Items), a \in Amounts, p \in Projects : \E e \in RelatedTo(i) :
         Ask(h, Plain("create_item", i, [x \in {i} |-> NewItem(a, None, e, p)]))
  BY DEF AskCreateItem
<1>2. PICK e \in RelatedTo(i) : Ask(h, Plain("create_item", i, [x \in {i} |-> NewItem(a, None, e, p)]))
  BY <1>1
<1>3. i \in Items /\ i \notin issued /\ i \in Ids /\ i \notin Setts /\ RowsOf(i) = ItemRow
  BY RowTypes DEF New, Ids
<1>4. e \in Obligations \cup {None}
  BY DEF RelatedTo
<1>5. PICK r : r = [x \in {i} |-> NewItem(a, None, e, p)]
  OBVIOUS
<1>6. /\ DOMAIN r = {i} /\ r[i] \in ItemRow /\ r[i].origin = None
      /\ r = [y \in DOMAIN r |-> r[y]]
  BY <1>4, <1>5, NewItemRow
<1>7. Good(Plain("create_item", i, r))
  BY <1>3, <1>6, PlainGood DEF Commands
<1>. QED  BY <1>2, <1>5, <1>7

\* A proposed settlement is a settlement of the shape of its kind.
LEMMA ProposalRow ==
    ASSUME NEW r \in Proposals
    PROVE  r \in SettRow /\ Shaped(r)
BY DEF Proposals, ShapedRows

\* What a page asks when it creates or changes a settlement.
LEMMA AskSettlementGood ==
    ASSUME NEW h, AskCreateSettlement(h) \/ AskUpdateSettlement(h)
    PROVE  \E q : Ask(h, q) /\ Good(q)
<1>1. PICK s \in Setts, p \in Proposals, op \in {"create_settlement", "update_settlement"} :
         /\ Ask(h, Plain(op, s, [x \in {s} |-> p]))
         /\ op = "create_settlement" => s \notin issued
  BY DEF AskCreateSettlement, AskUpdateSettlement, New
<1>2. s \in Ids /\ RowsOf(s) = SettRow
  BY RowTypes DEF Ids
<1>3. PICK r : r = [x \in {s} |-> p]
  OBVIOUS
<1>4. /\ DOMAIN r = {s} /\ r[s] \in SettRow /\ Shaped(r[s])
      /\ r = [y \in DOMAIN r |-> r[y]]
  BY <1>3, ProposalRow
<1>5. Good(Plain(op, s, r))
  BY <1>1, <1>2, <1>4, PlainGood DEF Commands, Creating
<1>. QED  BY <1>1, <1>3, <1>5

\* What a page asks when it deletes a settlement or an item.
LEMMA AskDeleteGood ==
    ASSUME NEW h, AskDeleteSettlement(h) \/ AskDeleteItem(h)
    PROVE  \E q : Ask(h, q) /\ Good(q)
<1>1. PICK x \in Ids, op \in {"delete_settlement", "delete_item"} :
         /\ Ask(h, Plain(op, x, NoRows))
         /\ op = "delete_settlement" => x \in Setts
         /\ op = "delete_item" => x \in Items
  BY DEF AskDeleteSettlement, AskDeleteItem, Ids
<1>2. PICK r : r = NoRows
  OBVIOUS
<1>3. DOMAIN r = {} /\ r = [y \in DOMAIN r |-> r[y]]
  BY <1>2 DEF NoRows
<1>4. Good(Plain(op, x, r))
  BY <1>1, <1>3, PlainGood DEF Commands, Creating
<1>. QED  BY <1>1, <1>2, <1>4

\* A row of the page with what the client edits of it.
Edited(r, a, p, e) == [r EXCEPT !.amount = a, !.project = p, !.related = e, !.first = TRUE]

\* What a page asks when it changes an item.
LEMMA AskUpdateItemGood ==
    ASSUME Ledger(rows), NEW h, AskUpdateItem(h)
    PROVE  \E q : Ask(h, q) /\ Good(q)
<1>1. PICK i \in Items, a \in Amounts, p \in Projects : \E e \in RelatedTo(i) :
         /\ Alive(i)
         /\ Ask(h, Plain("update_item", i, [x \in {i} |-> Edited(rows[i], a, p, e)]))
  BY DEF AskUpdateItem, Edited
<1>2. PICK e \in RelatedTo(i) :
         /\ Alive(i)
         /\ Ask(h, Plain("update_item", i, [x \in {i} |-> Edited(rows[i], a, p, e)]))
  BY <1>1
<1>3. i \in Ids /\ i \notin Setts /\ RowsOf(i) = ItemRow /\ rows[i] \in ItemRow
  BY <1>2, ItemThere, RowTypes
<1>4. e \in Obligations \cup {None}
  BY DEF RelatedTo
<1>5. Edited(rows[i], a, p, e) \in ItemRow
  BY <1>3, <1>4 DEF Edited, ItemRow
<1>6. PICK r : r = [x \in {i} |-> Edited(rows[i], a, p, e)]
  OBVIOUS
<1>7. DOMAIN r = {i} /\ r[i] \in ItemRow /\ r = [y \in DOMAIN r |-> r[y]]
  BY <1>5, <1>6
<1>8. Good(Plain("update_item", i, r))
  BY <1>3, <1>7, PlainGood DEF Commands, Creating
<1>. QED  BY <1>2, <1>6, <1>8

\* A request about a flow, whose fields are of their types.
LEMMA FlowRequestGood ==
    ASSUME NEW op \in {"create_flow", "update_flow", "delete_flow"}, NEW f \in Flows,
           NEW r, DOMAIN r \subseteq Ids, r = [y \in DOMAIN r |-> r[y]],
           \A y \in DOMAIN r : r[y] \in RowsOf(y) /\ (y \in Setts => Shaped(r[y])),
           NEW L \in SUBSET Loans, NEW a \in SourceActions \cup {None},
           NEW i \in Items \cup {None}, NEW t \in Flows \cup {None},
           op = "create_flow" => /\ f \in DOMAIN r /\ DOMAIN r \cap issued = {}
                                 /\ \A s \in DOMAIN r \cap Setts : r[s].item \in Items,
           op = "update_flow" => f \in DOMAIN r /\ (a = "correct_amount" => i \in DOMAIN r),
           op # "create_flow" => (a = None => i = None) /\ (a = "rebind_flow" => t # None),
           NEW q, q = [op |-> op, id |-> f, rows |-> r, link |-> L, act |-> a, item |-> i, target |-> t]
    PROVE  Good(q)
<1>1. r \in [DOMAIN r -> Rows] /\ DOMAIN r \in SUBSET Ids /\ f \in Ids /\ op \in Commands
  BY RowTypes DEF Ids, Commands
<1>2. q \in Requests
  BY <1>1, RequestIs
<1>3. /\ q.op = op /\ q.id = f /\ q.rows = r /\ q.link = L /\ q.act = a
      /\ q.item = i /\ q.target = t
  OBVIOUS
<1>4. WellFormed(q)
  BY <1>1, <1>3 DEF WellFormed
<1>5. q.op \in Creating => DOMAIN q.rows \cap issued = {}
  BY <1>3 DEF Creating
<1>. QED  BY <1>2, <1>4, <1>5 DEF Good

\* A new flow is a flow.
LEMMA FlowRowIs ==
    ASSUME NEW a \in Amounts, NEW k \in {"receipt", "payment"}, NEW p \in Projects
    PROVE  [amount |-> a, kind |-> k, project |-> p, first |-> TRUE] \in FlowRow
BY DEF FlowRow

\* What a page asks when it creates a flow.
LEMMA AskCreateFlowGood ==
    ASSUME NEW h, AskCreateFlow(h)
    PROVE  \E q : Ask(h, q) /\ Good(q)
<1>. DEFINE FR(a, k, p) == [amount |-> a, kind |-> k, project |-> p, first |-> TRUE]
            SR(ck, t, f, c) == [kind |-> ck, item |-> t, flow |-> f, source |-> None, amount |-> c, first |-> TRUE]
            New1(f, a, k, p, I, S, b, e, c, ck, t) ==
                [x \in {f} \cup I \cup S |-> IF x = f THEN FR(a, k, p)
                                             ELSE IF x \in I THEN NewItem(b, f, e, p)
                                             ELSE SR(ck, t, f, c)]
<1>. DEFINE Asks(f, a, k, p, I, S, L, e, b, c, ck, t) ==
                /\ I = {} => b = a /\ e = None
                /\ IF S = {} THEN c = a /\ ck = "cash_repayment" /\ t = CHOOSE i \in Items : TRUE
                             ELSE t \in TargetsOf(ck) /\ Alive(t)
                /\ Ask(h, [Plain("create_flow", f, New1(f, a, k, p, I, S, b, e, c, ck, t)) EXCEPT !.link = L])
<1>flow. PICK f \in New(Flows), a \in Amounts, k \in {"receipt", "payment"}, p \in Projects :
      \E I \in {{}} \cup {{i} : i \in New(Loans \cup Expenses)}, S \in {{}} \cup {{s} : s \in New(Setts)},
         L \in {{}} \cup {{i} : i \in {j \in Loans : Alive(j)}} :
      \E e \in UNION {{None}, UNION {RelatedTo(i) : i \in I}}, b, c \in Amounts, ck \in CashKinds, t \in Items :
          Asks(f, a, k, p, I, S, L, e, b, c, ck, t)
  BY Zenon DEF AskCreateFlow
<1>. HIDE DEF Asks
<1>parts. PICK I \in {{}} \cup {{i} : i \in New(Loans \cup Expenses)}, S \in {{}} \cup {{s} : s \in New(Setts)},
           L \in {{}} \cup {{i} : i \in {j \in Loans : Alive(j)}} :
      \E e \in UNION {{None}, UNION {RelatedTo(i) : i \in I}}, b, c \in Amounts, ck \in CashKinds, t \in Items :
          Asks(f, a, k, p, I, S, L, e, b, c, ck, t)
  BY <1>flow
<1>0. PICK e \in UNION {{None}, UNION {RelatedTo(i) : i \in I}}, b \in Amounts, c \in Amounts,
           ck \in CashKinds, t \in Items :
          Asks(f, a, k, p, I, S, L, e, b, c, ck, t)
  BY <1>parts
<1>1. /\ S # {} => t \in TargetsOf(ck)
      /\ Ask(h, [Plain("create_flow", f, New1(f, a, k, p, I, S, b, e, c, ck, t)) EXCEPT !.link = L])
  BY <1>0 DEF Asks
<1>2. PICK r : r = New1(f, a, k, p, I, S, b, e, c, ck, t)
  OBVIOUS
<1>. DEFINE q == [op |-> "create_flow", id |-> f, rows |-> r, link |-> L, act |-> None,
                  item |-> None, target |-> None]
<1>3. [Plain("create_flow", f, r) EXCEPT !.link = L] = q
  BY DEF Plain
<1>4. Ask(h, q)
  BY <1>1, <1>2, <1>3
<1>5. /\ f \in Flows /\ f \in Ids /\ f \notin Items /\ f \notin Setts /\ f # None /\ f \notin issued
  BY RowTypes DEF New, Ids
<1>6. I \subseteq Items /\ I \cap issued = {} /\ I \subseteq Ids
  BY DEF New, Items, Obligations, Ids
<1>7. S \subseteq Setts /\ S \cap issued = {} /\ S \subseteq Ids
  BY DEF New, Ids
<1>8. L \in SUBSET Loans
  OBVIOUS
<1>9. e \in Obligations \cup {None}
  BY DEF RelatedTo
<1>10. FR(a, k, p) \in FlowRow /\ NewItem(b, f, e, p) \in ItemRow
  BY <1>5, <1>9, FlowRowIs, NewItemRow
<1>11. S # {} => SR(ck, t, f, c) \in SettRow /\ Shaped(SR(ck, t, f, c)) /\ SR(ck, t, f, c).item \in Items
  <2>1. SR(ck, t, f, c) \in SettRow
    BY <1>5 DEF SettRow, SettlementKinds
  <2>2. S # {} => Shaped(SR(ck, t, f, c))
    BY <1>1, <1>5 DEF Shaped, SourcesOf
  <2>. QED  BY <2>1, <2>2
<1>12. DOMAIN r = {f} \cup I \cup S /\ r = [y \in DOMAIN r |-> r[y]]
  BY <1>2
<1>13. /\ r[f] = FR(a, k, p)
       /\ \A x \in I : r[x] = NewItem(b, f, e, p)
       /\ \A x \in S : r[x] = SR(ck, t, f, c)
  <2>1. \A x \in I : x # f
    BY <1>5, <1>6
  <2>2. \A x \in S : x # f /\ x \notin I
    BY <1>5, <1>6, <1>7, RowTypes
  <2>. QED  BY <1>2, <2>1, <2>2
<1>. HIDE DEF FR, SR, New1
<1>14. \A y \in DOMAIN r : /\ r[y] \in RowsOf(y) /\ (y \in Setts => Shaped(r[y]))
                           /\ y \in Setts => r[y].item \in Items
  <2>1. r[f] \in RowsOf(f)
    BY <1>5, <1>10, <1>13, RowTypes
  <2>2. ASSUME NEW y \in I
        PROVE  r[y] \in RowsOf(y) /\ y \notin Setts
    BY <1>6, <1>10, <1>13, RowTypes
  <2>3. ASSUME NEW y \in S
        PROVE  r[y] \in RowsOf(y) /\ Shaped(r[y]) /\ r[y].item \in Items
    BY <1>7, <1>11, <1>13, RowTypes
  <2>. QED  BY <1>5, <1>12, <2>1, <2>2, <2>3
<1>15. /\ DOMAIN r \subseteq Ids /\ f \in DOMAIN r /\ DOMAIN r \cap issued = {}
  BY <1>5, <1>6, <1>7, <1>12
<1>16. PICK qq : qq = q
  OBVIOUS
<1>17. Good(qq)
  BY <1>5, <1>8, <1>12, <1>14, <1>15, <1>16, FlowRequestGood
<1>. QED  BY <1>4, <1>16, <1>17

\* A correction names an item of the flow, and a rebinding a flow to bind it to.
LEMMA CorrectionIs ==
    ASSUME NEW f, NEW c \in Corrections(f), Named(c)
    PROVE  /\ c.act \in SourceActions \cup {None} /\ c.item \in Items \cup {None}
           /\ c.target \in Flows \cup {None}
           /\ c.act = None => c.item = None
           /\ c.act \in SourceActions => c.item \in Items /\ Alive(c.item)
           /\ c.act = "rebind_flow" => c.target # None
<1>1. None \notin SourceActions
  BY CashLedgerAssumption
<1>2. \A i \in Owned({f}) : i \in Items /\ Alive(i)
  BY DEF Owned
<1>3. CASE c = [act |-> None, item |-> None, target |-> None]
  BY <1>1, <1>3 DEF SourceActions
<1>4. CASE \E b \in SourceActions, i \in Owned({f}), g \in Flows \cup {None} :
               c = [act |-> b, item |-> i, target |-> g]
  BY <1>1, <1>2, <1>4 DEF Named
<1>. QED  BY <1>3, <1>4 DEF Corrections

\* What a page asks when it changes a flow.
LEMMA AskUpdateFlowGood ==
    ASSUME Ledger(rows), NEW h, AskUpdateFlow(h)
    PROVE  \E q : Ask(h, q) /\ Good(q)
<1>. DEFINE FR(a, k, p) == [amount |-> a, kind |-> k, project |-> p, first |-> TRUE]
            Amended(x, b) == [rows[x] EXCEPT !.amount = b, !.first = TRUE]
<1>. DEFINE Asks(f, a, b, k, p, c) ==
                /\ Alive(f)
                /\ Named(c)
                /\ c.act # "correct_amount" => b = a
                /\ Ask(h, [op |-> "update_flow", id |-> f, link |-> {}, act |-> c.act, item |-> c.item, target |-> c.target,
                           rows |-> [x \in {f} \cup (IF c.act = "correct_amount" THEN {c.item} ELSE {}) |->
                                       IF x = f THEN FR(a, k, p) ELSE Amended(x, b)]])
<1>flow. PICK f \in Flows, a \in Amounts, b \in Amounts, k \in {"receipt", "payment"}, p \in Projects :
         \E c \in Corrections(f) : Asks(f, a, b, k, p, c)
  BY Zenon DEF AskUpdateFlow
<1>. HIDE DEF Asks
<1>0. PICK c \in Corrections(f) : Asks(f, a, b, k, p, c)
  BY <1>flow
<1>1. /\ Named(c)
      /\ Ask(h, [op |-> "update_flow", id |-> f, link |-> {}, act |-> c.act, item |-> c.item, target |-> c.target,
                 rows |-> [x \in {f} \cup (IF c.act = "correct_amount" THEN {c.item} ELSE {}) |->
                             IF x = f THEN FR(a, k, p) ELSE Amended(x, b)]])
  BY <1>0 DEF Asks
<1>2. PICK D : D = {f} \cup (IF c.act = "correct_amount" THEN {c.item} ELSE {})
  OBVIOUS
<1>3. PICK r : r = [x \in D |-> IF x = f THEN FR(a, k, p) ELSE Amended(x, b)]
  OBVIOUS
<1>4. PICK q : q = [op |-> "update_flow", id |-> f, rows |-> r, link |-> {}, act |-> c.act,
                    item |-> c.item, target |-> c.target]
  OBVIOUS
<1>5. Ask(h, q)
  BY <1>1, <1>2, <1>3, <1>4
<1>6. /\ c.act \in SourceActions \cup {None} /\ c.item \in Items \cup {None}
      /\ c.target \in Flows \cup {None}
      /\ c.act = None => c.item = None
      /\ c.act = "correct_amount" => c.item \in Items /\ Alive(c.item)
      /\ c.act = "rebind_flow" => c.target # None
  BY <1>1, CorrectionIs DEF SourceActions
<1>7. f \in Ids /\ RowsOf(f) = FlowRow /\ f \notin Setts /\ FR(a, k, p) \in FlowRow
  BY FlowRowIs, RowTypes DEF Ids
<1>8. ASSUME c.act = "correct_amount"
      PROVE  c.item \in Ids /\ Amended(c.item, b) \in RowsOf(c.item) /\ c.item \notin Setts /\ c.item \notin Flows
  <2>1. /\ c.item \in Ids /\ rows[c.item] \in ItemRow /\ c.item \notin Setts /\ c.item \notin Flows
        /\ RowsOf(c.item) = ItemRow
    BY <1>6, <1>8, ItemThere, RowTypes
  <2>2. Amended(c.item, b) \in ItemRow
    BY <2>1 DEF ItemRow
  <2>. QED  BY <2>1, <2>2
<1>9. DOMAIN r = D /\ r = [y \in DOMAIN r |-> r[y]] /\ f \in D /\ D \subseteq Ids
  BY <1>2, <1>3, <1>7, <1>8
<1>. HIDE DEF FR, Amended
<1>10. \A y \in D : r[y] \in RowsOf(y) /\ y \notin Setts
  BY <1>2, <1>3, <1>7, <1>8
<1>11. c.act = "correct_amount" => c.item \in D
  BY <1>2
<1>12. {} \in SUBSET Loans
  OBVIOUS
<1>13. Good(q)
  BY <1>4, <1>6, <1>9, <1>10, <1>11, <1>12, FlowRequestGood
<1>. QED  BY <1>5, <1>13

\* What a page asks when it deletes a flow.
LEMMA AskDeleteFlowGood ==
    ASSUME NEW h, AskDeleteFlow(h)
    PROVE  \E q : Ask(h, q) /\ Good(q)
<1>0. PICK f \in Flows : \E c \in Corrections(f) :
         /\ Named(c)
         /\ Ask(h, [op |-> "delete_flow", id |-> f, rows |-> NoRows, link |-> {},
                    act |-> c.act, item |-> c.item, target |-> c.target])
  BY DEF AskDeleteFlow
<1>1. PICK c \in Corrections(f) :
         /\ Named(c)
         /\ Ask(h, [op |-> "delete_flow", id |-> f, rows |-> NoRows, link |-> {},
                    act |-> c.act, item |-> c.item, target |-> c.target])
  BY <1>0
<1>2. PICK r : r = NoRows
  OBVIOUS
<1>3. PICK q : q = [op |-> "delete_flow", id |-> f, rows |-> r, link |-> {}, act |-> c.act,
                    item |-> c.item, target |-> c.target]
  OBVIOUS
<1>4. Ask(h, q)
  BY <1>1, <1>2, <1>3
<1>5. DOMAIN r = {} /\ r = [y \in DOMAIN r |-> r[y]]
  BY <1>2 DEF NoRows
<1>6. /\ c.act \in SourceActions \cup {None} /\ c.item \in Items \cup {None}
      /\ c.target \in Flows \cup {None}
      /\ c.act = None => c.item = None
      /\ c.act = "rebind_flow" => c.target # None
  BY <1>1, CorrectionIs
<1>7. {} \in SUBSET Loans
  OBVIOUS
<1>8. Good(q)
  BY <1>3, <1>5, <1>6, <1>7, FlowRequestGood
<1>. QED  BY <1>4, <1>8

\* Every request is a good one.
LEMMA RequestGood ==
    ASSUME Ledger(rows), NEW h, Request(h)
    PROVE  MayAsk(h) /\ \E q : Ask(h, q) /\ Good(q)
<1>1. MayAsk(h)
  BY DEF Request, AskCreateFlow, AskUpdateFlow, AskDeleteFlow, AskCreateItem, AskUpdateItem,
         AskDeleteItem, AskCreateSettlement, AskUpdateSettlement, AskDeleteSettlement
<1>. QED  BY <1>1, AskCreateFlowGood, AskUpdateFlowGood, AskDeleteFlowGood, AskCreateItemGood,
             AskUpdateItemGood, AskSettlementGood, AskDeleteGood DEF Request

-----------------------------------------------------------------------------
(* The invariant.                                                          *)

\* The id has or had a row.
Used(x) == Alive(x) \/ x \in gone

\* A request of a client whose page is older than the writes st. It is well formed; if the
\* settlement it creates was created before, rows it settles have moved on since the page;
\* and a flow's settlements are never there before the flow.
Sane(q, st) ==
    /\ WellFormed(q) /\ DOMAIN q.rows \subseteq issued
    /\ q.op = "create_settlement" /\ Used(q.id) => Ends(q.rows[q.id], q.id) \cap st # {}
    /\ q.op = "create_flow" => \A s \in DOMAIN q.rows \cap Setts : Used(s) => Used(q.id)

Asked == \A h \in Handlers : at[h] # "idle" => Sane(req[h], stale[h])

\* Requests that create the same id are repetitions of one request.
NewIdsOnce ==
    \A g, h \in Handlers :
        (/\ at[g] # "idle" /\ at[h] # "idle"
         /\ req[g].op \in Creating /\ req[h].op \in Creating
         /\ DOMAIN req[g].rows \cap DOMAIN req[h].rows # {}) => req[g] = req[h]

RowsShaped == \A s \in Setts : Alive(s) => Shaped(rows[s])
RowsIssued == \A x \in Ids : Alive(x) => x \in issued
LocksApart == \A g, h \in Handlers : g # h => Locked(g) \cap Locked(h) = {}

Standing ==
    \A h \in Handlers : at[h] = "decided" =>
        /\ Held(req[h]) = graph[h]
        /\ Validated(Written(rows, draft[h]), ValidatedRows(req[h]))
        /\ Decided(req[h], Seen(h), draft[h])

\* Every handler has its entries, and drafts are of decided handlers.
Tables ==
    /\ req = [h \in Handlers |-> req[h]] /\ stale = [h \in Handlers |-> stale[h]]
    /\ graph = [h \in Handlers |-> graph[h]] /\ draft = [h \in Handlers |-> draft[h]]
    /\ \A h \in Handlers : at[h] # "decided" => DOMAIN draft[h] = {}

Inv ==
    /\ TypeOK /\ Tables /\ RowsShaped /\ RowsIssued
    /\ Asked /\ NewIdsOnce /\ LocksApart
    /\ BooksBalance /\ GoneStaysGone /\ Standing

\* The part of the invariant about decisions is the property DecisionsStand.
LEMMA StandingIs == Standing <=> DecisionsStand
<1>1. \A d : Written(rows, d) = Overlay(d)
  BY DEF Written, Overlay
<1>2. ASSUME NEW h \in Handlers, Held(req[h]) = graph[h]
      PROVE  ValidatedRows(req[h]) = IF req[h].op = "create_item" THEN {req[h].id} ELSE graph[h]
  BY <1>2 DEF ValidatedRows
<1>3. ASSUME Standing
      PROVE  DecisionsStand
  BY <1>1, <1>2, <1>3 DEF Standing, DecisionsStand, Decided
<1>4. ASSUME DecisionsStand
      PROVE  Standing
  BY <1>1, <1>2, <1>4 DEF Standing, DecisionsStand, Decided
<1>. QED  BY <1>3, <1>4

\* The rows are a ledger.
LEMMA InvLedger ==
    ASSUME TypeOK, RowsShaped
    PROVE  Ledger(rows)
BY DEF TypeOK, RowsShaped, Ledger, Alive

\* The invariant holds of a ledger the program can have written, with no request yet.
LEMMA InitInv == ASSUME Init PROVE Inv
<1>1. /\ rows \in Ledgers /\ Validated(rows, Ids)
      /\ \A s \in Setts : rows[s] # None => Shaped(rows[s])
  BY CashLedgerAssumption DEF Init
<1>2. /\ gone = {} /\ issued = {x \in Ids : rows[x] # None} /\ asks = 0
      /\ \A h \in Handlers : at[h] = "idle" /\ req[h] = None /\ stale[h] = {}
                             /\ graph[h] = {} /\ draft[h] = NoRows
      /\ at \in [Handlers -> {"idle", "read", "decided", "answered"}]
  BY DEF Init
<1>3. DOMAIN NoRows = {}
  BY DEF NoRows
<1>4. TypeOK
  BY <1>1, <1>2, <1>3, CashLedgerAssumption DEF TypeOK
<1>5. RowsShaped /\ RowsIssued /\ BooksBalance /\ GoneStaysGone
  BY <1>1, <1>2 DEF RowsShaped, RowsIssued, Alive, BooksBalance, GoneStaysGone
<1>6. Asked /\ Standing
  BY <1>2 DEF Asked, Standing
<1>7. NewIdsOnce
  BY <1>2 DEF NewIdsOnce
<1>8. LocksApart
  BY <1>2 DEF LocksApart, Locked
<1>9. Tables
  BY <1>3 DEF Init, Tables
<1>. QED  BY <1>4, <1>5, <1>6, <1>7, <1>8, <1>9 DEF Inv

-----------------------------------------------------------------------------
(* Steps that write no row.                                                *)

\* A request stays sane while no row is written.
LEMMA SaneKept ==
    ASSUME UNCHANGED <<rows, gone>>, issued \subseteq issued', NEW q, NEW st, Sane(q, st)
    PROVE  Sane(q, st)'
BY DEF Sane, Used, Alive

\* The requests of the next state are requests of this one.
LEMMA CopiesAsked ==
    ASSUME Asked, NewIdsOnce, UNCHANGED <<rows, gone, issued>>,
           \A g \in Handlers : at'[g] # "idle" =>
               \E k \in Handlers : at[k] # "idle" /\ req'[g] = req[k] /\ stale'[g] = stale[k]
    PROVE  Asked' /\ NewIdsOnce'
<1>1. ASSUME NEW q, NEW st, Sane(q, st)
      PROVE  Sane(q, st)'
  BY <1>1, SaneKept
<1>2. ASSUME NEW g \in Handlers, at'[g] # "idle"
      PROVE  Sane(req[g], stale[g])'
  <2>1. PICK k \in Handlers : at[k] # "idle" /\ req'[g] = req[k] /\ stale'[g] = stale[k]
    BY <1>2
  <2>2. PICK q, st : q = req[k] /\ st = stale[k]
    OBVIOUS
  <2>3. Sane(q, st)'
    BY <1>1, <2>1, <2>2 DEF Asked
  <2>4. q = req'[g] /\ st = stale'[g]
    BY <2>1, <2>2
  <2>. QED  BY <2>3, <2>4
<1>3. Asked'
  BY <1>2 DEF Asked
<1>4. ASSUME NEW g \in Handlers, NEW h \in Handlers, at'[g] # "idle", at'[h] # "idle",
             req'[g].op \in Creating, req'[h].op \in Creating,
             DOMAIN req'[g].rows \cap DOMAIN req'[h].rows # {}
      PROVE  req'[g] = req'[h]
  <2>1. PICK k \in Handlers : at[k] # "idle" /\ req'[g] = req[k]
    BY <1>4
  <2>2. PICK l \in Handlers : at[l] # "idle" /\ req'[h] = req[l]
    BY <1>4
  <2>3. req[k] = req[l]
    BY <1>4, <2>1, <2>2 DEF NewIdsOnce
  <2>. QED  BY <2>1, <2>2, <2>3
<1>5. NewIdsOnce'
  BY <1>4 DEF NewIdsOnce
<1>. QED  BY <1>3, <1>5

\* A decided request, the rows it holds and what it writes.
LEMMA DecidedIs ==
    ASSUME Inv, NEW h \in Handlers, at[h] = "decided",
           NEW q, q = req[h], NEW d, d = draft[h]
    PROVE  /\ WellFormed(q) /\ DOMAIN q.rows \subseteq issued /\ Sane(q, stale[h])
           /\ graph[h] = Held(q) /\ Locked(h) = Held(q) /\ Held(q) \subseteq Ids
           /\ Decided(q, Seen(h), d) /\ Sound(q, ValidatedRows(q), d)
           /\ Validated(Written(rows, d), ValidatedRows(q))
           /\ ValidatedRows(q) \subseteq Held(q) /\ DOMAIN d \subseteq Held(q)
<1>1. Ledger(rows)
  BY InvLedger DEF Inv
<1>2. /\ WellFormed(q) /\ DOMAIN q.rows \subseteq issued /\ Sane(q, stale[h])
  BY DEF Inv, Asked, Sane
<1>3. /\ graph[h] = Held(q) /\ Decided(q, Seen(h), d)
      /\ Validated(Written(rows, d), ValidatedRows(q))
  BY DEF Inv, Standing
<1>4. Sound(q, ValidatedRows(q), d)
  BY <1>1, <1>2, <1>3, DecidedSound DEF Inv, BooksBalance
<1>5. ValidatedRows(q) \subseteq Held(q) /\ Held(q) \subseteq Ids
  BY <1>4 DEF Sound, Guarded
<1>6. DOMAIN d \subseteq Held(q)
  BY <1>4, <1>5, WritesIn
<1>7. Locked(h) = Held(q)
  BY <1>3 DEF Locked
<1>. QED  BY <1>2, <1>3, <1>4, <1>5, <1>6, <1>7

\* A decision is not disturbed by a step that writes no row.
LEMMA QuietStands ==
    ASSUME Ledger(rows), BooksBalance, UNCHANGED <<rows, gone>>,
           NEW q, WellFormed(q), NEW G \in SUBSET Ids, Held(q) = G, NEW seen, NEW d,
           Decided(q, seen, d), Validated(Written(rows, d), ValidatedRows(q))
    PROVE  /\ Held(q)' = G /\ Decided(q, seen, d)'
           /\ Validated(Written(rows', d), ValidatedRows(q)')
<1>1. Leaves(G, seen, seen)
  BY NothingApart DEF Leaves
<1>2. Decided(q, seen, d)' /\ Held(q)' = G
  BY <1>1, DecidedStays DEF BooksBalance
<1>3. ValidatedRows(q)' = ValidatedRows(q)
  BY <1>2 DEF ValidatedRows
<1>. QED  BY <1>2, <1>3

\* The step of a handler that writes no row and decides nothing.
LEMMA QuietInv ==
    ASSUME Inv, UNCHANGED <<rows, gone>>, issued \subseteq issued',
           TypeOK', Tables', Asked', NewIdsOnce',
           \A g \in Handlers : at'[g] = "decided" =>
               /\ at[g] = "decided" /\ req'[g] = req[g] /\ graph'[g] = graph[g]
               /\ draft'[g] = draft[g] /\ stale'[g] = stale[g]
    PROVE  Inv'
<1>1. Ledger(rows)
  BY InvLedger DEF Inv
<1>2. RowsShaped' /\ RowsIssued' /\ BooksBalance' /\ GoneStaysGone'
  BY DEF Inv, RowsShaped, RowsIssued, Alive, BooksBalance, GoneStaysGone
<1>3. LocksApart'
  BY DEF Inv, LocksApart, Locked
<1>4. ASSUME NEW g \in Handlers, at'[g] = "decided"
      PROVE  /\ Held(req[g])' = graph'[g]
             /\ Validated(Written(rows, draft[g]), ValidatedRows(req[g]))'
             /\ Decided(req[g], Seen(g), draft[g])'
  <2>1. PICK q, G, d, seen : q = req[g] /\ G = graph[g] /\ d = draft[g] /\ seen = Seen(g)
    OBVIOUS
  <2>2. /\ at[g] = "decided" /\ req'[g] = req[g] /\ graph'[g] = graph[g]
        /\ draft'[g] = draft[g] /\ stale'[g] = stale[g]
    BY <1>4
  <2>3. Seen(g)' = Seen(g)
    BY <2>2 DEF Seen
  <2>4. at[g] = "decided" /\ q = req'[g] /\ G = graph'[g] /\ d = draft'[g] /\ seen = Seen(g)'
    BY <2>2, <2>3, <2>1
  <2>5. /\ WellFormed(q) /\ Held(q) = G /\ G \in SUBSET Ids /\ Decided(q, seen, d)
        /\ Validated(Written(rows, d), ValidatedRows(q))
    <3>1. /\ WellFormed(q) /\ graph[g] = Held(q) /\ Held(q) \subseteq Ids /\ Decided(q, Seen(g), d)
          /\ Validated(Written(rows, d), ValidatedRows(q))
      <4>1. at[g] = "decided" /\ q = req[g] /\ d = draft[g]
        BY <2>1, <2>4
      <4>. QED  BY <4>1, DecidedIs
    <3>. QED  BY <2>1, <3>1
  <2>6. Held(q)' = G /\ Decided(q, seen, d)' /\ Validated(Written(rows', d), ValidatedRows(q)')
    BY <1>1, <2>5, QuietStands DEF Inv
  <2>. QED  BY <2>4, <2>6
<1>5. Standing'
  BY <1>4 DEF Standing
<1>. QED  BY <1>2, <1>3, <1>5 DEF Inv

\* One entry of a table changes, the others stay.
LEMMA Updated ==
    ASSUME NEW f, f = [k \in Handlers |-> f[k]], NEW h \in Handlers, NEW e
    PROVE  /\ [f EXCEPT ![h] = e] = [k \in Handlers |-> [f EXCEPT ![h] = e][k]]
           /\ \A g \in Handlers : [f EXCEPT ![h] = e][g] = IF g = h THEN e ELSE f[g]
OBVIOUS

\* A request locks ids.
LEMMA HeldIds ==
    ASSUME Ledger(rows), NEW q, WellFormed(q)
    PROVE  Held(q) \subseteq Ids
BY HeldCreating, HeldGraph

\* A new request: its new ids are of no row and of no other request.
LEMMA RequestKeeps ==
    ASSUME Inv, NEW h \in Handlers, Request(h)
    PROVE  Inv'
<1>0. Ledger(rows)
  BY InvLedger DEF Inv
<1>1. PICK q : MayAsk(h) /\ Ask(h, q) /\ Good(q)
  BY <1>0, RequestGood
<1>2. /\ at[h] = "idle" /\ asks < MaxRequests /\ asks' = asks + 1
      /\ issued' = issued \cup DOMAIN q.rows
      /\ UNCHANGED <<rows, gone, stale, draft>>
      /\ WellFormed(q) /\ q \in Requests /\ q # None
      /\ q.op \in Creating => DOMAIN q.rows \cap issued = {}
  BY <1>1, CashLedgerAssumption DEF MayAsk, Ask, Good
<1>3. /\ \A g \in Handlers : at'[g] = IF g = h THEN "read" ELSE at[g]
      /\ at' \in [Handlers -> {"idle", "read", "decided", "answered"}]
  BY <1>1 DEF Ask, Inv, TypeOK
<1>4. /\ \A g \in Handlers : req'[g] = IF g = h THEN q ELSE req[g]
      /\ req' = [g \in Handlers |-> req'[g]]
  BY <1>1, Updated DEF Ask, Inv, Tables
<1>5. PICK G : G = Held(q)
  OBVIOUS
<1>6. /\ \A g \in Handlers : graph'[g] = IF g = h THEN G ELSE graph[g]
      /\ graph' = [g \in Handlers |-> graph'[g]]
  BY <1>1, <1>5, Updated DEF Ask, Inv, Tables
<1>7. G \subseteq Ids /\ DOMAIN q.rows \subseteq Ids
  BY <1>0, <1>2, <1>5, HeldIds DEF WellFormed
<1>8. DOMAIN draft[h] = {}
  BY <1>2 DEF Inv, Tables
<1>9. TypeOK'
  <2>1. asks' \in 0 .. MaxRequests
    BY <1>2, CashLedgerAssumption DEF Inv, TypeOK
  <2>2. gone' \subseteq issued' /\ issued' \subseteq Ids /\ rows' \in Ledgers
    BY <1>2, <1>7 DEF Inv, TypeOK
  <2>3. ASSUME NEW g \in Handlers
        PROVE  /\ (req'[g] = None) <=> (at'[g] = "idle")
               /\ stale'[g] \subseteq Ids /\ graph'[g] \subseteq Ids
               /\ DOMAIN draft'[g] \subseteq graph'[g]
               /\ \A x \in DOMAIN draft'[g] : draft'[g][x] \in RowsOf(x) \cup {None}
    BY <1>2, <1>3, <1>4, <1>6, <1>7, <1>8 DEF Inv, TypeOK
  <2>. QED  BY <1>3, <2>1, <2>2, <2>3 DEF TypeOK
<1>10. Tables'
  BY <1>2, <1>3, <1>4, <1>6 DEF Inv, Tables
<1>11. \A x \in Ids : Used(x) => x \in issued
  BY DEF Inv, RowsIssued, TypeOK, Used
<1>12. ASSUME NEW g \in Handlers, at'[g] # "idle"
       PROVE  Sane(req[g], stale[g])'
  <2>1. PICK st : st = stale[g]
    OBVIOUS
  <2>2. CASE g = h
    <3>1. q.op \in Creating => \A x \in DOMAIN q.rows : ~Used(x)
      BY <1>2, <1>7, <1>11
    <3>2. q.op \in {"create_flow", "create_settlement"} => q.id \in DOMAIN q.rows
      BY <1>2 DEF WellFormed
    <3>3. Sane(q, st)'
      BY <1>2, <3>1, <3>2 DEF Sane, Used, Alive, Creating
    <3>. QED  BY <1>2, <1>4, <2>1, <2>2, <3>3
  <2>3. CASE g # h
    <3>1. PICK p : p = req[g]
      OBVIOUS
    <3>2. Sane(p, st)
      BY <1>3, <1>12, <2>1, <2>3, <3>1 DEF Inv, Asked
    <3>3. Sane(p, st)'
      BY <1>2, <3>2, SaneKept
    <3>. QED  BY <1>2, <1>4, <2>1, <2>3, <3>1, <3>3
  <2>. QED  BY <2>2, <2>3
<1>13. Asked'
  BY <1>12 DEF Asked
<1>14. ASSUME NEW g \in Handlers \ {h}, at'[g] # "idle"
       PROVE  DOMAIN req'[g].rows \subseteq issued
  BY <1>3, <1>4, <1>14 DEF Inv, Asked, Sane
<1>15. ASSUME NEW g \in Handlers, NEW k \in Handlers, at'[g] # "idle", at'[k] # "idle",
              req'[g].op \in Creating, req'[k].op \in Creating,
              DOMAIN req'[g].rows \cap DOMAIN req'[k].rows # {}
       PROVE  req'[g] = req'[k]
  <2>1. CASE g = h /\ k = h
    BY <2>1
  <2>2. CASE g = h /\ k # h
    BY <1>2, <1>4, <1>14, <1>15, <2>2
  <2>3. CASE g # h /\ k = h
    BY <1>2, <1>4, <1>14, <1>15, <2>3
  <2>4. CASE g # h /\ k # h
    BY <1>3, <1>4, <1>15, <2>4 DEF Inv, NewIdsOnce
  <2>. QED  BY <2>1, <2>2, <2>3, <2>4
<1>16. NewIdsOnce'
  BY <1>15 DEF NewIdsOnce
<1>17. \A g \in Handlers : at'[g] = "decided" =>
           /\ at[g] = "decided" /\ req'[g] = req[g] /\ graph'[g] = graph[g]
           /\ draft'[g] = draft[g] /\ stale'[g] = stale[g]
  BY <1>2, <1>3, <1>4, <1>6
<1>. QED  BY <1>2, <1>9, <1>10, <1>13, <1>16, <1>17, QuietInv

\* The same request, sent again while it runs.
LEMMA DuplicateKeeps ==
    ASSUME Inv, NEW h \in Handlers, NEW g \in Handlers, Duplicate(h, g)
    PROVE  Inv'
<1>0. Ledger(rows)
  BY InvLedger DEF Inv
<1>1. PICK q, st : q = req[h] /\ st = stale[h]
  OBVIOUS
<1>2. PICK G : G = Held(req[h])
  OBVIOUS
<1>3. /\ at[h] # "idle" /\ at[g] = "idle" /\ g # h
      /\ UNCHANGED <<rows, gone, issued, asks, draft>>
  BY DEF Duplicate
<1>4. /\ \A k \in Handlers : at'[k] = IF k = g THEN "read" ELSE at[k]
      /\ at' \in [Handlers -> {"idle", "read", "decided", "answered"}]
  BY DEF Duplicate, Inv, TypeOK
<1>5. /\ \A k \in Handlers : /\ req'[k] = IF k = g THEN q ELSE req[k]
                             /\ stale'[k] = IF k = g THEN st ELSE stale[k]
                             /\ graph'[k] = IF k = g THEN G ELSE graph[k]
      /\ req' = [k \in Handlers |-> req'[k]] /\ stale' = [k \in Handlers |-> stale'[k]]
      /\ graph' = [k \in Handlers |-> graph'[k]]
  BY <1>1, <1>2, Updated DEF Duplicate, Inv, Tables
<1>6. WellFormed(q) /\ q # None /\ st \subseteq Ids
  BY <1>1, <1>3 DEF Inv, Asked, Sane, TypeOK
<1>7. G \subseteq Ids
  <2>1. G = Held(q)
    BY <1>1, <1>2
  <2>. QED  BY <1>0, <1>6, <2>1, HeldIds
<1>8. DOMAIN draft[g] = {}
  BY <1>3 DEF Inv, Tables
<1>9. TypeOK'
  <2>1. ASSUME NEW k \in Handlers
        PROVE  /\ (req'[k] = None) <=> (at'[k] = "idle")
               /\ stale'[k] \subseteq Ids /\ graph'[k] \subseteq Ids
               /\ DOMAIN draft'[k] \subseteq graph'[k]
               /\ \A x \in DOMAIN draft'[k] : draft'[k][x] \in RowsOf(x) \cup {None}
    BY <1>3, <1>4, <1>5, <1>6, <1>7, <1>8 DEF Inv, TypeOK
  <2>. QED  BY <1>3, <1>4, <2>1 DEF Inv, TypeOK
<1>10. Tables'
  BY <1>3, <1>4, <1>5 DEF Inv, Tables
<1>11. \A k \in Handlers : at'[k] # "idle" =>
           \E l \in Handlers : at[l] # "idle" /\ req'[k] = req[l] /\ stale'[k] = stale[l]
  BY <1>1, <1>3, <1>4, <1>5
<1>12. Asked' /\ NewIdsOnce'
  BY <1>3, <1>11, CopiesAsked DEF Inv
<1>13. \A k \in Handlers : at'[k] = "decided" =>
           /\ at[k] = "decided" /\ req'[k] = req[k] /\ graph'[k] = graph[k]
           /\ draft'[k] = draft[k] /\ stale'[k] = stale[k]
  BY <1>3, <1>4, <1>5
<1>. QED  BY <1>3, <1>9, <1>10, <1>12, <1>13, QuietInv

\* The same request, sent again after its answer.
LEMMA ResendKeeps ==
    ASSUME Inv, NEW h \in Handlers, Resend(h)
    PROVE  Inv'
<1>0. Ledger(rows)
  BY InvLedger DEF Inv
<1>1. PICK q : q = req[h]
  OBVIOUS
<1>2. PICK G : G = Held(req[h])
  OBVIOUS
<1>3. at[h] = "answered" /\ UNCHANGED <<rows, gone, issued, asks, req, stale, draft>>
  BY DEF Resend
<1>4. /\ \A k \in Handlers : at'[k] = IF k = h THEN "read" ELSE at[k]
      /\ at' \in [Handlers -> {"idle", "read", "decided", "answered"}]
  BY DEF Resend, Inv, TypeOK
<1>5. /\ \A k \in Handlers : graph'[k] = IF k = h THEN G ELSE graph[k]
      /\ graph' = [k \in Handlers |-> graph'[k]]
  BY <1>2, Updated DEF Resend, Inv, Tables
<1>6. WellFormed(q) /\ G = Held(q)
  BY <1>1, <1>2, <1>3 DEF Inv, Asked, Sane
<1>7. G \subseteq Ids
  BY <1>0, <1>6, HeldIds
<1>8. DOMAIN draft[h] = {}
  BY <1>3 DEF Inv, Tables
<1>9. TypeOK'
  <2>1. ASSUME NEW k \in Handlers
        PROVE  /\ (req'[k] = None) <=> (at'[k] = "idle")
               /\ stale'[k] \subseteq Ids /\ graph'[k] \subseteq Ids
               /\ DOMAIN draft'[k] \subseteq graph'[k]
               /\ \A x \in DOMAIN draft'[k] : draft'[k][x] \in RowsOf(x) \cup {None}
    BY <1>3, <1>4, <1>5, <1>7, <1>8 DEF Inv, TypeOK
  <2>. QED  BY <1>3, <1>4, <2>1 DEF Inv, TypeOK
<1>10. Tables'
  BY <1>3, <1>4, <1>5 DEF Inv, Tables
<1>11. Asked' /\ NewIdsOnce'
  BY <1>3, <1>4, CopiesAsked DEF Inv
<1>12. \A k \in Handlers : at'[k] = "decided" =>
           /\ at[k] = "decided" /\ req'[k] = req[k] /\ graph'[k] = graph[k]
           /\ draft'[k] = draft[k] /\ stale'[k] = stale[k]
  BY <1>3, <1>4, <1>5
<1>. QED  BY <1>3, <1>9, <1>10, <1>11, <1>12, QuietInv

\* A handler that has nothing more to do with its request.
LEMMA RestKeeps ==
    ASSUME Inv, NEW h \in Handlers, Forget(h) \/ Refuse(h)
    PROVE  Inv'
<1>1. /\ at[h] \in {"answered", "read"}
      /\ UNCHANGED <<rows, gone, issued, asks, draft>>
  BY DEF Forget, Refuse
<1>2. /\ \A k \in Handlers : at'[k] = IF k = h THEN "idle" ELSE at[k]
      /\ at' \in [Handlers -> {"idle", "read", "decided", "answered"}]
  BY DEF Forget, Refuse, Inv, TypeOK
<1>3. /\ \A k \in Handlers : /\ req'[k] = IF k = h THEN None ELSE req[k]
                             /\ stale'[k] = IF k = h THEN {} ELSE stale[k]
      /\ req' = [k \in Handlers |-> req'[k]] /\ stale' = [k \in Handlers |-> stale'[k]]
  BY Updated DEF Forget, Refuse, Inv, Tables
<1>4. PICK G : G \in {graph[h], {}} /\ graph' = [graph EXCEPT ![h] = G]
  <2>1. CASE Refuse(h)
    BY <2>1 DEF Refuse
  <2>2. CASE Forget(h)
    <3>1. graph' = graph
      BY <2>2 DEF Forget
    <3>2. graph = [k \in Handlers |-> graph[k]]
      BY DEF Inv, Tables
    <3>. QED  BY <3>1, <3>2
  <2>. QED  BY <2>1, <2>2
<1>5. /\ \A k \in Handlers : graph'[k] = IF k = h THEN G ELSE graph[k]
      /\ graph' = [k \in Handlers |-> graph'[k]]
  BY <1>4, Updated DEF Inv, Tables
<1>6. DOMAIN draft[h] = {}
  BY <1>1 DEF Inv, Tables
<1>7. TypeOK'
  <2>1. ASSUME NEW k \in Handlers
        PROVE  /\ (req'[k] = None) <=> (at'[k] = "idle")
               /\ stale'[k] \subseteq Ids /\ graph'[k] \subseteq Ids
               /\ DOMAIN draft'[k] \subseteq graph'[k]
               /\ \A x \in DOMAIN draft'[k] : draft'[k][x] \in RowsOf(x) \cup {None}
    BY <1>1, <1>2, <1>3, <1>4, <1>5, <1>6 DEF Inv, TypeOK
  <2>. QED  BY <1>1, <1>2, <2>1 DEF Inv, TypeOK
<1>8. Tables'
  BY <1>1, <1>2, <1>3, <1>5 DEF Inv, Tables
<1>9. \A k \in Handlers : at'[k] # "idle" =>
           at[k] # "idle" /\ req'[k] = req[k] /\ stale'[k] = stale[k]
  BY <1>2, <1>3
<1>10. Asked' /\ NewIdsOnce'
  BY <1>1, <1>9, CopiesAsked DEF Inv
<1>11. \A k \in Handlers : at'[k] = "decided" =>
           /\ at[k] = "decided" /\ req'[k] = req[k] /\ graph'[k] = graph[k]
           /\ draft'[k] = draft[k] /\ stale'[k] = stale[k]
  BY <1>1, <1>2, <1>3, <1>5
<1>. QED  BY <1>1, <1>7, <1>8, <1>10, <1>11, QuietInv

\* A transaction that leaves nothing.
LEMMA AbortKeeps ==
    ASSUME Inv, NEW h \in Handlers, Abort(h)
    PROVE  Inv'
<1>1. at[h] = "decided" /\ UNCHANGED <<rows, gone, issued, asks, req, stale>>
  BY DEF Abort
<1>2. /\ \A k \in Handlers : at'[k] = IF k = h THEN "answered" ELSE at[k]
      /\ at' \in [Handlers -> {"idle", "read", "decided", "answered"}]
  BY DEF Abort, Inv, TypeOK
<1>3. /\ \A k \in Handlers : /\ graph'[k] = IF k = h THEN {} ELSE graph[k]
                             /\ draft'[k] = IF k = h THEN NoRows ELSE draft[k]
      /\ graph' = [k \in Handlers |-> graph'[k]] /\ draft' = [k \in Handlers |-> draft'[k]]
  BY Updated DEF Abort, Inv, Tables
<1>4. DOMAIN NoRows = {}
  BY DEF NoRows
<1>5. TypeOK'
  <2>1. ASSUME NEW k \in Handlers
        PROVE  /\ (req'[k] = None) <=> (at'[k] = "idle")
               /\ stale'[k] \subseteq Ids /\ graph'[k] \subseteq Ids
               /\ DOMAIN draft'[k] \subseteq graph'[k]
               /\ \A x \in DOMAIN draft'[k] : draft'[k][x] \in RowsOf(x) \cup {None}
    BY <1>1, <1>2, <1>3, <1>4 DEF Inv, TypeOK
  <2>. QED  BY <1>1, <1>2, <2>1 DEF Inv, TypeOK
<1>6. Tables'
  BY <1>1, <1>2, <1>3, <1>4 DEF Inv, Tables
<1>7. Asked' /\ NewIdsOnce'
  BY <1>1, <1>2, CopiesAsked DEF Inv
<1>8. \A k \in Handlers : at'[k] = "decided" =>
           /\ at[k] = "decided" /\ req'[k] = req[k] /\ graph'[k] = graph[k]
           /\ draft'[k] = draft[k] /\ stale'[k] = stale[k]
  BY <1>1, <1>2, <1>3
<1>. QED  BY <1>1, <1>5, <1>6, <1>7, <1>8, QuietInv

\* The decision of a handler, whatever its command is.
LEMMA TakesDecided ==
    ASSUME Inv, NEW h \in Handlers,
           \/ TakeCreateFlow(h) \/ TakeUpdateFlow(h) \/ TakeDeleteFlow(h)
           \/ TakeCreateItem(h) \/ TakeUpdateItem(h) \/ TakeDeleteItem(h)
           \/ TakeCreateSettlement(h) \/ TakeUpdateSettlement(h) \/ TakeDeleteSettlement(h)
    PROVE  \E d : /\ Take(h, d, ValidatedRows(req[h]))
                  /\ Decided(req[h], Seen(h), d)
<1>1. CASE TakeCreateFlow(h)
  <2>1. PICK d : d = CreateFlowWrites(req[h])
    OBVIOUS
  <2>2. req[h].op = "create_flow" /\ MayCreateFlow(req[h], Seen(h)) /\ Take(h, d, graph[h])
    BY <1>1, <2>1 DEF TakeCreateFlow
  <2>3. ValidatedRows(req[h]) = graph[h]
    BY <2>2 DEF ValidatedRows, Take
  <2>. QED  BY <2>1, <2>2, <2>3 DEF Decided
<1>2. CASE TakeUpdateFlow(h)
  <2>1. PICK d : d = UpdateFlowWrites(req[h])
    OBVIOUS
  <2>2. req[h].op = "update_flow" /\ MayUpdateFlow(req[h], Seen(h)) /\ Take(h, d, graph[h])
    BY <1>2, <2>1 DEF TakeUpdateFlow
  <2>3. ValidatedRows(req[h]) = graph[h]
    BY <2>2 DEF ValidatedRows, Take
  <2>. QED  BY <2>1, <2>2, <2>3 DEF Decided
<1>3. CASE TakeDeleteFlow(h)
  <2>1. PICK d : d = DeleteFlowWrites(req[h])
    OBVIOUS
  <2>2. req[h].op = "delete_flow" /\ MayDeleteFlow(req[h], Seen(h)) /\ Take(h, d, graph[h])
    BY <1>3, <2>1 DEF TakeDeleteFlow
  <2>3. ValidatedRows(req[h]) = graph[h]
    BY <2>2 DEF ValidatedRows, Take
  <2>. QED  BY <2>1, <2>2, <2>3 DEF Decided
<1>4. CASE TakeCreateItem(h)
  <2>1. PICK d : d = CreateItemWrites(req[h])
    OBVIOUS
  <2>2. req[h].op = "create_item" /\ MayCreateItem(req[h], Seen(h)) /\ Take(h, d, {req[h].id})
    BY <1>4, <2>1 DEF TakeCreateItem
  <2>3. ValidatedRows(req[h]) = {req[h].id}
    BY <2>2 DEF ValidatedRows
  <2>. QED  BY <2>1, <2>2, <2>3 DEF Decided
<1>5. CASE TakeUpdateItem(h)
  <2>1. PICK d : d = UpdateItemWrites(req[h])
    OBVIOUS
  <2>2. req[h].op = "update_item" /\ MayUpdateItem(req[h], Seen(h)) /\ Take(h, d, graph[h])
    BY <1>5, <2>1 DEF TakeUpdateItem
  <2>3. ValidatedRows(req[h]) = graph[h]
    BY <2>2 DEF ValidatedRows, Take
  <2>. QED  BY <2>1, <2>2, <2>3 DEF Decided
<1>6. CASE TakeDeleteItem(h)
  <2>1. PICK d : d = DeleteItemWrites(req[h])
    OBVIOUS
  <2>2. req[h].op = "delete_item" /\ MayDeleteItem(req[h], Seen(h)) /\ Take(h, d, graph[h])
    BY <1>6, <2>1 DEF TakeDeleteItem
  <2>3. ValidatedRows(req[h]) = graph[h]
    BY <2>2 DEF ValidatedRows, Take
  <2>. QED  BY <2>1, <2>2, <2>3 DEF Decided
<1>7. CASE TakeCreateSettlement(h)
  <2>1. PICK d : d = CreateSettlementWrites(req[h])
    OBVIOUS
  <2>2. req[h].op = "create_settlement" /\ MayCreateSettlement(req[h], Seen(h)) /\ Take(h, d, graph[h])
    BY <1>7, <2>1 DEF TakeCreateSettlement
  <2>3. ValidatedRows(req[h]) = graph[h]
    BY <2>2 DEF ValidatedRows, Take
  <2>. QED  BY <2>1, <2>2, <2>3 DEF Decided
<1>8. CASE TakeUpdateSettlement(h)
  <2>1. PICK d : d = UpdateSettlementWrites(req[h])
    OBVIOUS
  <2>2. req[h].op = "update_settlement" /\ MayUpdateSettlement(req[h], Seen(h)) /\ Take(h, d, graph[h])
    BY <1>8, <2>1 DEF TakeUpdateSettlement
  <2>3. ValidatedRows(req[h]) = graph[h]
    BY <2>2 DEF ValidatedRows, Take
  <2>. QED  BY <2>1, <2>2, <2>3 DEF Decided
<1>9. CASE TakeDeleteSettlement(h)
  <2>1. PICK d : d = DeleteSettlementWrites(req[h])
    OBVIOUS
  <2>2. req[h].op = "delete_settlement" /\ MayDeleteSettlement(req[h], Seen(h)) /\ Take(h, d, graph[h])
    BY <1>9, <2>1 DEF TakeDeleteSettlement
  <2>3. ValidatedRows(req[h]) = graph[h]
    BY <2>2 DEF ValidatedRows, Take
  <2>. QED  BY <2>1, <2>2, <2>3 DEF Decided
<1>. QED  BY <1>1, <1>2, <1>3, <1>4, <1>5, <1>6, <1>7, <1>8, <1>9

\* A decision: its locks are disjoint from those of the others, its writes sound.
LEMMA TakeKeeps ==
    ASSUME Inv, NEW h \in Handlers, NEW d,
           Take(h, d, ValidatedRows(req[h])), Decided(req[h], Seen(h), d)
    PROVE  Inv'
<1>0. Ledger(rows)
  BY InvLedger DEF Inv
<1>1. PICK q, G, seen : q = req[h] /\ G = graph[h] /\ seen = Seen(h)
  OBVIOUS
<1>2. /\ at[h] = "read" /\ Held(q) = G
      /\ \A g \in Handlers \ {h} : Locked(g) \cap G = {}
      /\ Validated(Written(rows, d), ValidatedRows(q))
      /\ Decided(q, seen, d)
      /\ UNCHANGED <<rows, gone, issued, asks, req, stale, graph>>
  <2>1. Overlay(d) = Written(rows, d)
    BY DEF Overlay, Written
  <2>. QED  BY <1>1, <2>1 DEF Take
<1>3. /\ \A k \in Handlers : at'[k] = IF k = h THEN "decided" ELSE at[k]
      /\ at' \in [Handlers -> {"idle", "read", "decided", "answered"}]
  BY DEF Take, Inv, TypeOK
<1>4. /\ \A k \in Handlers : draft'[k] = IF k = h THEN d ELSE draft[k]
      /\ draft' = [k \in Handlers |-> draft'[k]]
  BY Updated DEF Take, Inv, Tables
<1>5. WellFormed(q) /\ G \in SUBSET Ids
  BY <1>1, <1>2 DEF Inv, Asked, Sane, TypeOK
<1>6. Sound(q, ValidatedRows(q), d)
  BY <1>0, <1>2, <1>5, DecidedSound DEF Inv, BooksBalance
<1>7. /\ DOMAIN d \subseteq G
      /\ \A x \in DOMAIN d : d[x] \in RowsOf(x) \cup {None}
  <2>1. ValidatedRows(q) \subseteq Held(q)
    BY <1>6 DEF Sound, Guarded
  <2>. QED  BY <1>2, <1>6, <2>1, WritesIn DEF Sound
<1>8. TypeOK'
  <2>1. ASSUME NEW k \in Handlers
        PROVE  /\ (req'[k] = None) <=> (at'[k] = "idle")
               /\ stale'[k] \subseteq Ids /\ graph'[k] \subseteq Ids
               /\ DOMAIN draft'[k] \subseteq graph'[k]
               /\ \A x \in DOMAIN draft'[k] : draft'[k][x] \in RowsOf(x) \cup {None}
    BY <1>1, <1>2, <1>3, <1>4, <1>7 DEF Inv, TypeOK
  <2>. QED  BY <1>2, <1>3, <2>1 DEF Inv, TypeOK
<1>9. Tables'
  BY <1>2, <1>3, <1>4 DEF Inv, Tables
<1>10. Asked' /\ NewIdsOnce'
  BY <1>2, <1>3, CopiesAsked DEF Inv
<1>11. RowsShaped' /\ RowsIssued' /\ BooksBalance' /\ GoneStaysGone'
  BY <1>2 DEF Inv, RowsShaped, RowsIssued, Alive, BooksBalance, GoneStaysGone
<1>12. LocksApart'
  <2>1. \A k \in Handlers : Locked(k)' = IF k = h THEN G ELSE Locked(k)
    BY <1>1, <1>2, <1>3 DEF Locked
  <2>. QED  BY <1>2, <2>1 DEF Inv, LocksApart
<1>13. ASSUME NEW g \in Handlers, at'[g] = "decided"
       PROVE  /\ Held(req[g])' = graph'[g]
              /\ Validated(Written(rows, draft[g]), ValidatedRows(req[g]))'
              /\ Decided(req[g], Seen(g), draft[g])'
  <2>1. PICK p, D, e, saw : p = req'[g] /\ D = graph'[g] /\ e = draft'[g] /\ saw = Seen(g)'
    OBVIOUS
  <2>2. p = req[g] /\ D = graph[g] /\ saw = Seen(g)
    BY <1>2, <2>1 DEF Seen
  <2>3. /\ WellFormed(p) /\ Held(p) = D /\ D \in SUBSET Ids /\ Decided(p, saw, e)
        /\ Validated(Written(rows, e), ValidatedRows(p))
    <3>1. CASE g = h
      BY <1>1, <1>2, <1>4, <1>5, <2>1, <2>2, <3>1
    <3>2. CASE g # h
      <4>1. at[g] = "decided" /\ e = draft[g]
        BY <1>3, <1>4, <1>13, <2>1, <3>2
      <4>. QED  BY <2>2, <4>1 DEF Inv, Asked, Sane, Standing, TypeOK
    <3>. QED  BY <3>1, <3>2
  <2>4. Held(p)' = D /\ Decided(p, saw, e)' /\ Validated(Written(rows', e), ValidatedRows(p)')
    BY <1>0, <1>2, <2>3, QuietStands DEF Inv
  <2>. QED  BY <2>1, <2>4
<1>14. Standing'
  BY <1>13 DEF Standing
<1>. QED  BY <1>8, <1>9, <1>10, <1>11, <1>12, <1>14 DEF Inv

-----------------------------------------------------------------------------
(* The commit of a transaction.                                            *)

\* A ledger with rows of the right tables written is a ledger.
LEMMA LedgerWritten ==
    ASSUME NEW v, Ledger(v), NEW d,
           \A x \in DOMAIN d : /\ d[x] \in RowsOf(x) \cup {None}
                               /\ x \in Setts /\ d[x] # None => Shaped(d[x])
    PROVE  Ledger(Written(v, d))
<1>. DEFINE w == Written(v, d)
<1>1. w = [x \in Ids |-> w[x]] /\ \A x \in Ids : w[x] = IF x \in DOMAIN d THEN d[x] ELSE v[x]
  BY DEF Written
<1>. HIDE DEF w
<1>2. \A x \in Ids : w[x] \in RowsOf(x) \cup {None}
  BY <1>1 DEF Ledger, Ledgers
<1>3. w \in [Ids -> Rows \cup {None}]
  BY <1>1, <1>2, RowTypes
<1>4. \A s \in Setts : w[s] # None => Shaped(w[s])
  BY <1>1 DEF Ledger, Ids
<1>5. Ledger(w)
  BY <1>2, <1>3, <1>4 DEF Ledger, Ledgers
<1>. QED  BY <1>5 DEF w

\* Writes to different rows commute.
LEMMA WrittenTwice ==
    ASSUME NEW v, NEW d, NEW e, DOMAIN d \cap DOMAIN e = {}
    PROVE  Written(Written(v, d), e) = Written(Written(v, e), d)
BY DEF Written

\* What one transaction validated stays validated when another one, that holds
\* other rows, commits.
LEMMA ValidatedStays ==
    ASSUME Ledger(rows),
           NEW q, NEW T \in SUBSET Ids, NEW d, Sound(q, T, d),
           NEW p, NEW S \in SUBSET Ids, NEW e, Sound(p, S, e),
           Held(q) \cap Held(p) = {}, Validated(Written(rows, e), S)
    PROVE  Validated(Written(Written(rows, d), e), S)
<1>. DEFINE u == Written(rows, e)
<1>1. /\ DOMAIN d \subseteq T /\ T \subseteq Held(q)
      /\ DOMAIN e \subseteq S /\ S \subseteq Held(p)
      /\ Guarded(rows, Held(q), T, d) /\ Guarded(rows, Held(p), S, e)
  BY DEF Sound, Guarded
<1>2. Ledger(u)
  BY LedgerWritten DEF Sound
<1>3. Guarded(u, Held(q), T, d)
  BY <1>1, GuardStays
<1>4. Ledger(Written(u, d))
  BY <1>2, LedgerWritten DEF Sound
<1>5. S \cap T = {}
  BY <1>1
<1>6. Validated(Written(u, d), S)
  BY <1>2, <1>3, <1>4, <1>5, Stay
<1>7. DOMAIN d \cap DOMAIN e = {}
  BY <1>1
<1>8. Written(Written(rows, d), e) = Written(u, d)
  BY <1>7, WrittenTwice
<1>. QED  BY <1>6, <1>8

\* The ids a transaction inserts were never used: a repeated creation finds its flow
\* or item alive or gone, and the rows of its settlement moved on.
LEMMA InsertsFresh ==
    ASSUME Inv, NEW h \in Handlers, at[h] = "decided",
           NEW q, q = req[h], NEW d, d = draft[h], NEW x \in DOMAIN d, ~Alive(x)
    PROVE  x \notin gone /\ d[x] # None /\ q.op \in Creating /\ x \in DOMAIN q.rows
<1>1. /\ WellFormed(q) /\ Sane(q, stale[h]) /\ Decided(q, Seen(h), d)
      /\ Sound(q, ValidatedRows(q), d)
  BY DecidedIs
<1>2. d[x] # None /\ q.op \in Creating /\ x \in DOMAIN q.rows /\ x \notin gone \ Setts
  BY <1>1 DEF Sound
<1>3. ASSUME x \in gone
      PROVE  FALSE
  <2>1. x \in Setts /\ Used(x)
    BY <1>2, <1>3 DEF Used
  <2>2. CASE q.op = "create_settlement"
    <3>1. x = q.id
      BY <1>1, <1>2, <2>2 DEF WellFormed
    <3>2. Ends(q.rows[q.id], q.id) \cap stale[h] # {}
      BY <1>1, <2>1, <2>2, <3>1 DEF Sane
    <3>3. Roots(q) = Ends(q.rows[q.id], q.id)
      BY <2>2 DEF Roots
    <3>4. Roots(q) \subseteq Seen(h)
      BY <1>1, <2>2 DEF Decided, MayCreateSettlement
    <3>. QED  BY <3>2, <3>3, <3>4 DEF Seen
  <2>3. CASE q.op = "create_flow"
    <3>1. Used(q.id)
      BY <1>1, <1>2, <2>1, <2>3 DEF Sane
    <3>2. Inserts(q)
      BY <1>1, <2>3 DEF Decided, MayCreateFlow
    <3>3. q.id \in DOMAIN q.rows /\ q.id \notin Setts
      BY <1>1, <2>3, RowTypes DEF WellFormed, Ids
    <3>. QED  BY <3>1, <3>2, <3>3 DEF Used, Inserts
  <2>4. CASE q.op = "create_item"
    <3>1. x \in Items
      BY <1>1, <1>2, <2>4 DEF WellFormed
    <3>. QED  BY <2>1, <3>1, RowTypes DEF Ids
  <2>. QED  BY <1>2, <2>2, <2>3, <2>4 DEF Creating
<1>. QED  BY <1>2, <1>3

\* What a commit does to the rows, the deleted ids and the pages of the clients.
LEMMA CommitWrites ==
    ASSUME Inv, NEW h \in Handlers, Commit(h), NEW d, d = draft[h]
    PROVE  /\ rows' = Written(rows, d)
           /\ \A x \in Ids : rows'[x] = IF x \in DOMAIN d THEN d[x] ELSE rows[x]
           /\ DOMAIN d \subseteq Ids
           /\ gone' = gone \cup {x \in DOMAIN d : d[x] = None}
           /\ \A g \in Handlers : stale'[g] = IF at[g] = "idle" THEN {} ELSE stale[g] \cup DOMAIN d
<1>1. rows' = Written(rows, d)
  BY DEF Commit, Overlay, Written
<1>2. \A x \in Ids : rows'[x] = IF x \in DOMAIN d THEN d[x] ELSE rows[x]
  BY <1>1 DEF Written
<1>3. DOMAIN d \subseteq Ids
  BY DEF Inv, TypeOK
<1>. QED  BY <1>1, <1>2, <1>3 DEF Commit

\* A used id stays used; an id a commit makes used is one its request creates.
LEMMA CommitUses ==
    ASSUME Inv, NEW h \in Handlers, Commit(h), NEW q, q = req[h], NEW d, d = draft[h],
           NEW x \in Ids
    PROVE  /\ Used(x) => Used(x)'
           /\ Used(x)' /\ ~Used(x) => q.op \in Creating /\ x \in DOMAIN q.rows
<1>1. /\ rows'[x] = IF x \in DOMAIN d THEN d[x] ELSE rows[x]
      /\ gone' = gone \cup {y \in DOMAIN d : d[y] = None}
  BY CommitWrites
<1>2. at[h] = "decided"
  BY DEF Commit
<1>3. x \in DOMAIN d /\ ~Alive(x) => d[x] # None /\ q.op \in Creating /\ x \in DOMAIN q.rows
  BY <1>2, InsertsFresh
<1>. QED  BY <1>1, <1>3 DEF Used, Alive

\* A client that asks for a creation that is committed now sees stale rows from now on.
LEMMA CommitAsked ==
    ASSUME Inv, NEW h \in Handlers, Commit(h), NEW g \in Handlers, at[g] # "idle",
           NEW p, p = req[g], NEW st, st = stale'[g]
    PROVE  Sane(p, st)'
<1>1. PICK q, d, old : q = req[h] /\ d = draft[h] /\ old = stale[g]
  OBVIOUS
<1>2. at[h] = "decided" /\ issued' = issued
  BY DEF Commit
<1>3. st = old \cup DOMAIN d
  BY <1>1, CommitWrites
<1>4. Sane(p, old)
  BY <1>1 DEF Inv, Asked
<1>5. /\ WellFormed(q) /\ Decided(q, Seen(h), d)
  BY <1>1, <1>2, DecidedIs
<1>6. ASSUME NEW x \in DOMAIN p.rows, p.op \in Creating, Used(x)', ~Used(x)
      PROVE  p = q
  <2>1. x \in Ids
    BY <1>4 DEF Sane, WellFormed
  <2>2. q.op \in Creating /\ x \in DOMAIN q.rows
    BY <1>1, <1>6, <2>1, CommitUses
  <2>. QED  BY <1>1, <1>2, <1>6, <2>2 DEF Inv, NewIdsOnce
<1>7. ASSUME p.op = "create_settlement", Used(p.id)'
      PROVE  Ends(p.rows[p.id], p.id) \cap st # {}
  <2>1. p.id \in DOMAIN p.rows /\ p.id \in Setts /\ p.id \in Ids
    BY <1>4, <1>7 DEF Sane, WellFormed
  <2>2. CASE Used(p.id)
    BY <1>3, <1>4, <1>7, <2>2 DEF Sane
  <2>3. CASE ~Used(p.id)
    <3>1. p = q
      BY <1>6, <1>7, <2>1, <2>3 DEF Creating
    <3>2. DOMAIN d = {q.id} \cup Roots(q)
      BY <1>5, <1>7, <3>1 DEF Decided, CreateSettlementWrites
    <3>3. Roots(q) = Ends(p.rows[p.id], p.id)
      BY <1>7, <3>1 DEF Roots
    <3>4. p.rows[p.id] \in SettRow /\ Shaped(p.rows[p.id]) /\ p.rows[p.id] # None
      BY <1>5, <2>1, <3>1, Proposed, RowTypes
    <3>5. p.rows[p.id].item \in Items \/ p.rows[p.id].source \in Items
      BY <3>4, ShapeFacts
    <3>6. None \notin Items /\ p.id \notin Flows /\ p.id \notin Items
      BY <2>1, RowTypes DEF Ids
    <3>7. Ends(p.rows[p.id], p.id) # {}
      BY <3>4, <3>5, <3>6 DEF Ends
    <3>. QED  BY <1>3, <3>2, <3>3, <3>7
  <2>. QED  BY <2>2, <2>3
<1>8. ASSUME p.op = "create_flow", NEW s \in DOMAIN p.rows \cap Setts, Used(s)'
      PROVE  Used(p.id)'
  <2>1. p.id \in DOMAIN p.rows /\ p.id \in Ids
    BY <1>4, <1>8 DEF Sane, WellFormed
  <2>2. CASE Used(s)
    <3>1. Used(p.id)
      BY <1>4, <1>8, <2>2 DEF Sane
    <3>. QED  BY <1>1, <2>1, <3>1, CommitUses
  <2>3. CASE ~Used(s)
    <3>1. p = q
      BY <1>6, <1>8, <2>3 DEF Creating
    <3>2. p.id \in DOMAIN d /\ d[p.id] = q.rows[p.id]
      BY <1>5, <1>8, <2>1, <3>1 DEF Decided, CreateFlowWrites
    <3>3. rows'[p.id] = q.rows[p.id]
      BY <1>1, <2>1, <3>2, CommitWrites
    <3>4. q.rows[p.id] # None
      BY <1>5, <2>1, <3>1, Proposed
    <3>. QED  BY <3>3, <3>4 DEF Used, Alive
  <2>. QED  BY <2>2, <2>3
<1>9. WellFormed(p) /\ DOMAIN p.rows \subseteq issued'
  BY <1>2, <1>4 DEF Sane
<1>. QED  BY <1>7, <1>8, <1>9 DEF Sane

\* A commit leaves the rows alone that another transaction holds, and the versions its
\* client has seen of them.
LEMMA CommitLeaves ==
    ASSUME Inv, NEW h \in Handlers, Commit(h), NEW g \in Handlers \ {h}, at[g] = "decided"
    PROVE  /\ Leaves(graph[g], Seen(g), Seen(g)')
           /\ graph[g] \cap graph[h] = {}
<1>1. PICK q, d, G, H : q = req[h] /\ d = draft[h] /\ G = graph[g] /\ H = graph[h]
  OBVIOUS
<1>2. at[h] = "decided"
  BY DEF Commit
<1>3. /\ H = Held(q) /\ Sound(q, ValidatedRows(q), d) /\ DOMAIN d \subseteq H
  BY <1>1, <1>2, DecidedIs
<1>4. G \cap H = {} /\ G \in SUBSET Ids
  BY <1>1, <1>2 DEF Inv, LocksApart, Locked, TypeOK
<1>5. Ledger(rows)
  BY InvLedger DEF Inv
<1>6. Ledger(Written(rows, d)) /\ Guarded(rows, H, ValidatedRows(q), d)
  BY <1>3, <1>5, LedgerWritten DEF Sound
<1>7. Apart(rows, Written(rows, d), G)
  BY <1>4, <1>5, <1>6, GuardedApart
<1>8. /\ rows' = Written(rows, d) /\ gone' = gone \cup {x \in DOMAIN d : d[x] = None}
      /\ stale'[g] = stale[g] \cup DOMAIN d
  <2>1. /\ rows' = Written(rows, d) /\ gone' = gone \cup {x \in DOMAIN d : d[x] = None}
        /\ \A k \in Handlers : stale'[k] = IF at[k] = "idle" THEN {} ELSE stale[k] \cup DOMAIN d
    BY <1>1, CommitWrites
  <2>. QED  BY <2>1
<1>9. Ledger(rows') /\ Apart(rows, rows', G)
  BY <1>6, <1>7, <1>8
<1>10. gone' \cap G \subseteq gone
  BY <1>3, <1>4, <1>8
<1>11. Seen(g) \cap G \subseteq Seen(g)'
  BY <1>3, <1>4, <1>8 DEF Seen
<1>12. Leaves(G, Seen(g), Seen(g)')
  BY <1>4, <1>5, <1>9, <1>10, <1>11 DEF Leaves
<1>. QED  BY <1>1, <1>4, <1>12

\* So its decision stands.
LEMMA CommitStands ==
    ASSUME Inv, NEW h \in Handlers, Commit(h), NEW g \in Handlers \ {h}, at[g] = "decided",
           NEW p, p = req[g], NEW e, e = draft[g]
    PROVE  /\ Held(p)' = graph[g]
           /\ Validated(Written(rows', e), ValidatedRows(p)')
           /\ Decided(p, Seen(g), e)'
<1>1. PICK q, d, G, seen, new : /\ q = req[h] /\ d = draft[h] /\ G = graph[g]
                                /\ seen = Seen(g) /\ new = Seen(g)'
  OBVIOUS
<1>2. at[h] = "decided"
  BY DEF Commit
<1>3. /\ WellFormed(p) /\ G = Held(p) /\ Decided(p, seen, e) /\ Sound(p, ValidatedRows(p), e)
      /\ Validated(Written(rows, e), ValidatedRows(p)) /\ ValidatedRows(p) \subseteq Held(p)
      /\ Held(p) \subseteq Ids
  BY <1>1, DecidedIs
<1>4. /\ graph[h] = Held(q) /\ Sound(q, ValidatedRows(q), d)
      /\ ValidatedRows(q) \subseteq Held(q) /\ Held(q) \subseteq Ids
  BY <1>1, <1>2, DecidedIs
<1>5. Leaves(G, seen, new) /\ Held(q) \cap Held(p) = {}
  <2>1. Leaves(graph[g], Seen(g), Seen(g)') /\ graph[g] \cap graph[h] = {}
    BY CommitLeaves
  <2>2. Leaves(G, seen, new)
    BY <1>1, <2>1
  <2>. QED  BY <1>1, <1>3, <1>4, <2>1, <2>2
<1>6. Ledger(rows) /\ Validated(rows, Ids)
  BY InvLedger DEF Inv, BooksBalance
<1>7. Held(p)' = G /\ Decided(p, new, e)'
  BY <1>3, <1>5, <1>6, DecidedStays
<1>8. ValidatedRows(p)' = ValidatedRows(p)
  BY <1>3, <1>7 DEF ValidatedRows
<1>9. rows' = Written(rows, d)
  BY <1>1, CommitWrites
<1>10. Validated(Written(Written(rows, d), e), ValidatedRows(p))
  BY <1>3, <1>4, <1>5, <1>6, ValidatedStays
<1>11. Decided(p, Seen(g), e)'
  BY <1>1, <1>7
<1>. QED  BY <1>1, <1>7, <1>8, <1>9, <1>10, <1>11

\* The ledger after a commit.
LEMMA CommitLedger ==
    ASSUME Inv, NEW h \in Handlers, Commit(h)
    PROVE  /\ Ledger(rows') /\ RowsShaped' /\ RowsIssued'
           /\ BooksBalance' /\ GoneStaysGone' /\ gone' \subseteq issued
<1>1. PICK q, d, T : q = req[h] /\ d = draft[h] /\ T = ValidatedRows(req[h])
  OBVIOUS
<1>2. at[h] = "decided" /\ issued' = issued
  BY DEF Commit
<1>3. T = ValidatedRows(q)
  BY <1>1
<1>4. /\ Sound(q, T, d) /\ Validated(Written(rows, d), T) /\ T \in SUBSET Ids
      /\ DOMAIN q.rows \subseteq issued
  BY <1>1, <1>2, <1>3, DecidedIs
<1>5. Ledger(rows) /\ Validated(rows, Ids)
  BY InvLedger DEF Inv, BooksBalance
<1>6. /\ rows' = Written(rows, d) /\ DOMAIN d \subseteq Ids
      /\ \A x \in Ids : rows'[x] = IF x \in DOMAIN d THEN d[x] ELSE rows[x]
      /\ gone' = gone \cup {x \in DOMAIN d : d[x] = None}
  BY <1>1, CommitWrites
<1>7. Ledger(rows')
  BY <1>4, <1>5, <1>6, LedgerWritten DEF Sound
<1>8. Validated(rows', Ids)
  BY <1>4, <1>5, <1>6, <1>7, BooksStay DEF Sound
<1>9. \A x \in DOMAIN d : ~Alive(x) => x \notin gone /\ d[x] # None /\ x \in DOMAIN q.rows
  BY <1>1, <1>2, InsertsFresh
<1>10. RowsShaped'
  BY <1>7 DEF RowsShaped, Ledger, Alive
<1>11. RowsIssued'
  BY <1>2, <1>4, <1>6, <1>9 DEF RowsIssued, Inv, Alive
<1>12. GoneStaysGone'
  <2>1. gone \subseteq Ids
    BY DEF Inv, TypeOK
  <2>2. ASSUME NEW x \in gone
        PROVE  rows'[x] = None
    BY <1>6, <1>9, <2>1 DEF Inv, GoneStaysGone, Alive
  <2>. QED  BY <1>6, <2>2 DEF GoneStaysGone, Alive
<1>13. gone' \subseteq issued
  BY <1>6, <1>9 DEF Inv, TypeOK, RowsIssued
<1>. QED  BY <1>7, <1>8, <1>10, <1>11, <1>12, <1>13 DEF BooksBalance

\* A commit keeps the invariant.
LEMMA CommitKeeps ==
    ASSUME Inv, NEW h \in Handlers, Commit(h)
    PROVE  Inv'
<1>1. at[h] = "decided" /\ UNCHANGED <<issued, asks, req>>
  BY DEF Commit
<1>2. /\ \A g \in Handlers : at'[g] = IF g = h THEN "answered" ELSE at[g]
      /\ at' \in [Handlers -> {"idle", "read", "decided", "answered"}]
  BY DEF Commit, Inv, TypeOK
<1>3. /\ \A g \in Handlers : /\ graph'[g] = IF g = h THEN {} ELSE graph[g]
                             /\ draft'[g] = IF g = h THEN NoRows ELSE draft[g]
      /\ graph' = [g \in Handlers |-> graph'[g]] /\ draft' = [g \in Handlers |-> draft'[g]]
  BY Updated DEF Commit, Inv, Tables
<1>4. stale' = [g \in Handlers |-> stale'[g]]
  BY DEF Commit
<1>5. \A g \in Handlers : stale'[g] \subseteq Ids
  <2>1. PICK d : d = draft[h]
    OBVIOUS
  <2>2. /\ DOMAIN d \subseteq Ids
        /\ \A g \in Handlers : stale'[g] = IF at[g] = "idle" THEN {} ELSE stale[g] \cup DOMAIN d
    BY <2>1, CommitWrites
  <2>3. \A g \in Handlers : stale[g] \subseteq Ids
    BY DEF Inv, TypeOK
  <2>. QED  BY <2>2, <2>3
<1>6. DOMAIN NoRows = {}
  BY DEF NoRows
<1>7. /\ Ledger(rows') /\ RowsShaped' /\ RowsIssued'
      /\ BooksBalance' /\ GoneStaysGone' /\ gone' \subseteq issued
  BY CommitLedger
<1>8. TypeOK'
  <2>1. ASSUME NEW k \in Handlers
        PROVE  /\ (req'[k] = None) <=> (at'[k] = "idle")
               /\ stale'[k] \subseteq Ids /\ graph'[k] \subseteq Ids
               /\ DOMAIN draft'[k] \subseteq graph'[k]
               /\ \A x \in DOMAIN draft'[k] : draft'[k][x] \in RowsOf(x) \cup {None}
    BY <1>1, <1>2, <1>3, <1>5, <1>6 DEF Inv, TypeOK
  <2>2. rows' \in Ledgers
    BY <1>7 DEF Ledger
  <2>. QED  BY <1>1, <1>2, <1>7, <2>1, <2>2 DEF Inv, TypeOK
<1>9. Tables'
  BY <1>1, <1>2, <1>3, <1>4, <1>6 DEF Inv, Tables
<1>10. Asked'
  <2>1. ASSUME NEW g \in Handlers, at'[g] # "idle"
        PROVE  Sane(req[g], stale[g])'
    <3>1. at[g] # "idle" /\ req'[g] = req[g]
      BY <1>1, <1>2, <2>1
    <3>2. PICK p, st : p = req[g] /\ st = stale'[g]
      OBVIOUS
    <3>3. Sane(p, st)'
      BY <3>1, <3>2, CommitAsked
    <3>. QED  BY <3>1, <3>2, <3>3
  <2>. QED  BY <2>1 DEF Asked
<1>11. NewIdsOnce'
  BY <1>1, <1>2 DEF Inv, NewIdsOnce
<1>12. LocksApart'
  BY <1>2, <1>3 DEF Inv, LocksApart, Locked
<1>13. Standing'
  <2>1. ASSUME NEW g \in Handlers, at'[g] = "decided"
        PROVE  /\ Held(req[g])' = graph'[g]
               /\ Validated(Written(rows, draft[g]), ValidatedRows(req[g]))'
               /\ Decided(req[g], Seen(g), draft[g])'
    <3>1. g # h /\ at[g] = "decided"
      BY <1>2, <2>1
    <3>2. PICK p, e : p = req[g] /\ e = draft[g]
      OBVIOUS
    <3>3. p = req'[g] /\ e = draft'[g] /\ graph'[g] = graph[g]
      BY <1>1, <1>3, <3>1, <3>2
    <3>4. /\ Held(p)' = graph[g]
          /\ Validated(Written(rows', e), ValidatedRows(p)')
          /\ Decided(p, Seen(g), e)'
      BY <3>1, <3>2, CommitStands
    <3>. QED  BY <3>3, <3>4
  <2>. QED  BY <2>1 DEF Standing
<1>. QED  BY <1>7, <1>8, <1>9, <1>10, <1>11, <1>12, <1>13 DEF Inv

-----------------------------------------------------------------------------
(* The theorems.                                                           *)

\* Every step keeps the invariant.
LEMMA NextKeeps == Inv /\ [Next]_vars => Inv'
<1>. SUFFICES ASSUME Inv, [Next]_vars
              PROVE  Inv'
  OBVIOUS
<1>1. CASE UNCHANGED vars
  <2>1. /\ UNCHANGED <<rows, gone, issued>>
        /\ UNCHANGED <<asks, at, req, stale, graph, draft>>
    BY <1>1 DEF vars
  <2>2. TypeOK' /\ Tables'
    BY <2>1 DEF Inv, TypeOK, Tables
  <2>3. Asked' /\ NewIdsOnce'
    BY <2>1, CopiesAsked DEF Inv
  <2>. QED  BY <2>1, <2>2, <2>3, QuietInv
<1>2. CASE Next
  <2>1. PICK h \in Handlers :
            \/ Request(h)
            \/ \E g \in Handlers : Duplicate(h, g)
            \/ Resend(h) \/ Forget(h)
            \/ TakeCreateFlow(h) \/ TakeUpdateFlow(h) \/ TakeDeleteFlow(h)
            \/ TakeCreateItem(h) \/ TakeUpdateItem(h) \/ TakeDeleteItem(h)
            \/ TakeCreateSettlement(h) \/ TakeUpdateSettlement(h) \/ TakeDeleteSettlement(h)
            \/ Commit(h) \/ Refuse(h) \/ Abort(h)
    BY <1>2 DEF Next
  <2>2. CASE Request(h)
    BY <2>2, RequestKeeps
  <2>3. CASE \E g \in Handlers : Duplicate(h, g)
    BY <2>3, DuplicateKeeps
  <2>4. CASE Resend(h)
    BY <2>4, ResendKeeps
  <2>5. CASE Forget(h) \/ Refuse(h)
    BY <2>5, RestKeeps
  <2>6. CASE \/ TakeCreateFlow(h) \/ TakeUpdateFlow(h) \/ TakeDeleteFlow(h)
             \/ TakeCreateItem(h) \/ TakeUpdateItem(h) \/ TakeDeleteItem(h)
             \/ TakeCreateSettlement(h) \/ TakeUpdateSettlement(h) \/ TakeDeleteSettlement(h)
    <3>1. PICK d : Take(h, d, ValidatedRows(req[h])) /\ Decided(req[h], Seen(h), d)
      BY <2>6, TakesDecided
    <3>. QED  BY <3>1, TakeKeeps
  <2>7. CASE Commit(h)
    BY <2>7, CommitKeeps
  <2>8. CASE Abort(h)
    BY <2>8, AbortKeeps
  <2>. QED  BY <2>1, <2>2, <2>3, <2>4, <2>5, <2>6, <2>7, <2>8
<1>. QED  BY <1>1, <1>2

\* The invariant holds of every reachable state.
THEOREM Invariance == Spec => []Inv
<1>. QED  BY InitInv, NextKeeps, PTL DEF Spec

\* State keeps its shape: rows, drafts and the ids a client has used are of their tables.
THEOREM TypeCorrect == Spec => []TypeOK
<1>1. Inv => TypeOK
  BY DEF Inv
<1>. QED  BY <1>1, Invariance, PTL

\* The sums and references _validate_balances checks on the rows a command locked hold of
\* the whole ledger after every commit, whichever commands run side by side.
THEOREM BooksAlwaysBalance == Spec => []BooksBalance
<1>1. Inv => BooksBalance
  BY DEF Inv
<1>. QED  BY <1>1, Invariance, PTL

\* No repetition of a request brings a deleted flow, item or settlement back.
THEOREM DeletedStaysDeleted == Spec => []GoneStaysGone
<1>1. Inv => GoneStaysGone
  BY DEF Inv
<1>. QED  BY <1>1, Invariance, PTL

\* What a command decided under its locks is what it would decide at any moment until it
\* commits: the commands take effect one after the other.
THEOREM DecisionsStay == Spec => []DecisionsStand
<1>1. Inv => DecisionsStand
  BY StandingIs DEF Inv
<1>. QED  BY <1>1, Invariance, PTL

-----------------------------------------------------------------------------
(* The serial ledger.                                                      *)

\* A step that a client cannot know of.
LEMMA HiddenStep ==
    ASSUME NEW h \in Handlers,
           \/ Resend(h) \/ Abort(h)
           \/ TakeCreateFlow(h) \/ TakeUpdateFlow(h) \/ TakeDeleteFlow(h)
           \/ TakeCreateItem(h) \/ TakeUpdateItem(h) \/ TakeDeleteItem(h)
           \/ TakeCreateSettlement(h) \/ TakeUpdateSettlement(h) \/ TakeDeleteSettlement(h)
    PROVE  UNCHANGED promised
BY DEF promised, Resend, Abort, Take, TakeCreateFlow, TakeUpdateFlow, TakeDeleteFlow,
       TakeCreateItem, TakeUpdateItem, TakeDeleteItem,
       TakeCreateSettlement, TakeUpdateSettlement, TakeDeleteSettlement

LEMMA RequestPoses ==
    ASSUME Inv, NEW h \in Handlers, Request(h)
    PROVE  Pose(h)
<1>1. Ledger(rows)
  BY InvLedger DEF Inv
<1>2. PICK q : MayAsk(h) /\ Ask(h, q) /\ Good(q)
  BY <1>1, RequestGood
<1>3. /\ req[h] = None /\ q # None
      /\ q.op \in Creating => DOMAIN q.rows \cap issued = {}
  BY <1>2, CashLedgerAssumption DEF MayAsk, Good, Inv, TypeOK
<1>4. /\ q.op \in Offered /\ issued' = issued \cup DOMAIN q.rows
      /\ req' = [req EXCEPT ![h] = q] /\ UNCHANGED <<rows, gone, stale>>
  BY <1>2 DEF Ask
<1>5. req'[h] = q
  BY <1>4, Updated DEF Inv, Tables
<1>. QED  BY <1>3, <1>4, <1>5 DEF Pose

LEMMA DuplicateRepeats ==
    ASSUME Inv, NEW h \in Handlers, NEW g \in Handlers, Duplicate(h, g)
    PROVE  Repeat(h, g)
BY DEF Inv, TypeOK, Duplicate, Repeat

LEMMA RestLeaves ==
    ASSUME Inv, NEW h \in Handlers, Forget(h) \/ Refuse(h)
    PROVE  Leave(h)
BY DEF Inv, TypeOK, Forget, Refuse, Leave

\* A commit is the command, run alone at that moment: what was decided under the locks is
\* what the command would decide now, and the whole ledger is valid after it.
LEMMA CommitExecutes ==
    ASSUME Inv, NEW h \in Handlers, Commit(h)
    PROVE  req[h] # None /\ Command(req[h], Seen(h))
<1>1. PICK q, d, seen : q = req[h] /\ d = draft[h] /\ seen = Seen(h)
  OBVIOUS
<1>2. at[h] = "decided" /\ UNCHANGED <<issued, req>>
  BY DEF Commit
<1>3. q.op \in Commands /\ Decided(q, seen, d)
  <2>1. WellFormed(q) /\ Decided(q, Seen(h), d)
    BY <1>1, <1>2, DecidedIs
  <2>. QED  BY <1>1, <2>1 DEF WellFormed
<1>4. Execute(d)
  <2>1. rows' = Overlay(d) /\ gone' = gone \cup {x \in DOMAIN d : d[x] = None}
    BY <1>1 DEF Commit
  <2>2. stale' = [g \in Handlers |-> IF req[g] = None THEN {} ELSE stale[g] \cup DOMAIN d]
    <3>1. \A g \in Handlers : at[g] = "idle" <=> req[g] = None
      BY DEF Inv, TypeOK
    <3>2. stale' = [g \in Handlers |-> IF at[g] = "idle" THEN {} ELSE stale[g] \cup DOMAIN d]
      BY <1>1 DEF Commit
    <3>. QED  BY <3>1, <3>2
  <2>3. Validated(rows', Ids)
    BY CommitLedger DEF BooksBalance
  <2>. QED  BY <1>2, <2>1, <2>2, <2>3 DEF Execute
<1>5. req[h] # None
  BY <1>2 DEF Inv, TypeOK
<1>6. Command(q, seen)
  <2>1. CASE q.op \in {"create_flow", "update_flow", "delete_flow"}
    BY <1>3, <1>4, <2>1 DEF Decided, Command
  <2>2. CASE q.op \in {"create_item", "update_item", "delete_item"}
    BY <1>3, <1>4, <2>2 DEF Decided, Command
  <2>3. CASE q.op \in {"create_settlement", "update_settlement", "delete_settlement"}
    BY <1>3, <1>4, <2>3 DEF Decided, Command
  <2>. QED  BY <1>3, <2>1, <2>2, <2>3 DEF Commands
<1>. QED  BY <1>1, <1>5, <1>6

LEMMA StepIsSerial == Inv /\ [Next]_vars => [SerialNext]_promised
<1>. SUFFICES ASSUME Inv, [Next]_vars
              PROVE  SerialNext \/ UNCHANGED promised
  OBVIOUS
<1>1. CASE UNCHANGED vars
  BY <1>1 DEF vars, promised
<1>2. CASE Next
  <2>1. PICK h \in Handlers :
            \/ Request(h)
            \/ \E g \in Handlers : Duplicate(h, g)
            \/ Resend(h) \/ Forget(h)
            \/ TakeCreateFlow(h) \/ TakeUpdateFlow(h) \/ TakeDeleteFlow(h)
            \/ TakeCreateItem(h) \/ TakeUpdateItem(h) \/ TakeDeleteItem(h)
            \/ TakeCreateSettlement(h) \/ TakeUpdateSettlement(h) \/ TakeDeleteSettlement(h)
            \/ Commit(h) \/ Refuse(h) \/ Abort(h)
    BY <1>2 DEF Next
  <2>2. CASE Request(h)
    BY <2>2, RequestPoses DEF SerialNext
  <2>3. CASE \E g \in Handlers : Duplicate(h, g)
    <3>1. \E g \in Handlers : Repeat(h, g)
      BY <2>3, DuplicateRepeats
    <3>. QED  BY <3>1 DEF SerialNext
  <2>4. CASE Forget(h) \/ Refuse(h)
    BY <2>4, RestLeaves DEF SerialNext
  <2>5. CASE Commit(h)
    BY <2>5, CommitExecutes DEF SerialNext
  <2>. QED  BY <2>1, <2>2, <2>3, <2>4, <2>5, HiddenStep
<1>. QED  BY <1>1, <1>2

\* The ledger with transactions side by side, locks and repetitions implements the serial
\* one: what becomes of the ledger is what its commands, each run alone, make of it.
THEOREM LedgerIsSerial == Spec => SerialSpec
<1>1. Init => SerialInit
  BY DEF Init, SerialInit
<1>. QED  BY <1>1, StepIsSerial, Invariance, PTL DEF Spec, SerialSpec
=============================================================================
