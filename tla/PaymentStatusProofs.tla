------------------------- MODULE PaymentStatusProofs -------------------------
(* Why one query and writes long after it are enough: whoever changes what   *)
(* the query would say leaves an event behind that names the flow.           *)
EXTENDS PaymentStatus, TLAPS

\* A new event keeps the outbox typed and closes no other.
LEMMA EnqueueTypes ==
    ASSUME TypeOK, NEW S \in SUBSET OA, NEW r \in BOOLEAN, Enqueue(S, r)
    PROVE  /\ open' \subseteq Events /\ removal' \subseteq open' /\ open \subseteq open'
           /\ asks' \in [Events -> SUBSET OA]
           /\ tries' \in [Events -> 0 .. MaxTries - 1 + upsets]
<1> USE DEF TypeOK
<1>1. CASE S = {}
  BY <1>1 DEF Enqueue, queue
<1>2. CASE S # {}
  <2>1. PICK e \in Events \ open :
          /\ open' = open \cup {e}
          /\ asks' = [asks EXCEPT ![e] = S]
          /\ removal' = IF r THEN removal \cup {e} ELSE removal \ {e}
          /\ tries' = [tries EXCEPT ![e] = 0]
    BY <1>2 DEF Enqueue
  <2>2. 0 \in 0 .. MaxTries - 1 + upsets
    BY PaymentStatusAssumption
  <2> QED BY <2>1, <2>2
<1> QED BY <1>1, <1>2

\* So does the end of a try.
LEMMA FailTypes ==
    ASSUME TypeOK, NEW e \in open, Fail(e)
    PROVE  /\ open' \subseteq Events /\ removal' \subseteq open'
           /\ asks' \in [Events -> SUBSET OA]
           /\ tries' \in [Events -> 0 .. MaxTries - 1 + upsets]
           /\ kept' \subseteq OA
<1> USE DEF TypeOK
<1>1. CASE Exhausted(e)
  <2>1. Close(e) /\ kept' \subseteq OA
    BY <1>1 DEF Fail
  <2>2. 0 \in 0 .. MaxTries - 1 + upsets
    BY PaymentStatusAssumption
  <2> QED BY <2>1, <2>2 DEF Close
<1>2. CASE ~Exhausted(e)
  <2>1. /\ tries' = [tries EXCEPT ![e] = @ + 1]
        /\ UNCHANGED <<open, asks, removal, kept>>
    BY <1>2 DEF Fail
  <2>2. tries[e] + 1 \in 0 .. MaxTries - 1 + upsets
    BY <1>2, PaymentStatusAssumption DEF Exhausted
  <2> QED BY <2>1, <2>2
<1> QED BY <1>1, <1>2

\* An upset leaves room for a try more.
LEMMA Looser ==
    ASSUME TypeOK, upsets' \in upsets .. MaxUpsets,
           NEW f \in [Events -> 0 .. MaxTries - 1 + upsets]
    PROVE  upsets' \in 0 .. MaxUpsets /\ f \in [Events -> 0 .. MaxTries - 1 + upsets']
<1>1. upsets' \in 0 .. MaxUpsets
  BY PaymentStatusAssumption DEF TypeOK
<1>2. 0 .. MaxTries - 1 + upsets \subseteq 0 .. MaxTries - 1 + upsets'
  <2>1. upsets \in Nat /\ upsets' \in Nat /\ upsets <= upsets' /\ MaxTries - 1 \in Nat
    BY <1>1, PaymentStatusAssumption DEF TypeOK
  <2> QED BY <2>1
<1> DEFINE A == 0 .. MaxTries - 1 + upsets
           B == 0 .. MaxTries - 1 + upsets'
<1>3. A \subseteq B /\ f \in [Events -> A]
  BY <1>2
<1> HIDE DEF A, B
<1>4. f \in [Events -> B]
  BY <1>3
<1> QED BY <1>1, <1>4 DEF B

\* The columns of the outbox and of the process keep their types.
THEOREM TypeCorrect == Spec => []TypeOK
<1> USE PaymentStatusAssumption DEF Value, Events
<1>1. Init => TypeOK
  BY DEF Init, TypeOK, Relation, Blank
<1>2. TypeOK /\ [Next]_vars => TypeOK'
  <2> SUFFICES ASSUME TypeOK, [Next]_vars PROVE TypeOK'
    OBVIOUS
  <2> USE DEF TypeOK, outside, queue, process
  <2>1. ASSUME NEW c \in Cases, NEW new \in Relation, Save(c, new) PROVE TypeOK'
    <3>1. rel' \in [Cases -> Relation]
      BY <2>1 DEF Save
    <3>2. Payload(rel[c], new) \in SUBSET OA /\ Enqueue(Payload(rel[c], new), FALSE)
      BY <2>1 DEF Payload, Relation, Save
    <3>3. /\ open' \subseteq Events /\ removal' \subseteq open' /\ open \subseteq open'
          /\ asks' \in [Events -> SUBSET OA]
          /\ tries' \in [Events -> 0 .. MaxTries - 1 + upsets]
      BY <3>2, EnqueueTypes
    <3> QED BY <2>1, <3>1, <3>3 DEF Save
  <2>2. ASSUME NEW c \in Cases, Confirm(c) PROVE TypeOK'
    BY <2>1, <2>2 DEF Confirm
  <2>3. ASSUME NEW c \in Cases, Withdraw(c) PROVE TypeOK'
    <3>1. Cancelled(rel[c]) \in Relation
      BY DEF Relation, Cancelled
    <3> QED BY <2>1, <2>3, <3>1 DEF Withdraw
  <2>4. ASSUME NEW e \in open, Fail(e), UNCHANGED <<source, facts, rel, status, snap>>,
               upsets' \in upsets .. MaxUpsets
        PROVE TypeOK'
    <3>1. /\ open' \subseteq Events /\ removal' \subseteq open'
          /\ asks' \in [Events -> SUBSET OA]
          /\ tries' \in [Events -> 0 .. MaxTries - 1 + upsets]
          /\ kept' \subseteq OA
      BY <2>4, FailTypes
    <3>2. upsets' \in 0 .. MaxUpsets /\ tries' \in [Events -> 0 .. MaxTries - 1 + upsets']
      BY <2>4, <3>1, Looser
    <3> QED BY <2>4, <3>1, <3>2 DEF Fail, Rest
  <2>5. ASSUME NEW e \in Events, Begin(e) PROVE TypeOK'
    BY <2>5 DEF Begin, Right
  <2>6. ASSUME NEW e \in Events, Refuse(e) PROVE TypeOK'
    <3>1. upsets' \in upsets .. MaxUpsets
      BY <2>6, PaymentStatusAssumption DEF Refuse
    <3> QED BY <2>4, <2>6, <3>1 DEF Refuse
  <2>7. ASSUME NEW e \in Events, CheckMissing(e) PROVE TypeOK'
    BY <2>7 DEF CheckMissing
  <2>8. ASSUME NEW o \in OA, Agrees(o) \/ Differs(o) PROVE TypeOK'
    <3>1. CASE Agrees(o)
      BY <3>1 DEF Agrees
    <3>2. CASE Differs(o)
      BY <3>2 DEF Differs
    <3> QED BY <2>8, <3>1, <3>2
  <2>9. CASE Mark
    BY <2>9 DEF Mark
  <2>10. CASE StopAtFailure
    <3>1. upsets' \in upsets .. MaxUpsets
      BY <2>10, PaymentStatusAssumption DEF StopAtFailure
    <3> QED BY <2>4, <2>10, <3>1 DEF StopAtFailure
  <2>11. CASE Record
    BY <2>11 DEF Record, Recorded
  <2>12. CASE Ack
    BY <2>12 DEF Ack, Close, Rest
  <2>13. CASE Delete
    BY <2>13 DEF Delete
  <2>14. CASE SyncRead
    BY <2>14 DEF SyncRead
  <2>15. CASE SyncCommit
    <3>1. \A r \in Relation : Cleaned(r) \in Relation
      BY DEF Cleaned, Cancelled, Relation
    <3>2. rel' \in [Cases -> Relation]
      BY <2>15, <3>1 DEF SyncCommit
    <3>3. facts' \subseteq OA /\ snap' \in [OA -> Value] /\ kept' \subseteq OA /\ UNCHANGED outside
      BY <2>15 DEF SyncCommit, Admitted
    <3> DEFINE S == {o \in Removed : want[o] # "none"}
    <3>4. S \in SUBSET OA
      BY DEF Removed
    <3>5. Enqueue(S, TRUE) /\ Rest
      BY <2>15 DEF SyncCommit
    <3> HIDE DEF S
    <3>6. /\ open' \subseteq Events /\ removal' \subseteq open' /\ open \subseteq open'
          /\ asks' \in [Events -> SUBSET OA]
          /\ tries' \in [Events -> 0 .. MaxTries - 1 + upsets]
      BY <3>4, <3>5, EnqueueTypes
    <3> QED BY <3>2, <3>3, <3>5, <3>6 DEF Rest
  <2>16. ASSUME NEW o \in OA, Move(o) \/ Override(o) PROVE TypeOK'
    <3>1. upsets' \in 0 .. MaxUpsets /\ tries' \in [Events -> 0 .. MaxTries - 1 + upsets']
      <4>1. Upset /\ tries' = tries
        BY <2>16 DEF Move, Override
      <4>2. upsets' \in upsets .. MaxUpsets
        BY <4>1, PaymentStatusAssumption DEF Upset
      <4> QED BY <4>1, <4>2, Looser
    <3>2. CASE Move(o)
      <4>1. source' \subseteq OA /\ steady' \subseteq OA
        BY <3>2 DEF Move
      <4> QED BY <3>1, <3>2, <4>1 DEF Move
    <3>3. CASE Override(o)
      <4>1. status' \in [OA -> Value] /\ kept' \subseteq OA
        BY <3>3 DEF Override
      <4> QED BY <3>1, <3>3, <4>1 DEF Override
    <3> QED BY <2>16, <3>2, <3>3
  <2>17. CASE Crash
    <3>1. upsets' = upsets + 1 /\ upsets' \in 0 .. MaxUpsets
      BY <2>17, PaymentStatusAssumption DEF Crash, Upset
    <3>2. \A n \in 0 .. MaxTries - 1 + upsets : {n, n + 1} \subseteq 0 .. MaxTries - 1 + upsets'
      BY <3>1, PaymentStatusAssumption
    <3>3. tries' \in [Events -> 0 .. MaxTries - 1 + upsets']
      <4> DEFINE A == 0 .. MaxTries - 1 + upsets
                 B == 0 .. MaxTries - 1 + upsets'
      <4>0. (\A n \in A : {n, n + 1} \subseteq B) /\ tries \in [Events -> A]
        BY <3>2
      <4> HIDE DEF A, B
      <4>1. ASSUME tries' = tries PROVE tries' \in [Events -> B]
        BY <4>0, <4>1
      <4>2. ASSUME NEW e \in Events, tries' = [tries EXCEPT ![e] = @ + 1] PROVE tries' \in [Events -> B]
        BY <4>0, <4>2
      <4> QED BY <2>17, <4>1, <4>2 DEF Crash, B
    <3> QED BY <2>17, <3>1, <3>3 DEF Crash, Rest
  <2>18. CASE Break
    <3>1. upsets' \in upsets .. MaxUpsets
      BY <2>18, PaymentStatusAssumption DEF Break, Upset
    <3> QED BY <2>4, <2>18, <3>1 DEF Break
  <2>19. CASE UNCHANGED vars
    BY <2>19 DEF vars
  <2> QED BY <2>2, <2>3, <2>5, <2>6, <2>7, <2>8, <2>9, <2>10, <2>11, <2>12, <2>13, <2>14,
             <2>15, <2>16, <2>17, <2>18, <2>19 DEF Next, Work
<1> QED BY <1>1, <1>2, PTL DEF Spec

------------------------------------------------------------------------------
(* The inductive invariant *)

Serving == pc \in {"look", "mark"} \/ (pc = "ack" /\ held \notin removal)

Syncing == pc \in {"sync_all", "sync_month"}

\* An open event asks for the flow; one that the process does not hold.
Asked(o) == \E f \in open \ removal : o \in asks[f]
Newer(o) == \E f \in open \ removal : f # held /\ o \in asks[f]

\* What the process holds fits the event in hand.
InHandFits ==
    /\ pc \in {"look", "mark"} => held \notin removal
    /\ pc = "delete" => held \in removal /\ todo \cap (facts \cup steady) = {}
    /\ Serving => /\ todo \subseteq asks[held]
                  /\ \A o \in asks[held] : want[o] \in {"paid", "pending"}
    /\ pc = "mark" => at \in todo
    /\ Serving /\ pc = "ack" => todo = {}

\* The query is right still, or a newer event names the flow.
WantIsRight == Serving => \A o \in asks[held] : want[o] = Right(o) \/ Newer(o)

\* A treated flow has the wanted status unless the OA changed it since.
TreatedHaveIt == Serving => \A o \in (asks[held] \ todo) \cap kept : status[o] = want[o]

\* A sync has read what undisturbed flows have.
SyncReadKept == Syncing => \A o \in kept : want[o] = status[o]

\* The page has what the event in hand wrote.
RecordedAll == pc = "ack" /\ held \notin removal => \A o \in asks[held] : snap[o] = want[o]

StatusKept == \A o \in kept : status[o] = Right(o) \/ Asked(o)
PageKept == \A o \in kept \cap facts : snap[o] = Right(o) \/ Asked(o)

Agreement ==
    /\ InHandFits /\ WantIsRight /\ TreatedHaveIt /\ SyncReadKept /\ RecordedAll
    /\ StatusKept /\ PageKept

------------------------------------------------------------------------------
(* Lemmas *)

\* An open event keeps what it asks for when another is enqueued.
LEMMA EnqueueKeeps ==
    ASSUME TypeOK, NEW S \in SUBSET OA, NEW r \in BOOLEAN, Enqueue(S, r), NEW f \in open
    PROVE  f \in open' /\ asks'[f] = asks[f] /\ (f \in removal' <=> f \in removal)
BY DEF Enqueue, queue, TypeOK

\* A new event that is no removal asks for each flow it names; it is not in hand.
LEMMA EnqueueAsks ==
    ASSUME TypeOK, NEW S \in SUBSET OA, Enqueue(S, FALSE), NEW o \in S
    PROVE  \E f \in open' \ removal' : f # held /\ o \in asks'[f]
<1>1. PICK e \in Events \ open :
        /\ open' = open \cup {e}
        /\ asks' = [asks EXCEPT ![e] = S]
        /\ removal' = removal \ {e}
  BY DEF Enqueue
<1>2. e # held
  BY DEF TypeOK, Events
<1> QED BY <1>1, <1>2 DEF TypeOK

\* A new removal asks for no flow.
LEMMA EnqueueRemoves ==
    ASSUME TypeOK, NEW S \in SUBSET OA, Enqueue(S, TRUE)
    PROVE  open' \ removal' = open \ removal
BY DEF Enqueue, queue, TypeOK

\* What the query says of a flow changes only if the event names it.
LEMMA SaveNames ==
    ASSUME TypeOK, NEW c \in Cases, NEW new \in Relation, Save(c, new), NEW o \in OA
    PROVE  Right(o)' = Right(o) \/ o \in Payload(rel[c], new)
<1> SUFFICES ASSUME o \notin Payload(rel[c], new) PROVE Outflow(o)' = Outflow(o)
  BY DEF Right
<1>1. rel' = [rel EXCEPT ![c] = new]
  BY DEF Save
<1>2. \A d \in Cases \ {c} : rel'[d] = rel[d]
  BY <1>1 DEF TypeOK
<1>3. rel'[c] = new
  BY <1>1 DEF TypeOK
<1>4. ~(new.bank = "out" /\ o \in new.oas) /\ ~(rel[c].bank = "out" /\ o \in rel[c].oas)
  BY DEF Payload
<1> QED BY <1>2, <1>3, <1>4 DEF Outflow

\* A sync changes it only for the applications of the relations it cuts.
LEMMA CutNames ==
    ASSUME TypeOK, SyncCommit, NEW o \in OA, o \notin Cut
    PROVE  Right(o)' = Right(o)
<1> SUFFICES Outflow(o)' = Outflow(o)
  BY DEF Right
<1>1. \A c \in Cases : rel'[c] = Cleaned(rel[c])
  BY DEF SyncCommit
<1>2. ASSUME NEW c \in Cases
      PROVE  (rel'[c].active /\ rel'[c].bank = "out" /\ o \in rel'[c].oas)
             <=> (rel[c].active /\ rel[c].bank = "out" /\ o \in rel[c].oas)
  <2>1. CASE Cleaned(rel[c]) = rel[c]
    BY <1>1, <2>1
  <2>2. CASE Cleaned(rel[c]) # rel[c]
    <3>1. o \notin rel[c].oas
      BY <2>2 DEF Cut
    <3>2. Cleaned(rel[c]).oas \subseteq rel[c].oas
      BY DEF Cleaned, Cancelled
    <3> QED BY <1>1, <3>1, <3>2
  <2> QED BY <2>1, <2>2
<1> QED BY <1>2 DEF Outflow

\* Relations that stay say the same.
LEMMA RightStays == ASSUME UNCHANGED rel PROVE \A o \in OA : Right(o)' = Right(o)
BY DEF Right, Outflow

\* A process at rest has nothing in hand to agree with.
LEMMA RestAgrees ==
    ASSUME pc' = "idle", StatusKept', PageKept'
    PROVE  Agreement'
BY DEF Agreement, InHandFits, WantIsRight, TreatedHaveIt, SyncReadKept, RecordedAll, Serving, Syncing

\* A command.
LEMMA SaveAgrees ==
    ASSUME TypeOK, Agreement, NEW c \in Cases, NEW new \in Relation, Save(c, new)
    PROVE  Agreement'
<1> DEFINE S == Payload(rel[c], new)
<1>1. S \in SUBSET OA
  BY DEF Payload, Relation, TypeOK
<1>2. Enqueue(S, FALSE) /\ UNCHANGED <<outside, facts, snap, process, kept>>
  BY DEF Save
<1>3. \A o \in OA : Right(o)' = Right(o) \/ o \in S
  BY SaveNames
<1> HIDE DEF S
<1>4. \A f \in open : f \in open' /\ asks'[f] = asks[f] /\ (f \in removal' <=> f \in removal)
  BY <1>1, <1>2, EnqueueKeeps
<1>5. \A o \in S : \E f \in open' \ removal' : f # held /\ o \in asks'[f]
  BY <1>1, <1>2, EnqueueAsks
<1>6. UNCHANGED <<pc, held, todo, want, at, steady, status, facts, snap, kept>>
  BY <1>2 DEF outside, process
<1>7. pc \in {"look", "mark", "ack", "delete"} => held \in open
  BY DEF TypeOK
<1>8. \A o \in OA : (o \in S \/ Asked(o) => Asked(o)') /\ (o \in S \/ Newer(o) => Newer(o)')
  BY <1>4, <1>5, <1>6 DEF Asked, Newer
<1>9. InHandFits'
  BY <1>4, <1>6, <1>7 DEF Agreement, InHandFits, Serving
<1>10. Serving' => Serving /\ asks'[held] = asks[held] /\ held \in Events
  BY <1>4, <1>6, <1>7 DEF Serving, TypeOK
<1>11. WantIsRight'
  <2> SUFFICES ASSUME Serving', NEW o \in asks'[held'] PROVE want'[o] = Right(o)' \/ Newer(o)'
    BY DEF WantIsRight
  <2>1. Serving /\ o \in asks[held] /\ o \in OA
    BY <1>6, <1>10 DEF TypeOK
  <2>2. want[o] = Right(o) \/ Newer(o)
    BY <2>1 DEF Agreement, WantIsRight
  <2> QED BY <2>1, <2>2, <1>3, <1>6, <1>8
<1>12. TreatedHaveIt'
  BY <1>6, <1>10 DEF Agreement, TreatedHaveIt
<1>13. SyncReadKept'
  BY <1>6 DEF Agreement, SyncReadKept, Syncing
<1>14. RecordedAll'
  BY <1>4, <1>6, <1>7 DEF Agreement, RecordedAll
<1>15. StatusKept'
  BY <1>3, <1>6, <1>8 DEF Agreement, StatusKept, TypeOK
<1>16. PageKept'
  BY <1>3, <1>6, <1>8 DEF Agreement, PageKept, TypeOK
<1> QED BY <1>9, <1>11, <1>12, <1>13, <1>14, <1>15, <1>16 DEF Agreement

\* The end of a try: what is given up is no longer kept.
LEMMA FailAgrees ==
    ASSUME TypeOK, Agreement, NEW e \in open, Fail(e), UNCHANGED <<facts, rel, status, snap>>
    PROVE  Agreement'
<1>1. \A o \in OA : Right(o)' = Right(o)
  BY RightStays
<1>2. \A o \in kept' : o \in kept /\ (Asked(o) => Asked(o)')
  <2>1. CASE ~Exhausted(e)
    BY <2>1 DEF Fail, Asked
  <2>2. CASE Exhausted(e)
    <3>1. Close(e) /\ kept' = IF e \in removal THEN kept ELSE kept \ asks[e]
      BY <2>2 DEF Fail
    <3>2. \A f \in open \ removal : f # e => f \in open' \ removal' /\ asks'[f] = asks[f]
      BY <3>1 DEF Close, TypeOK
    <3> QED BY <3>1, <3>2 DEF Asked
  <2> QED BY <2>1, <2>2
<1>3. pc' = "idle"
  BY DEF Fail, Rest
<1>4. StatusKept' /\ PageKept'
  BY <1>1, <1>2 DEF Agreement, StatusKept, PageKept, TypeOK
<1> QED BY <1>3, <1>4, RestAgrees

------------------------------------------------------------------------------

LEMMA AgreementIsKept ==
    ASSUME TypeOK, Agreement, [Next]_vars
    PROVE  Agreement'
<1> USE DEF outside, queue, process
<1>1. ASSUME NEW c \in Cases, Confirm(c) PROVE Agreement'
  <2>1. PICK new \in Shapes : Save(c, new)
    BY <1>1 DEF Confirm
  <2>2. new \in Relation
    BY PaymentStatusAssumption
  <2> QED BY <2>1, <2>2, SaveAgrees
<1>2. ASSUME NEW c \in Cases, Withdraw(c) PROVE Agreement'
  <2>1. Cancelled(rel[c]) \in Relation
    BY DEF Cancelled, Relation, TypeOK
  <2>2. Save(c, Cancelled(rel[c]))
    BY <1>2 DEF Withdraw
  <2> QED BY <2>1, <2>2, SaveAgrees
<1>3. ASSUME NEW e \in Events, Begin(e) PROVE Agreement'
  <2>1. UNCHANGED <<rel, status, facts, snap, open, asks, removal, kept, steady>> /\ pc' = "look" /\ held' = e
        /\ todo' = asks[e] /\ e \in open \ removal
        /\ want' = [o \in OA |-> IF o \in asks[e] THEN Right(o) ELSE "none"]
    BY <1>3 DEF Begin
  <2>2. \A o \in OA : Right(o)' = Right(o)
    BY <2>1, RightStays
  <2>3. \A o \in asks[e] : o \in OA /\ want'[o] = Right(o)
    BY <2>1 DEF TypeOK
  <2>4. InHandFits'
    BY <2>1, <2>3 DEF InHandFits, Serving, Right
  <2>5. WantIsRight' /\ TreatedHaveIt' /\ SyncReadKept' /\ RecordedAll'
    BY <2>1, <2>2, <2>3 DEF WantIsRight, TreatedHaveIt, SyncReadKept, RecordedAll, Syncing
  <2>6. StatusKept' /\ PageKept'
    BY <2>1, <2>2 DEF Agreement, StatusKept, PageKept, Asked, TypeOK
  <2> QED BY <2>4, <2>5, <2>6 DEF Agreement
<1>4. ASSUME NEW e \in Events, Refuse(e) PROVE Agreement'
  BY <1>4, FailAgrees DEF Refuse
<1>5. ASSUME NEW o \in OA, Agrees(o) PROVE Agreement'
  <2>1. UNCHANGED <<rel, status, facts, snap, open, asks, removal, pc, held, want, at, steady>> /\ pc = "look"
        /\ o \in todo /\ status[o] = want[o] /\ todo' = todo \ {o} /\ kept' = kept \cup {o}
    BY <1>5 DEF Agrees
  <2>2. \A p \in OA : Right(p)' = Right(p)
    BY <2>1, RightStays
  <2>3. held \in open \ removal /\ o \in asks[held]
    BY <2>1 DEF Agreement, InHandFits, Serving, TypeOK
  <2>4. InHandFits' /\ SyncReadKept' /\ RecordedAll'
    BY <2>1 DEF Agreement, InHandFits, SyncReadKept, RecordedAll, Serving, Syncing
  <2>5. WantIsRight'
    BY <2>1, <2>2 DEF Agreement, WantIsRight, Serving, Newer, TypeOK
  <2>6. TreatedHaveIt'
    BY <2>1 DEF Agreement, TreatedHaveIt, Serving
  <2>7. StatusKept' /\ PageKept'
    BY <2>1, <2>2, <2>3 DEF Agreement, StatusKept, PageKept, Asked, TypeOK
  <2> QED BY <2>4, <2>5, <2>6, <2>7 DEF Agreement
<1>6. ASSUME NEW o \in OA, Differs(o) PROVE Agreement'
  <2>1. UNCHANGED <<rel, status, facts, snap, open, asks, removal, held, todo, want, kept, steady>> /\ pc = "look"
        /\ o \in todo /\ pc' = "mark" /\ at' = o
    BY <1>6 DEF Differs
  <2>2. \A p \in OA : Right(p)' = Right(p)
    BY <2>1, RightStays
  <2>3. InHandFits' /\ SyncReadKept' /\ RecordedAll'
    BY <2>1 DEF Agreement, InHandFits, SyncReadKept, RecordedAll, Serving, Syncing
  <2>4. WantIsRight' /\ TreatedHaveIt'
    BY <2>1, <2>2 DEF Agreement, WantIsRight, TreatedHaveIt, Serving, Newer, TypeOK
  <2>5. StatusKept' /\ PageKept'
    BY <2>1, <2>2 DEF Agreement, StatusKept, PageKept, Asked, TypeOK
  <2> QED BY <2>3, <2>4, <2>5 DEF Agreement
<1>7. CASE Mark
  <2>1. UNCHANGED <<rel, facts, snap, open, asks, removal, held, want, steady>> /\ pc = "mark" /\ pc' = "look"
        /\ status' = [status EXCEPT ![at] = want[at]]
        /\ todo' = todo \ {at} /\ kept' = kept \cup {at}
    BY <1>7 DEF Mark
  <2>2. \A p \in OA : Right(p)' = Right(p)
    BY <2>1, RightStays
  <2>3. held \in open \ removal /\ at \in todo /\ todo \subseteq asks[held] /\ at \in OA
    BY <2>1 DEF Agreement, InHandFits, Serving, TypeOK
  <2>4. status'[at] = want[at] /\ \A p \in OA \ {at} : status'[p] = status[p]
    BY <2>1, <2>3 DEF TypeOK
  <2>5. InHandFits' /\ SyncReadKept' /\ RecordedAll'
    BY <2>1 DEF Agreement, InHandFits, SyncReadKept, RecordedAll, Serving, Syncing
  <2>6. WantIsRight'
    BY <2>1, <2>2 DEF Agreement, WantIsRight, Serving, Newer, TypeOK
  <2>7. TreatedHaveIt'
    BY <2>1, <2>3, <2>4 DEF Agreement, TreatedHaveIt, Serving, TypeOK
  <2>8. StatusKept' /\ PageKept'
    BY <2>1, <2>2, <2>3, <2>4 DEF Agreement, StatusKept, PageKept, Asked, TypeOK
  <2> QED BY <2>5, <2>6, <2>7, <2>8 DEF Agreement
<1>8. CASE StopAtFailure
  <2>1. held \in open
    BY <1>8 DEF StopAtFailure, TypeOK
  <2> QED BY <1>8, <2>1, FailAgrees DEF StopAtFailure
<1>9. CASE Record
  <2>1. UNCHANGED <<rel, status, facts, open, asks, removal, held, todo, want, at, kept, steady>> /\ pc = "look"
        /\ todo = {} /\ pc' = "ack" /\ snap' = [o \in OA |-> Recorded(o)]
    BY <1>9 DEF Record
  <2>2. \A p \in OA : Right(p)' = Right(p)
    BY <2>1, RightStays
  <2>3. held \in open \ removal
    BY <2>1 DEF Agreement, InHandFits, TypeOK
  <2>4. \A o \in OA : snap'[o] = IF o \in asks[held] THEN want[o] ELSE snap[o]
    BY <2>1 DEF Recorded
  <2>5. InHandFits' /\ SyncReadKept'
    BY <2>1 DEF Agreement, InHandFits, SyncReadKept, Serving, Syncing
  <2>6. RecordedAll'
    BY <2>1, <2>3, <2>4 DEF RecordedAll, TypeOK
  <2>7. WantIsRight' /\ TreatedHaveIt'
    BY <2>1, <2>2 DEF Agreement, WantIsRight, TreatedHaveIt, Serving, Newer, TypeOK
  <2>8. StatusKept' /\ PageKept'
    BY <2>1, <2>2, <2>3, <2>4 DEF Agreement, StatusKept, PageKept, Asked, TypeOK
  <2> QED BY <2>5, <2>6, <2>7, <2>8 DEF Agreement
<1>10. CASE Ack
  <2>1. UNCHANGED <<rel, status, facts, snap, kept>> /\ pc = "ack" /\ Close(held) /\ pc' = "idle"
    BY <1>10 DEF Ack, Rest
  <2>2. \A p \in OA : Right(p)' = Right(p)
    BY <2>1, RightStays
  <2>3. \A f \in open \ removal : f # held => f \in open' \ removal' /\ asks'[f] = asks[f]
    BY <2>1 DEF Close, TypeOK
  <2>4. \A o \in OA : Newer(o) => Asked(o)'
    BY <2>3 DEF Newer, Asked
  <2>5. \A o \in OA : Asked(o) => Newer(o) \/ (held \notin removal /\ o \in asks[held])
    BY DEF Asked, Newer
  <2>6. ASSUME NEW o \in kept, held \notin removal, o \in asks[held]
        PROVE  want[o] = status[o] /\ want[o] = snap[o] /\ (want[o] = Right(o) \/ Newer(o))
    BY <2>1, <2>6 DEF Agreement, InHandFits, WantIsRight, TreatedHaveIt, RecordedAll, Serving
  <2>7. StatusKept' /\ PageKept'
    BY <2>1, <2>2, <2>4, <2>5, <2>6 DEF Agreement, StatusKept, PageKept, TypeOK
  <2> QED BY <2>1, <2>7, RestAgrees
<1>11. ASSUME NEW e \in Events, CheckMissing(e) PROVE Agreement'
  <2>1. UNCHANGED <<rel, status, facts, snap, open, asks, removal, want, at, kept>> /\ pc' = "delete"
        /\ held' = e /\ e \in removal
        /\ todo' = {o \in asks[e] : Gone(o)} /\ steady' = source
    BY <1>11 DEF CheckMissing
  <2>2. \A p \in OA : Right(p)' = Right(p)
    BY <2>1, RightStays
  <2>3. InHandFits' /\ WantIsRight' /\ TreatedHaveIt' /\ SyncReadKept' /\ RecordedAll'
    BY <2>1 DEF InHandFits, WantIsRight, TreatedHaveIt, SyncReadKept, RecordedAll, Serving, Syncing, Gone
  <2>4. StatusKept' /\ PageKept'
    BY <2>1, <2>2 DEF Agreement, StatusKept, PageKept, Asked, TypeOK
  <2> QED BY <2>3, <2>4 DEF Agreement
<1>12. CASE Delete
  <2>1. UNCHANGED <<rel, facts, snap, open, asks, removal, held, todo, want, at, steady>> /\ pc = "delete"
        /\ status' = [o \in OA |-> IF o \in todo THEN "none" ELSE status[o]]
        /\ kept' = kept \ todo /\ pc' = "ack"
    BY <1>12 DEF Delete
  <2>2. \A p \in OA : Right(p)' = Right(p)
    BY <2>1, RightStays
  <2>3. held \in removal
    BY <2>1 DEF Agreement, InHandFits
  <2>4. InHandFits' /\ WantIsRight' /\ TreatedHaveIt' /\ SyncReadKept' /\ RecordedAll'
    BY <2>1, <2>3 DEF InHandFits, WantIsRight, TreatedHaveIt, SyncReadKept, RecordedAll, Serving, Syncing
  <2>5. StatusKept' /\ PageKept'
    BY <2>1, <2>2 DEF Agreement, StatusKept, PageKept, Asked, TypeOK
  <2> QED BY <2>4, <2>5 DEF Agreement
<1>13. CASE SyncRead
  <2>1. UNCHANGED <<rel, status, facts, snap, open, asks, removal, held, kept>>
        /\ pc' \in {"sync_all", "sync_month"} /\ want' = status
    BY <1>13 DEF SyncRead
  <2>2. \A p \in OA : Right(p)' = Right(p)
    BY <2>1, RightStays
  <2>3. InHandFits' /\ WantIsRight' /\ TreatedHaveIt' /\ SyncReadKept' /\ RecordedAll'
    BY <2>1 DEF InHandFits, WantIsRight, TreatedHaveIt, SyncReadKept, RecordedAll, Serving
  <2>4. StatusKept' /\ PageKept'
    BY <2>1, <2>2 DEF Agreement, StatusKept, PageKept, Asked, TypeOK
  <2> QED BY <2>3, <2>4 DEF Agreement
<1>14. CASE SyncCommit
  <2>1. /\ UNCHANGED status /\ Syncing /\ pc' = "idle" /\ kept' = kept \ Cut
        /\ facts' = Admitted
        /\ snap' = [o \in OA |-> IF o \in Removed THEN "none" ELSE want[o]]
    BY <1>14 DEF SyncCommit, Rest, Syncing
  <2> DEFINE S == {o \in Removed : want[o] # "none"}
  <2>2. S \in SUBSET OA /\ Enqueue(S, TRUE)
    BY <1>14 DEF SyncCommit, Removed
  <2> HIDE DEF S
  <2>3. open' \ removal' = open \ removal
    BY <2>2, EnqueueRemoves
  <2>4. \A f \in open \ removal : asks'[f] = asks[f]
    BY <2>2, EnqueueKeeps
  <2>5. \A o \in kept' : Right(o)' = Right(o) /\ o \in kept /\ o \in OA
    BY <1>14, <2>1, CutNames DEF TypeOK
  <2>6. \A o \in OA : Asked(o) => Asked(o)'
    BY <2>3, <2>4 DEF Asked
  <2>7. StatusKept'
    BY <2>1, <2>5, <2>6 DEF Agreement, StatusKept
  <2>8. \A o \in kept' \cap facts' : snap'[o] = status[o]
    BY <2>1, <2>5 DEF Admitted, Removed, Agreement, SyncReadKept
  <2>9. PageKept'
    BY <2>1, <2>7, <2>8 DEF StatusKept, PageKept
  <2> QED BY <2>1, <2>7, <2>9, RestAgrees
<1>15. ASSUME NEW o \in OA, Move(o) PROVE Agreement'
  <2>1. UNCHANGED <<rel, status, facts, snap, open, asks, removal, pc, held, todo, want, at, kept>>
        /\ steady' = steady \ {o}
    BY <1>15 DEF Move
  <2>2. \A p \in OA : Right(p)' = Right(p)
    BY <2>1, RightStays
  <2>3. InHandFits' /\ TreatedHaveIt' /\ SyncReadKept' /\ RecordedAll'
    BY <2>1 DEF Agreement, InHandFits, TreatedHaveIt, SyncReadKept, RecordedAll, Serving, Syncing
  <2>4. WantIsRight' /\ StatusKept' /\ PageKept'
    BY <2>1, <2>2 DEF Agreement, WantIsRight, StatusKept, PageKept, Serving, Newer, Asked, TypeOK
  <2> QED BY <2>3, <2>4 DEF Agreement
<1>16. ASSUME NEW o \in OA, Override(o) PROVE Agreement'
  <2>1. UNCHANGED <<rel, facts, snap, open, asks, removal, pc, held, todo, want, at, steady>>
        /\ kept' = kept \ {o}
    BY <1>16 DEF Override
  <2>2. \A p \in OA \ {o} : status'[p] = status[p]
    BY <1>16 DEF Override, TypeOK
  <2>3. \A p \in OA : Right(p)' = Right(p)
    BY <2>1, RightStays
  <2>4. InHandFits' /\ RecordedAll'
    BY <2>1 DEF Agreement, InHandFits, RecordedAll, Serving
  <2>5. TreatedHaveIt' /\ SyncReadKept'
    BY <2>1, <2>2 DEF Agreement, TreatedHaveIt, SyncReadKept, Serving, Syncing, TypeOK
  <2>6. WantIsRight'
    BY <2>1, <2>3 DEF Agreement, WantIsRight, Serving, Newer, TypeOK
  <2>7. StatusKept' /\ PageKept'
    BY <2>1, <2>2, <2>3 DEF Agreement, StatusKept, PageKept, Asked, TypeOK
  <2> QED BY <2>4, <2>5, <2>6, <2>7 DEF Agreement
<1>17. CASE Crash
  <2>1. UNCHANGED <<rel, status, facts, snap, open, asks, removal, kept>> /\ pc' = "idle"
    BY <1>17 DEF Crash, Rest
  <2>2. \A p \in OA : Right(p)' = Right(p)
    BY <2>1, RightStays
  <2>3. StatusKept' /\ PageKept'
    BY <2>1, <2>2 DEF Agreement, StatusKept, PageKept, Asked, TypeOK
  <2> QED BY <2>1, <2>3, RestAgrees
<1>18. CASE Break
  <2>1. held \in open
    BY <1>18 DEF Break, TypeOK
  <2> QED BY <1>18, <2>1, FailAgrees DEF Break
<1>19. CASE UNCHANGED vars
  <2>1. UNCHANGED <<rel, status, facts, snap, open, asks, removal, pc, held, todo, want, at, kept, steady>>
    BY <1>19 DEF vars
  <2>2. \A p \in OA : Right(p)' = Right(p)
    BY <2>1, RightStays
  <2>3. InHandFits' /\ TreatedHaveIt' /\ SyncReadKept' /\ RecordedAll'
    BY <2>1 DEF Agreement, InHandFits, TreatedHaveIt, SyncReadKept, RecordedAll, Serving, Syncing
  <2>4. WantIsRight' /\ StatusKept' /\ PageKept'
    BY <2>1, <2>2 DEF Agreement, WantIsRight, StatusKept, PageKept, Serving, Newer, Asked, TypeOK
  <2> QED BY <2>3, <2>4 DEF Agreement
<1> QED BY <1>1, <1>2, <1>3, <1>4, <1>5, <1>6, <1>7, <1>8, <1>9, <1>10, <1>11, <1>12, <1>13,
           <1>14, <1>15, <1>16, <1>17, <1>18, <1>19 DEF Next, Work


\* Agreement holds whatever the users, the network and crashes do.
THEOREM ProcessAgrees == Spec => []Agreement
<1>1. Init => Agreement
  BY DEF Init, Agreement, InHandFits, WantIsRight, TreatedHaveIt, SyncReadKept, RecordedAll,
         StatusKept, PageKept, Serving, Syncing
<1>2. TypeOK /\ Agreement /\ [Next]_vars => Agreement'
  BY AgreementIsKept
<1> QED BY <1>1, <1>2, TypeCorrect, PTL DEF Spec

\* What the last event of a flow wrote is what the relations say when no event is left.
THEOREM StatusFollows == Spec => []StatusFollowsRelations
<1>1. TypeOK /\ Agreement => StatusFollowsRelations
  BY DEF Agreement, StatusKept, StatusFollowsRelations, Asked, Quiet
<1> QED BY <1>1, TypeCorrect, ProcessAgrees, PTL

\* The page agrees with it.
THEOREM PageFollows == Spec => []PageFollowsStatus
<1>1. TypeOK /\ Agreement => PageFollowsStatus
  BY DEF Agreement, PageKept, PageFollowsStatus, Asked, Quiet
<1> QED BY <1>1, TypeCorrect, ProcessAgrees, PTL

\* A step that changes a status writes a wanted one, removes what is gone, or is the OA's.
LEMMA StatusSteps ==
    ASSUME TypeOK, Agreement, [Next]_vars, NEW o \in OA, status'[o] # status[o]
    PROVE  \/ status[o] # "failed" /\ status'[o] \in {"paid", "pending"}
           \/ status'[o] = "none" /\ o \notin facts /\ o \notin steady
           \/ upsets' # upsets /\ status'[o] # "none"
<1> USE DEF outside, queue, process
<1>1. CASE Mark
  <2>1. at \in asks[held] /\ want[at] \in {"paid", "pending"}
    BY <1>1 DEF Mark, Agreement, InHandFits, Serving
  <2> QED BY <1>1, <2>1 DEF Mark, Writable, TypeOK
<1>2. CASE Delete
  BY <1>2 DEF Delete, Agreement, InHandFits
<1>3. ASSUME NEW p \in OA, Override(p) PROVE upsets' # upsets /\ status'[o] # "none"
  <2>1. Upset
    BY <1>3 DEF Override
  <2>2. upsets' # upsets
    BY <2>1 DEF Upset, TypeOK
  <2>3. PICK v \in Value \ {"none", status[p]} : status' = [status EXCEPT ![p] = v]
    BY <1>3 DEF Override
  <2>4. p = o
    BY <2>3 DEF TypeOK
  <2> QED BY <2>2, <2>3, <2>4 DEF TypeOK
<1>4. status' = status \/ Mark \/ Delete \/ \E p \in OA : Override(p)
  BY DEF Next, Work, vars, Confirm, Withdraw, Save, Begin, Refuse, CheckMissing, Agrees, Differs,
         StopAtFailure, Record, Ack, SyncRead, SyncCommit, Move, Crash, Break
<1> QED BY <1>1, <1>2, <1>3, <1>4

\* A failure stands until the OA itself changes it or its application is gone.
THEOREM FailuresStand == Spec => FailureStands
<1>1. TypeOK /\ Agreement /\ [Next]_vars
      => [\A o \in OA : status[o] = "failed" /\ status'[o] # "failed"
            => upsets' # upsets \/ (status'[o] = "none" /\ o \notin facts)]_vars
  BY StatusSteps
<1> QED BY <1>1, TypeCorrect, ProcessAgrees, PTL DEF Spec, FailureStands

\* Only a status whose application was missing everywhere is deleted.
THEOREM OnlyGoneRemoved == Spec => OnlyTheGoneAreRemoved
<1>1. TypeOK /\ Agreement /\ [Next]_vars
      => [\A o \in OA : status[o] # "none" /\ status'[o] = "none"
            => o \notin facts /\ o \notin steady]_vars
  BY StatusSteps
<1> QED BY <1>1, TypeCorrect, ProcessAgrees, PTL DEF Spec, OnlyTheGoneAreRemoved
==============================================================================
