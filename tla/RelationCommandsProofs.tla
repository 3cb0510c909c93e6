----------------------- MODULE RelationCommandsProofs -----------------------
(***************************************************************************)
(* Proofs about RelationCommands, for any rows, cases and workers.         *)
(*                                                                         *)
(* A row has one owner because of an argument in two parts. A decision is  *)
(* right when it is taken: the rows it gives away are free, or belong to   *)
(* relations it rewrites itself (SafeDelta). And it stays right: a row it  *)
(* gives away is locked until the save, and the locks of two workers are   *)
(* apart, or is a member of a relation it rewrites.                        *)
(*                                                                         *)
(* The second kind of row is that of the commands that lock less than they *)
(* rewrite, and nothing in the code keeps such a relation from another     *)
(* command. The theorems assume nothing about who overlaps: they say what  *)
(* holds, or else that two commands had the same relation in hand, one of  *)
(* them without its lock (Collision, Encounter).                           *)
(***************************************************************************)
EXTENDS RelationCommands, TLAPS

\* The keys a command will lock cover the rows it may give to a case.
AskedKeys ==
    \A w \in Workers : stage[w] = "asked" =>
        /\ kind[w] \in {"confirm", "supplement", "assign", "plan", "closure"} =>
               picked[w] \subseteq wanted[w]
        /\ kind[w] = "withdraw" => \A b \in known[w] : b.rows \subseteq wanted[w]

\* A decision gives no row to two cases.
DecidedApart ==
    \A w \in Workers : \A c, d \in writes[w].on :
        c # d => writes[w].rows[c] \cap writes[w].rows[d] = {}

\* A decision gives away no row of a relation it leaves as it is.
DecidedFree ==
    \A w \in Workers : \A c \in writes[w].on :
        \A d \in active \ (writes[w].on \cup writes[w].off) :
            writes[w].rows[c] \cap members[d] = {}

\* The rows of a decision are locked until it is saved, if its command is one
\* that locks what it gives away.
DecidedLocked ==
    \A w \in Workers : kind[w] \notin PartlyLockingKinds =>
        \A c \in writes[w].on : writes[w].rows[c] \subseteq held[w]

LocksApart == \A v, w \in Workers : v # w => held[v] \cap held[w] = {}

\* The commands that do not read under their locks all that they rewrite.
LooseKinds == PartlyLockingKinds \cup {"supplement"}

\* The relations a decision will save, and those a command relies on: the
\* supplement takes its relation to be as it read it from the start.
Rewritten(w) == writes[w].on \cup writes[w].off

InHand(w) == Rewritten(w) \cup (IF kind[w] = "supplement" THEN target[w] ELSE {})

\* Two decisions rewrite one relation, and one of them is of a command that
\* does not lock it.
Collision ==
    \E v, w \in Workers :
        /\ v # w /\ kind[v] \in PartlyLockingKinds
        /\ Rewritten(v) \cap Rewritten(w) # {}

\* Two commands have one relation in hand, and one of them did not read
\* under its lock what it has of it.
Encounter ==
    \E v, w \in Workers :
        /\ v # w /\ kind[v] \in LooseKinds
        /\ InHand(v) \cap InHand(w) # {}

\* The rows of the relations a decision rewrites.
OwnRows(d) == UNION {members[e] : e \in active \cap (d.on \cup d.off)}

\* What a decision gives away and does not hold is of a relation in its hand.
DecidedCovered ==
    \A w \in Workers : \A c \in writes[w].on :
        writes[w].rows[c] \subseteq held[w] \cup OwnRows(writes[w])

Owned ==
    /\ ExclusiveOwnership
    /\ AskedKeys
    /\ DecidedApart
    /\ DecidedFree
    /\ DecidedLocked
    /\ DecidedCovered
    /\ LocksApart

\* The deltas that keep rows apart when they are saved now.
SafeDelta(w, d) ==
    /\ \A c, e \in d.on : c # e => d.rows[c] \cap d.rows[e] = {}
    /\ \A c \in d.on : \A e \in active \ (d.on \cup d.off) :
           d.rows[c] \cap members[e] = {}
    /\ kind[w] \notin PartlyLockingKinds => \A c \in d.on : d.rows[c] \subseteq wanted[w]
    /\ \A c \in d.on : d.rows[c] \subseteq wanted[w] \cup OwnRows(d)

-----------------------------------------------------------------------------
(* The shape of what commands read and decide.                             *)

\* What a command reads of a relation is an image of it.
LEMMA ImageType ==
    ASSUME TypeOK, NEW c \in Cases
    PROVE  /\ ImageOf(c) \in Images
           /\ ImageOf(c).case = c
           /\ ImageOf(c).rows = members[c]
           /\ ImageOf(c).version = version[c]
BY DEF TypeOK, ImageOf, Images

\* The predecessors a withdrawal may restore are images.
LEMMA RestorableType ==
    ASSUME TypeOK, NEW c \in Cases
    PROVE  Restorable(c) \subseteq Images
<1>1. \A e \in undo : e.before \subseteq Images
  BY DEF TypeOK, Events
<1>. QED  BY <1>1 DEF Restorable

\* The keys of a command are rows and cases, the named ones among them.
LEMMA LockKeysType ==
    ASSUME TypeOK, NEW R \in SUBSET Rows, NEW cs \in SUBSET Cases
    PROVE  LockKeys(R, cs) \in SUBSET Keys /\ R \subseteq LockKeys(R, cs)
<1>1. \A c \in cs : ActiveRows(c) \subseteq Rows
  BY DEF TypeOK, ActiveRows
<1>. QED  BY <1>1 DEF LockKeys, Keys

LEMMA OwnersType ==
    ASSUME TypeOK, NEW R
    PROVE  OwnersOf(R) \in SUBSET Cases /\ OwnersOf(R) \subseteq active
BY DEF TypeOK, OwnersOf

\* A delta says of the cases it keeps what it was made with.
LEMMA DeltaFields ==
    ASSUME TypeOK, NEW on \in SUBSET Cases, NEW off \in SUBSET Cases,
           NEW rowsOf \in [on -> SUBSET Rows], NEW versionOf \in [on -> Nat]
    PROVE  /\ Delta(on, off, rowsOf, versionOf) \in Deltas
           /\ Delta(on, off, rowsOf, versionOf).on = on
           /\ Delta(on, off, rowsOf, versionOf).off = off
           /\ \A c \in on : Delta(on, off, rowsOf, versionOf).rows[c] = rowsOf[c]
<1>. DEFINE rs == [c \in Cases |-> IF c \in on THEN rowsOf[c]
                                   ELSE IF c \in off THEN members[c] ELSE {}]
            vs == [c \in Cases |-> IF c \in on THEN versionOf[c]
                                   ELSE IF c \in off THEN version[c] + 1 ELSE 0]
<1>1. rs \in [Cases -> SUBSET Rows]
  BY DEF TypeOK
<1>2. vs \in [Cases -> Nat]
  BY DEF TypeOK
<1>3. \A c \in on : rs[c] = rowsOf[c]
  OBVIOUS
<1>4. Delta(on, off, rowsOf, versionOf) = [on |-> on, off |-> off, rows |-> rs, version |-> vs]
  BY DEF Delta
<1>. HIDE DEF rs, vs
<1>. QED  BY <1>1, <1>2, <1>3, <1>4 DEF Deltas

LEMMA NoDeltaFields ==
    NoDelta \in Deltas /\ NoDelta.on = {} /\ NoDelta.off = {}
BY DEF NoDelta, Deltas

\* What every command says when it asks: its locks cover the rows it names.
LEMMA AskCovers ==
    ASSUME TypeOK, NEW w \in Workers, Ask(w)
    PROVE  \E k \in Kinds, cs \in SUBSET Cases, R \in SUBSET Rows,
              seen \in SUBSET Images, keys \in SUBSET Keys :
                /\ Begin(w, k, cs, R, seen, keys)
                /\ k \in {"confirm", "supplement", "assign", "plan", "closure"} => R \subseteq keys
                /\ k = "withdraw" => \A b \in seen : b.rows \subseteq keys
<1>. DEFINE Covered(k, cs, R, seen, keys) ==
         /\ Begin(w, k, cs, R, seen, keys)
         /\ k \in {"confirm", "supplement", "assign", "plan", "closure"} => R \subseteq keys
         /\ k = "withdraw" => \A b \in seen : b.rows \subseteq keys
<1>. DEFINE Goal == \E k \in Kinds, cs \in SUBSET Cases, R \in SUBSET Rows,
              seen \in SUBSET Images, keys \in SUBSET Keys :
                Covered(k, cs, R, seen, keys)
<1>. SUFFICES Goal
  OBVIOUS
<1>0. /\ "confirm" \in Kinds /\ "supplement" \in Kinds /\ "assign" \in Kinds
      /\ "plan" \in Kinds /\ "cancel" \in Kinds /\ "release" \in Kinds
      /\ "withdraw" \in Kinds /\ "remove" \in Kinds /\ "metadata" \in Kinds
      /\ "closure" \in Kinds
  BY DEF Kinds, LockingKinds, PartlyLockingKinds
<1>1. ASSUME NEW c \in Cases, AskAssign(w, c) PROVE Goal
  <2>1. StableRows[c] \in SUBSET Rows
    BY <1>1, ConstantsAssumption DEF AskAssign
  <2>2. LockKeys(StableRows[c], {c}) \in SUBSET Keys /\ StableRows[c] \subseteq LockKeys(StableRows[c], {c})
    BY <2>1, LockKeysType
  <2>3. Covered("assign", {c}, StableRows[c], {}, LockKeys(StableRows[c], {c}))
    BY <1>1, <2>2 DEF AskAssign
  <2>. HIDE DEF Covered
  <2>. QED  BY <1>0, <2>1, <2>2, <2>3
<1>2. ASSUME NEW c \in Cases, AskCancel(w, c) PROVE Goal
  <2>1. LockKeys({}, {c}) \in SUBSET Keys
    BY LockKeysType
  <2>2. Covered("cancel", {c}, {}, {}, LockKeys({}, {c}))
    BY <1>2 DEF AskCancel
  <2>. HIDE DEF Covered
  <2>. QED  BY <1>0, <2>1, <2>2
<1>3. ASSUME NEW c \in Cases, AskWithdraw(w, c) PROVE Goal
  <2>. DEFINE P == Restorable(c)
              R == members[c] \cup RowsOf(P)
              cs == {c} \cup CasesOf(P)
  <2>1. P \subseteq Images /\ ImageOf(c) \in Images /\ ImageOf(c).rows = members[c]
    BY RestorableType, ImageType
  <2>2. /\ \A b \in P : b.case \in Cases /\ b.rows \subseteq Rows
        /\ members[c] \subseteq Rows
    BY <2>1 DEF Images, TypeOK
  <2>3. R \in SUBSET Rows /\ cs \in SUBSET Cases
    BY <2>2 DEF RowsOf, CasesOf
  <2>4. LockKeys(R, cs) \in SUBSET Keys /\ R \subseteq LockKeys(R, cs)
    BY <2>3, LockKeysType
  <2>5. \A b \in {ImageOf(c)} \cup P : b.rows \subseteq R
    BY <2>1 DEF RowsOf
  <2>6. Begin(w, "withdraw", {c}, {}, {ImageOf(c)} \cup P, LockKeys(R, cs))
    BY <1>3 DEF AskWithdraw
  <2>7. {ImageOf(c)} \cup P \in SUBSET Images
    BY <2>1
  <2>. HIDE DEF P, R, cs
  <2>8. Covered("withdraw", {c}, {}, {ImageOf(c)} \cup P, LockKeys(R, cs))
    BY <2>4, <2>5, <2>6
  <2>. HIDE DEF Covered
  <2>. QED  BY <1>0, <2>4, <2>7, <2>8
<1>4. ASSUME NEW c \in Cases, AskMetadata(w, c) PROVE Goal
  <2>1. Covered("metadata", {c}, {}, {}, {})
    BY <1>4 DEF AskMetadata
  <2>. HIDE DEF Covered
  <2>. QED  BY <1>0, <2>1
<1>5. ASSUME NEW c \in Cases, NEW r \in Rows, AskSupplement(w, c, r) PROVE Goal
  <2>. DEFINE R == members[c] \cup {r}
  <2>1. R \in SUBSET Rows
    BY DEF TypeOK
  <2>2. LockKeys(R, {c}) \in SUBSET Keys /\ R \subseteq LockKeys(R, {c})
    BY <2>1, LockKeysType
  <2>3. Begin(w, "supplement", {c}, R, {ImageOf(c)}, LockKeys(R, {c}))
    BY <1>5 DEF AskSupplement
  <2>. HIDE DEF R
  <2>4. Covered("supplement", {c}, R, {ImageOf(c)}, LockKeys(R, {c}))
    BY <2>2, <2>3
  <2>5. {ImageOf(c)} \in SUBSET Images
    BY ImageType
  <2>. HIDE DEF Covered
  <2>. QED  BY <1>0, <2>1, <2>2, <2>4, <2>5
<1>6. ASSUME NEW c \in Cases, NEW R \in SUBSET Rows, AskConfirm(w, c, R) PROVE Goal
  <2>1. LockKeys(R, {c}) \in SUBSET Keys /\ R \subseteq LockKeys(R, {c})
    BY LockKeysType
  <2>2. PICK cs \in SUBSET OwnersOf(R) :
            Begin(w, "confirm", {c}, R, {ImageOf(d) : d \in cs}, LockKeys(R, {c}))
    BY <1>6 DEF AskConfirm
  <2>3. {ImageOf(d) : d \in cs} \in SUBSET Images
    BY ImageType, OwnersType
  <2>4. Covered("confirm", {c}, R, {ImageOf(d) : d \in cs}, LockKeys(R, {c}))
    BY <2>1, <2>2
  <2>. HIDE DEF Covered
  <2>. QED  BY <1>0, <2>1, <2>3, <2>4
<1>7. ASSUME NEW c \in Cases, NEW R \in SUBSET Rows, AskPlan(w, c, R) PROVE Goal
  <2>. DEFINE seen == IF c \in active THEN {ImageOf(c)} ELSE {}
  <2>1. LockKeys(R, {c}) \in SUBSET Keys /\ R \subseteq LockKeys(R, {c})
    BY LockKeysType
  <2>2. Begin(w, "plan", {c}, R, seen, LockKeys(R, {c}))
    BY <1>7 DEF AskPlan
  <2>3. seen \in SUBSET Images
    BY ImageType
  <2>. HIDE DEF seen
  <2>4. Covered("plan", {c}, R, seen, LockKeys(R, {c}))
    BY <2>1, <2>2
  <2>. HIDE DEF Covered
  <2>. QED  BY <1>0, <2>1, <2>3, <2>4
<1>8. ASSUME NEW c \in Cases, NEW R \in SUBSET Rows, AskClosure(w, c, R) PROVE Goal
  <2>1. LockKeys(R, {}) \in SUBSET Keys /\ R \subseteq LockKeys(R, {})
    BY LockKeysType
  <2>2. Covered("closure", {c}, R, {}, LockKeys(R, {}))
    BY <1>8, <2>1 DEF AskClosure
  <2>. HIDE DEF Covered
  <2>. QED  BY <1>0, <2>1, <2>2
<1>9. ASSUME NEW R \in SUBSET Rows, AskRelease(w, R) PROVE Goal
  <2>1. LockKeys(R, {}) \in SUBSET Keys
    BY LockKeysType
  <2>2. Covered("release", {}, R, {}, LockKeys(R, {}))
    BY <1>9 DEF AskRelease
  <2>. HIDE DEF Covered
  <2>. QED  BY <1>0, <2>1, <2>2
<1>10. ASSUME NEW R \in SUBSET Rows, AskRemove(w, R) PROVE Goal
  <2>1. LockKeys(R, {}) \in SUBSET Keys
    BY LockKeysType
  <2>2. Covered("remove", {}, R, {}, LockKeys(R, {}))
    BY <1>10 DEF AskRemove
  <2>. HIDE DEF Covered
  <2>. QED  BY <1>0, <2>1, <2>2
<1>. HIDE DEF Goal
<1>. QED
  BY <1>1, <1>2, <1>3, <1>4, <1>5, <1>6, <1>7, <1>8, <1>9, <1>10 DEF Ask

-----------------------------------------------------------------------------
(* What a command decides keeps rows apart.                                *)

Decided(w) ==
    \E next \in {"prepared", "read"}, d \in Deltas, events \in SUBSET Events :
        Take(w, next, d, events) /\ (Owned => SafeDelta(w, d))

LEMMA EventType ==
    ASSUME NEW c \in Cases, NEW R \in SUBSET Rows, NEW B \in SUBSET Images
    PROVE  {[case |-> c, rows |-> R, before |-> B]} \in SUBSET Events
BY DEF Events

\* A decision that puts the rows R, and no others, into one case is safe
\* when it cancels their other owners.
LEMMA OneCaseIsSafe ==
    ASSUME TypeOK, NEW w \in Workers, NEW c \in Cases, NEW off \in SUBSET Cases,
           NEW R \in SUBSET Rows, NEW rowsOf \in [{c} -> SUBSET Rows],
           NEW versionOf \in [{c} -> Nat], rowsOf[c] = R
    PROVE  /\ Delta({c}, off, rowsOf, versionOf) \in Deltas
           /\ (/\ OwnersOf(R) \subseteq off \cup {c}
               /\ \/ R \subseteq wanted[w]
                  \/ /\ kind[w] \in PartlyLockingKinds
                     /\ R \subseteq wanted[w] \cup UNION {members[e] : e \in active \cap (off \cup {c})})
              => SafeDelta(w, Delta({c}, off, rowsOf, versionOf))
<1>. DEFINE d == Delta({c}, off, rowsOf, versionOf)
<1>1. /\ d \in Deltas /\ d.on = {c} /\ d.off = off
      /\ \A x \in {c} : d.rows[x] = rowsOf[x]
  <2>1. PICK on : on = {c}
    OBVIOUS
  <2>2. on \in SUBSET Cases /\ rowsOf \in [on -> SUBSET Rows] /\ versionOf \in [on -> Nat]
    BY <2>1
  <2>3. /\ Delta(on, off, rowsOf, versionOf) \in Deltas
        /\ Delta(on, off, rowsOf, versionOf).on = on
        /\ Delta(on, off, rowsOf, versionOf).off = off
        /\ \A x \in on : Delta(on, off, rowsOf, versionOf).rows[x] = rowsOf[x]
    BY ONLY <2>2, off \in SUBSET Cases, TypeOK, DeltaFields
  <2>. QED  BY <2>1, <2>3
<1>. HIDE DEF d
<1>3. ASSUME OwnersOf(R) \subseteq off \cup {c},
             \/ R \subseteq wanted[w]
             \/ /\ kind[w] \in PartlyLockingKinds
                /\ R \subseteq wanted[w] \cup UNION {members[e] : e \in active \cap (off \cup {c})}
      PROVE  SafeDelta(w, d)
  <2>0. \A e \in active : e \notin off \cup {c} => R \cap members[e] = {}
    BY <1>3 DEF OwnersOf
  <2>1. d.rows[c] = R
    BY <1>1
  <2>2. R \subseteq wanted[w] \cup OwnRows(d)
    BY <1>1, <1>3 DEF OwnRows
  <2>. QED  BY <1>1, <1>3, <2>0, <2>1, <2>2 DEF SafeDelta
<1>. QED  BY <1>1, <1>3 DEF d

\* A decision that only cancels is safe.
LEMMA CancellingIsSafe ==
    ASSUME TypeOK, NEW w \in Workers, NEW off \in SUBSET Cases
    PROVE  /\ Delta({}, off, <<>>, <<>>) \in Deltas
           /\ SafeDelta(w, Delta({}, off, <<>>, <<>>))
<1>. DEFINE rs == [c \in Cases |-> IF c \in off THEN members[c] ELSE {}]
            vs == [c \in Cases |-> IF c \in off THEN version[c] + 1 ELSE 0]
<1>1. rs \in [Cases -> SUBSET Rows] /\ vs \in [Cases -> Nat]
  BY DEF TypeOK
<1>2. Delta({}, off, <<>>, <<>>) = [on |-> {}, off |-> off, rows |-> rs, version |-> vs]
  BY DEF Delta
<1>. HIDE DEF rs, vs
<1>. QED  BY <1>1, <1>2 DEF Deltas, SafeDelta

LEMMA ReplaceIsSafe ==
    ASSUME TypeOK, NEW w \in Workers, NEW c \in Cases, NEW R \in SUBSET Rows
    PROVE  /\ ReplaceDelta(c, R) \in Deltas
           /\ R \subseteq wanted[w] => SafeDelta(w, ReplaceDelta(c, R))
<1>. DEFINE off == OwnersOf(R) \ {c}
            rowsOf == [d \in {c} |-> R]
            versionOf == [d \in {c} |-> IF c \in active THEN version[c] + 2 ELSE 1]
<1>1. off \in SUBSET Cases /\ OwnersOf(R) \subseteq off \cup {c}
  BY OwnersType
<1>2. rowsOf \in [{c} -> SUBSET Rows] /\ rowsOf[c] = R /\ versionOf \in [{c} -> Nat]
  BY DEF TypeOK
<1>3. ReplaceDelta(c, R) = Delta({c}, off, rowsOf, versionOf)
  BY DEF ReplaceDelta
<1>. HIDE DEF off, rowsOf, versionOf
<1>. QED  BY <1>1, <1>2, <1>3, OneCaseIsSafe

LEMMA ConfirmDecides ==
    ASSUME TypeOK, NEW w \in Workers, TakeConfirm(w)
    PROVE  Decided(w)
<1>1. PICK c \in target[w] :
        Take(w, "read", ReplaceDelta(c, picked[w]),
             {[case |-> c, rows |-> picked[w],
               before |-> StillOwned(known[w], picked[w])]})
  BY DEF TakeConfirm
<1>2. /\ c \in Cases /\ picked[w] \in SUBSET Rows
      /\ Owned => picked[w] \subseteq wanted[w]
  BY DEF TypeOK, Owned, AskedKeys, TakeConfirm, Asked
<1>3. StillOwned(known[w], picked[w]) \in SUBSET Images
  BY DEF TypeOK, StillOwned
<1>4. {[case |-> c, rows |-> picked[w], before |-> StillOwned(known[w], picked[w])]} \in SUBSET Events
  BY <1>2, <1>3, EventType
<1>. QED  BY <1>1, <1>2, <1>4, ReplaceIsSafe DEF Decided

LEMMA SupplementDecides ==
    ASSUME TypeOK, NEW w \in Workers, TakeSupplement(w)
    PROVE  Decided(w)
<1>1. PICK c \in target[w] : Take(w, "read", ReplaceDelta(c, picked[w]), {})
  BY DEF TakeSupplement
<1>2. /\ c \in Cases /\ picked[w] \in SUBSET Rows
      /\ Owned => picked[w] \subseteq wanted[w]
  BY DEF TypeOK, Owned, AskedKeys, TakeSupplement, Asked
<1>. QED  BY <1>1, <1>2, ReplaceIsSafe DEF Decided

LEMMA AssignDecides ==
    ASSUME TypeOK, NEW w \in Workers, TakeAssign(w)
    PROVE  Decided(w)
<1>. DEFINE rowsOf(c) == [d \in {c} |-> picked[w]]
            versionOf(c) == [d \in {c} |-> IF c \notin active THEN 1
                                           ELSE IF members[c] = picked[w] THEN version[c]
                                           ELSE version[c] + 1]
<1>1. PICK c \in target[w] :
        /\ OwnersOf(picked[w]) \subseteq {c}
        /\ Take(w, "read", Delta({c}, {}, rowsOf(c), versionOf(c)), {})
  BY DEF TakeAssign
<1>2. /\ c \in Cases /\ picked[w] \in SUBSET Rows
      /\ Owned => picked[w] \subseteq wanted[w]
  BY DEF TypeOK, Owned, AskedKeys, TakeAssign, Asked
<1>3. /\ rowsOf(c) \in [{c} -> SUBSET Rows] /\ rowsOf(c)[c] = picked[w]
      /\ versionOf(c) \in [{c} -> Nat]
  BY <1>2 DEF TypeOK
<1>. HIDE DEF rowsOf, versionOf
<1>4. /\ Delta({c}, {}, rowsOf(c), versionOf(c)) \in Deltas
      /\ Owned => SafeDelta(w, Delta({c}, {}, rowsOf(c), versionOf(c)))
  BY <1>1, <1>2, <1>3, OneCaseIsSafe
<1>. QED  BY <1>1, <1>4 DEF Decided

LEMMA PlanDecides ==
    ASSUME TypeOK, NEW w \in Workers, TakePlan(w)
    PROVE  Decided(w)
<1>. DEFINE rowsOf(c) == [d \in {c} |-> picked[w]]
            versionOf(c) == [d \in {c} |-> PlanVersion(w, c)]
            before(c) == IF known[w] = {} THEN {}
                         ELSE {b \in {ImageOf(c)} : b.rows # picked[w]}
<1>1. PICK c \in target[w] :
        /\ OwnersOf(picked[w]) \subseteq {c}
        /\ \/ Take(w, "read", NoDelta, {})
           \/ Take(w, "read", Delta({c}, {}, rowsOf(c), versionOf(c)),
                   {[case |-> c, rows |-> picked[w], before |-> before(c)]})
  BY DEF TakePlan
<1>2. /\ c \in Cases /\ picked[w] \in SUBSET Rows
      /\ Owned => picked[w] \subseteq wanted[w]
  BY DEF TypeOK, Owned, AskedKeys, TakePlan, Asked
<1>3. CASE Take(w, "read", NoDelta, {})
  <2>1. SafeDelta(w, NoDelta)
    BY NoDeltaFields DEF SafeDelta
  <2>. QED  BY <1>3, <2>1, NoDeltaFields DEF Decided
<1>4. CASE Take(w, "read", Delta({c}, {}, rowsOf(c), versionOf(c)),
                {[case |-> c, rows |-> picked[w], before |-> before(c)]})
  <2>1. version[c] \in Nat
    BY <1>2 DEF TypeOK
  <2>2. /\ rowsOf(c) \in [{c} -> SUBSET Rows] /\ rowsOf(c)[c] = picked[w]
        /\ versionOf(c) \in [{c} -> Nat]
    BY <1>2, <2>1 DEF PlanVersion
  <2>3. before(c) \in SUBSET Images
    BY <1>2, ImageType
  <2>. HIDE DEF rowsOf, versionOf, before
  <2>4. {[case |-> c, rows |-> picked[w], before |-> before(c)]} \in SUBSET Events
    BY <1>2, <2>3, EventType
  <2>5. /\ Delta({c}, {}, rowsOf(c), versionOf(c)) \in Deltas
        /\ Owned => SafeDelta(w, Delta({c}, {}, rowsOf(c), versionOf(c)))
    BY <1>1, <1>2, <2>2, OneCaseIsSafe
  <2>. QED  BY <1>4, <2>4, <2>5 DEF Decided
<1>. QED  BY <1>1, <1>3, <1>4

LEMMA CancelDecides ==
    ASSUME TypeOK, NEW w \in Workers, TakeCancel(w) \/ TakeRelease(w)
    PROVE  Decided(w)
<1>1. PICK off \in SUBSET Cases : Take(w, "read", Delta({}, off, <<>>, <<>>), {})
  BY OwnersType DEF TakeCancel, TakeRelease, TypeOK
<1>. QED  BY <1>1, CancellingIsSafe DEF Decided

\* A withdrawal gives back rows that are apart, free and locked.
LEMMA WithdrawDecides ==
    ASSUME TypeOK, NEW w \in Workers, TakeWithdraw(w)
    PROVE  Decided(w)
<1>1. PICK c \in target[w] :
        /\ c \in active
        /\ SameTopology(w, c)
        /\ CanRestore(c, Restorable(c))
        /\ Take(w, "read", WithdrawDelta(c, Restorable(c)), {})
  BY DEF TakeWithdraw
<1>. DEFINE P == Restorable(c)
            on == CasesOf(P)
            off == {c} \ on
            Of(d) == CHOOSE b \in P : b.case = d
            rowsOf == [d \in on |-> Of(d).rows]
            versionOf == [d \in on |-> RestoredVersion(Of(d), c)]
            delta == Delta(on, off, rowsOf, versionOf)
<1>2. c \in Cases /\ kind[w] = "withdraw" /\ stage[w] = "asked"
  BY DEF TypeOK, TakeWithdraw, Asked
<1>3. P \subseteq Images
  BY <1>2, RestorableType
<1>4. Owned => \A b \in P : b.rows \subseteq wanted[w]
  <2>1. P \subseteq known[w]
    BY <1>1 DEF SameTopology
  <2>. QED  BY <2>1, <1>2 DEF Owned, AskedKeys
<1>5. \A d \in on : Of(d) \in P /\ Of(d).case = d
  BY DEF CasesOf
<1>6. \A b \in P : b.case \in Cases /\ b.rows \in SUBSET Rows /\ b.version \in Nat
  BY <1>3 DEF Images
<1>7. on \in SUBSET Cases /\ off \in SUBSET Cases
  BY <1>2, <1>6 DEF CasesOf
<1>8. \A b \in P : RestoredVersion(b, c) \in Nat
  BY <1>2, <1>6 DEF RestoredVersion, Greater, TypeOK
<1>. HIDE DEF Of, P
<1>9. rowsOf \in [on -> SUBSET Rows] /\ versionOf \in [on -> Nat]
  BY <1>5, <1>6, <1>8
<1>10. \A d \in on : rowsOf[d] = Of(d).rows
  OBVIOUS
<1>11. WithdrawDelta(c, P) = delta
  BY DEF WithdrawDelta, Of
<1>. HIDE DEF on, off, rowsOf, versionOf
<1>12. /\ delta \in Deltas /\ delta.on = on /\ delta.off = off
       /\ \A d \in on : delta.rows[d] = rowsOf[d]
  BY ONLY <1>7, <1>9, TypeOK, DeltaFields
<1>. HIDE DEF delta
<1>13. \A d, e \in on : d # e => rowsOf[d] \cap rowsOf[e] = {}
  <2>1. \A b1, b2 \in P : b1 # b2 => b1.rows \cap b2.rows = {}
    BY <1>1 DEF CanRestore, P
  <2>. QED  BY <2>1, <1>5, <1>10
<1>14. \A d \in on : \A e \in active \ (on \cup off) : rowsOf[d] \cap members[e] = {}
  <2>1. OwnersOf(RowsOf(P)) \subseteq {c}
    BY <1>1 DEF CanRestore, P
  <2>2. \A e \in active : e # c => RowsOf(P) \cap members[e] = {}
    BY <2>1 DEF OwnersOf
  <2>3. \A d \in on : rowsOf[d] \subseteq RowsOf(P)
    BY <1>5, <1>10 DEF RowsOf
  <2>4. c \in on \cup off
    BY DEF off
  <2>. QED  BY <2>2, <2>3, <2>4
<1>15. Owned => \A d \in on : rowsOf[d] \subseteq wanted[w]
  BY <1>4, <1>5, <1>10
<1>16. Owned => SafeDelta(w, delta)
  BY <1>12, <1>13, <1>14, <1>15 DEF SafeDelta
<1>17. Take(w, "read", delta, {})
  BY <1>1, <1>11 DEF P
<1>. QED  BY <1>12, <1>16, <1>17 DEF Decided

LEMMA RemoveDecides ==
    ASSUME TypeOK, NEW w \in Workers, TakeRemove(w)
    PROVE  Decided(w)
<1>. DEFINE found == OwnersOf(picked[w])
            on == {c \in found : Cardinality(members[c] \ picked[w]) >= 2}
            off == found \ on
            rowsOf == [c \in on |-> members[c] \ picked[w]]
            versionOf == [c \in on |-> version[c] + 2]
            delta == Delta(on, off, rowsOf, versionOf)
<1>1. Take(w, "read", delta, {}) /\ kind[w] = "remove"
  BY DEF TakeRemove, Asked
<1>2. found \in SUBSET Cases /\ found \subseteq active
  BY OwnersType
<1>3. on \in SUBSET Cases /\ off \in SUBSET Cases /\ on \subseteq active
  BY <1>2
<1>. HIDE DEF on, off, found
<1>4. rowsOf \in [on -> SUBSET Rows] /\ versionOf \in [on -> Nat]
  BY <1>3 DEF TypeOK
<1>5. \A c \in on : rowsOf[c] \subseteq members[c]
  OBVIOUS
<1>. HIDE DEF rowsOf, versionOf
<1>6. /\ delta \in Deltas /\ delta.on = on /\ delta.off = off
      /\ \A c \in on : delta.rows[c] = rowsOf[c]
  BY ONLY <1>3, <1>4, TypeOK, DeltaFields
<1>. HIDE DEF delta
<1>7. ASSUME Owned PROVE SafeDelta(w, delta)
  <2>1. \A c \in on : delta.rows[c] \subseteq OwnRows(delta)
    BY <1>3, <1>5, <1>6 DEF OwnRows
  <2>. QED  BY <1>1, <1>3, <1>5, <1>6, <1>7, <2>1 DEF SafeDelta, Owned, ExclusiveOwnership, PartlyLockingKinds
<1>. QED  BY <1>1, <1>6, <1>7 DEF Decided

LEMMA MetadataDecides ==
    ASSUME TypeOK, NEW w \in Workers, TakeMetadata(w)
    PROVE  Decided(w)
<1>. DEFINE on == target[w]
            rowsOf == [c \in on |-> members[c]]
            versionOf == [c \in on |-> version[c]]
            delta == Delta(on, {}, rowsOf, versionOf)
<1>1. Take(w, "read", delta, {}) /\ kind[w] = "metadata"
  BY DEF TakeMetadata, Asked
<1>2. on \in SUBSET Cases /\ on \subseteq active
  BY DEF TakeMetadata, TypeOK
<1>. HIDE DEF on
<1>3. rowsOf \in [on -> SUBSET Rows] /\ versionOf \in [on -> Nat]
  BY <1>2 DEF TypeOK
<1>4. \A c \in on : rowsOf[c] = members[c]
  OBVIOUS
<1>. HIDE DEF rowsOf, versionOf
<1>5. /\ delta \in Deltas /\ delta.on = on /\ delta.off = {}
      /\ \A c \in on : delta.rows[c] = rowsOf[c]
  BY ONLY <1>2, <1>3, TypeOK, DeltaFields
<1>. HIDE DEF delta
<1>6. ASSUME Owned PROVE SafeDelta(w, delta)
  <2>1. \A c \in on : delta.rows[c] \subseteq OwnRows(delta)
    BY <1>2, <1>4, <1>5 DEF OwnRows
  <2>. QED  BY <1>1, <1>2, <1>4, <1>5, <1>6, <2>1 DEF SafeDelta, Owned, ExclusiveOwnership, PartlyLockingKinds
<1>. QED  BY <1>1, <1>5, <1>6 DEF Decided

LEMMA ClosureDecides ==
    ASSUME TypeOK, NEW w \in Workers, TakeClosure(w)
    PROVE  Decided(w)
<1>. DEFINE found == OwnersOf(picked[w])
            merged == picked[w] \cup UNION {members[d] : d \in found}
            rowsOf(c) == [d \in {c} |-> merged]
            versionOf(c) == [d \in {c} |-> IF c \in active THEN version[c] + 2 ELSE 1]
            before == {b \in {ImageOf(d) : d \in found} : b.rows # merged}
<1>1. PICK c \in target[w] :
        Take(w, "prepared", Delta({c}, found \ {c}, rowsOf(c), versionOf(c)),
             {[case |-> c, rows |-> merged, before |-> before]})
  BY DEF TakeClosure
<1>2. c \in Cases /\ picked[w] \in SUBSET Rows /\ kind[w] \in PartlyLockingKinds
  BY DEF TypeOK, TakeClosure, Asked, PartlyLockingKinds
<1>3. found \in SUBSET Cases /\ found \subseteq active
  BY OwnersType
<1>4. merged \in SUBSET Rows /\ before \in SUBSET Images
  BY <1>2, <1>3, ImageType DEF TypeOK
<1>5. ASSUME Owned
      PROVE  /\ OwnersOf(merged) \subseteq (found \ {c}) \cup {c}
             /\ merged \subseteq wanted[w]
                    \cup UNION {members[e] : e \in active \cap ((found \ {c}) \cup {c})}
  <2>1. \A e \in active : e \notin found => members[e] \cap picked[w] = {}
    BY DEF OwnersOf
  <2>2. \A e \in active : e \notin found => \A d \in found : members[e] \cap members[d] = {}
    BY <1>3, <1>5 DEF Owned, ExclusiveOwnership
  <2>3. \A e \in active : e \notin found => members[e] \cap merged = {}
    BY <2>1, <2>2
  <2>4. picked[w] \subseteq wanted[w]
    BY <1>5 DEF TakeClosure, Asked, Owned, AskedKeys
  <2>5. merged \subseteq wanted[w] \cup UNION {members[e] : e \in active \cap found}
    BY <1>3, <2>4
  <2>6. UNION {members[e] : e \in active \cap found}
            \subseteq UNION {members[e] : e \in active \cap ((found \ {c}) \cup {c})}
    OBVIOUS
  <2>. HIDE DEF merged, found
  <2>. QED  BY <2>3, <2>5, <2>6 DEF OwnersOf
<1>6. /\ rowsOf(c) \in [{c} -> SUBSET Rows] /\ rowsOf(c)[c] = merged
      /\ versionOf(c) \in [{c} -> Nat]
  BY <1>2, <1>4 DEF TypeOK
<1>. HIDE DEF found, merged, before, rowsOf, versionOf
<1>7. {[case |-> c, rows |-> merged, before |-> before]} \in SUBSET Events
  BY <1>2, <1>4, EventType
<1>8. found \ {c} \in SUBSET Cases
  BY <1>3
<1>9. /\ Delta({c}, found \ {c}, rowsOf(c), versionOf(c)) \in Deltas
      /\ Owned => SafeDelta(w, Delta({c}, found \ {c}, rowsOf(c), versionOf(c)))
  BY <1>2, <1>4, <1>5, <1>6, <1>8, OneCaseIsSafe
<1>. QED  BY <1>1, <1>7, <1>9 DEF Decided

\* Every command decides safely on what it loads under its locks.
LEMMA DecidesSafely ==
    ASSUME TypeOK, NEW w \in Workers, Decide(w)
    PROVE  Decided(w)
BY ConfirmDecides, SupplementDecides, AssignDecides, PlanDecides, CancelDecides,
   WithdrawDecides, RemoveDecides, MetadataDecides, ClosureDecides DEF Decide

-----------------------------------------------------------------------------
(* Type correctness.                                                       *)

LEMMA BeginType ==
    ASSUME TypeOK, NEW w \in Workers, NEW k \in Kinds, NEW cs \in SUBSET Cases,
           NEW R \in SUBSET Rows, NEW seen \in SUBSET Images,
           NEW keys \in SUBSET Keys, Begin(w, k, cs, R, seen, keys)
    PROVE  TypeOK'
BY DEF TypeOK, Begin, relations, Stages

LEMMA TakeType ==
    ASSUME TypeOK, NEW w \in Workers, NEW next \in {"prepared", "read"},
           NEW d \in Deltas, NEW events \in SUBSET Events, Take(w, next, d, events)
    PROVE  TypeOK'
BY DEF TypeOK, Take, relations, Stages

LEMMA LockMergedType ==
    ASSUME TypeOK, NEW w \in Workers, LockMerged(w)
    PROVE  TypeOK'
<1>1. PICK c \in target[w] :
        held' = [held EXCEPT ![w] = @ \cup LockKeys(writes[w].rows[c], {c})]
  BY DEF LockMerged
<1>2. c \in Cases /\ writes[w].rows[c] \in SUBSET Rows
  BY DEF TypeOK, Deltas
<1>3. LockKeys(writes[w].rows[c], {c}) \in SUBSET Keys
  BY <1>2, LockKeysType
<1>4. held' \in [Workers -> SUBSET Keys]
  BY <1>1, <1>3 DEF TypeOK
<1>. QED  BY <1>4 DEF TypeOK, LockMerged, relations, Stages

LEMMA LeaveType ==
    ASSUME TypeOK, NEW w \in Workers, Leave(w)
    PROVE  /\ stage' \in [Workers -> Stages]
           /\ kind' \in [Workers -> Kinds \cup {"none"}]
           /\ target' \in [Workers -> SUBSET Cases]
           /\ picked' \in [Workers -> SUBSET Rows]
           /\ known' \in [Workers -> SUBSET Images]
           /\ wanted' \in [Workers -> SUBSET Keys]
           /\ held' \in [Workers -> SUBSET Keys]
           /\ writes' \in [Workers -> Deltas]
           /\ entry' \in [Workers -> SUBSET Events]
           /\ \A v \in Workers : stage'[v] \in {"idle", "asked"} =>
                  held'[v] = {} /\ writes'[v] = NoDelta /\ entry'[v] = {}
BY NoDeltaFields DEF TypeOK, Leave, Stages

LEMMA CommitType ==
    ASSUME TypeOK, NEW w \in Workers, Commit(w)
    PROVE  TypeOK'
<1>1. /\ writes[w].on \in SUBSET Cases /\ writes[w].off \in SUBSET Cases
      /\ writes[w].rows \in [Cases -> SUBSET Rows]
      /\ writes[w].version \in [Cases -> Nat]
      /\ entry[w] \in SUBSET Events
  BY DEF TypeOK, Deltas
<1>2. /\ active' \subseteq Cases
      /\ members' \in [Cases -> SUBSET Rows]
      /\ version' \in [Cases -> Nat]
  BY <1>1 DEF TypeOK, Commit
<1>3. undo' \subseteq Events
  BY <1>1 DEF TypeOK, Commit
<1>4. Leave(w)
  BY DEF Commit
<1>. QED  BY <1>2, <1>3, <1>4, LeaveType DEF TypeOK

LEMMA AbortType ==
    ASSUME TypeOK, NEW w \in Workers, Abort(w)
    PROVE  TypeOK'
<1>1. Leave(w) /\ UNCHANGED relations
  BY DEF Abort
<1>. QED  BY <1>1, LeaveType DEF TypeOK, relations

LEMMA InitType == Init => TypeOK
BY NoDeltaFields DEF Init, TypeOK, Stages

-----------------------------------------------------------------------------
(* One owner per row.                                                      *)

\* Workers that do not run have decided nothing.
LEMMA NothingToSave ==
    ASSUME TypeOK, NEW w \in Workers, stage[w] \in {"idle", "asked"}
    PROVE  writes[w].on = {} /\ held[w] = {}
BY NoDeltaFields DEF TypeOK

LEMMA InitOwned == Init => Owned
BY NoDeltaFields DEF Init, Owned, ExclusiveOwnership, AskedKeys, DecidedApart, DecidedFree,
   DecidedLocked, DecidedCovered, LocksApart

LEMMA BeginOwned ==
    ASSUME TypeOK, Owned, NEW w \in Workers, NEW k \in Kinds, NEW cs \in SUBSET Cases,
           NEW R \in SUBSET Rows, NEW seen \in SUBSET Images,
           NEW keys \in SUBSET Keys, Begin(w, k, cs, R, seen, keys),
           k \in {"confirm", "supplement", "assign", "plan", "closure"} => R \subseteq keys,
           k = "withdraw" => \A b \in seen : b.rows \subseteq keys
    PROVE  Owned'
<1>1. /\ UNCHANGED <<active, members, held, writes>>
      /\ \A v \in Workers : v # w => /\ stage'[v] = stage[v] /\ kind'[v] = kind[v]
                                     /\ picked'[v] = picked[v] /\ known'[v] = known[v]
                                     /\ wanted'[v] = wanted[v]
      /\ stage'[w] = "asked" /\ kind'[w] = k /\ picked'[w] = R /\ known'[w] = seen
      /\ wanted'[w] = keys
  BY DEF Begin, relations, TypeOK
<1>2. writes[w].on = {}
  BY NothingToSave DEF Begin
<1>3. ExclusiveOwnership' /\ DecidedApart' /\ DecidedFree' /\ LocksApart'
  BY <1>1 DEF Owned, ExclusiveOwnership, DecidedApart, DecidedFree, LocksApart
<1>4. AskedKeys'
  BY <1>1 DEF Owned, AskedKeys
<1>5. DecidedLocked'
  BY <1>1, <1>2 DEF Owned, DecidedLocked
<1>6. DecidedCovered'
  BY <1>1, <1>2 DEF Owned, DecidedCovered, OwnRows
<1>. QED  BY <1>3, <1>4, <1>5, <1>6 DEF Owned

LEMMA TakeOwned ==
    ASSUME TypeOK, Owned, NEW w \in Workers, NEW next \in {"prepared", "read"},
           NEW d \in Deltas, NEW events \in SUBSET Events, Take(w, next, d, events),
           stage[w] = "asked", SafeDelta(w, d)
    PROVE  Owned'
<1>1. /\ UNCHANGED <<active, members, kind, picked, known, wanted>>
      /\ \A v \in Workers : v # w => /\ stage'[v] = stage[v] /\ held'[v] = held[v]
                                     /\ writes'[v] = writes[v]
      /\ stage'[w] = next /\ held'[w] = wanted[w] /\ writes'[w] = d
  BY DEF Take, relations, TypeOK
<1>2. \A v \in Workers : v # w => held[v] \cap wanted[w] = {}
  BY DEF Take, Free
<1>3. ExclusiveOwnership'
  BY <1>1 DEF Owned, ExclusiveOwnership
<1>4. AskedKeys'
  BY <1>1 DEF Owned, AskedKeys
<1>5. DecidedApart'
  BY <1>1 DEF Owned, DecidedApart, SafeDelta
<1>6. DecidedFree'
  BY <1>1 DEF Owned, DecidedFree, SafeDelta
<1>7. DecidedLocked'
  BY <1>1 DEF Owned, DecidedLocked, SafeDelta
<1>8. LocksApart'
  BY <1>1, <1>2 DEF Owned, LocksApart
<1>9. DecidedCovered'
  BY <1>1 DEF Owned, DecidedCovered, SafeDelta, OwnRows
<1>. QED  BY <1>3, <1>4, <1>5, <1>6, <1>7, <1>8, <1>9 DEF Owned

LEMMA LockMergedOwned ==
    ASSUME TypeOK, Owned, NEW w \in Workers, LockMerged(w)
    PROVE  Owned'
<1>1. PICK c \in target[w] :
        LET more == LockKeys(writes[w].rows[c], {c})
        IN  Free(w, more) /\ held' = [held EXCEPT ![w] = @ \cup more]
  BY DEF LockMerged
<1>. DEFINE more == LockKeys(writes[w].rows[c], {c})
<1>2. /\ UNCHANGED <<active, members, kind, picked, known, wanted, writes>>
      /\ \A v \in Workers : v # w => stage'[v] = stage[v] /\ held'[v] = held[v]
      /\ stage[w] = "prepared" /\ stage'[w] = "read" /\ held'[w] = held[w] \cup more
  BY <1>1 DEF LockMerged, relations, TypeOK
<1>3. \A v \in Workers : v # w => held[v] \cap more = {}
  BY <1>1 DEF Free
<1>. HIDE DEF more
<1>4. ExclusiveOwnership' /\ DecidedApart' /\ DecidedFree'
  BY <1>2 DEF Owned, ExclusiveOwnership, DecidedApart, DecidedFree
<1>5. AskedKeys'
  BY <1>2 DEF Owned, AskedKeys
<1>6. DecidedLocked'
  BY <1>2 DEF Owned, DecidedLocked
<1>7. LocksApart'
  BY <1>2, <1>3 DEF Owned, LocksApart
<1>8. DecidedCovered'
  BY <1>2 DEF Owned, DecidedCovered, OwnRows
<1>. QED  BY <1>4, <1>5, <1>6, <1>7, <1>8 DEF Owned

\* What a worker leaves behind, whatever happens to the relations.
LEMMA LeaveOwned ==
    ASSUME TypeOK, Owned, NEW w \in Workers, Leave(w)
    PROVE  /\ \A v \in Workers : v # w =>
                  /\ stage'[v] = stage[v] /\ kind'[v] = kind[v]
                  /\ held'[v] = held[v] /\ writes'[v] = writes[v]
           /\ writes'[w].on = {}
           /\ AskedKeys' /\ DecidedApart' /\ DecidedLocked' /\ LocksApart'
<1>1. /\ \A v \in Workers : v # w =>
            /\ stage'[v] = stage[v] /\ kind'[v] = kind[v] /\ held'[v] = held[v]
            /\ writes'[v] = writes[v] /\ picked'[v] = picked[v] /\ known'[v] = known[v]
            /\ wanted'[v] = wanted[v]
      /\ stage'[w] = "idle" /\ held'[w] = {} /\ writes'[w] = NoDelta
  BY DEF Leave, TypeOK
<1>2. writes'[w].on = {}
  BY <1>1, NoDeltaFields
<1>3. AskedKeys'
  BY <1>1 DEF Owned, AskedKeys
<1>4. DecidedApart'
  BY <1>1, <1>2 DEF Owned, DecidedApart
<1>5. DecidedLocked'
  BY <1>1, <1>2 DEF Owned, DecidedLocked
<1>6. LocksApart'
  BY <1>1 DEF Owned, LocksApart
<1>. QED  BY <1>1, <1>2, <1>3, <1>4, <1>5, <1>6

LEMMA AbortOwned ==
    ASSUME TypeOK, Owned, NEW w \in Workers, Abort(w)
    PROVE  Owned'
<1>1. Leave(w) /\ UNCHANGED <<active, members>>
  BY DEF Abort, relations
<1>2. ExclusiveOwnership'
  BY <1>1 DEF Owned, ExclusiveOwnership
<1>3. DecidedFree'
  BY <1>1, LeaveOwned DEF Owned, DecidedFree
<1>4. DecidedCovered'
  BY <1>1, LeaveOwned DEF Owned, DecidedCovered, OwnRows
<1>. QED  BY <1>1, <1>2, <1>3, <1>4, LeaveOwned DEF Owned

\* A row two commands give away is under the locks of both, or it is of a
\* relation that one of them rewrites and the other leaves as it is.
LEMMA NothingTwice ==
    ASSUME Owned, NEW v \in Workers, NEW w \in Workers, v # w,
           NEW c \in writes[v].on, NEW e \in writes[w].on,
           Rewritten(v) \cap Rewritten(w) = {}
    PROVE  writes[v].rows[c] \cap writes[w].rows[e] = {}
<1>. SUFFICES ASSUME NEW r \in writes[v].rows[c], r \in writes[w].rows[e]
              PROVE  FALSE
  OBVIOUS
<1>1. r \notin OwnRows(writes[v])
  <2>1. \A x \in active \ (writes[w].on \cup writes[w].off) : r \notin members[x]
    BY DEF Owned, DecidedFree
  <2>. QED  BY <2>1 DEF OwnRows, Rewritten
<1>2. r \notin OwnRows(writes[w])
  <2>1. \A x \in active \ (writes[v].on \cup writes[v].off) : r \notin members[x]
    BY DEF Owned, DecidedFree
  <2>. QED  BY <2>1 DEF OwnRows, Rewritten
<1>3. r \in held[v] /\ r \in held[w]
  BY <1>1, <1>2 DEF Owned, DecidedCovered
<1>. QED  BY <1>3 DEF Owned, LocksApart

\* The save keeps rows apart, and what others have decided stays right: the
\* rows it gives away are under its own locks, and theirs under theirs, or
\* the relations it rewrites are not those the others rewrite.
LEMMA CommitOwned ==
    ASSUME TypeOK, Owned, NEW w \in Workers, Commit(w), ~Collision
    PROVE  Owned'
<1>. DEFINE d == writes[w]
<1>1. /\ d.on \subseteq Cases /\ d.off \subseteq Cases
      /\ active' = (active \ d.off) \cup d.on
      /\ \A c \in d.on : members'[c] = d.rows[c]
      /\ \A c \in active \ (d.on \cup d.off) : members'[c] = members[c]
      /\ stage[w] = "read" /\ Leave(w)
  BY DEF Commit, TypeOK, Deltas
<1>2. \A c, e \in d.on : c # e => d.rows[c] \cap d.rows[e] = {}
  BY DEF Owned, DecidedApart
<1>3. \A c \in d.on : \A e \in active \ (d.on \cup d.off) : d.rows[c] \cap members[e] = {}
  BY DEF Owned, DecidedFree
<1>4. \A c, e \in active : c # e => members[c] \cap members[e] = {}
  BY DEF Owned, ExclusiveOwnership
<1>5. ExclusiveOwnership'
  <2>. SUFFICES ASSUME NEW c \in active', NEW e \in active', c # e
                PROVE  members'[c] \cap members'[e] = {}
    BY DEF ExclusiveOwnership
  <2>1. CASE c \in d.on /\ e \in d.on
    BY <1>1, <1>2, <2>1
  <2>2. CASE c \in d.on /\ e \notin d.on
    BY <1>1, <1>3, <2>2
  <2>3. CASE c \notin d.on /\ e \in d.on
    BY <1>1, <1>3, <2>3
  <2>4. CASE c \notin d.on /\ e \notin d.on
    BY <1>1, <1>4, <2>4
  <2>. QED  BY <2>1, <2>2, <2>3, <2>4
<1>6. \A v \in Workers :
          v # w /\ (kind[v] \in PartlyLockingKinds \/ kind[w] \in PartlyLockingKinds) =>
              Rewritten(v) \cap Rewritten(w) = {}
  BY DEF Collision
<1>7. DecidedFree'
  <2>. SUFFICES ASSUME NEW v \in Workers, NEW c \in writes'[v].on,
                       NEW e \in active' \ (writes'[v].on \cup writes'[v].off)
                PROVE  writes'[v].rows[c] \cap members'[e] = {}
    BY DEF DecidedFree
  <2>1. v # w /\ writes'[v] = writes[v]
    BY <1>1, LeaveOwned
  <2>2. CASE e \in d.on
    <3>1. CASE kind[v] \in PartlyLockingKinds \/ kind[w] \in PartlyLockingKinds
      <4>1. writes[v].rows[c] \cap writes[w].rows[e] = {}
        BY <1>6, <2>1, <2>2, <3>1, NothingTwice
      <4>. QED  BY <1>1, <2>1, <2>2, <4>1
    <3>2. CASE kind[v] \notin PartlyLockingKinds /\ kind[w] \notin PartlyLockingKinds
      <4>1. writes[v].rows[c] \subseteq held[v] /\ d.rows[e] \subseteq held[w]
        BY <2>1, <2>2, <3>2 DEF Owned, DecidedLocked
      <4>2. held[v] \cap held[w] = {}
        BY <2>1 DEF Owned, LocksApart
      <4>. QED  BY <1>1, <2>1, <2>2, <4>1, <4>2
    <3>. QED  BY <3>1, <3>2
  <2>3. CASE e \notin d.on
    <3>1. e \in active \ (writes[v].on \cup writes[v].off) /\ members'[e] = members[e]
      BY <1>1, <2>1, <2>3
    <3>. QED  BY <2>1, <3>1 DEF Owned, DecidedFree
  <2>. QED  BY <2>2, <2>3
<1>8. DecidedCovered'
  <2>. SUFFICES ASSUME NEW v \in Workers, NEW c \in writes'[v].on
                PROVE  writes'[v].rows[c] \subseteq (held[v])' \cup (OwnRows(writes[v]))'
    BY DEF DecidedCovered
  <2>1. v # w /\ writes'[v] = writes[v] /\ held'[v] = held[v] /\ kind'[v] = kind[v]
    BY <1>1, LeaveOwned
  <2>2. CASE kind[v] \in PartlyLockingKinds
    <3>1. \A e \in active \cap (writes[v].on \cup writes[v].off) :
              e \in active' /\ members'[e] = members[e]
      BY <1>1, <1>6, <2>1, <2>2 DEF Rewritten
    <3>2. OwnRows(writes[v]) \subseteq (OwnRows(writes[v]))'
      BY <2>1, <3>1 DEF OwnRows
    <3>. QED  BY <2>1, <3>2 DEF Owned, DecidedCovered
  <2>3. CASE kind[v] \notin PartlyLockingKinds
    BY <2>1, <2>3 DEF Owned, DecidedLocked
  <2>. QED  BY <2>2, <2>3
<1>. QED  BY <1>1, <1>5, <1>7, <1>8, LeaveOwned DEF Owned

-----------------------------------------------------------------------------
(* What a command saves is newer than what it goes over.                   *)
(*                                                                         *)
(* The versions and the ends of allocated cases rest on a second           *)
(* argument.  A decision is made from the case as it is (GoodDelta).  The   *)
(* case stays as it was until the save: whoever gives it rows holds it     *)
(* and all its rows (OnHeld), whoever cancels it holds it or one of them   *)
(* (OffHeld), so that no two of them run side by side unless both cancel,  *)
(* and then they save the same.                                            *)

\* Relations and images of them were saved, and nothing else has rows.
SavedAreNumbered ==
    /\ \A c \in active : version[c] > 0
    /\ \A c \in Cases : version[c] = 0 => members[c] = {}
    /\ \A e \in undo : \A b \in e.before : version[b.case] > 0

\* A command writes only its own target or what was saved before.
WritesAreNumbered ==
    \A w \in Workers :
        /\ \A c \in writes[w].on \cup writes[w].off :
               writes[w].version[c] > 0 /\ (c \in target[w] \/ version[c] > 0)
        /\ \A e \in entry[w] : \A b \in e.before : version[b.case] > 0

\* An allocated case belongs to the command it was allocated for.
NewIsNew ==
    \A w \in Workers : kind[w] \in {"confirm", "closure"} =>
        \A c \in target[w] :
            /\ c \in FreshCases /\ version[c] = 0
            /\ \A v \in Workers : v # w => c \notin target[v]

\* What the keys of a command cover, and what it relies on.
AskedRight ==
    \A w \in Workers : stage[w] = "asked" =>
        /\ kind[w] \in {"confirm", "plan", "cancel", "withdraw"} => target[w] \subseteq wanted[w]
        /\ kind[w] = "release" => picked[w] \subseteq wanted[w]
        /\ kind[w] = "withdraw" => \A b \in known[w] : b.case \in wanted[w]
        /\ kind[w] = "plan" => \A c \in target[w] : c \in FreshCases => known[w] # {}
        /\ kind[w] = "assign" => target[w] \subseteq StableCases
        /\ kind[w] = "supplement" => target[w] \subseteq active

OnGrows ==
    \A w \in Workers : \A c \in FreshCases : c \in writes[w].on =>
        \/ writes[w].version[c] > version[c]
        \/ c \in active /\ writes[w].rows[c] = members[c]

OffAsRead ==
    \A w \in Workers : \A c \in FreshCases : c \in writes[w].off \ writes[w].on =>
        /\ writes[w].rows[c] = members[c]
        /\ c \in active => writes[w].version[c] = version[c] + 1

OnHeld ==
    \A w \in Workers : kind[w] \notin LooseKinds =>
        \A c \in FreshCases : c \in writes[w].on => c \in held[w] /\ members[c] \subseteq held[w]

OffHeld ==
    \A w \in Workers : kind[w] \notin LooseKinds =>
        \A c \in FreshCases : c \in writes[w].off \ writes[w].on =>
            c \in held[w] \/ members[c] \cap held[w] # {}

Forward ==
    /\ SavedAreNumbered /\ WritesAreNumbered /\ NewIsNew /\ AskedRight
    /\ OnGrows /\ OffAsRead /\ OnHeld /\ OffHeld

\* The deltas that are made from the cases as they are.
GoodDelta(w, d) ==
    /\ \A c \in d.on \cup d.off : d.version[c] > 0 /\ (c \in target[w] \/ version[c] > 0)
    /\ \A c \in FreshCases : c \in d.on =>
           d.version[c] > version[c] \/ (c \in active /\ d.rows[c] = members[c])
    /\ \A c \in FreshCases : c \in d.off \ d.on =>
           d.rows[c] = members[c] /\ d.version[c] = version[c] + 1
    /\ kind[w] \notin LooseKinds =>
           \A c \in FreshCases :
               /\ c \in d.on => c \in wanted[w] /\ members[c] \subseteq wanted[w]
               /\ c \in d.off \ d.on => c \in wanted[w] \/ members[c] \cap wanted[w] # {}

GoodEvents(events) == \A e \in events : \A b \in e.before : version[b.case] > 0

Rereads(w) ==
    \E next \in {"prepared", "read"}, d \in Deltas, events \in SUBSET Events :
        Take(w, next, d, events) /\ GoodDelta(w, d) /\ GoodEvents(events)

\* What a decision saves is made from the cases as they are.
LEMMA DeltaIsGood ==
    ASSUME TypeOK, Forward, NEW w \in Workers,
           NEW on \in SUBSET Cases, NEW off \in SUBSET Cases,
           NEW rowsOf \in [on -> SUBSET Rows], NEW versionOf \in [on -> Nat],
           off \subseteq active,
           \A c \in on : versionOf[c] > 0 /\ (c \in target[w] \/ version[c] > 0),
           \A c \in FreshCases : c \in on =>
               versionOf[c] > version[c] \/ (c \in active /\ rowsOf[c] = members[c]),
           kind[w] \notin LooseKinds =>
               \A c \in FreshCases :
                   /\ c \in on => c \in wanted[w] /\ members[c] \subseteq wanted[w]
                   /\ c \in off \ on => c \in wanted[w] \/ members[c] \cap wanted[w] # {}
    PROVE  /\ Delta(on, off, rowsOf, versionOf) \in Deltas
           /\ GoodDelta(w, Delta(on, off, rowsOf, versionOf))
<1>. DEFINE d == Delta(on, off, rowsOf, versionOf)
<1>1. /\ d \in Deltas /\ d.on = on /\ d.off = off
      /\ \A c \in on : d.rows[c] = rowsOf[c]
  BY ONLY TypeOK, on \in SUBSET Cases, off \in SUBSET Cases,
     rowsOf \in [on -> SUBSET Rows], versionOf \in [on -> Nat], DeltaFields
<1>2. /\ \A c \in on : d.version[c] = versionOf[c]
      /\ \A c \in off \ on : d.rows[c] = members[c] /\ d.version[c] = version[c] + 1
  BY DEF Delta
<1>3. \A c \in off : version[c] > 0 /\ version[c] \in Nat
  BY DEF Forward, SavedAreNumbered, TypeOK
<1>. HIDE DEF d
<1>4. \A c \in d.on \cup d.off : d.version[c] > 0 /\ (c \in target[w] \/ version[c] > 0)
  <2>. SUFFICES ASSUME NEW c \in on \cup off
                PROVE  d.version[c] > 0 /\ (c \in target[w] \/ version[c] > 0)
    BY <1>1
  <2>1. CASE c \in on
    BY <1>2, <2>1
  <2>2. CASE c \in off \ on
    BY <1>2, <1>3, <2>2
  <2>. QED  BY <2>1, <2>2
<1>5. \A c \in FreshCases : c \in d.on =>
          d.version[c] > version[c] \/ (c \in active /\ d.rows[c] = members[c])
  BY <1>1, <1>2
<1>6. \A c \in FreshCases : c \in d.off \ d.on =>
          d.rows[c] = members[c] /\ d.version[c] = version[c] + 1
  BY <1>1, <1>2
<1>7. kind[w] \notin LooseKinds =>
          \A c \in FreshCases :
              /\ c \in d.on => c \in wanted[w] /\ members[c] \subseteq wanted[w]
              /\ c \in d.off \ d.on => c \in wanted[w] \/ members[c] \cap wanted[w] # {}
  BY <1>1
<1>8. GoodDelta(w, d)
  BY <1>4, <1>5, <1>6, <1>7 DEF GoodDelta
<1>. QED  BY <1>1, <1>8 DEF d

\* A decision that only cancels is made from the cases as they are.
LEMMA CancellingIsGood ==
    ASSUME TypeOK, Forward, NEW w \in Workers, NEW off \in SUBSET active,
           \A c \in off : c \in wanted[w] \/ members[c] \cap wanted[w] # {}
    PROVE  /\ Delta({}, off, <<>>, <<>>) \in Deltas
           /\ GoodDelta(w, Delta({}, off, <<>>, <<>>))
<1>. DEFINE rs == [c \in Cases |-> IF c \in off THEN members[c] ELSE {}]
            vs == [c \in Cases |-> IF c \in off THEN version[c] + 1 ELSE 0]
            d == [on |-> {}, off |-> off, rows |-> rs, version |-> vs]
<1>0. off \subseteq Cases /\ \A c \in off : version[c] > 0 /\ version[c] \in Nat
  BY DEF TypeOK, Forward, SavedAreNumbered
<1>1. rs \in [Cases -> SUBSET Rows] /\ vs \in [Cases -> Nat]
  BY DEF TypeOK
<1>2. \A c \in off : rs[c] = members[c] /\ vs[c] = version[c] + 1
  BY <1>0
<1>3. Delta({}, off, <<>>, <<>>) = d
  BY DEF Delta
<1>. HIDE DEF rs, vs
<1>4. d \in Deltas
  BY <1>0, <1>1 DEF Deltas
<1>5. \A c \in off : vs[c] > 0
  BY <1>0, <1>2
<1>6. GoodDelta(w, d)
  BY <1>0, <1>2, <1>5 DEF GoodDelta
<1>. QED  BY <1>3, <1>4, <1>6


\* A decision that gives rows to one case the command names.
LEMMA OneCaseIsGood ==
    ASSUME TypeOK, Forward, NEW w \in Workers, NEW c \in Cases, c \in target[w],
           NEW off \in SUBSET active,
           NEW rowsOf \in [{c} -> SUBSET Rows], NEW versionOf \in [{c} -> Nat],
           versionOf[c] > 0,
           c \in FreshCases =>
               versionOf[c] > version[c] \/ (c \in active /\ rowsOf[c] = members[c]),
           kind[w] \notin LooseKinds /\ c \in FreshCases =>
               c \in wanted[w] /\ members[c] \subseteq wanted[w],
           kind[w] \notin LooseKinds =>
               \A x \in off : x \in wanted[w] \/ members[x] \cap wanted[w] # {}
    PROVE  /\ Delta({c}, off, rowsOf, versionOf) \in Deltas
           /\ GoodDelta(w, Delta({c}, off, rowsOf, versionOf))
<1>1. PICK on : on = {c}
  OBVIOUS
<1>2. /\ on \in SUBSET Cases /\ off \in SUBSET Cases /\ off \subseteq active
      /\ rowsOf \in [on -> SUBSET Rows] /\ versionOf \in [on -> Nat]
  BY <1>1 DEF TypeOK
<1>3. \A x \in on : versionOf[x] > 0 /\ (x \in target[w] \/ version[x] > 0)
  BY <1>1
<1>4. \A x \in FreshCases : x \in on =>
          versionOf[x] > version[x] \/ (x \in active /\ rowsOf[x] = members[x])
  BY <1>1
<1>5. kind[w] \notin LooseKinds =>
          \A x \in FreshCases :
              /\ x \in on => x \in wanted[w] /\ members[x] \subseteq wanted[w]
              /\ x \in off \ on => x \in wanted[w] \/ members[x] \cap wanted[w] # {}
  BY <1>1
<1>6. /\ Delta(on, off, rowsOf, versionOf) \in Deltas
      /\ GoodDelta(w, Delta(on, off, rowsOf, versionOf))
  BY ONLY TypeOK, Forward, w \in Workers, <1>2, <1>3, <1>4, <1>5, DeltaIsGood
<1>. QED  BY <1>1, <1>6

\* Replacing the owners of rows by one case, which is active or new.
LEMMA ReplaceIsGood ==
    ASSUME TypeOK, Forward, NEW w \in Workers, NEW c \in Cases, c \in target[w],
           NEW R \in SUBSET Rows, R \subseteq wanted[w],
           c \in active \/ version[c] = 0,
           kind[w] \notin LooseKinds => c \in wanted[w] /\ members[c] \subseteq wanted[w]
    PROVE  ReplaceDelta(c, R) \in Deltas /\ GoodDelta(w, ReplaceDelta(c, R))
<1>. DEFINE off == OwnersOf(R) \ {c}
            rowsOf == [d \in {c} |-> R]
            versionOf == [d \in {c} |-> IF c \in active THEN version[c] + 2 ELSE 1]
<1>1. off \in SUBSET active /\ \A x \in off : members[x] \cap wanted[w] # {}
  BY DEF OwnersOf
<1>2. version[c] \in Nat
  BY DEF TypeOK
<1>3. /\ rowsOf \in [{c} -> SUBSET Rows] /\ versionOf \in [{c} -> Nat]
      /\ versionOf[c] > 0 /\ versionOf[c] > version[c]
  BY <1>2
<1>4. ReplaceDelta(c, R) = Delta({c}, off, rowsOf, versionOf)
  BY DEF ReplaceDelta
<1>. HIDE DEF off, rowsOf, versionOf
<1>. QED  BY <1>1, <1>3, <1>4, OneCaseIsGood

LEMMA LooseKindsAre == LooseKinds = {"remove", "metadata", "closure", "supplement"}
BY DEF LooseKinds, PartlyLockingKinds

\* A new case is nobody's relation.
LEMMA NewIsNobodys ==
    ASSUME TypeOK, Forward, NEW w \in Workers, kind[w] \in {"confirm", "closure"},
           NEW c \in target[w]
    PROVE  c \in Cases /\ version[c] = 0 /\ c \notin active /\ members[c] = {}
BY DEF TypeOK, Forward, NewIsNew, SavedAreNumbered

LEMMA ConfirmRereads ==
    ASSUME TypeOK, AskedKeys, Forward, NEW w \in Workers, TakeConfirm(w)
    PROVE  Rereads(w)
<1>1. PICK c \in target[w] :
        Take(w, "read", ReplaceDelta(c, picked[w]),
             {[case |-> c, rows |-> picked[w],
               before |-> StillOwned(known[w], picked[w])]})
  BY DEF TakeConfirm
<1>. DEFINE events == {[case |-> c, rows |-> picked[w],
                        before |-> StillOwned(known[w], picked[w])]}
<1>2. /\ picked[w] \in SUBSET Rows /\ picked[w] \subseteq wanted[w]
      /\ kind[w] = "confirm" /\ stage[w] = "asked"
  BY DEF TypeOK, AskedKeys, TakeConfirm, Asked
<1>3. c \in Cases /\ version[c] = 0 /\ members[c] = {}
  BY <1>2, NewIsNobodys
<1>4. c \in wanted[w]
  BY <1>2 DEF Forward, AskedRight
<1>5. ReplaceDelta(c, picked[w]) \in Deltas /\ GoodDelta(w, ReplaceDelta(c, picked[w]))
  BY <1>2, <1>3, <1>4, ReplaceIsGood
<1>6. StillOwned(known[w], picked[w]) \in SUBSET Images
  BY DEF TypeOK, StillOwned
<1>7. events \in SUBSET Events
  BY <1>2, <1>3, <1>6, EventType
<1>8. GoodEvents(events)
  BY DEF GoodEvents, StillOwned, Forward, SavedAreNumbered
<1>. HIDE DEF events
<1>9. Take(w, "read", ReplaceDelta(c, picked[w]), events)
  BY <1>1 DEF events
<1>. QED  BY <1>5, <1>7, <1>8, <1>9 DEF Rereads

LEMMA NoEvents == {} \in SUBSET Events /\ GoodEvents({})
BY DEF GoodEvents

LEMMA SupplementRereads ==
    ASSUME TypeOK, AskedKeys, Forward, NEW w \in Workers, TakeSupplement(w)
    PROVE  Rereads(w)
<1>1. PICK c \in target[w] : Take(w, "read", ReplaceDelta(c, picked[w]), {})
  BY DEF TakeSupplement
<1>2. /\ c \in Cases /\ picked[w] \in SUBSET Rows /\ picked[w] \subseteq wanted[w]
      /\ kind[w] = "supplement" /\ stage[w] = "asked"
  BY DEF TypeOK, AskedKeys, TakeSupplement, Asked
<1>3. c \in active
  BY <1>2 DEF Forward, AskedRight
<1>4. ReplaceDelta(c, picked[w]) \in Deltas /\ GoodDelta(w, ReplaceDelta(c, picked[w]))
  BY <1>2, <1>3, ReplaceIsGood, LooseKindsAre
<1>. QED  BY <1>1, <1>4, NoEvents DEF Rereads

LEMMA AssignRereads ==
    ASSUME TypeOK, AskedKeys, Forward, NEW w \in Workers, TakeAssign(w)
    PROVE  Rereads(w)
<1>. DEFINE rowsOf(c) == [d \in {c} |-> picked[w]]
            versionOf(c) == [d \in {c} |-> IF c \notin active THEN 1
                                           ELSE IF members[c] = picked[w] THEN version[c]
                                           ELSE version[c] + 1]
<1>1. PICK c \in target[w] : Take(w, "read", Delta({c}, {}, rowsOf(c), versionOf(c)), {})
  BY DEF TakeAssign
<1>2. c \in Cases /\ picked[w] \in SUBSET Rows /\ kind[w] = "assign" /\ stage[w] = "asked"
  BY DEF TypeOK, TakeAssign, Asked
<1>3. c \notin FreshCases
  BY <1>2, ConstantsAssumption DEF Forward, AskedRight
<1>4. version[c] \in Nat /\ (c \in active => version[c] > 0)
  BY <1>2 DEF TypeOK, Forward, SavedAreNumbered
<1>5. /\ rowsOf(c) \in [{c} -> SUBSET Rows]
      /\ versionOf(c) \in [{c} -> Nat] /\ versionOf(c)[c] > 0
  BY <1>2, <1>4
<1>. HIDE DEF rowsOf, versionOf
<1>6. /\ Delta({c}, {}, rowsOf(c), versionOf(c)) \in Deltas
      /\ GoodDelta(w, Delta({c}, {}, rowsOf(c), versionOf(c)))
  BY <1>2, <1>3, <1>5, OneCaseIsGood
<1>. QED  BY <1>1, <1>6, NoEvents DEF Rereads

LEMMA PlanRereads ==
    ASSUME TypeOK, AskedKeys, Forward, NEW w \in Workers, TakePlan(w)
    PROVE  Rereads(w)
<1>. DEFINE rowsOf(c) == [d \in {c} |-> picked[w]]
            versionOf(c) == [d \in {c} |-> PlanVersion(w, c)]
            before(c) == IF known[w] = {} THEN {}
                         ELSE {b \in {ImageOf(c)} : b.rows # picked[w]}
<1>1. PICK c \in target[w] :
        /\ known[w] # {} => c \in active /\ members[c] \subseteq picked[w]
        /\ \/ Take(w, "read", NoDelta, {})
           \/ Take(w, "read", Delta({c}, {}, rowsOf(c), versionOf(c)),
                   {[case |-> c, rows |-> picked[w], before |-> before(c)]})
  BY DEF TakePlan
<1>2. /\ c \in Cases /\ picked[w] \in SUBSET Rows /\ picked[w] \subseteq wanted[w]
      /\ kind[w] = "plan" /\ stage[w] = "asked"
  BY DEF TypeOK, AskedKeys, TakePlan, Asked
<1>3. CASE Take(w, "read", NoDelta, {})
  <2>1. GoodDelta(w, NoDelta)
    BY NoDeltaFields DEF GoodDelta
  <2>. QED  BY <1>3, <2>1, NoDeltaFields, NoEvents DEF Rereads
<1>4. CASE Take(w, "read", Delta({c}, {}, rowsOf(c), versionOf(c)),
                {[case |-> c, rows |-> picked[w], before |-> before(c)]})
  <2>1. version[c] \in Nat /\ (c \in active => version[c] > 0)
    BY <1>2 DEF TypeOK, Forward, SavedAreNumbered
  <2>2. c \in wanted[w] /\ (c \in FreshCases => known[w] # {})
    BY <1>2 DEF Forward, AskedRight
  <2>3. /\ PlanVersion(w, c) \in Nat /\ PlanVersion(w, c) > 0
        /\ known[w] # {} => PlanVersion(w, c) > version[c]
    BY <2>1 DEF PlanVersion
  <2>4. /\ rowsOf(c) \in [{c} -> SUBSET Rows]
        /\ versionOf(c) \in [{c} -> Nat] /\ versionOf(c)[c] = PlanVersion(w, c)
    BY <1>2, <2>3
  <2>5. before(c) \in SUBSET Images /\ \A b \in before(c) : version[b.case] > 0
    BY <1>1, <1>2, <2>1, ImageType
  <2>. HIDE DEF rowsOf, versionOf, before
  <2>6. {[case |-> c, rows |-> picked[w], before |-> before(c)]} \in SUBSET Events
    BY <1>2, <2>5, EventType
  <2>7. GoodEvents({[case |-> c, rows |-> picked[w], before |-> before(c)]})
    BY <2>5 DEF GoodEvents
  <2>8. c \in FreshCases => members[c] \subseteq wanted[w]
    BY <1>1, <1>2, <2>2
  <2>9. /\ Delta({c}, {}, rowsOf(c), versionOf(c)) \in Deltas
        /\ GoodDelta(w, Delta({c}, {}, rowsOf(c), versionOf(c)))
    BY <1>2, <2>2, <2>3, <2>4, <2>8, OneCaseIsGood
  <2>. QED  BY <1>4, <2>6, <2>7, <2>9 DEF Rereads
<1>. QED  BY <1>1, <1>3, <1>4

LEMMA CancelRereads ==
    ASSUME TypeOK, Forward, NEW w \in Workers, TakeCancel(w) \/ TakeRelease(w)
    PROVE  Rereads(w)
<1>1. PICK off \in SUBSET active :
        /\ Take(w, "read", Delta({}, off, <<>>, <<>>), {})
        /\ \A c \in off : c \in wanted[w] \/ members[c] \cap wanted[w] # {}
  <2>1. CASE TakeCancel(w)
    BY <2>1 DEF TakeCancel, Asked, Forward, AskedRight
  <2>2. CASE TakeRelease(w)
    <3>1. picked[w] \subseteq wanted[w]
      BY <2>2 DEF TakeRelease, Asked, Forward, AskedRight
    <3>2. \A c \in OwnersOf(picked[w]) : c \in active /\ members[c] \cap wanted[w] # {}
      BY <3>1 DEF OwnersOf
    <3>. QED  BY <2>2, <3>2 DEF TakeRelease
  <2>. QED  BY <2>1, <2>2
<1>. QED  BY <1>1, CancellingIsGood, NoEvents DEF Rereads

\* A withdrawal brings back cases whose locked history is still their state,
\* with versions beyond those they have.
LEMMA WithdrawRereads ==
    ASSUME TypeOK, AskedKeys, Forward, NEW w \in Workers, TakeWithdraw(w)
    PROVE  Rereads(w)
<1>1. PICK c \in target[w] :
        /\ c \in active
        /\ SameTopology(w, c)
        /\ CanRestore(c, Restorable(c))
        /\ Take(w, "read", WithdrawDelta(c, Restorable(c)), {})
  BY DEF TakeWithdraw
<1>. DEFINE P == Restorable(c)
            on == CasesOf(P)
            off == {c} \ on
            Of(d) == CHOOSE b \in P : b.case = d
            rowsOf == [d \in on |-> Of(d).rows]
            versionOf == [d \in on |-> RestoredVersion(Of(d), c)]
            delta == Delta(on, off, rowsOf, versionOf)
<1>2. c \in Cases /\ kind[w] = "withdraw" /\ stage[w] = "asked"
  BY DEF TypeOK, TakeWithdraw, Asked
<1>3. P \subseteq Images
  BY <1>2, RestorableType
<1>4. \A b \in P \cup {ImageOf(c)} : b.rows \subseteq wanted[w] /\ b.case \in wanted[w]
  <2>1. P \cup {ImageOf(c)} \subseteq known[w]
    BY <1>1 DEF SameTopology
  <2>. QED  BY <2>1, <1>2 DEF AskedKeys, Forward, AskedRight
<1>5. \A d \in on : Of(d) \in P /\ Of(d).case = d
  BY DEF CasesOf
<1>6. \A b \in P : b.case \in Cases /\ b.rows \in SUBSET Rows /\ b.version \in Nat
  BY <1>3 DEF Images
<1>7. on \in SUBSET Cases /\ off \in SUBSET Cases /\ off \subseteq active
  BY <1>1, <1>2, <1>6 DEF CasesOf
<1>8. \A b \in P : /\ RestoredVersion(b, c) \in Nat
                   /\ RestoredVersion(b, c) > 0
                   /\ RestoredVersion(b, c) > version[b.case]
  BY <1>2, <1>6 DEF RestoredVersion, Greater, TypeOK
<1>9. \A b \in P : version[b.case] > 0
  <2>. SUFFICES ASSUME NEW b \in P
                PROVE  version[b.case] > 0
    OBVIOUS
  <2>1. PICK e \in undo : b \in e.before
    BY DEF Restorable
  <2>. QED  BY <2>1 DEF Forward, SavedAreNumbered
<1>10. c \in wanted[w] /\ members[c] \subseteq wanted[w]
  BY <1>2, <1>4, ImageType
<1>11. \A b \in P : b.case # c => members[b.case] = b.rows
  BY <1>1 DEF CanRestore
<1>. HIDE DEF Of, P
<1>12. rowsOf \in [on -> SUBSET Rows] /\ versionOf \in [on -> Nat]
  BY <1>5, <1>6, <1>8
<1>13. \A d \in on : versionOf[d] = RestoredVersion(Of(d), c)
  OBVIOUS
<1>14. WithdrawDelta(c, P) = delta
  BY DEF WithdrawDelta, Of
<1>15. \A d \in off : d = c
  OBVIOUS
<1>. HIDE DEF on, off, rowsOf, versionOf
<1>16. \A d \in on : versionOf[d] > 0 /\ (d \in target[w] \/ version[d] > 0)
  BY <1>5, <1>8, <1>9, <1>13
<1>17. \A d \in FreshCases : d \in on =>
           versionOf[d] > version[d] \/ (d \in active /\ rowsOf[d] = members[d])
  BY <1>5, <1>8, <1>13
<1>18. \A d \in on : d \in wanted[w] /\ members[d] \subseteq wanted[w]
  <2>. SUFFICES ASSUME NEW d \in on
                PROVE  d \in wanted[w] /\ members[d] \subseteq wanted[w]
    OBVIOUS
  <2>1. CASE d = c
    BY <1>10, <2>1
  <2>2. CASE d # c
    BY <1>4, <1>5, <1>11, <2>2
  <2>. QED  BY <2>1, <2>2
<1>19. kind[w] \notin LooseKinds =>
           \A x \in FreshCases :
               /\ x \in on => x \in wanted[w] /\ members[x] \subseteq wanted[w]
               /\ x \in off \ on => x \in wanted[w] \/ members[x] \cap wanted[w] # {}
  BY <1>10, <1>15, <1>18
<1>20. delta \in Deltas /\ GoodDelta(w, delta)
  BY ONLY TypeOK, Forward, w \in Workers, <1>7, <1>12, <1>16, <1>17, <1>19, DeltaIsGood
<1>21. Take(w, "read", delta, {})
  BY <1>1, <1>14 DEF P
<1>. HIDE DEF delta
<1>. QED  BY <1>20, <1>21, NoEvents DEF Rereads

LEMMA RemoveRereads ==
    ASSUME TypeOK, Forward, NEW w \in Workers, TakeRemove(w)
    PROVE  Rereads(w)
<1>. DEFINE found == OwnersOf(picked[w])
            on == {c \in found : Cardinality(members[c] \ picked[w]) >= 2}
            off == found \ on
            rowsOf == [c \in on |-> members[c] \ picked[w]]
            versionOf == [c \in on |-> version[c] + 2]
            delta == Delta(on, off, rowsOf, versionOf)
<1>1. Take(w, "read", delta, {}) /\ kind[w] = "remove"
  BY DEF TakeRemove, Asked
<1>2. found \in SUBSET Cases /\ found \subseteq active
  BY OwnersType
<1>3. on \in SUBSET Cases /\ off \in SUBSET Cases /\ on \subseteq active /\ off \subseteq active
  BY <1>2
<1>. HIDE DEF on, off, found
<1>4. \A c \in on : version[c] \in Nat /\ version[c] > 0
  BY <1>3 DEF TypeOK, Forward, SavedAreNumbered
<1>5. rowsOf \in [on -> SUBSET Rows] /\ versionOf \in [on -> Nat]
  BY <1>3, <1>4 DEF TypeOK
<1>6. \A c \in on : versionOf[c] > version[c] /\ versionOf[c] > 0
  BY <1>4
<1>. HIDE DEF rowsOf, versionOf
<1>7. \A c \in on : versionOf[c] > 0 /\ (c \in target[w] \/ version[c] > 0)
  BY <1>4, <1>6
<1>8. \A c \in FreshCases : c \in on =>
          versionOf[c] > version[c] \/ (c \in active /\ rowsOf[c] = members[c])
  BY <1>6
<1>9. kind[w] \in LooseKinds
  BY <1>1, LooseKindsAre
<1>10. delta \in Deltas /\ GoodDelta(w, delta)
  BY ONLY TypeOK, Forward, w \in Workers, <1>3, <1>5, <1>7, <1>8, <1>9, DeltaIsGood
<1>. HIDE DEF delta
<1>. QED  BY <1>1, <1>10, NoEvents DEF Rereads

LEMMA MetadataRereads ==
    ASSUME TypeOK, Forward, NEW w \in Workers, TakeMetadata(w)
    PROVE  Rereads(w)
<1>. DEFINE on == target[w]
            rowsOf == [c \in on |-> members[c]]
            versionOf == [c \in on |-> version[c]]
            delta == Delta(on, {}, rowsOf, versionOf)
<1>1. Take(w, "read", delta, {}) /\ kind[w] = "metadata"
  BY DEF TakeMetadata, Asked
<1>2. on \in SUBSET Cases /\ on \subseteq active
  BY DEF TakeMetadata, TypeOK
<1>3. \A c \in on : c \in target[w]
  OBVIOUS
<1>. HIDE DEF on
<1>4. \A c \in on : version[c] \in Nat /\ version[c] > 0
  BY <1>2 DEF TypeOK, Forward, SavedAreNumbered
<1>5. rowsOf \in [on -> SUBSET Rows] /\ versionOf \in [on -> Nat]
  BY <1>2, <1>4 DEF TypeOK
<1>6. \A c \in on : versionOf[c] = version[c] /\ rowsOf[c] = members[c]
  OBVIOUS
<1>. HIDE DEF rowsOf, versionOf
<1>7. \A c \in on : versionOf[c] > 0 /\ (c \in target[w] \/ version[c] > 0)
  BY <1>3, <1>4, <1>6
<1>8. \A c \in FreshCases : c \in on =>
          versionOf[c] > version[c] \/ (c \in active /\ rowsOf[c] = members[c])
  BY <1>2, <1>6
<1>9. kind[w] \in LooseKinds
  BY <1>1, LooseKindsAre
<1>10. {} \in SUBSET Cases /\ {} \subseteq active
  OBVIOUS
<1>11. delta \in Deltas /\ GoodDelta(w, delta)
  BY ONLY TypeOK, Forward, w \in Workers, <1>2, <1>5, <1>7, <1>8, <1>9, <1>10, DeltaIsGood
<1>. HIDE DEF delta
<1>. QED  BY <1>1, <1>11, NoEvents DEF Rereads

LEMMA ClosureRereads ==
    ASSUME TypeOK, Forward, NEW w \in Workers, TakeClosure(w)
    PROVE  Rereads(w)
<1>. DEFINE found == OwnersOf(picked[w])
            merged == picked[w] \cup UNION {members[d] : d \in found}
            rowsOf(c) == [d \in {c} |-> merged]
            versionOf(c) == [d \in {c} |-> IF c \in active THEN version[c] + 2 ELSE 1]
            before == {b \in {ImageOf(d) : d \in found} : b.rows # merged}
<1>1. PICK c \in target[w] :
        Take(w, "prepared", Delta({c}, found \ {c}, rowsOf(c), versionOf(c)),
             {[case |-> c, rows |-> merged, before |-> before]})
  BY DEF TakeClosure
<1>2. picked[w] \in SUBSET Rows /\ kind[w] = "closure"
  BY DEF TypeOK, TakeClosure, Asked
<1>3. c \in Cases /\ version[c] = 0 /\ c \notin active
  BY <1>2, NewIsNobodys
<1>4. found \in SUBSET Cases /\ found \subseteq active
  BY OwnersType
<1>5. merged \in SUBSET Rows /\ before \in SUBSET Images
  BY <1>2, <1>4, ImageType DEF TypeOK
<1>6. \A b \in before : version[b.case] > 0
  BY <1>4, ImageType DEF Forward, SavedAreNumbered
<1>7. /\ rowsOf(c) \in [{c} -> SUBSET Rows] /\ versionOf(c) \in [{c} -> Nat]
      /\ versionOf(c)[c] > 0 /\ versionOf(c)[c] > version[c]
  BY <1>3, <1>5
<1>. HIDE DEF found, merged, before, rowsOf, versionOf
<1>8. {[case |-> c, rows |-> merged, before |-> before]} \in SUBSET Events
  BY <1>3, <1>5, EventType
<1>9. GoodEvents({[case |-> c, rows |-> merged, before |-> before]})
  BY <1>6 DEF GoodEvents
<1>10. kind[w] \in LooseKinds /\ found \ {c} \in SUBSET active
  BY <1>2, <1>4, LooseKindsAre
<1>11. /\ Delta({c}, found \ {c}, rowsOf(c), versionOf(c)) \in Deltas
       /\ GoodDelta(w, Delta({c}, found \ {c}, rowsOf(c), versionOf(c)))
  BY <1>3, <1>7, <1>10, OneCaseIsGood
<1>. QED  BY <1>1, <1>8, <1>9, <1>11 DEF Rereads

LEMMA DecidesOnWhatItReads ==
    ASSUME TypeOK, Owned, Forward, NEW w \in Workers, Decide(w)
    PROVE  Rereads(w)
BY ConfirmRereads, SupplementRereads, AssignRereads, PlanRereads, CancelRereads,
   WithdrawRereads, RemoveRereads, MetadataRereads, ClosureRereads DEF Owned, Decide

-----------------------------------------------------------------------------
(* What commands rely on when they ask.                                    *)

\* What the arguments of a command and its keys have to do with the cases.
SaidRight(k, cs, R, seen, keys) ==
    /\ k \in {"confirm", "plan", "cancel", "withdraw"} => cs \subseteq keys
    /\ k = "release" => R \subseteq keys
    /\ k = "withdraw" => \A b \in seen : b.case \in keys
    /\ k = "plan" => \A c \in cs : c \in FreshCases => seen # {}
    /\ k = "assign" => cs \subseteq StableCases
    /\ k = "supplement" => cs \subseteq active
    /\ k \in {"confirm", "closure"} => \A c \in cs : c \in FreshCases /\ version[c] = 0
    /\ \A c \in cs : \/ c \in StableCases
                     \/ c \in active
                     \/ \A v \in Workers : c \notin target[v]

\* The keys of a command contain its rows and its cases.
LEMMA KeysCover ==
    ASSUME NEW R, NEW cs
    PROVE  R \subseteq LockKeys(R, cs) /\ cs \subseteq LockKeys(R, cs)
BY DEF LockKeys

LEMMA AskIsRight ==
    ASSUME TypeOK, NEW w \in Workers, Ask(w)
    PROVE  SaidRight(kind'[w], target'[w], picked'[w], known'[w], wanted'[w])
<1>. DEFINE Goal == SaidRight(kind'[w], target'[w], picked'[w], known'[w], wanted'[w])
<1>0. ASSUME NEW k, NEW cs, NEW R, NEW seen, NEW keys, Begin(w, k, cs, R, seen, keys)
      PROVE  /\ kind'[w] = k /\ target'[w] = cs /\ picked'[w] = R /\ known'[w] = seen
             /\ wanted'[w] = keys
  BY <1>0 DEF Begin, TypeOK
<1>1. ASSUME NEW c \in Cases, AskAssign(w, c) PROVE Goal
  <2>1. Begin(w, "assign", {c}, StableRows[c], {}, LockKeys(StableRows[c], {c}))
        /\ c \in StableCases
    BY <1>1 DEF AskAssign
  <2>. QED  BY <2>1, <1>0, KeysCover DEF SaidRight
<1>2. ASSUME NEW c \in Cases, AskCancel(w, c) PROVE Goal
  <2>1. Begin(w, "cancel", {c}, {}, {}, LockKeys({}, {c})) /\ c \in active
    BY <1>2 DEF AskCancel
  <2>. QED  BY <2>1, <1>0, KeysCover DEF SaidRight
<1>3. ASSUME NEW c \in Cases, AskWithdraw(w, c) PROVE Goal
  <2>. DEFINE R == members[c] \cup RowsOf(Restorable(c))
              cs == {c} \cup CasesOf(Restorable(c))
              seen == {ImageOf(c)} \cup Restorable(c)
  <2>1. Begin(w, "withdraw", {c}, {}, seen, LockKeys(R, cs)) /\ c \in active
    BY <1>3 DEF AskWithdraw
  <2>2. {c} \subseteq cs /\ \A b \in seen : b.case \in cs
    BY ImageType DEF CasesOf
  <2>. HIDE DEF R, cs, seen
  <2>3. cs \subseteq LockKeys(R, cs)
    BY KeysCover
  <2>4. /\ kind'[w] = "withdraw" /\ target'[w] = {c} /\ known'[w] = seen
        /\ wanted'[w] = LockKeys(R, cs)
    BY <2>1, <1>0
  <2>. QED  BY <2>1, <2>2, <2>3, <2>4 DEF SaidRight
<1>4. ASSUME NEW c \in Cases, AskMetadata(w, c) PROVE Goal
  <2>1. Begin(w, "metadata", {c}, {}, {}, {}) /\ c \in active
    BY <1>4 DEF AskMetadata
  <2>. QED  BY <2>1, <1>0 DEF SaidRight
<1>5. ASSUME NEW c \in Cases, NEW r \in Rows, AskSupplement(w, c, r) PROVE Goal
  <2>1. /\ Begin(w, "supplement", {c}, members[c] \cup {r}, {ImageOf(c)},
                 LockKeys(members[c] \cup {r}, {c}))
        /\ c \in active
    BY <1>5 DEF AskSupplement
  <2>. QED  BY <2>1, <1>0 DEF SaidRight
<1>6. ASSUME NEW c \in Cases, NEW R \in SUBSET Rows, AskConfirm(w, c, R) PROVE Goal
  <2>1. /\ \E cs \in SUBSET OwnersOf(R) :
               Begin(w, "confirm", {c}, R, {ImageOf(d) : d \in cs}, LockKeys(R, {c}))
        /\ c \in FreshCases /\ version[c] = 0 /\ \A v \in Workers : c \notin target[v]
    BY <1>6 DEF AskConfirm
  <2>. QED  BY <2>1, <1>0, KeysCover DEF SaidRight
<1>7. ASSUME NEW c \in Cases, NEW R \in SUBSET Rows, AskPlan(w, c, R) PROVE Goal
  <2>. DEFINE seen == IF c \in active THEN {ImageOf(c)} ELSE {}
  <2>1. /\ Begin(w, "plan", {c}, R, seen, LockKeys(R, {c}))
        /\ c \in StableCases \/ c \in active
    BY <1>7 DEF AskPlan
  <2>2. c \in FreshCases => seen # {}
    BY <2>1, ConstantsAssumption
  <2>. HIDE DEF seen
  <2>. QED  BY <2>1, <2>2, <1>0, KeysCover DEF SaidRight
<1>8. ASSUME NEW c \in Cases, NEW R \in SUBSET Rows, AskClosure(w, c, R) PROVE Goal
  <2>1. /\ Begin(w, "closure", {c}, R, {}, LockKeys(R, {}))
        /\ c \in FreshCases /\ version[c] = 0 /\ \A v \in Workers : c \notin target[v]
    BY <1>8 DEF AskClosure
  <2>. QED  BY <2>1, <1>0 DEF SaidRight
<1>9. ASSUME NEW R \in SUBSET Rows, AskRelease(w, R) PROVE Goal
  <2>1. Begin(w, "release", {}, R, {}, LockKeys(R, {}))
    BY <1>9 DEF AskRelease
  <2>. QED  BY <2>1, <1>0, KeysCover DEF SaidRight
<1>10. ASSUME NEW R \in SUBSET Rows, AskRemove(w, R) PROVE Goal
  <2>1. Begin(w, "remove", {}, R, {}, LockKeys(R, {}))
    BY <1>10 DEF AskRemove
  <2>. QED  BY <2>1, <1>0 DEF SaidRight
<1>. HIDE DEF Goal
<1>11. Goal
  BY <1>1, <1>2, <1>3, <1>4, <1>5, <1>6, <1>7, <1>8, <1>9, <1>10 DEF Ask
<1>. QED  BY <1>11 DEF Goal

-----------------------------------------------------------------------------
(* The second invariant is kept.                                           *)

LEMMA NoDeltaSavesNothing ==
    ASSUME TypeOK, NEW w \in Workers, stage[w] \in {"idle", "asked"}
    PROVE  writes[w].on = {} /\ writes[w].off = {} /\ entry[w] = {}
BY NoDeltaFields DEF TypeOK

LEMMA InitForward == Init => Forward
BY NoDeltaFields DEF Init, Forward, SavedAreNumbered, WritesAreNumbered, NewIsNew, AskedRight,
   OnGrows, OffAsRead, OnHeld, OffHeld

LEMMA AskForward ==
    ASSUME TypeOK, Forward, NEW w \in Workers, Ask(w)
    PROVE  Forward'
<1>1. PICK k \in Kinds, cs \in SUBSET Cases, R \in SUBSET Rows,
           seen \in SUBSET Images, keys \in SUBSET Keys :
        Begin(w, k, cs, R, seen, keys)
  BY AskCovers
<1>2. /\ UNCHANGED <<active, members, version, undo, held, writes, entry>>
      /\ \A v \in Workers : v # w => /\ stage'[v] = stage[v] /\ kind'[v] = kind[v]
                                     /\ picked'[v] = picked[v] /\ known'[v] = known[v]
                                     /\ wanted'[v] = wanted[v] /\ target'[v] = target[v]
      /\ stage[w] = "idle" /\ stage'[w] = "asked" /\ target'[w] = cs
  BY <1>1 DEF Begin, relations, TypeOK
<1>3. SaidRight(kind'[w], target'[w], picked'[w], known'[w], wanted'[w])
  BY AskIsRight
<1>4. writes[w].on = {} /\ writes[w].off = {} /\ entry[w] = {}
  BY <1>2, NoDeltaSavesNothing
<1>5. SavedAreNumbered'
  BY <1>2 DEF Forward, SavedAreNumbered
<1>6. WritesAreNumbered'
  <2>. SUFFICES ASSUME NEW v \in Workers
                PROVE  /\ \A c \in writes'[v].on \cup writes'[v].off :
                              /\ writes'[v].version[c] > 0
                              /\ c \in target'[v] \/ version'[c] > 0
                       /\ \A e \in entry'[v] : \A b \in e.before : version'[b.case] > 0
    BY DEF WritesAreNumbered
  <2>. QED  BY <1>2, <1>4 DEF Forward, WritesAreNumbered
<1>7. NewIsNew'
  <2>1. \A v \in Workers : v # w /\ kind[v] \in {"confirm", "closure"} =>
            \A c \in target[v] : c \notin cs
    <3>. SUFFICES ASSUME NEW v \in Workers, kind[v] \in {"confirm", "closure"},
                         NEW c \in target[v], c \in cs
                  PROVE  FALSE
      OBVIOUS
    <3>1. c \in FreshCases /\ c \notin active
      BY NewIsNobodys DEF Forward, NewIsNew
    <3>2. c \in StableCases \/ c \in active \/ \A u \in Workers : c \notin target[u]
      BY <1>2, <1>3 DEF SaidRight
    <3>. QED  BY <3>1, <3>2, ConstantsAssumption
  <2>2. kind'[w] \in {"confirm", "closure"} =>
            \A c \in cs : c \in FreshCases /\ version[c] = 0 /\
                          \A v \in Workers : v # w => c \notin target[v]
    <3>. SUFFICES ASSUME kind'[w] \in {"confirm", "closure"}, NEW c \in cs,
                         NEW v \in Workers, v # w
                  PROVE  c \in FreshCases /\ version[c] = 0 /\ c \notin target[v]
      BY <1>2, <1>3 DEF SaidRight
    <3>1. c \in FreshCases /\ version[c] = 0
      BY <1>2, <1>3 DEF SaidRight
    <3>2. c \notin active /\ c \notin StableCases
      BY <3>1, ConstantsAssumption DEF TypeOK, Forward, SavedAreNumbered
    <3>. QED  BY <1>2, <1>3, <3>1, <3>2 DEF SaidRight
  <2>. QED  BY <1>2, <2>1, <2>2 DEF Forward, NewIsNew
<1>8. AskedRight'
  BY <1>2, <1>3 DEF Forward, AskedRight, SaidRight
<1>9. OnGrows' /\ OffAsRead'
  BY <1>2 DEF Forward, OnGrows, OffAsRead
<1>10. OnHeld'
  BY <1>2, <1>4 DEF Forward, OnHeld
<1>11. OffHeld'
  BY <1>2, <1>4 DEF Forward, OffHeld
<1>. QED  BY <1>5, <1>6, <1>7, <1>8, <1>9, <1>10, <1>11 DEF Forward

LEMMA TakeForward ==
    ASSUME TypeOK, Forward, NEW w \in Workers, NEW next \in {"prepared", "read"},
           NEW d \in Deltas, NEW events \in SUBSET Events, Take(w, next, d, events),
           stage[w] = "asked", GoodDelta(w, d), GoodEvents(events)
    PROVE  Forward'
<1>1. /\ UNCHANGED <<active, members, version, undo, kind, target, picked, known, wanted>>
      /\ \A v \in Workers : v # w => /\ stage'[v] = stage[v] /\ held'[v] = held[v]
                                     /\ writes'[v] = writes[v] /\ entry'[v] = entry[v]
      /\ stage'[w] = next /\ held'[w] = wanted[w] /\ writes'[w] = d /\ entry'[w] = events
  BY DEF Take, relations, TypeOK
<1>2. SavedAreNumbered'
  BY <1>1 DEF Forward, SavedAreNumbered
<1>3. WritesAreNumbered'
  <2>1. \A c \in d.on \cup d.off : d.version[c] > 0 /\ (c \in target[w] \/ version[c] > 0)
    BY DEF GoodDelta
  <2>2. \A e \in events : \A b \in e.before : version[b.case] > 0
    BY DEF GoodEvents
  <2>. QED  BY <1>1, <2>1, <2>2 DEF Forward, WritesAreNumbered
<1>4. NewIsNew'
  BY <1>1 DEF Forward, NewIsNew
<1>5. AskedRight'
  BY <1>1 DEF Forward, AskedRight
<1>6. OnGrows'
  BY <1>1 DEF Forward, OnGrows, GoodDelta
<1>7. OffAsRead'
  BY <1>1 DEF Forward, OffAsRead, GoodDelta
<1>8. OnHeld'
  BY <1>1 DEF Forward, OnHeld, GoodDelta
<1>9. OffHeld'
  BY <1>1 DEF Forward, OffHeld, GoodDelta
<1>. QED  BY <1>2, <1>3, <1>4, <1>5, <1>6, <1>7, <1>8, <1>9 DEF Forward

LEMMA LockMergedForward ==
    ASSUME TypeOK, Forward, NEW w \in Workers, LockMerged(w)
    PROVE  Forward'
<1>1. /\ UNCHANGED <<active, members, version, undo, kind, target, picked, known, wanted,
                     writes, entry>>
      /\ \A v \in Workers : v # w => stage'[v] = stage[v]
      /\ \A v \in Workers : held[v] \subseteq held'[v]
      /\ stage'[w] = "read"
  BY DEF LockMerged, relations, TypeOK
<1>2. SavedAreNumbered' /\ WritesAreNumbered' /\ NewIsNew'
  BY <1>1 DEF Forward, SavedAreNumbered, WritesAreNumbered, NewIsNew
<1>3. AskedRight'
  BY <1>1 DEF Forward, AskedRight
<1>4. OnGrows' /\ OffAsRead'
  BY <1>1 DEF Forward, OnGrows, OffAsRead
<1>5. OnHeld'
  BY <1>1 DEF Forward, OnHeld
<1>6. OffHeld'
  BY <1>1 DEF Forward, OffHeld
<1>. QED  BY <1>2, <1>3, <1>4, <1>5, <1>6 DEF Forward

\* What a worker leaves behind, whatever happens to the relations.
LEMMA LeaveFrame ==
    ASSUME TypeOK, NEW w \in Workers, Leave(w)
    PROVE  /\ \A v \in Workers : v # w =>
                  /\ stage'[v] = stage[v] /\ kind'[v] = kind[v] /\ target'[v] = target[v]
                  /\ picked'[v] = picked[v] /\ known'[v] = known[v]
                  /\ wanted'[v] = wanted[v] /\ held'[v] = held[v]
                  /\ writes'[v] = writes[v] /\ entry'[v] = entry[v]
           /\ stage'[w] = "idle" /\ kind'[w] = "none" /\ target'[w] = {}
           /\ writes'[w].on = {} /\ writes'[w].off = {} /\ entry'[w] = {}
BY NoDeltaFields DEF Leave, TypeOK

LEMMA AbortForward ==
    ASSUME TypeOK, Forward, NEW w \in Workers, Abort(w)
    PROVE  Forward'
<1>1. Leave(w) /\ UNCHANGED <<active, members, version, undo>>
  BY DEF Abort, relations
<1>2. SavedAreNumbered'
  BY <1>1 DEF Forward, SavedAreNumbered
<1>3. WritesAreNumbered'
  BY <1>1, LeaveFrame DEF Forward, WritesAreNumbered
<1>4. NewIsNew'
  BY <1>1, LeaveFrame DEF Forward, NewIsNew
<1>5. AskedRight'
  BY <1>1, LeaveFrame DEF Forward, AskedRight
<1>6. OnGrows' /\ OffAsRead'
  BY <1>1, LeaveFrame DEF Forward, OnGrows, OffAsRead
<1>7. OnHeld' /\ OffHeld'
  BY <1>1, LeaveFrame DEF Forward, OnHeld, OffHeld
<1>. QED  BY <1>2, <1>3, <1>4, <1>5, <1>6, <1>7 DEF Forward

\* Two decisions that are saved one after the other touch no allocated case
\* in common, unless both cancel it, and then they read the same of it.
LEMMA OthersUntouched ==
    ASSUME TypeOK, Owned, Forward, NEW w \in Workers, Commit(w),
           ~Encounter, NEW v \in Workers, v # w, NEW c \in FreshCases,
           c \in writes[v].on \cup writes[v].off
    PROVE  /\ members'[c] = members[c]
           /\ c \in writes[v].on => version'[c] = version[c] /\ (c \in active <=> c \in active')
           /\ c \in active' => c \in active /\ version'[c] = version[c]
<1>. DEFINE d == writes[w]
            e == writes[v]
<1>0. c \in Cases
  BY DEF Cases
<1>1. /\ active' = (active \ d.off) \cup d.on
      /\ c \in d.on \cup d.off => members'[c] = d.rows[c]
      /\ c \notin d.on \cup d.off => members'[c] = members[c] /\ version'[c] = version[c]
  BY <1>0 DEF Commit
<1>2. CASE kind[v] \in LooseKinds \/ kind[w] \in LooseKinds
  <2>1. InHand(v) \cap InHand(w) = {}
    BY <1>2 DEF Encounter
  <2>2. c \notin d.on \cup d.off
    BY <2>1 DEF InHand, Rewritten
  <2>. QED  BY <1>1, <2>2
<1>3. CASE kind[v] \notin LooseKinds /\ kind[w] \notin LooseKinds
  <2>1. held[v] \cap held[w] = {}
    BY DEF Owned, LocksApart
  <2>2. /\ c \in d.on => c \in held[w] /\ members[c] \subseteq held[w]
        /\ c \in d.off \ d.on => c \in held[w] \/ members[c] \cap held[w] # {}
        /\ c \in e.on => c \in held[v] /\ members[c] \subseteq held[v]
        /\ c \in e.off \ e.on => c \in held[v] \/ members[c] \cap held[v] # {}
    BY <1>3 DEF Forward, OnHeld, OffHeld
  <2>. HIDE DEF e
  <2>3. c \notin d.on
    BY <2>1, <2>2 DEF e
  <2>4. c \in d.off => c \notin e.on /\ d.rows[c] = members[c]
    <3>1. c \in d.off => d.rows[c] = members[c]
      BY <2>3 DEF Forward, OffAsRead
    <3>2. c \in d.off => c \notin e.on
      BY <2>1, <2>2, <2>3
    <3>. QED  BY <3>1, <3>2
  <2>. QED  BY <1>1, <2>3, <2>4 DEF e
<1>. QED  BY <1>2, <1>3

LEMMA CommitForward ==
    ASSUME TypeOK, Owned, Forward, NEW w \in Workers, Commit(w), ~Encounter
    PROVE  Forward'
<1>. DEFINE d == writes[w]
<1>1. /\ active' = (active \ d.off) \cup d.on
      /\ \A c \in d.on \cup d.off : c \in Cases /\ members'[c] = d.rows[c] /\ version'[c] = d.version[c]
      /\ \A c \in Cases : c \notin d.on \cup d.off => members'[c] = members[c] /\ version'[c] = version[c]
      /\ undo' \subseteq undo \cup entry[w]
      /\ stage[w] = "read" /\ Leave(w)
  BY DEF Commit, TypeOK, Deltas
<1>2. /\ \A c \in d.on \cup d.off : d.version[c] > 0 /\ (c \in target[w] \/ version[c] > 0)
      /\ \A e \in entry[w] : \A b \in e.before : version[b.case] > 0
  BY DEF Forward, WritesAreNumbered
<1>3. \A e \in undo \cup entry[w] : \A b \in e.before : b.case \in Cases
  BY DEF TypeOK, Events, Images
<1>4. \A c \in Cases : version[c] > 0 => version'[c] > 0
  BY <1>1, <1>2
<1>5. SavedAreNumbered'
  <2>1. \A c \in active' : version'[c] > 0
    BY <1>1, <1>2 DEF Forward, SavedAreNumbered, TypeOK
  <2>2. \A c \in Cases : version'[c] = 0 => members'[c] = {}
    BY <1>1, <1>2 DEF Forward, SavedAreNumbered
  <2>3. \A e \in undo' : \A b \in e.before : version'[b.case] > 0
    BY <1>1, <1>2, <1>3, <1>4 DEF Forward, SavedAreNumbered
  <2>. QED  BY <2>1, <2>2, <2>3 DEF SavedAreNumbered
<1>6. WritesAreNumbered'
  <2>. SUFFICES ASSUME NEW v \in Workers, v # w
                PROVE  /\ \A c \in writes'[v].on \cup writes'[v].off :
                              /\ writes'[v].version[c] > 0
                              /\ c \in target'[v] \/ version'[c] > 0
                       /\ \A e \in entry'[v] : \A b \in e.before : version'[b.case] > 0
    BY <1>1, LeaveFrame DEF WritesAreNumbered
  <2>1. writes'[v] = writes[v] /\ target'[v] = target[v] /\ entry'[v] = entry[v]
    BY <1>1, LeaveFrame
  <2>2. writes[v].on \cup writes[v].off \subseteq Cases
    BY DEF TypeOK, Deltas
  <2>3. \A e \in entry[v] : \A b \in e.before : b.case \in Cases
    BY DEF TypeOK, Events, Images
  <2>4. \A c \in writes[v].on \cup writes[v].off :
            writes[v].version[c] > 0 /\ (c \in target[v] \/ version[c] > 0)
    BY DEF Forward, WritesAreNumbered
  <2>5. \A e \in entry[v] : \A b \in e.before : version[b.case] > 0
    BY DEF Forward, WritesAreNumbered
  <2>6. \A c \in writes[v].on \cup writes[v].off :
            writes[v].version[c] > 0 /\ (c \in target[v] \/ version'[c] > 0)
    BY <1>4, <2>2, <2>4
  <2>7. \A e \in entry[v] : \A b \in e.before : version'[b.case] > 0
    BY <1>4, <2>3, <2>5
  <2>. QED  BY <2>1, <2>6, <2>7
<1>7. NewIsNew'
  <2>. SUFFICES ASSUME NEW v \in Workers, kind'[v] \in {"confirm", "closure"},
                       NEW c \in target'[v]
                PROVE  /\ c \in FreshCases /\ version'[c] = 0
                       /\ \A u \in Workers : u # v => c \notin target'[u]
    BY DEF NewIsNew
  <2>1. v # w /\ kind[v] \in {"confirm", "closure"} /\ c \in target[v]
    BY <1>1, LeaveFrame
  <2>2. /\ c \in FreshCases /\ version[c] = 0
        /\ \A u \in Workers : u # v => c \notin target[u]
    BY <2>1 DEF Forward, NewIsNew
  <2>3. c \in Cases /\ c \notin d.on \cup d.off
    BY <1>2, <2>1, <2>2 DEF Cases
  <2>4. version'[c] = 0
    BY <1>1, <2>2, <2>3
  <2>5. \A u \in Workers : u # v => c \notin target'[u]
    BY <1>1, <2>2, LeaveFrame
  <2>. QED  BY <2>2, <2>4, <2>5
<1>8. AskedRight'
  <2>. SUFFICES ASSUME NEW v \in Workers, stage'[v] = "asked"
                PROVE  /\ kind'[v] \in {"confirm", "plan", "cancel", "withdraw"} =>
                              target'[v] \subseteq wanted'[v]
                       /\ kind'[v] = "release" => picked'[v] \subseteq wanted'[v]
                       /\ kind'[v] = "withdraw" => \A b \in known'[v] : b.case \in wanted'[v]
                       /\ kind'[v] = "plan" => \A c \in target'[v] : c \in FreshCases => known'[v] # {}
                       /\ kind'[v] = "assign" => target'[v] \subseteq StableCases
                       /\ kind'[v] = "supplement" => target'[v] \subseteq active'
    BY DEF AskedRight
  <2>1. /\ v # w /\ stage[v] = "asked"
        /\ kind'[v] = kind[v] /\ target'[v] = target[v] /\ picked'[v] = picked[v]
        /\ known'[v] = known[v] /\ wanted'[v] = wanted[v]
    BY <1>1, LeaveFrame
  <2>2. kind[v] = "supplement" => target[v] \subseteq active'
    <3>. SUFFICES ASSUME kind[v] = "supplement"
                  PROVE  target[v] \subseteq active'
      OBVIOUS
    <3>1. InHand(v) \cap InHand(w) = {}
      BY <2>1 DEF Encounter, LooseKinds
    <3>2. target[v] \cap d.off = {}
      BY <3>1 DEF InHand, Rewritten
    <3>3. target[v] \subseteq active
      BY <2>1 DEF Forward, AskedRight
    <3>. QED  BY <1>1, <3>2, <3>3
  <2>. QED  BY <2>1, <2>2 DEF Forward, AskedRight
<1>9. ASSUME NEW v \in Workers, v # w, NEW c \in FreshCases,
             c \in writes[v].on \cup writes[v].off
      PROVE  /\ members'[c] = members[c]
             /\ c \in writes[v].on => version'[c] = version[c] /\ (c \in active <=> c \in active')
             /\ c \in active' => c \in active /\ version'[c] = version[c]
  BY <1>9, OthersUntouched
<1>10. \A v \in Workers : v # w => writes'[v] = writes[v] /\ held'[v] = held[v] /\ kind'[v] = kind[v]
  BY <1>1, LeaveFrame
<1>11. writes'[w].on = {} /\ writes'[w].off = {}
  BY <1>1, LeaveFrame
<1>. HIDE DEF d
<1>12. OnGrows'
  BY <1>9, <1>10, <1>11 DEF Forward, OnGrows
<1>13. OffAsRead'
  BY <1>9, <1>10, <1>11 DEF Forward, OffAsRead
<1>14. OnHeld'
  BY <1>9, <1>10, <1>11 DEF Forward, OnHeld
<1>15. OffHeld'
  BY <1>9, <1>10, <1>11 DEF Forward, OffHeld
<1>. QED  BY <1>5, <1>6, <1>7, <1>8, <1>12, <1>13, <1>14, <1>15 DEF Forward

LEMMA StepForward ==
    ASSUME TypeOK, Owned, Forward, [Next]_vars, ~Encounter
    PROVE  Forward'
<1>1. CASE UNCHANGED vars
  <2>1. UNCHANGED <<active, members, version, undo, stage, kind, target, picked, known,
                    wanted, held, writes, entry>>
    BY <1>1 DEF vars, relations
  <2>2. SavedAreNumbered' /\ WritesAreNumbered' /\ NewIsNew'
    BY <2>1 DEF Forward, SavedAreNumbered, WritesAreNumbered, NewIsNew
  <2>3. AskedRight' /\ OnGrows' /\ OffAsRead'
    BY <2>1 DEF Forward, AskedRight, OnGrows, OffAsRead
  <2>4. OnHeld' /\ OffHeld'
    BY <2>1 DEF Forward, OnHeld, OffHeld
  <2>. QED  BY <2>2, <2>3, <2>4 DEF Forward
<1>2. ASSUME NEW w \in Workers, Ask(w) PROVE Forward'
  BY <1>2, AskForward
<1>3. ASSUME NEW w \in Workers, Decide(w) PROVE Forward'
  <2>1. stage[w] = "asked"
    BY <1>3 DEF Decide, TakeConfirm, TakeSupplement, TakeAssign, TakePlan, TakeCancel,
       TakeRelease, TakeWithdraw, TakeRemove, TakeMetadata, TakeClosure, Asked
  <2>. QED  BY <1>3, <2>1, DecidesOnWhatItReads, TakeForward DEF Rereads
<1>. QED  BY <1>1, <1>2, <1>3, LockMergedForward, CommitForward, AbortForward DEF Next

-----------------------------------------------------------------------------
(* What a step may do to an allocated case.                                *)

\* Only a save changes relations.
LEMMA OnlySavesChange ==
    ASSUME TypeOK, [Next]_vars
    PROVE  UNCHANGED relations \/ \E w \in Workers : Commit(w)
<1>1. ASSUME NEW w \in Workers, Ask(w) PROVE UNCHANGED relations
  BY <1>1, AskCovers DEF Begin
<1>2. ASSUME NEW w \in Workers, Decide(w) PROVE UNCHANGED relations
  BY <1>2 DEF Decide, TakeConfirm, TakeSupplement, TakeAssign, TakePlan, TakeCancel,
     TakeRelease, TakeWithdraw, TakeRemove, TakeMetadata, TakeClosure, Take
<1>3. ASSUME NEW w \in Workers, LockMerged(w) \/ Abort(w) PROVE UNCHANGED relations
  BY <1>3 DEF LockMerged, Abort
<1>. QED  BY <1>1, <1>2, <1>3 DEF Next, vars

\* A save of an allocated case moves its version on, or leaves its rows and
\* its status; it ends the case as the worker had read it.
LEMMA SavesMoveForward ==
    ASSUME TypeOK, Forward, NEW w \in Workers, Commit(w), NEW c \in FreshCases
    PROVE  /\ c \in active /\ c \notin active' =>
                  /\ stage[w] = "read" /\ stage'[w] = "idle"
                  /\ c \in writes[w].off
                  /\ writes[w].rows[c] = members[c]
                  /\ writes[w].version[c] = version[c] + 1
           /\ \/ version'[c] > version[c]
              \/ members'[c] = members[c] /\ (c \in active <=> c \in active')
<1>. DEFINE d == writes[w]
<1>1. c \in Cases /\ version[c] \in Nat
  BY DEF TypeOK, Cases
<1>2. /\ active' = (active \ d.off) \cup d.on
      /\ c \in d.on \cup d.off => members'[c] = d.rows[c] /\ version'[c] = d.version[c]
      /\ c \notin d.on \cup d.off => members'[c] = members[c] /\ version'[c] = version[c]
      /\ stage[w] = "read"
  BY <1>1 DEF Commit
<1>3. stage'[w] = "idle"
  BY LeaveFrame DEF Commit
<1>4. c \in d.on => d.version[c] > version[c] \/ (c \in active /\ d.rows[c] = members[c])
  BY DEF Forward, OnGrows
<1>5. c \in d.off \ d.on =>
          d.rows[c] = members[c] /\ (c \in active => d.version[c] = version[c] + 1)
  BY DEF Forward, OffAsRead
<1>. HIDE DEF d
<1>6. c \in active /\ c \notin active' => c \in d.off \ d.on
  BY <1>2
<1>7. \/ version'[c] > version[c]
      \/ members'[c] = members[c] /\ (c \in active <=> c \in active')
  <2>1. CASE c \in d.on
    BY <1>2, <1>4, <2>1
  <2>2. CASE c \in d.off \ d.on /\ c \in active
    BY <1>1, <1>2, <1>5, <2>2
  <2>3. CASE c \in d.off \ d.on /\ c \notin active
    BY <1>2, <1>5, <2>3
  <2>4. CASE c \notin d.on \cup d.off
    BY <1>2, <2>4
  <2>. QED  BY <2>1, <2>2, <2>3, <2>4
<1>. QED  BY <1>2, <1>3, <1>5, <1>6, <1>7 DEF d
-----------------------------------------------------------------------------
(* The theorems.                                                           *)

LEMMA StepType ==
    ASSUME TypeOK, [Next]_vars
    PROVE  TypeOK'
<1>1. CASE UNCHANGED vars
  BY <1>1 DEF vars, relations, TypeOK
<1>2. ASSUME NEW w \in Workers, Ask(w) PROVE TypeOK'
  BY <1>2, AskCovers, BeginType
<1>3. ASSUME NEW w \in Workers, Decide(w) PROVE TypeOK'
  BY <1>3, DecidesSafely, TakeType DEF Decided
<1>. QED  BY <1>1, <1>2, <1>3, LockMergedType, CommitType, AbortType DEF Next

LEMMA StepOwned ==
    ASSUME TypeOK, Owned, [Next]_vars, ~Collision
    PROVE  Owned'
<1>1. CASE UNCHANGED vars
  BY <1>1 DEF vars, relations, Owned, ExclusiveOwnership, AskedKeys, DecidedApart,
     DecidedFree, DecidedLocked, DecidedCovered, OwnRows, LocksApart
<1>2. ASSUME NEW w \in Workers, Ask(w) PROVE Owned'
  BY <1>2, AskCovers, BeginOwned
<1>3. ASSUME NEW w \in Workers, Decide(w) PROVE Owned'
  <2>1. stage[w] = "asked"
    BY <1>3 DEF Decide, TakeConfirm, TakeSupplement, TakeAssign, TakePlan, TakeCancel,
       TakeRelease, TakeWithdraw, TakeRemove, TakeMetadata, TakeClosure, Asked
  <2>. QED  BY <1>3, <2>1, DecidesSafely, TakeOwned DEF Decided
<1>. QED  BY <1>1, <1>2, <1>3, LockMergedOwned, CommitOwned, AbortOwned DEF Next

\* A collision is an encounter: what a command rewrites, it has in hand.
LEMMA CollisionIsEncounter == Collision => Encounter
BY DEF Collision, Encounter, InHand, LooseKinds

\* Locks and decisions live exactly from the lock statement to the end of
\* the transaction, for any rows, cases and workers, whatever overlaps.
THEOREM TypeCorrect == Spec => []TypeOK
<1>1. TypeOK /\ [Next]_vars => TypeOK'
  BY StepType
<1>. QED  BY <1>1, InitType, PTL DEF Spec

\* The first argument is inductive: it holds of every state, unless two
\* decisions rewrite one relation and one of them does not lock it. Without
\* fairness any history may stop before that, so it holds up to there.
THEOREM Invariance == Spec => [](TypeOK /\ Owned) \/ <>Collision
<1>1. Init => TypeOK /\ Owned
  BY InitType, InitOwned
<1>2. TypeOK /\ Owned /\ [Next]_vars /\ ~Collision => (TypeOK /\ Owned)'
  BY StepType, StepOwned
<1>. QED  BY <1>1, <1>2, PTL DEF Spec

\* A row belongs to at most one active relation, unless a removal of rows, a
\* requirement update or a turnover closure rewrites a relation that another
\* command rewrites too: the locks of every other command are enough,
\* whatever runs beside it.
THEOREM OwnershipIsExclusive == Spec => []ExclusiveOwnership \/ <>Collision
<1>1. TypeOK /\ Owned => ExclusiveOwnership
  BY DEF Owned
<1>. QED  BY <1>1, Invariance, PTL

\* The second argument is inductive as well, unless two commands have one
\* relation in hand and one of them did not read it under its lock.
THEOREM InvarianceForward == Spec => [](TypeOK /\ Owned /\ Forward) \/ <>Encounter
<1>1. Init => TypeOK /\ Owned /\ Forward
  BY InitType, InitOwned, InitForward
<1>2. TypeOK /\ Owned /\ Forward /\ [Next]_vars /\ ~Encounter => (TypeOK /\ Owned /\ Forward)'
  BY StepType, StepOwned, StepForward, CollisionIsEncounter
<1>. QED  BY <1>1, <1>2, PTL DEF Spec

\* A relation a person confirmed ends only by a command that had read it as
\* it was, unless a removal, a requirement update, a closure or a supplement
\* has a relation in hand together with another command: the save compares
\* nothing, and for all other commands the locks are enough.
THEOREM ConfirmedEndAsRead == Spec => EndsWhatItRead \/ <>Encounter
<1>. DEFINE Ends == \A c \in FreshCases :
              c \in active /\ c \notin active' =>
                  \E w \in Workers :
                      /\ stage[w] = "read" /\ stage'[w] = "idle"
                      /\ c \in writes[w].off
                      /\ writes[w].rows[c] = members[c]
                      /\ writes[w].version[c] = version[c] + 1
<1>1. TypeOK /\ Owned /\ Forward /\ [Next]_vars => [Ends]_vars
  <2>. SUFFICES ASSUME TypeOK, Owned, Forward, [Next]_vars
                PROVE  Ends
    OBVIOUS
  <2>1. CASE UNCHANGED relations
    BY <2>1 DEF relations
  <2>2. CASE \E w \in Workers : Commit(w)
    BY <2>2, SavesMoveForward
  <2>. QED  BY <2>1, <2>2, OnlySavesChange
<1>. QED  BY <1>1, InvarianceForward, PTL DEF Spec, EndsWhatItRead

\* The version of a relation a person confirmed grows with every change of
\* its rows or its status, with the same exception.
THEOREM ConfirmedVersionsGrow == Spec => VersionsMoveForward \/ <>Encounter
<1>. DEFINE Grows == \A c \in FreshCases :
              \/ version'[c] > version[c]
              \/ /\ members'[c] = members[c]
                 /\ c \in active <=> c \in active'
<1>1. TypeOK /\ Owned /\ Forward /\ [Next]_vars => [Grows]_vars
  <2>. SUFFICES ASSUME TypeOK, Owned, Forward, [Next]_vars
                PROVE  Grows
    OBVIOUS
  <2>1. CASE UNCHANGED relations
    BY <2>1 DEF relations
  <2>2. CASE \E w \in Workers : Commit(w)
    BY <2>2, SavesMoveForward
  <2>. QED  BY <2>1, <2>2, OnlySavesChange
<1>. QED  BY <1>1, InvarianceForward, PTL DEF Spec, VersionsMoveForward

=============================================================================
