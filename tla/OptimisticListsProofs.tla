----------------------- MODULE OptimisticListsProofs ------------------------
(***************************************************************************)
(* OptimisticLists for any number of branches, rows, operations and        *)
(* reloads.                                                                *)
(***************************************************************************)
EXTENDS OptimisticLists, FiniteSetTheorems, SequenceTheorems, TLAPS

-----------------------------------------------------------------------------
(* Sequences *)

LEMMA IsSeq ==
    ASSUME NEW S, NEW n \in Nat, NEW f \in [1..n -> S]
    PROVE  f \in Seq(S) /\ Len(f) = n
BY SeqDef

LEMMA RemoveAtLemma ==
    ASSUME NEW S, NEW s \in Seq(S), NEW k \in DOMAIN s
    PROVE  /\ RemoveAt(s, k) \in Seq(S)
           /\ Len(RemoveAt(s, k)) = Len(s) - 1
           /\ DOMAIN RemoveAt(s, k) = 1..(Len(s) - 1)
           /\ \A j \in 1..(Len(s) - 1) :
                 RemoveAt(s, k)[j] = IF j < k THEN s[j] ELSE s[j + 1]
<1> DEFINE a == SubSeq(s, 1, k - 1)
           b == SubSeq(s, k + 1, Len(s))
<1>1. a \in Seq(S) /\ Len(a) = k - 1 /\ \A j \in 1..(k - 1) : a[j] = s[j]
  BY SubSeqProperties
<1>2. b \in Seq(S) /\ Len(b) = Len(s) - k /\ \A j \in 1..(Len(s) - k) : b[j] = s[j + k]
  <2>1. /\ b \in Seq(S)
        /\ Len(b) = IF k + 1 <= Len(s) THEN Len(s) - (k + 1) + 1 ELSE 0
        /\ \A j \in 1..(Len(s) - (k + 1) + 1) : b[j] = s[(k + 1) + j - 1]
    BY SubSeqProperties
  <2>2. QED BY <2>1
<1> HIDE DEF a, b
<1>3. /\ a \o b \in Seq(S)
      /\ Len(a \o b) = Len(a) + Len(b)
      /\ \A j \in 1..(Len(a) + Len(b)) :
            (a \o b)[j] = IF j <= Len(a) THEN a[j] ELSE b[j - Len(a)]
  BY <1>1, <1>2, ConcatProperties
<1>4. RemoveAt(s, k) = a \o b
  BY DEF RemoveAt, a, b
<1>5. \A j \in 1..(Len(s) - 1) : (a \o b)[j] = IF j < k THEN s[j] ELSE s[j + 1]
  BY <1>1, <1>2, <1>3
<1>6. Len(a \o b) = Len(s) - 1 /\ DOMAIN (a \o b) = 1..(Len(s) - 1)
  BY <1>1, <1>2, <1>3, LenProperties
<1>7. QED BY <1>3, <1>4, <1>5, <1>6, Zenon

\* u is s with e put in at i.
PutIn(u, s, i, e) ==
    /\ Len(u) = Len(s) + 1
    /\ DOMAIN u = 1..(Len(s) + 1)
    /\ \A j \in 1..(Len(s) + 1) :
          u[j] = IF j < i THEN s[j] ELSE IF j = i THEN e ELSE s[j - 1]

LEMMA InsertAtLemma ==
    ASSUME NEW S, NEW s \in Seq(S), NEW i \in 1..(Len(s) + 1), NEW e \in S
    PROVE  /\ InsertAt(s, i, e) \in Seq(S)
           /\ PutIn(InsertAt(s, i, e), s, i, e)
<1> DEFINE a == SubSeq(s, 1, i - 1)
           b == SubSeq(s, i, Len(s))
           c == a \o <<e>>
<1>1. a \in Seq(S) /\ Len(a) = i - 1 /\ \A j \in 1..(i - 1) : a[j] = s[j]
  BY SubSeqProperties
<1>2. /\ b \in Seq(S) /\ Len(b) = Len(s) - i + 1
      /\ \A j \in 1..(Len(s) - i + 1) : b[j] = s[i + j - 1]
  BY SubSeqProperties
<1> HIDE DEF a, b
<1>3. /\ c \in Seq(S) /\ Len(c) = i
      /\ \A j \in 1..i : c[j] = IF j < i THEN a[j] ELSE e
  BY <1>1, ConcatProperties
<1> HIDE DEF c
<1>4. /\ c \o b \in Seq(S)
      /\ Len(c \o b) = Len(c) + Len(b)
      /\ \A j \in 1..(Len(c) + Len(b)) :
            (c \o b)[j] = IF j <= Len(c) THEN c[j] ELSE b[j - Len(c)]
  BY <1>2, <1>3, ConcatProperties
<1>5. InsertAt(s, i, e) = c \o b
  BY DEF InsertAt, a, b, c
<1>6. \A j \in 1..(Len(s) + 1) :
         (c \o b)[j] = IF j < i THEN s[j] ELSE IF j = i THEN e ELSE s[j - 1]
  BY <1>1, <1>2, <1>3, <1>4
<1>7. Len(c \o b) = Len(s) + 1 /\ DOMAIN (c \o b) = 1..(Len(s) + 1)
  BY <1>2, <1>3, <1>4, LenProperties
<1>8. QED BY <1>4, <1>5, <1>6, <1>7, Zenon DEF PutIn

LEMMA OpsLemma ==
    ASSUME TypeOK, NEW o \in DOMAIN ops, NEW op \in OpRecord
    PROVE  /\ Disturbing(o, op) \in Seq(OpRecord)
           /\ DOMAIN Disturbing(o, op) = DOMAIN ops
           /\ Moving(o, op) \in Seq(OpRecord)
           /\ DOMAIN Moving(o, op) = DOMAIN ops
<1>1. DOMAIN ops = 1..Len(ops) /\ Len(ops) \in Nat
  BY DEF TypeOK
<1>2. \A p \in DOMAIN ops : ops[p] \in OpRecord
  BY DEF TypeOK
<1>3. \A p \in DOMAIN ops :
         Op(ops[p].type, ops[p].at, ops[p].id, ops[p].text, ops[p].index, FALSE) \in OpRecord
  BY <1>2 DEF Op, OpRecord
<1>4. Disturbing(o, op) \in [1..Len(ops) -> OpRecord]
  BY <1>1, <1>3 DEF Disturbing
<1>5. Moving(o, op) \in [1..Len(ops) -> OpRecord]
  BY <1>1, <1>2 DEF Moving
<1>6. QED BY <1>1, <1>4, <1>5, SeqDef

LEMMA IsOp ==
    ASSUME NEW type \in {"add", "delete"}, NEW at \in {"tapped", "sent", "ok", "failed", "done"},
           NEW id \in Int, NEW text \in Text, NEW index \in Nat, NEW calm \in BOOLEAN
    PROVE  Op(type, at, id, text, index, calm) \in OpRecord
BY DEF Op, OpRecord

-----------------------------------------------------------------------------
(* Types *)

LEMMA AppendRow ==
    ASSUME ContentTypeOK, NEW kind \in Kind, NEW b \in Branch, NEW text \in Text,
           NEW at \in Nat, Insert(kind, b, text, at)
    PROVE  rows' \in Seq(RowRecord \cup {Gone})
BY DEF Insert, ContentTypeOK, RowRecord

LEMMA ContentInitType == ContentInit => ContentTypeOK
<1> SUFFICES ASSUME ContentInit PROVE ContentTypeOK
  OBVIOUS
<1>1. (CHOOSE text \in Text : TRUE) \in Text
  BY ContentAssumption
<1>2. QED BY <1>1 DEF ContentInit, ContentTypeOK, BranchRecord

LEMMA PointType ==
    ASSUME ContentTypeOK, NEW b \in Branch, NEW text \in Text
    PROVE  /\ CreatePickupPoint(b, text) => ContentTypeOK'
           /\ \A id : DeletePickupPoint(b, id) => ContentTypeOK'
<1>1. CreatePickupPoint(b, text) => ContentTypeOK'
  BY AppendRow DEF CreatePickupPoint, ContentTypeOK, Kind
<1>2. ASSUME NEW id, DeletePickupPoint(b, id) PROVE ContentTypeOK'
  <2>1. /\ rows' \in [1..Len(rows) -> RowRecord \cup {Gone}]
    BY <1>2 DEF DeletePickupPoint, DeleteWhere, ContentTypeOK
  <2>2. rows' \in Seq(RowRecord \cup {Gone})
    BY <2>1, SeqDef DEF ContentTypeOK
  <2>3. QED BY <1>2, <2>2 DEF DeletePickupPoint, ContentTypeOK
<1>3. QED BY <1>1, <1>2

LEMMA ContentNextType == ContentTypeOK /\ ContentNext => ContentTypeOK'
<1> SUFFICES ASSUME ContentTypeOK, ContentNext PROVE ContentTypeOK'
  OBVIOUS
<1>1. ASSUME rows' \in [1..Len(rows) -> RowRecord \cup {Gone}], UNCHANGED <<branches, now>>
      PROVE  ContentTypeOK'
  <2>1. Len(rows) \in Nat
    BY DEF ContentTypeOK
  <2>2. rows' \in Seq(RowRecord \cup {Gone})
    BY <1>1, <2>1, IsSeq
  <2>3. QED BY <1>1, <2>2 DEF ContentTypeOK
<1>2. ASSUME NEW b \in Branch, NEW text \in Text,
             \/ CreatePickupPoint(b, text)
             \/ \E at \in 0..MaxTime : CreateEvent(b, text, at) \/ CreateAlert(b, text, at)
             \/ AddPhoto(b, text)
      PROVE  ContentTypeOK'
  BY <1>2, AppendRow
     DEF CreatePickupPoint, CreateEvent, CreateAlert, AddPhoto, ContentTypeOK, Kind
<1>3. ASSUME NEW b \in Branch, NEW id,
             DeletePickupPoint(b, id) \/ DeleteEvent(b, id) \/ DeleteAlert(b, id) \/ DeletePhoto(b, id)
      PROVE  ContentTypeOK'
  <2>1. rows' \in [1..Len(rows) -> RowRecord \cup {Gone}] /\ UNCHANGED <<branches, now>>
    BY <1>3 DEF DeletePickupPoint, DeleteEvent, DeleteAlert, DeletePhoto, DeleteWhere,
                ContentTypeOK
  <2>2. QED BY <1>1, <2>1
<1>4. ASSUME NEW b \in Branch, NEW text \in Text,
             UpdateBranch(b, text) \/ UpdateServiceTimes(b, text)
                \/ \E times \in Text : CreateBranch(b, text, times)
      PROVE  ContentTypeOK'
  <2>1. \E record \in BranchRecord :
           branches' = [branches EXCEPT ![b] = record] /\ UNCHANGED <<rows, now>>
    <3>1. branches[b] # NoBranch => branches[b] \in BranchRecord
      BY DEF ContentTypeOK
    <3>2. \A record \in BranchRecord :
             /\ [record EXCEPT !.name = text] \in BranchRecord
             /\ [record EXCEPT !.times = text] \in BranchRecord
      BY DEF BranchRecord
    <3>3. \A times \in Text :
             [name |-> text, times |-> times, verified |-> TRUE] \in BranchRecord
      BY DEF BranchRecord
    <3>4. QED BY <1>4, <3>1, <3>2, <3>3 DEF UpdateBranch, UpdateServiceTimes, CreateBranch
  <2>2. QED BY <2>1 DEF ContentTypeOK
<1>5. ASSUME NEW b \in Branch, NEW id, NEW text \in Text, NEW active \in BOOLEAN,
             UpdatePickupPoint(b, id, text, active)
      PROVE  ContentTypeOK'
  <2>1. \A i \in DOMAIN rows : IsRow(i, "point", b) => rows[i].at \in Nat
    BY DEF IsRow, ContentTypeOK, RowRecord
  <2>2. rows' \in [1..Len(rows) -> RowRecord \cup {Gone}] /\ UNCHANGED <<branches, now>>
    BY <1>5, <2>1 DEF UpdatePickupPoint, ContentTypeOK, RowRecord, Kind
  <2>3. QED BY <1>1, <2>2
<1>6. CASE Tick
  BY <1>6 DEF Tick, ContentTypeOK
<1>7. QED BY <1>2, <1>3, <1>4, <1>5, <1>6 DEF ContentNext

\* The rows a list consists of.
LEMMA PointsLemma ==
    ASSUME ContentTypeOK
    PROVE  /\ GetPickupPoints(Here) \subseteq 1..Len(rows)
           /\ Len(rows) \in Nat
           /\ Cardinality(GetPickupPoints(Here)) \in Nat
<1>1. GetPickupPoints(Here) \subseteq 1..Len(rows) /\ Len(rows) \in Nat
  BY DEF GetPickupPoints, ContentTypeOK
<1>2. IsFiniteSet(1..Len(rows))
  BY <1>1, FS_Interval
<1>3. IsFiniteSet(GetPickupPoints(Here))
  BY <1>1, <1>2, FS_Subset
<1>4. QED BY <1>1, <1>3, FS_CardinalityType

LEMMA InitType == Init => TypeOK
<1> SUFFICES ASSUME Init PROVE TypeOK
  OBVIOUS
<1>1. ContentTypeOK
  BY ContentInitType DEF Init
<1>2. << >> \in Seq(Int) /\ << >> \in Seq(OpRecord)
  OBVIOUS
<1>3. loads \in Seq(LoadRecord)
  BY <1>2 DEF Init, LoadRecord
<1>4. QED BY <1>1, <1>2, <1>3, ListsAssumption DEF Init, TypeOK

LEMMA StartType ==
    ASSUME TypeOK,
           \/ \E text \in Text : TapAdd(text)
           \/ TapRetry
           \/ \E k \in DOMAIN items : TapDelete(items[k])
    PROVE  TypeOK'
<1>0. Len(ops) \in Nat /\ TempId \in Int /\ \A k \in DOMAIN items : items[k] \in Int
  BY DEF TypeOK, TempId
<1>1. \A type \in {"add", "delete"}, id \in Int :
         Append(ops, Op(type, "tapped", id, Blank, NoIndex, FALSE)) \in Seq(OpRecord)
  <2>1. \A op \in OpRecord : Append(ops, op) \in Seq(OpRecord)
    BY DEF TypeOK
  <2>2. QED BY <2>1, IsOp, ListsAssumption DEF NoIndex
<1>2. ops' \in Seq(OpRecord)
  BY <1>0, <1>1 DEF TapAdd, TapRetry, TapDelete, StartAdd
<1>3. UNCHANGED <<contentVars, bound, items, loads>> /\ calls' \in Nat
  <2>1. UNCHANGED <<contentVars, bound, items, loads>> /\ calls' = calls + 1
    BY Zenon DEF TapAdd, TapRetry, TapDelete, StartAdd, Tap
  <2>2. QED BY <2>1 DEF TypeOK, contentVars
<1>4. form' \in Text /\ adding' \in BOOLEAN /\ retry' \in BOOLEAN /\ trouble' \subseteq Troubles
  BY DEF TapAdd, TapRetry, TapDelete, StartAdd, TypeOK, Cause, Troubles
<1>5. QED BY <1>2, <1>3, <1>4 DEF TypeOK, ContentTypeOK, contentVars

LEMMA OpFields ==
    ASSUME TypeOK, NEW o \in DOMAIN ops
    PROVE  /\ ops[o].type \in {"add", "delete"}
           /\ ops[o].at \in {"tapped", "sent", "ok", "failed", "done"}
           /\ ops[o].id \in Int /\ ops[o].text \in Text /\ ops[o].index \in Nat
           /\ ops[o].calm \in BOOLEAN
<1>1. ops[o] \in OpRecord
  BY DEF TypeOK
<1>2. QED BY <1>1 DEF OpRecord

\* An operation goes on: the place, the text and the index are what may change.
LEMMA OpType ==
    ASSUME TypeOK, NEW o \in DOMAIN ops,
           NEW at \in {"tapped", "sent", "ok", "failed", "done"}, NEW text \in Text,
           NEW index \in Nat, NEW calm \in BOOLEAN
    PROVE  LET op == Op(ops[o].type, at, ops[o].id, text, index, calm) IN
           op \in OpRecord /\ Disturbing(o, op) \in Seq(OpRecord) /\ Moving(o, op) \in Seq(OpRecord)
<1>1. ops[o].type \in {"add", "delete"} /\ ops[o].id \in Int
  BY OpFields
<1>2. Op(ops[o].type, at, ops[o].id, text, index, calm) \in OpRecord
  BY <1>1, IsOp
<1>3. QED BY <1>2, OpsLemma

LEMMA LoadsType ==
    ASSUME TypeOK
    PROVE  StartLoad => loads' \in Seq(LoadRecord)
<1>1. [at |-> "sent", list |-> << >>] \in LoadRecord
  BY DEF LoadRecord
<1>2. QED BY <1>1 DEF StartLoad, TypeOK

LEMMA AddType ==
    ASSUME TypeOK, NEW o \in DOMAIN ops,
           ShowAdded(o) \/ ServeAdd(o) \/ AddSucceeds(o) \/ AddFails(o)
    PROVE  TypeOK'
<1>0. Blank \in Text /\ NoIndex \in Nat /\ FALSE \in BOOLEAN
  BY ListsAssumption DEF NoIndex
<1>1. CASE ShowAdded(o)
  <2>1. items' \in Seq(Int)
    BY <1>1, OpFields DEF ShowAdded, TypeOK
  <2>2. ops' \in Seq(OpRecord)
    BY <1>0, <1>1, OpType DEF ShowAdded, TypeOK
  <2>3. QED BY <1>1, <2>1, <2>2 DEF ShowAdded, TypeOK, ContentTypeOK, contentVars
<1>2. CASE ServeAdd(o)
  <2>1. ContentTypeOK'
    BY <1>2, PointType, OpFields, ContentAssumption DEF ServeAdd, TypeOK
  <2>2. ops' \in Seq(OpRecord)
    <3>1. \E told \in {"ok", "failed"} :
             ops' = Moving(o, Op("add", told, ops[o].id, ops[o].text, NoIndex, FALSE))
      BY <1>2, Zenon DEF ServeAdd
    <3>2. ops[o].type = "add" /\ ops[o].text \in Text
      BY <1>2, OpFields, Zenon DEF ServeAdd
    <3>3. QED BY <1>0, <3>1, <3>2, OpType
  <2>3. trouble' \subseteq Troubles
    BY <1>2 DEF ServeAdd, Cause, Troubles, TypeOK
  <2>4. QED BY <1>2, <2>1, <2>2, <2>3 DEF ServeAdd, TypeOK
<1>3. CASE AddSucceeds(o)
  <2>1. ops' \in Seq(OpRecord)
    BY <1>0, <1>3, OpType DEF AddSucceeds, Ended
  <2>2. QED BY <1>0, <1>3, <2>1, LoadsType
            DEF AddSucceeds, TypeOK, ContentTypeOK, contentVars
<1>4. CASE AddFails(o)
  <2>1. ops' \in Seq(OpRecord)
    BY <1>0, <1>4, OpType DEF AddFails, Ended
  <2>2. items' \in Seq(Int)
    BY <1>4, RemoveAtLemma DEF AddFails, TypeOK
  <2>3. QED BY <1>4, <2>1, <2>2 DEF AddFails, TypeOK, ContentTypeOK, contentVars
<1>5. QED BY <1>1, <1>2, <1>3, <1>4

LEMMA DeleteType ==
    ASSUME TypeOK, NEW o \in DOMAIN ops,
           \/ StartDelete(o) \/ DeleteThrows(o) \/ ServeDelete(o) \/ DeleteSucceeds(o)
           \/ DeleteFails(o) \/ DeleteFailsUnseen(o) \/ RequestFails(o)
    PROVE  TypeOK'
<1>0. /\ Blank \in Text /\ NoIndex \in Nat /\ FALSE \in BOOLEAN /\ TRUE \in BOOLEAN
      /\ \A k \in DOMAIN items : k \in Nat
  BY ListsAssumption DEF NoIndex, TypeOK
<1>1. CASE StartDelete(o)
  <2>1. items' \in Seq(Int)
    BY <1>1, RemoveAtLemma DEF StartDelete, TypeOK
  <2>2. ops' \in Seq(OpRecord)
    <3>1. ops[o].type = "delete"
      BY <1>1 DEF StartDelete
    <3>2. \A i \in Nat :
             Disturbing(o, Op("delete", "sent", ops[o].id, Blank, i, TRUE)) \in Seq(OpRecord)
      BY <1>0, <3>1, OpType
    <3>3. QED BY <1>0, <1>1, <3>2 DEF StartDelete
  <2>3. QED BY <1>1, <2>1, <2>2 DEF StartDelete, TypeOK, ContentTypeOK, contentVars
<1>2. CASE DeleteThrows(o)
  <2>1. ops' \in Seq(OpRecord)
    BY <1>0, <1>2, OpType DEF DeleteThrows, Ended
  <2>2. QED BY <1>2, <2>1 DEF DeleteThrows, TypeOK, ContentTypeOK, contentVars
<1>3. CASE ServeDelete(o)
  <2>1. ContentTypeOK'
    BY <1>3, PointType, ContentAssumption DEF ServeDelete, TypeOK
  <2>2. ops' \in Seq(OpRecord)
    <3>1. \E told \in {"ok", "failed"} :
             ops' = Moving(o, Op(ops[o].type, told, ops[o].id, Blank, ops[o].index, ops[o].calm))
      BY <1>3, Zenon DEF ServeDelete
    <3>2. ops[o].index \in Nat /\ ops[o].calm \in BOOLEAN
      BY OpFields
    <3>3. \A told \in {"ok", "failed"} :
             Moving(o, Op(ops[o].type, told, ops[o].id, Blank, ops[o].index, ops[o].calm))
                \in Seq(OpRecord)
      BY <1>0, <3>2, OpType
    <3>4. QED BY <3>1, <3>3
  <2>3. trouble' \subseteq Troubles
    BY <1>3 DEF ServeDelete, Cause, Troubles, TypeOK
  <2>4. QED BY <1>3, <2>1, <2>2, <2>3 DEF ServeDelete, TypeOK
<1>4. CASE DeleteSucceeds(o)
  <2>1. ops' \in Seq(OpRecord)
    BY <1>0, <1>4, OpType DEF DeleteSucceeds, Ended
  <2>2. QED BY <1>4, <2>1, LoadsType DEF DeleteSucceeds, TypeOK, ContentTypeOK, contentVars
<1>5. CASE DeleteFails(o) \/ DeleteFailsUnseen(o)
  <2>1. ops' \in Seq(OpRecord)
    BY <1>0, <1>5, OpType DEF DeleteFails, DeleteFailsUnseen, Ended
  <2>2. items' \in Seq(Int)
    <3>1. \/ items' = items
          \/ /\ ops[o].index \in 1..(Len(items) + 1)
             /\ items' = InsertAt(items, ops[o].index, ops[o].id)
      BY <1>5, Zenon DEF DeleteFails, DeleteFailsUnseen
    <3>2. ops[o].id \in Int /\ items \in Seq(Int)
      BY OpFields DEF TypeOK
    <3>3. QED BY <3>1, <3>2, InsertAtLemma
  <2>3. trouble' \subseteq Troubles
    BY <1>5 DEF DeleteFails, DeleteFailsUnseen, Cause, Troubles, TypeOK
  <2>4. QED BY <1>5, <2>1, <2>2, <2>3
            DEF DeleteFails, DeleteFailsUnseen, TypeOK, ContentTypeOK, contentVars
<1>6. CASE RequestFails(o)
  <2>1. ops' \in Seq(OpRecord)
    BY <1>6, OpType, OpFields DEF RequestFails
  <2>2. QED BY <1>6, <2>1 DEF RequestFails, TypeOK, ContentTypeOK, contentVars
<1>7. QED BY <1>1, <1>2, <1>3, <1>4, <1>5, <1>6

\* What the server answers a reload.
LEMMA AnswerLemma ==
    ASSUME TypeOK, NEW l \in DOMAIN loads, ServeLoad(l) \/ ServeLoadEmpty(l)
    PROVE  \E s \in Seq(Int) :
              /\ loads' = [loads EXCEPT ![l] = [at |-> "answered", list |-> s]]
              /\ \A k \in DOMAIN s : s[k] > 0
              /\ \A j, k \in DOMAIN s : s[j] = s[k] => j = k
<1>1. CASE ServeLoad(l)
  <2> DEFINE P == GetPickupPoints(Here)
  <2>1. P \subseteq 1..Len(rows) /\ Len(rows) \in Nat /\ Cardinality(P) \in Nat
    BY PointsLemma DEF TypeOK
  <2>2. PICK s \in [1..Cardinality(P) -> P] :
           Lists(s, P) /\ loads' = [loads EXCEPT ![l] = [at |-> "answered", list |-> s]]
    BY <1>1 DEF ServeLoad
  <2> HIDE DEF P
  <2>3. s \in [1..Cardinality(P) -> Int]
    BY <2>1, <2>2
  <2>4. s \in Seq(Int)
    BY <2>1, <2>3, IsSeq
  <2>5. \A k \in DOMAIN s : s[k] > 0 /\ s[k] \in Int /\ k \in Int
    BY <2>1, <2>2
  <2>6. \A j, k \in DOMAIN s : s[j] = s[k] => j = k
    BY <2>2, <2>5 DEF Lists
  <2>7. QED BY <2>2, <2>4, <2>5, <2>6
<1>2. CASE ServeLoadEmpty(l)
  <2>1. << >> \in Seq(Int)
    OBVIOUS
  <2>2. loads' = [loads EXCEPT ![l] = [at |-> "answered", list |-> << >>]]
    BY <1>2 DEF ServeLoadEmpty
  <2>3. \A k \in DOMAIN << >> : FALSE
    OBVIOUS
  <2>4. QED BY <2>1, <2>2, <2>3
<1>3. QED BY <1>1, <1>2

LEMMA LoadType ==
    ASSUME TypeOK, NEW l \in DOMAIN loads,
           ServeLoad(l) \/ ServeLoadEmpty(l) \/ LoadLost(l) \/ LoadArrives(l)
    PROVE  TypeOK'
<1>1. \A at \in {"answered", "arrived", "lost"}, s \in Seq(Int) :
         [loads EXCEPT ![l] = [at |-> at, list |-> s]] \in Seq(LoadRecord)
  <2>1. \A at \in {"answered", "arrived", "lost"}, s \in Seq(Int) :
           [at |-> at, list |-> s] \in LoadRecord
    BY DEF LoadRecord
  <2>2. QED BY <2>1 DEF TypeOK
<1>2. << >> \in Seq(Int)
  OBVIOUS
<1>3. CASE ServeLoad(l) \/ ServeLoadEmpty(l)
  <2>1. loads' \in Seq(LoadRecord)
    BY <1>1, <1>3, AnswerLemma
  <2>2. trouble' \subseteq Troubles
    BY <1>3 DEF ServeLoad, ServeLoadEmpty, Troubles, TypeOK
  <2>3. QED BY <1>3, <2>1, <2>2
            DEF ServeLoad, ServeLoadEmpty, TypeOK, ContentTypeOK, contentVars
<1>4. CASE LoadLost(l)
  BY <1>1, <1>2, <1>4 DEF LoadLost, Troubles, TypeOK, ContentTypeOK, contentVars
<1>5. CASE LoadArrives(l)
  <2>1. loads' \in Seq(LoadRecord)
    BY <1>1, <1>2, <1>5 DEF LoadArrives
  <2>2. items' \in Seq(Int)
    <3>1. loads[l] \in LoadRecord
      BY DEF TypeOK
    <3>2. QED BY <1>5, <3>1 DEF LoadArrives, Reloaded, LoadRecord
  <2>3. ops' \in Seq(OpRecord)
    <3>1. \A p \in DOMAIN ops :
             Op(ops[p].type, ops[p].at, ops[p].id, ops[p].text, ops[p].index, FALSE) \in OpRecord
      BY OpFields, IsOp
    <3>2. ops' \in [DOMAIN ops -> OpRecord]
      BY <1>5, <3>1 DEF LoadArrives
    <3>3. DOMAIN ops = 1..Len(ops) /\ Len(ops) \in Nat
      BY DEF TypeOK
    <3>4. QED BY <3>2, <3>3, IsSeq
  <2>4. trouble' \subseteq Troubles
    BY <1>5 DEF LoadArrives, Cause, Troubles, TypeOK
  <2>5. QED BY <1>5, <2>1, <2>2, <2>3, <2>4 DEF LoadArrives, TypeOK, ContentTypeOK, contentVars
<1>6. QED BY <1>3, <1>4, <1>5

LEMMA NextType == TypeOK /\ [Next]_vars => TypeOK'
<1> SUFFICES ASSUME TypeOK, [Next]_vars PROVE TypeOK'
  OBVIOUS
<1>1. CASE UNCHANGED vars
  BY <1>1 DEF vars, TypeOK, ContentTypeOK
<1>2. CASE Elsewhere
  <2>1. trouble' \subseteq Troubles /\ calls' \in Nat
    <3>1. calls' = calls + 1
      BY <1>2, Zenon DEF Elsewhere
    <3>2. \E what \in Troubles : trouble' \subseteq trouble \cup {what}
      <4>1. \A what, happened : Cause(what, happened) => trouble' \subseteq trouble \cup {what}
        BY Zenon DEF Cause
      <4>2. "elsewhere" \in Troubles
        BY DEF Troubles
      <4>3. QED BY <1>2, <4>1, <4>2, Zenon DEF Elsewhere
    <3>3. QED BY <3>1, <3>2 DEF TypeOK
  <2>2. QED BY <1>2, <2>1, ContentNextType DEF Elsewhere, TypeOK
<1>3. QED BY <1>1, <1>2, StartType, AddType, DeleteType, LoadType DEF Next

\* Rows, items, operations and reloads are what the code keeps, whatever
\* overlaps and fails.
THEOREM TypeCorrect == Spec => []TypeOK
<1>1. QED BY InitType, NextType, PTL DEF Spec

-----------------------------------------------------------------------------
(* Nothing is shown twice *)

Distinct == \A j, k \in DOMAIN items : items[j] = items[k] => j = k

\* The ids items may have: a row's, or the one made up for an add that is shown.
Known ==
    {id \in Int : \/ id > 0
                  \/ \E o \in DOMAIN ops :
                        id = 0 - o /\ ops[o].type = "add" /\ ops[o].at # "tapped"}

IdsKnown ==
    /\ \A k \in DOMAIN items : items[k] \in Known
    /\ \A o \in DOMAIN ops :
          IF ops[o].type = "add" THEN ops[o].id = 0 - o ELSE ops[o].id \in Known

AnswersOfRows ==
    \A l \in DOMAIN loads : loads[l].at = "answered" =>
        /\ \A k \in DOMAIN loads[l].list : loads[l].list[k] > 0
        /\ \A j, k \in DOMAIN loads[l].list : loads[l].list[j] = loads[l].list[k] => j = k

\* A delete that can rely on its index has its item off the screen.
CalmIsOff ==
    \A o \in DOMAIN ops : ops[o].calm => ops[o].type = "delete" /\ ~Shown(ops[o].id)

ScreenInv ==
    /\ TypeOK
    /\ IdsKnown
    /\ AnswersOfRows
    /\ "rollback disturbed" \notin trouble => Distinct /\ CalmIsOff

\* How the operations change: o goes on to op, the others stay what they are
\* but for the trust in their index.
Goes(o, op) ==
    /\ DOMAIN ops' = DOMAIN ops
    /\ ops'[o] = op
    /\ \A p \in DOMAIN ops \ {o} :
          /\ ops'[p].type = ops[p].type /\ ops'[p].at = ops[p].at
          /\ ops'[p].id = ops[p].id /\ ops'[p].text = ops[p].text

GoesCalm(o, op) == DOMAIN ops' = DOMAIN ops /\ ops'[o] = op
                   /\ \A p \in DOMAIN ops \ {o} : ops'[p] = ops[p]

LEMMA Disturbs ==
    ASSUME TypeOK, NEW o \in DOMAIN ops, NEW op, ops' = Disturbing(o, op)
    PROVE  Goes(o, op) /\ \A p \in DOMAIN ops \ {o} : ops'[p].calm = FALSE
BY DEF Goes, Disturbing, Op

LEMMA Moves ==
    ASSUME TypeOK, NEW o \in DOMAIN ops, NEW op, ops' = Moving(o, op)
    PROVE  GoesCalm(o, op) /\ Goes(o, op)
BY DEF Goes, GoesCalm, Moving

\* Known ids stay known when an operation goes on.
LEMMA StillKnown ==
    ASSUME TypeOK, IdsKnown, NEW o \in DOMAIN ops, NEW op, Goes(o, op),
           op.type = ops[o].type, op.id = ops[o].id, op.at # "tapped"
    PROVE  /\ Known \subseteq Known'
           /\ \A p \in DOMAIN ops' :
                 IF ops'[p].type = "add" THEN ops'[p].id = 0 - p ELSE ops'[p].id \in Known'
<1>1. \A p \in DOMAIN ops : ops'[p].type = ops[p].type /\ ops'[p].id = ops[p].id
                            /\ (ops[p].at # "tapped" => ops'[p].at # "tapped")
  BY DEF Goes
<1>2. DOMAIN ops' = DOMAIN ops
  BY DEF Goes
<1>3. Known \subseteq Known'
  BY <1>1, <1>2 DEF Known
<1>4. QED BY <1>1, <1>2, <1>3 DEF IdsKnown

LEMMA InitScreen == Init => ScreenInv
<1> SUFFICES ASSUME Init PROVE ScreenInv
  OBVIOUS
<1>1. items = << >> /\ ops = << >> /\ loads = <<[at |-> "sent", list |-> << >>]>>
  BY DEF Init
<1>2. DOMAIN items = {} /\ DOMAIN ops = {} /\ \A l \in DOMAIN loads : loads[l].at = "sent"
  BY <1>1
<1>3. QED BY <1>2, InitType DEF ScreenInv, IdsKnown, AnswersOfRows, Distinct, CalmIsOff

\* A tap adds an operation and leaves the list alone.
LEMMA StartScreen ==
    ASSUME ScreenInv,
           \/ \E text \in Text : TapAdd(text)
           \/ TapRetry
           \/ \E k \in DOMAIN items : TapDelete(items[k])
    PROVE  ScreenInv'
<1>0. TypeOK /\ TypeOK'
  BY StartType DEF ScreenInv
<1>1. PICK type \in {"add", "delete"}, id \in Int :
         /\ ops' = Append(ops, Op(type, "tapped", id, Blank, NoIndex, FALSE))
         /\ IF type = "add" THEN id = 0 - (Len(ops) + 1) ELSE \E k \in DOMAIN items : id = items[k]
  <2>1. \A k \in DOMAIN items : items[k] \in Int
    BY <1>0 DEF TypeOK
  <2>2. TempId = 0 - (Len(ops) + 1) /\ TempId \in Int
    BY <1>0 DEF TempId, TypeOK
  <2>3. QED BY <2>1, <2>2 DEF TapAdd, TapRetry, TapDelete, StartAdd
<1>2. UNCHANGED <<items, loads>>
  BY Zenon DEF TapAdd, TapRetry, TapDelete, StartAdd
<1>3. trouble \subseteq trouble'
  <2>1. \A happened : Cause("double add", happened) => trouble \subseteq trouble'
    BY Zenon DEF Cause
  <2>2. QED BY <2>1, Zenon DEF TapAdd, TapRetry, TapDelete
<1>4. /\ DOMAIN ops = 1..Len(ops) /\ Len(ops) \in Nat
      /\ DOMAIN ops' = 1..(Len(ops) + 1)
      /\ \A p \in DOMAIN ops : ops'[p] = ops[p]
      /\ ops'[Len(ops) + 1] = Op(type, "tapped", id, Blank, NoIndex, FALSE)
  <2>1. \A op \in OpRecord :
           /\ DOMAIN Append(ops, op) = 1..(Len(ops) + 1)
           /\ \A p \in DOMAIN ops : Append(ops, op)[p] = ops[p]
           /\ Append(ops, op)[Len(ops) + 1] = op
    BY <1>0 DEF TypeOK
  <2>2. Op(type, "tapped", id, Blank, NoIndex, FALSE) \in OpRecord
    BY IsOp, ListsAssumption DEF NoIndex
  <2>3. DOMAIN ops = 1..Len(ops) /\ Len(ops) \in Nat
    BY <1>0 DEF TypeOK
  <2>4. QED BY <1>1, <2>1, <2>2, <2>3
<1>5. Known \subseteq Known'
  BY <1>4 DEF Known
<1>6. IdsKnown'
  <2>1. IdsKnown
    BY DEF ScreenInv
  <2>2. type = "delete" => id \in Known
    BY <1>1, <2>1 DEF IdsKnown
  <2>3. \A k \in DOMAIN items' : items'[k] \in Known'
    BY <1>2, <1>5, <2>1 DEF IdsKnown
  <2>4. \A p \in DOMAIN ops' :
           IF ops'[p].type = "add" THEN ops'[p].id = 0 - p ELSE ops'[p].id \in Known'
    BY <1>1, <1>4, <1>5, <2>1, <2>2 DEF IdsKnown, Op
  <2>5. QED BY <2>3, <2>4 DEF IdsKnown
<1>7. AnswersOfRows'
  BY <1>2 DEF ScreenInv, AnswersOfRows
<1>8. "rollback disturbed" \notin trouble' => Distinct' /\ CalmIsOff'
  <2>1. \A p \in DOMAIN ops' : ops'[p].calm => p \in DOMAIN ops /\ ops'[p] = ops[p]
    BY <1>4 DEF Op
  <2>2. items' = items
    BY <1>2
  <2>3. Distinct => Distinct'
    BY <2>2 DEF Distinct
  <2>4. CalmIsOff => CalmIsOff'
    BY <2>1, <2>2 DEF CalmIsOff, Shown
  <2>5. QED BY <1>3, <2>3, <2>4 DEF ScreenInv
<1>9. QED BY <1>0, <1>6, <1>7, <1>8 DEF ScreenInv

LEMMA StartLoadLemma ==
    ASSUME TypeOK, AnswersOfRows, StartLoad
    PROVE  AnswersOfRows'
<1>1. /\ DOMAIN loads = 1..Len(loads) /\ Len(loads) \in Nat
      /\ DOMAIN loads' = 1..(Len(loads) + 1)
      /\ \A l \in DOMAIN loads : loads'[l] = loads[l]
      /\ loads'[Len(loads) + 1].at = "sent"
  BY DEF TypeOK, StartLoad
<1>2. QED BY <1>1 DEF AnswersOfRows

\* Steps of an operation that leave the list alone.
LEMMA QuietScreen ==
    ASSUME ScreenInv, TypeOK', NEW o \in DOMAIN ops, NEW op,
           op.type = ops[o].type, op.id = ops[o].id, op.at # "tapped",
           \/ ops' = Disturbing(o, op) /\ op.calm = FALSE
           \/ ops' = Moving(o, op) /\ op.calm \in {FALSE, ops[o].calm},
           items' = items, trouble \subseteq trouble', AnswersOfRows'
    PROVE  ScreenInv'
<1>1. Goes(o, op) /\ \A p \in DOMAIN ops : ops'[p].calm \in {FALSE, ops[p].calm}
  <2>1. TypeOK
    BY DEF ScreenInv
  <2>2. CASE ops' = Disturbing(o, op) /\ op.calm = FALSE
    BY <2>1, <2>2, Disturbs DEF Goes
  <2>3. CASE ops' = Moving(o, op) /\ op.calm \in {FALSE, ops[o].calm}
    BY <2>1, <2>3, Moves DEF Goes, GoesCalm
  <2>4. QED BY <2>2, <2>3
<1>2. IdsKnown'
  <2>1. /\ Known \subseteq Known'
        /\ \A p \in DOMAIN ops' :
              IF ops'[p].type = "add" THEN ops'[p].id = 0 - p ELSE ops'[p].id \in Known'
    BY <1>1, StillKnown DEF ScreenInv
  <2>2. \A k \in DOMAIN items' : items'[k] \in Known'
    BY <2>1 DEF ScreenInv, IdsKnown
  <2>3. QED BY <2>1, <2>2 DEF IdsKnown
<1>3. "rollback disturbed" \notin trouble' => Distinct' /\ CalmIsOff'
  <2>1. Distinct => Distinct'
    BY DEF Distinct
  <2>2. ASSUME CalmIsOff PROVE CalmIsOff'
    <3>1. \A p \in DOMAIN ops' :
             /\ p \in DOMAIN ops
             /\ ops'[p].type = ops[p].type /\ ops'[p].id = ops[p].id
             /\ ops'[p].calm => ops[p].calm
      BY <1>1 DEF Goes
    <3>2. QED BY <2>2, <3>1 DEF CalmIsOff, Shown
  <2>3. QED BY <2>1, <2>2 DEF ScreenInv
<1>4. QED BY <1>2, <1>3 DEF ScreenInv

\* Steps of an operation that change the list.
LEMMA ListScreen ==
    ASSUME ScreenInv, TypeOK', NEW o \in DOMAIN ops, NEW op,
           op.type = ops[o].type, op.id = ops[o].id, op.at # "tapped",
           ops' = Disturbing(o, op), loads' = loads,
           \A k \in DOMAIN items' : items'[k] \in Known',
           "rollback disturbed" \notin trouble' =>
               /\ Distinct'
               /\ op.calm => op.type = "delete" /\ \A k \in DOMAIN items' : items'[k] # op.id
    PROVE  ScreenInv'
<1>1. Goes(o, op) /\ \A p \in DOMAIN ops \ {o} : ops'[p].calm = FALSE
  BY Disturbs DEF ScreenInv
<1>2. IdsKnown'
  <2>1. \A p \in DOMAIN ops' :
           IF ops'[p].type = "add" THEN ops'[p].id = 0 - p ELSE ops'[p].id \in Known'
    BY <1>1, StillKnown DEF ScreenInv
  <2>2. QED BY <2>1 DEF IdsKnown
<1>3. AnswersOfRows'
  BY DEF ScreenInv, AnswersOfRows
<1>4. "rollback disturbed" \notin trouble' => CalmIsOff'
  <2>1. \A p \in DOMAIN ops' : ops'[p].calm => p = o /\ ops'[p] = op
    BY <1>1 DEF Goes
  <2>2. QED BY <2>1 DEF CalmIsOff, Shown
<1>5. QED BY <1>2, <1>3, <1>4 DEF ScreenInv

LEMMA Grows ==
    ASSUME ScreenInv, NEW o \in DOMAIN ops, NEW op,
           op.type = ops[o].type, op.id = ops[o].id, op.at # "tapped",
           ops' = Disturbing(o, op)
    PROVE  Known \subseteq Known' /\ DOMAIN ops' = DOMAIN ops /\ ops'[o] = op
<1>1. Goes(o, op)
  BY Disturbs DEF ScreenInv
<1>2. Known \subseteq Known'
  BY <1>1, StillKnown DEF ScreenInv
<1>3. QED BY <1>1, <1>2 DEF Goes

LEMMA ShowAddedScreen ==
    ASSUME ScreenInv, TypeOK', NEW o \in DOMAIN ops, ShowAdded(o)
    PROVE  ScreenInv'
<1> DEFINE op == Op("add", "sent", ops[o].id, form, NoIndex, FALSE)
<1>0. /\ op.type = ops[o].type /\ op.id = ops[o].id /\ op.at = "sent" /\ ~op.calm
      /\ ops[o].type = "add" /\ ops[o].at = "tapped"
  BY DEF ShowAdded, Op, At
<1>1. ops' = Disturbing(o, op) /\ loads' = loads /\ trouble' = trouble
  BY Zenon DEF ShowAdded
<1> HIDE DEF op
<1>2. Known \subseteq Known' /\ DOMAIN ops' = DOMAIN ops /\ ops'[o] = op
  BY <1>0, <1>1, Grows, Zenon
<1>t. TypeOK /\ IdsKnown
  BY DEF ScreenInv
<1>3. ops[o].id = 0 - o /\ o \in Nat \ {0}
  BY <1>0, <1>t DEF IdsKnown, TypeOK
<1>4. ops[o].id \in Known'
  BY <1>0, <1>2, <1>3 DEF Known
<1>5. /\ items' = <<ops[o].id>> \o items
      /\ items \in Seq(Int) /\ ops[o].id \in Int
  BY OpFields DEF ShowAdded, ScreenInv, TypeOK
<1>6. /\ DOMAIN items' = 1..(Len(items) + 1) /\ Len(items) \in Nat
      /\ items'[1] = ops[o].id
      /\ \A k \in 2..(Len(items) + 1) : items'[k] = items[k - 1] /\ k - 1 \in DOMAIN items
  BY <1>5
<1>7. \A k \in DOMAIN items' : items'[k] \in Known'
  <2>1. \A k \in DOMAIN items : items[k] \in Known'
    BY <1>2, <1>t DEF IdsKnown
  <2>2. QED BY <1>4, <1>6, <2>1
<1>8. \A k \in DOMAIN items : items[k] # ops[o].id
  <2>1. \A k \in DOMAIN items : items[k] \in Known
    BY DEF ScreenInv, IdsKnown
  <2>2. DOMAIN ops \subseteq Int
    BY <1>t DEF TypeOK
  <2>3. ops[o].id \notin Known
    BY <1>0, <1>3, <2>2 DEF Known
  <2>4. QED BY <2>1, <2>3
<1>9. Distinct => Distinct'
  BY <1>6, <1>8 DEF Distinct
<1>10. QED BY <1>0, <1>1, <1>7, <1>9, ListScreen DEF ScreenInv

\* What is left of the list when the first item with an id is taken off.
LEMMA Removed ==
    ASSUME ScreenInv, NEW k \in DOMAIN items, items' = RemoveAt(items, k)
    PROVE  /\ \A j \in DOMAIN items' : \E i \in DOMAIN items : items'[j] = items[i]
           /\ Distinct => Distinct' /\ \A j \in DOMAIN items' : items'[j] # items[k]
<1>t. TypeOK
  BY DEF ScreenInv
<1>1. /\ items \in Seq(Int) /\ Len(items) \in Nat /\ k \in Nat
      /\ DOMAIN items = 1..Len(items)
  BY <1>t DEF TypeOK
<1>2. /\ DOMAIN items' = 1..(Len(items) - 1)
      /\ \A j \in 1..(Len(items) - 1) : items'[j] = IF j < k THEN items[j] ELSE items[j + 1]
  BY <1>1, RemoveAtLemma, Zenon
<1>3. \A j \in DOMAIN items' : LET i == IF j < k THEN j ELSE j + 1 IN
         i \in DOMAIN items /\ i # k /\ items'[j] = items[i]
  BY <1>1, <1>2
<1>4. \A j \in DOMAIN items' : \E i \in DOMAIN items : items'[j] = items[i]
  BY <1>3
<1>5. ASSUME Distinct, NEW j \in DOMAIN items' PROVE items'[j] # items[k]
  BY <1>3, <1>5 DEF Distinct
<1>6. ASSUME Distinct, NEW i \in DOMAIN items', NEW j \in DOMAIN items', items'[i] = items'[j]
      PROVE  i = j
  <2>1. i \in Int /\ j \in Int
    BY <1>1, <1>2
  <2>2. (IF i < k THEN i ELSE i + 1) = (IF j < k THEN j ELSE j + 1)
    BY <1>3, <1>6 DEF Distinct
  <2>3. QED BY <1>1, <2>1, <2>2
<1>7. QED BY <1>4, <1>5, <1>6 DEF Distinct

LEMMA AddFailsScreen ==
    ASSUME ScreenInv, TypeOK', NEW o \in DOMAIN ops, AddFails(o)
    PROVE  ScreenInv'
<1> DEFINE op == Ended(ops[o])
<1>0. op.type = ops[o].type /\ op.id = ops[o].id /\ op.at = "done" /\ ~op.calm
  BY DEF Ended, Op
<1>1. /\ ops' = Disturbing(o, op) /\ loads' = loads /\ trouble' = trouble
      /\ \/ \E k \in DOMAIN items : items' = RemoveAt(items, k)
         \/ items' = items
  BY Zenon DEF AddFails
<1> HIDE DEF op
<1>2. Known \subseteq Known'
  BY <1>0, <1>1, Grows
<1>3. /\ \A j \in DOMAIN items' : \E i \in DOMAIN items : items'[j] = items[i]
      /\ Distinct => Distinct'
  BY <1>1, Removed DEF Distinct
<1>4. \A j \in DOMAIN items' : items'[j] \in Known'
  BY <1>2, <1>3 DEF ScreenInv, IdsKnown
<1>5. QED BY <1>0, <1>1, <1>3, <1>4, ListScreen DEF ScreenInv

LEMMA StartDeleteScreen ==
    ASSUME ScreenInv, TypeOK', NEW o \in DOMAIN ops, StartDelete(o)
    PROVE  ScreenInv'
<1>1. PICK i \in Nat :
         /\ ops' = Disturbing(o, Op("delete", "sent", ops[o].id, Blank, i, TRUE))
         /\ \/ \E k \in DOMAIN items : IsFirst(k, ops[o].id) /\ items' = RemoveAt(items, k)
            \/ ~Shown(ops[o].id) /\ items' = items
  <2>1. TypeOK
    BY DEF ScreenInv
  <2>2. NoIndex \in Nat /\ \A k \in DOMAIN items : k \in Nat
    BY <2>1 DEF NoIndex, TypeOK
  <2>3. QED BY <2>2, Zenon DEF StartDelete
<1> DEFINE op == Op("delete", "sent", ops[o].id, Blank, i, TRUE)
<1>2. op.type = "delete" /\ op.type = ops[o].type /\ op.id = ops[o].id /\ op.at = "sent"
  BY DEF Op, StartDelete
<1>3. ops' = Disturbing(o, op) /\ loads' = loads /\ trouble' = trouble
  BY <1>1, Zenon DEF StartDelete
<1> HIDE DEF op
<1>4. Known \subseteq Known'
  BY <1>2, <1>3, Grows
<1>5. /\ \A j \in DOMAIN items' : \E k \in DOMAIN items : items'[j] = items[k]
      /\ Distinct => Distinct' /\ \A j \in DOMAIN items' : items'[j] # ops[o].id
  <2>1. CASE \E k \in DOMAIN items : IsFirst(k, ops[o].id) /\ items' = RemoveAt(items, k)
    BY <2>1, Removed DEF IsFirst
  <2>2. CASE ~Shown(ops[o].id) /\ items' = items
    BY <2>2 DEF Shown, Distinct
  <2>3. QED BY <1>1, <2>1, <2>2
<1>6. \A j \in DOMAIN items' : items'[j] \in Known'
  BY <1>4, <1>5 DEF ScreenInv, IdsKnown
<1>7. QED BY <1>2, <1>3, <1>5, <1>6, ListScreen DEF ScreenInv

LEMMA Restored ==
    ASSUME NEW S, items \in Seq(S), NEW i \in 1..(Len(items) + 1), NEW id \in S,
           items' = InsertAt(items, i, id)
    PROVE  /\ DOMAIN items' = 1..(Len(items) + 1)
           /\ \A j \in 1..(Len(items) + 1) :
                 items'[j] = IF j < i THEN items[j] ELSE IF j = i THEN id ELSE items[j - 1]
<1>1. PutIn(items', items, i, id)
  BY InsertAtLemma, Zenon
<1>2. QED BY <1>1, Zenon DEF PutIn

\* A rollback that meets the list its delete left puts back an item that is
\* not there.
LEMMA DeleteFailsScreen ==
    ASSUME ScreenInv, TypeOK', NEW o \in DOMAIN ops, DeleteFails(o)
    PROVE  ScreenInv'
<1> DEFINE op == Ended(ops[o])
           i  == ops[o].index
           id == ops[o].id
<1>0. op.type = ops[o].type /\ op.id = ops[o].id /\ op.at = "done" /\ ~op.calm
  BY DEF Ended, Op
<1>1. /\ ops' = Disturbing(o, op) /\ loads' = loads
      /\ items' = InsertAt(items, i, id) /\ i \in 1..(Len(items) + 1)
      /\ ops[o].type = "delete"
  BY Zenon DEF DeleteFails
<1>2. "rollback disturbed" \notin trouble' => ops[o].calm /\ "rollback disturbed" \notin trouble
  <2>1. \A what, happened : Cause(what, happened) =>
           trouble \subseteq trouble' /\ (happened => what \in trouble')
    BY Zenon DEF Cause
  <2>2. Cause("rollback disturbed", ~ops[o].calm)
    BY Zenon DEF DeleteFails
  <2>3. QED BY <2>1, <2>2, Zenon
<1> HIDE DEF op
<1>3. Known \subseteq Known'
  BY <1>0, <1>1, Grows
<1>4. id \in Known
  BY <1>1 DEF ScreenInv, IdsKnown
<1>t. TypeOK
  BY DEF ScreenInv
<1>5. /\ items \in Seq(Int) /\ Len(items) \in Nat /\ id \in Int
      /\ DOMAIN items = 1..Len(items)
  BY <1>4, <1>t DEF TypeOK, Known
<1> HIDE DEF i, id
<1>6. /\ DOMAIN items' = 1..(Len(items) + 1)
      /\ \A j \in 1..(Len(items) + 1) :
            items'[j] = IF j < i THEN items[j] ELSE IF j = i THEN id ELSE items[j - 1]
  <2>1. items \in Seq(Known)
    <3>1. \A k \in DOMAIN items : items[k] \in Known
      BY DEF ScreenInv, IdsKnown
    <3>2. items \in [1..Len(items) -> Known]
      BY <1>5, <3>1
    <3>3. QED BY <1>5, <3>2, IsSeq
  <2>2. QED BY <1>1, <1>4, <2>1, Restored
<1>7. \A j \in DOMAIN items' : j # i =>
         LET k == IF j < i THEN j ELSE j - 1 IN k \in DOMAIN items /\ items'[j] = items[k]
  BY <1>1, <1>5, <1>6
<1>8. \A j \in DOMAIN items' : items'[j] \in Known'
  <2>1. \A k \in DOMAIN items : items[k] \in Known
    BY DEF ScreenInv, IdsKnown
  <2>2. QED BY <1>1, <1>3, <1>4, <1>6, <1>7, <2>1
<1>9. ASSUME "rollback disturbed" \notin trouble' PROVE Distinct'
  <2>1. Distinct /\ \A k \in DOMAIN items : items[k] # id
    BY <1>2, <1>9 DEF ScreenInv, CalmIsOff, Shown, id
  <2>2. items'[i] = id /\ \A j \in DOMAIN items' : j # i => items'[j] # id
    BY <1>1, <1>5, <1>6, <1>7, <2>1
  <2>3. ASSUME NEW j \in DOMAIN items', NEW k \in DOMAIN items', j # i, k # i,
               items'[j] = items'[k]
        PROVE  j = k
    <3>1. (IF j < i THEN j ELSE j - 1) = (IF k < i THEN k ELSE k - 1)
      BY <1>7, <2>1, <2>3 DEF Distinct
    <3>2. i \in Int /\ j \in Int /\ k \in Int
      BY <1>1, <1>5, <1>6
    <3>3. QED BY <2>3, <3>1, <3>2
  <2>4. QED BY <2>2, <2>3 DEF Distinct
<1>10. QED BY <1>0, <1>1, <1>8, <1>9, ListScreen

LEMMA LeavesScreen ==
    ASSUME ScreenInv, TypeOK', NEW o \in DOMAIN ops,
           \/ ServeAdd(o) \/ AddSucceeds(o) \/ DeleteThrows(o) \/ ServeDelete(o)
           \/ DeleteSucceeds(o) \/ DeleteFailsUnseen(o) \/ RequestFails(o)
    PROVE  ScreenInv'
<1> DEFINE Passes(op) == /\ op.type = ops[o].type /\ op.id = ops[o].id /\ op.at # "tapped"
                         /\ \/ ops' = Disturbing(o, op) /\ op.calm = FALSE
                            \/ ops' = Moving(o, op) /\ op.calm \in {FALSE, ops[o].calm}
<1>1. \E op : Passes(op)
  <2>1. Ended(ops[o]).type = ops[o].type /\ Ended(ops[o]).id = ops[o].id
        /\ Ended(ops[o]).at = "done" /\ Ended(ops[o]).calm = FALSE
    BY DEF Ended, Op
  <2>2. CASE ops' = Disturbing(o, Ended(ops[o])) \/ ops' = Moving(o, Ended(ops[o]))
    BY <2>1, <2>2
  <2>3. ASSUME NEW at \in {"ok", "failed"}, NEW text, NEW index, NEW calm \in {FALSE, ops[o].calm},
               ops' = Moving(o, Op(ops[o].type, at, ops[o].id, text, index, calm))
        PROVE  \E op : Passes(op)
    <3> DEFINE op == Op(ops[o].type, at, ops[o].id, text, index, calm)
    <3>1. op.type = ops[o].type /\ op.id = ops[o].id /\ op.at = at /\ op.calm = calm
      BY DEF Op
    <3>2. ops' = Moving(o, op)
      BY <2>3
    <3> HIDE DEF op
    <3>3. Passes(op)
      BY <3>1, <3>2
    <3>4. QED BY <3>3
  <2>4. AddSucceeds(o) \/ DeleteThrows(o) \/ DeleteSucceeds(o) \/ DeleteFailsUnseen(o) =>
           ops' = Disturbing(o, Ended(ops[o])) \/ ops' = Moving(o, Ended(ops[o]))
    BY Zenon DEF AddSucceeds, DeleteThrows, DeleteSucceeds, DeleteFailsUnseen
  <2>5. ServeAdd(o) \/ ServeDelete(o) => \E at \in {"ok", "failed"} : \E text, index :
           \/ ops' = Moving(o, Op(ops[o].type, at, ops[o].id, text, index, FALSE))
           \/ ops' = Moving(o, Op(ops[o].type, at, ops[o].id, text, index, ops[o].calm))
    BY ZenonT(40) DEF ServeAdd, ServeDelete
  <2>6. RequestFails(o) =>
           ops' = Moving(o, Op(ops[o].type, "failed", ops[o].id, ops[o].text,
                               ops[o].index, ops[o].calm))
    BY Zenon DEF RequestFails
  <2> HIDE DEF Passes
  <2>7. QED BY <2>2, <2>3, <2>4, <2>5, <2>6
<1>2. items' = items
  BY Zenon DEF ServeAdd, AddSucceeds, DeleteThrows, ServeDelete, DeleteSucceeds,
               DeleteFailsUnseen, RequestFails
<1>3. trouble \subseteq trouble'
  <2>1. \A what, happened : Cause(what, happened) => trouble \subseteq trouble'
    BY Zenon DEF Cause
  <2>2. QED BY <2>1, Zenon DEF ServeAdd, AddSucceeds, DeleteThrows, ServeDelete,
                               DeleteSucceeds, DeleteFailsUnseen, RequestFails
<1>4. AnswersOfRows'
  <2>1. loads' = loads \/ StartLoad
    BY Zenon DEF ServeAdd, AddSucceeds, DeleteThrows, ServeDelete, DeleteSucceeds,
                 DeleteFailsUnseen, RequestFails
  <2>2. loads' = loads => AnswersOfRows'
    BY DEF ScreenInv, AnswersOfRows
  <2>3. QED BY <2>1, <2>2, StartLoadLemma DEF ScreenInv
<1>5. PICK op : Passes(op)
  BY <1>1
<1>6. QED BY <1>2, <1>3, <1>4, <1>5, QuietScreen

LEMMA LoadScreen ==
    ASSUME ScreenInv, TypeOK', NEW l \in DOMAIN loads,
           ServeLoad(l) \/ ServeLoadEmpty(l) \/ LoadLost(l)
    PROVE  ScreenInv'
<1>t. TypeOK /\ IdsKnown /\ AnswersOfRows
  BY DEF ScreenInv
<1>1. items' = items /\ ops' = ops /\ trouble \subseteq trouble'
  BY Zenon DEF ServeLoad, ServeLoadEmpty, LoadLost
<1>2. PICK load :
         /\ loads' = [loads EXCEPT ![l] = load]
         /\ load.at = "answered" =>
               /\ \A k \in DOMAIN load.list : load.list[k] > 0
               /\ \A j, k \in DOMAIN load.list : load.list[j] = load.list[k] => j = k
  <2>1. CASE ServeLoad(l) \/ ServeLoadEmpty(l)
    <3>1. PICK s \in Seq(Int) :
             /\ loads' = [loads EXCEPT ![l] = [at |-> "answered", list |-> s]]
             /\ \A k \in DOMAIN s : s[k] > 0
             /\ \A j, k \in DOMAIN s : s[j] = s[k] => j = k
      BY <1>t, <2>1, AnswerLemma
    <3>2. [at |-> "answered", list |-> s].list = s
      OBVIOUS
    <3>3. QED BY <3>1, <3>2
  <2>2. CASE LoadLost(l)
    <3>1. loads' = [loads EXCEPT ![l] = [at |-> "lost", list |-> << >>]]
      BY <2>2, Zenon DEF LoadLost
    <3>2. [at |-> "lost", list |-> << >>].at # "answered"
      OBVIOUS
    <3>3. QED BY <3>1, <3>2, Zenon
  <2>3. QED BY <2>1, <2>2
<1>3. /\ DOMAIN loads' = DOMAIN loads
      /\ loads'[l] = load
      /\ \A m \in DOMAIN loads : m # l => loads'[m] = loads[m]
  BY <1>2 DEF TypeOK
<1>4. AnswersOfRows'
  BY <1>t, <1>2, <1>3 DEF AnswersOfRows
<1>5. IdsKnown' /\ (Distinct => Distinct') /\ (CalmIsOff => CalmIsOff')
  BY <1>t, <1>1 DEF IdsKnown, Known, Distinct, CalmIsOff, Shown
<1>6. QED BY <1>1, <1>4, <1>5 DEF ScreenInv

LEMMA ArrivalScreen ==
    ASSUME ScreenInv, TypeOK', NEW l \in DOMAIN loads, LoadArrives(l)
    PROVE  ScreenInv'
<1>t. TypeOK /\ IdsKnown /\ AnswersOfRows
  BY DEF ScreenInv
<1>1. /\ items' = loads[l].list
      /\ \A k \in DOMAIN items' : items'[k] > 0
      /\ \A j, k \in DOMAIN items' : items'[j] = items'[k] => j = k
  BY <1>t DEF LoadArrives, Reloaded, AnswersOfRows
<1>2. /\ DOMAIN ops' = DOMAIN ops
      /\ \A p \in DOMAIN ops : /\ ops'[p].type = ops[p].type /\ ops'[p].at = ops[p].at
                               /\ ops'[p].id = ops[p].id /\ ops'[p].calm = FALSE
  BY DEF LoadArrives, Op
<1>3. Known' = Known
  BY <1>2 DEF Known
<1>4. \A k \in DOMAIN items' : items'[k] \in Known'
  <2>1. \A k \in DOMAIN items' : items'[k] \in Int
    BY DEF TypeOK
  <2>2. QED BY <1>1, <2>1 DEF Known
<1>5. IdsKnown'
  BY <1>t, <1>2, <1>3, <1>4 DEF IdsKnown
<1>6. AnswersOfRows'
  <2>1. /\ DOMAIN loads' = DOMAIN loads
        /\ loads'[l].at = "arrived"
        /\ \A m \in DOMAIN loads : m # l => loads'[m] = loads[m]
    BY <1>t DEF LoadArrives, TypeOK
  <2>2. QED BY <1>t, <2>1 DEF AnswersOfRows
<1>7. Distinct' /\ CalmIsOff'
  BY <1>1, <1>2 DEF Distinct, CalmIsOff
<1>8. QED BY <1>5, <1>6, <1>7 DEF ScreenInv

LEMMA NextScreen == ScreenInv /\ [Next]_vars => ScreenInv'
<1> SUFFICES ASSUME ScreenInv, [Next]_vars PROVE ScreenInv'
  OBVIOUS
<1>t. TypeOK /\ TypeOK'
  BY NextType DEF ScreenInv
<1>1. ASSUME UNCHANGED <<items, ops, loads>>, trouble \subseteq trouble'
      PROVE  ScreenInv'
  <2>1. IdsKnown /\ AnswersOfRows
    BY DEF ScreenInv
  <2>2. IdsKnown' /\ AnswersOfRows' /\ (Distinct => Distinct') /\ (CalmIsOff => CalmIsOff')
    BY <1>1, <2>1 DEF IdsKnown, Known, AnswersOfRows, Distinct, CalmIsOff, Shown
  <2>3. QED BY <1>t, <1>1, <2>2 DEF ScreenInv
<1>2. CASE UNCHANGED vars
  <2>1. UNCHANGED <<items, ops, loads>> /\ trouble \subseteq trouble'
    BY <1>2, Zenon DEF vars
  <2>2. QED BY <1>1, <2>1
<1>3. CASE Elsewhere
  <2>1. \A happened : Cause("elsewhere", happened) => trouble \subseteq trouble'
    BY Zenon DEF Cause
  <2>2. UNCHANGED <<items, ops, loads>> /\ trouble \subseteq trouble'
    BY <1>3, <2>1, Zenon DEF Elsewhere
  <2>3. QED BY <1>1, <2>2
<1>4. QED BY <1>t, <1>2, <1>3, StartScreen, ShowAddedScreen, AddFailsScreen,
             StartDeleteScreen, DeleteFailsScreen, LeavesScreen, LoadScreen, ArrivalScreen
          DEF Next

\* No item is on the screen twice, whatever adds, deletes, reloads and
\* failures overlap, unless a rollback met a list that had changed since its
\* delete.
THEOREM NoDuplicates == Spec => []NothingShownTwice
<1>1. ScreenInv => NothingShownTwice
  BY DEF ScreenInv, Distinct, NothingShownTwice
<1>2. QED BY <1>1, InitScreen, NextScreen, PTL DEF Spec

-----------------------------------------------------------------------------
(* No blank rows *)

IsUnderWay(o) == ops[o].type = "add" /\ ops[o].at # "done"

OneAdd ==
    /\ \A o \in DOMAIN ops : IsUnderWay(o) => adding
    /\ \A o, p \in DOMAIN ops : IsUnderWay(o) /\ IsUnderWay(p) => o = p
    /\ \A o \in DOMAIN ops : ops[o].type = "add" /\ ops[o].at = "tapped" => form # Blank
    /\ \A o \in DOMAIN ops : ops[o].type = "add" /\ ops[o].at = "sent" => ops[o].text # Blank

FormInv == TypeOK /\ ("double add" \notin trouble => OneAdd)

LEMMA InitForm == Init => FormInv
<1> SUFFICES ASSUME Init PROVE FormInv
  OBVIOUS
<1>1. DOMAIN ops = {}
  BY DEF Init
<1>2. QED BY <1>1, InitType DEF FormInv, OneAdd

LEMMA AppendForm ==
    ASSUME TypeOK, OneAdd, NEW op \in OpRecord, ops' = Append(ops, op),
           \/ op.type = "delete" /\ UNCHANGED <<form, adding>>
           \/ op.at = "tapped" /\ ~adding /\ adding' = TRUE /\ form' # Blank
    PROVE  OneAdd'
<1>1. /\ DOMAIN ops' = DOMAIN ops \cup {Len(ops) + 1}
      /\ Len(ops) + 1 \notin DOMAIN ops
      /\ \A p \in DOMAIN ops : ops'[p] = ops[p]
      /\ ops'[Len(ops) + 1] = op
  BY DEF TypeOK
<1>2. CASE op.type = "delete" /\ UNCHANGED <<form, adding>>
  BY <1>1, <1>2 DEF OneAdd, IsUnderWay
<1>3. CASE op.at = "tapped" /\ ~adding /\ adding' = TRUE /\ form' # Blank
  BY <1>1, <1>3 DEF OneAdd, IsUnderWay
<1>4. QED BY <1>2, <1>3

LEMMA TapIds == TypeOK => TempId \in Int /\ \A k \in DOMAIN items : items[k] \in Int
BY DEF TypeOK, TempId

LEMMA StartForm ==
    ASSUME FormInv, "double add" \notin trouble',
           \/ \E text \in Text : TapAdd(text)
           \/ TapRetry
           \/ \E k \in DOMAIN items : TapDelete(items[k])
    PROVE  OneAdd'
<1>t. TypeOK
  BY DEF FormInv
<1>0. OneAdd
  <2>1. \A happened : Cause("double add", happened) => trouble \subseteq trouble'
    BY Zenon DEF Cause
  <2>2. QED BY <2>1, Zenon DEF FormInv, TapAdd, TapRetry, TapDelete
<1>4. CASE \E k \in DOMAIN items : TapDelete(items[k])
  <2>1. PICK k \in DOMAIN items : TapDelete(items[k])
    BY <1>4
  <2> DEFINE op == Op("delete", "tapped", items[k], Blank, NoIndex, FALSE)
  <2>2. items[k] \in Int
    BY <1>t, TapIds
  <2>3. op \in OpRecord
    BY <2>2, IsOp, ListsAssumption DEF NoIndex
  <2>4. op.type = "delete"
    BY DEF Op
  <2>5. ops' = Append(ops, op) /\ UNCHANGED <<form, adding>>
    BY <2>1, Zenon DEF TapDelete
  <2>6. QED BY <1>t, <1>0, <2>3, <2>4, <2>5, AppendForm, Zenon
<1>5. CASE (\E text \in Text : TapAdd(text)) \/ TapRetry
  <2> DEFINE op == Op("add", "tapped", TempId, Blank, NoIndex, FALSE)
  <2>1. TempId \in Int
    BY <1>t, TapIds
  <2>2. op \in OpRecord
    BY <2>1, IsOp, ListsAssumption DEF NoIndex
  <2>3. op.at = "tapped"
    BY DEF Op
  <2>4. ~adding
    <3>1. \A happened : Cause("double add", happened) => ~happened
      BY Zenon DEF Cause
    <3>2. QED BY <1>5, <3>1, Zenon DEF TapAdd, TapRetry, ButtonOn
  <2>5. ops' = Append(ops, op) /\ adding' = TRUE /\ form' # Blank
    BY <1>5, Zenon DEF TapAdd, TapRetry, StartAdd
  <2>6. QED BY <1>t, <1>0, <2>2, <2>3, <2>4, <2>5, AppendForm, Zenon
<1>6. QED BY <1>4, <1>5

\* An add that ends leaves none behind; one that goes on is the one it was.
LEMMA GoesForm ==
    ASSUME OneAdd, NEW o \in DOMAIN ops, NEW op, Goes(o, op), op.type = ops[o].type,
           ops[o].type = "add" =>
              /\ ops[o].at # "done"
              /\ \/ op.at = "done"
                 \/ op.at \notin {"done", "tapped"} /\ UNCHANGED <<form, adding>>
              /\ op.at = "sent" => op.text # Blank,
           ops[o].type # "add" => UNCHANGED <<form, adding>>
    PROVE  OneAdd'
<1>1. /\ DOMAIN ops' = DOMAIN ops /\ ops'[o] = op
      /\ \A p \in DOMAIN ops \ {o} : /\ ops'[p].type = ops[p].type
                                     /\ ops'[p].at = ops[p].at
                                     /\ ops'[p].text = ops[p].text
  BY DEF Goes
<1>2. CASE ops[o].type = "add" /\ op.at = "done"
  <2>1. \A p \in DOMAIN ops : p # o => ~IsUnderWay(p)
    BY <1>2 DEF OneAdd, IsUnderWay
  <2>2. \A p \in DOMAIN ops' : ops'[p].type = "add" => ops'[p].at = "done"
    BY <1>1, <1>2, <2>1 DEF IsUnderWay
  <2>3. QED BY <2>2 DEF OneAdd, IsUnderWay
<1>3. CASE ops[o].type = "add" /\ op.at # "done"
  BY <1>1, <1>3 DEF OneAdd, IsUnderWay
<1>4. CASE ops[o].type # "add"
  BY <1>1, <1>4 DEF OneAdd, IsUnderWay
<1>5. QED BY <1>2, <1>3, <1>4

LEMMA OpForm ==
    ASSUME FormInv, "double add" \notin trouble', NEW o \in DOMAIN ops,
           \/ ShowAdded(o) \/ ServeAdd(o) \/ AddSucceeds(o) \/ AddFails(o)
           \/ StartDelete(o) \/ DeleteThrows(o) \/ ServeDelete(o) \/ DeleteSucceeds(o)
           \/ DeleteFails(o) \/ DeleteFailsUnseen(o) \/ RequestFails(o)
    PROVE  OneAdd'
<1>t. TypeOK
  BY DEF FormInv
<1>0. OneAdd
  <2>1. \A what, happened : Cause(what, happened) => trouble \subseteq trouble'
    BY Zenon DEF Cause
  <2>2. trouble \subseteq trouble'
    BY <2>1, Zenon DEF ShowAdded, ServeAdd, AddSucceeds, AddFails, StartDelete, DeleteThrows,
          ServeDelete, DeleteSucceeds, DeleteFails, DeleteFailsUnseen, RequestFails
  <2>3. QED BY <2>2, Zenon DEF FormInv
<1>op. \A type, at, id, text, index, calm : LET op == Op(type, at, id, text, index, calm) IN
          op.type = type /\ op.at = at /\ op.text = text
  BY ZenonT(40) DEF Op
<1>1. ASSUME NEW op, ops' = Disturbing(o, op) \/ ops' = Moving(o, op)
      PROVE  Goes(o, op)
  BY <1>t, <1>1, Disturbs, Moves, Zenon
<1>2. CASE ShowAdded(o)
  <2> DEFINE op == Op("add", "sent", ops[o].id, form, NoIndex, FALSE)
  <2>1. op.type = "add" /\ op.at = "sent" /\ op.text = form
    BY DEF Op
  <2>2. /\ Goes(o, op) /\ UNCHANGED <<form, adding>>
        /\ ops[o].type = "add" /\ ops[o].at = "tapped"
    BY <1>1, <1>2, Zenon DEF ShowAdded, At
  <2>3. form # Blank
    BY <1>0, <2>2 DEF OneAdd
  <2> HIDE DEF op
  <2>4. QED BY <1>0, <2>1, <2>2, <2>3, GoesForm
<1>3. CASE ServeAdd(o)
  <2>1. PICK told \in {"ok", "failed"} :
           ops' = Moving(o, Op("add", told, ops[o].id, ops[o].text, NoIndex, FALSE))
    BY <1>3, Zenon DEF ServeAdd
  <2> DEFINE op == Op("add", told, ops[o].id, ops[o].text, NoIndex, FALSE)
  <2>2. op.type = "add" /\ op.at = told
    BY DEF Op
  <2>3. /\ Goes(o, op) /\ UNCHANGED <<form, adding>>
        /\ ops[o].type = "add" /\ ops[o].at = "sent"
    BY <1>1, <1>3, <2>1, Zenon DEF ServeAdd, At
  <2> HIDE DEF op
  <2>4. QED BY <1>0, <2>2, <2>3, GoesForm
<1>4. CASE AddSucceeds(o) \/ AddFails(o)
  <2> DEFINE op == Ended(ops[o])
  <2>1. op.type = ops[o].type /\ op.at = "done"
    BY DEF Ended, Op
  <2>2. Goes(o, op) /\ ops[o].type = "add" /\ ops[o].at \in {"ok", "failed"}
    BY <1>1, <1>4, Zenon DEF AddSucceeds, AddFails, At
  <2> HIDE DEF op
  <2>3. QED BY <1>0, <2>1, <2>2, GoesForm
<1>5. CASE StartDelete(o) \/ DeleteThrows(o) \/ ServeDelete(o) \/ DeleteSucceeds(o)
           \/ DeleteFails(o) \/ DeleteFailsUnseen(o)
  <2>1. \E op : op.type = "delete" /\ Goes(o, op)
    <3>1. ops[o].type = "delete"
      BY <1>5, Zenon DEF StartDelete, DeleteThrows, ServeDelete, DeleteSucceeds,
                         DeleteFails, DeleteFailsUnseen
    <3>2. \/ ops' = Disturbing(o, Ended(ops[o])) \/ ops' = Moving(o, Ended(ops[o]))
          \/ \E at, index, calm :
                \/ ops' = Disturbing(o, Op("delete", at, ops[o].id, Blank, index, calm))
                \/ ops' = Moving(o, Op("delete", at, ops[o].id, Blank, index, calm))
      <4>1. CASE StartDelete(o)
        BY <4>1, Zenon DEF StartDelete
      <4>2. CASE ServeDelete(o)
        <5>1. \E told \in {"ok", "failed"} :
                 ops' = Moving(o, Op("delete", told, ops[o].id, Blank, ops[o].index, ops[o].calm))
          BY <4>2, Zenon DEF ServeDelete
        <5>2. QED BY <5>1
      <4>3. CASE DeleteThrows(o) \/ DeleteSucceeds(o) \/ DeleteFails(o) \/ DeleteFailsUnseen(o)
        BY <4>3, Zenon DEF DeleteThrows, DeleteSucceeds, DeleteFails, DeleteFailsUnseen
      <4>4. QED BY <1>5, <4>1, <4>2, <4>3
    <3>3. Ended(ops[o]).type = "delete"
      BY <3>1 DEF Ended, Op
    <3>4. \A at, index, calm : Op("delete", at, ops[o].id, Blank, index, calm).type = "delete"
      BY DEF Op
    <3>5. QED BY <1>1, <3>2, <3>3, <3>4, Zenon
  <2>2. ops[o].type = "delete" /\ UNCHANGED <<form, adding>>
    BY <1>5, Zenon DEF StartDelete, DeleteThrows, ServeDelete, DeleteSucceeds,
                       DeleteFails, DeleteFailsUnseen
  <2>3. PICK op : op.type = "delete" /\ Goes(o, op)
    BY <2>1
  <2>4. QED BY <1>0, <2>2, <2>3, GoesForm
<1>6. CASE RequestFails(o)
  <2> DEFINE op == Op(ops[o].type, "failed", ops[o].id, ops[o].text, ops[o].index, ops[o].calm)
  <2>1. op.type = ops[o].type /\ op.at = "failed"
    BY DEF Op
  <2>2. Goes(o, op) /\ ops[o].at = "sent" /\ UNCHANGED <<form, adding>>
    BY <1>1, <1>6, Zenon DEF RequestFails, At
  <2> HIDE DEF op
  <2>3. QED BY <1>0, <2>1, <2>2, GoesForm
<1>7. QED BY <1>2, <1>3, <1>4, <1>5, <1>6

LEMMA NextForm == FormInv /\ [Next]_vars => FormInv'
<1> SUFFICES ASSUME FormInv, [Next]_vars, "double add" \notin trouble' PROVE OneAdd'
  BY NextType DEF FormInv
<1>0. ASSUME trouble \subseteq trouble' PROVE OneAdd
  BY <1>0, Zenon DEF FormInv
<1>1. ASSUME UNCHANGED <<ops, form, adding>>, trouble \subseteq trouble' PROVE OneAdd'
  <2>1. OneAdd
    BY <1>0, <1>1
  <2>2. QED BY <1>1, <2>1 DEF OneAdd, IsUnderWay
<1>2. CASE UNCHANGED vars
  <2>1. UNCHANGED <<ops, form, adding>> /\ trouble \subseteq trouble'
    BY <1>2, Zenon DEF vars
  <2>2. QED BY <1>1, <2>1
<1>3. CASE Elsewhere
  <2>1. \A happened : Cause("elsewhere", happened) => trouble \subseteq trouble'
    BY Zenon DEF Cause
  <2>2. UNCHANGED <<ops, form, adding>> /\ trouble \subseteq trouble'
    BY <1>3, <2>1, Zenon DEF Elsewhere
  <2>3. QED BY <1>1, <2>2
<1>4. ASSUME NEW l \in DOMAIN loads, ServeLoad(l) \/ ServeLoadEmpty(l) \/ LoadLost(l)
      PROVE  OneAdd'
  <2>1. UNCHANGED <<ops, form, adding>> /\ trouble \subseteq trouble'
    BY <1>4, Zenon DEF ServeLoad, ServeLoadEmpty, LoadLost
  <2>2. QED BY <1>1, <2>1
<1>5. ASSUME NEW l \in DOMAIN loads, LoadArrives(l) PROVE OneAdd'
  <2>1. \A happened : Cause("overtaken", happened) => trouble \subseteq trouble'
    BY Zenon DEF Cause
  <2>2. trouble \subseteq trouble' /\ UNCHANGED <<form, adding>>
    BY <1>5, <2>1, Zenon DEF LoadArrives
  <2>3. OneAdd
    BY <1>0, <2>2
  <2>4. DOMAIN ops' = DOMAIN ops
        /\ \A p \in DOMAIN ops : /\ ops'[p].type = ops[p].type /\ ops'[p].at = ops[p].at
                                 /\ ops'[p].text = ops[p].text
    BY <1>5 DEF LoadArrives, Op
  <2>5. QED BY <2>2, <2>3, <2>4 DEF OneAdd, IsUnderWay
<1>6. QED BY <1>2, <1>3, <1>4, <1>5, StartForm, OpForm DEF Next

\* The server is never asked to store a blank point, though the form is read
\* only after an await, unless RETRY was tapped while an add was under way.
THEOREM NeverBlank == Spec => []NoBlankRows
<1>1. FormInv => NoBlankRows
  BY DEF FormInv, OneAdd, NoBlankRows, At
<1>2. QED BY <1>1, InitForm, NextForm, PTL DEF Spec

-----------------------------------------------------------------------------
(* What is off its list *)

\* A call leaves a row as it is or deletes it, or is an update of a point; time
\* goes on.
Updates == \E b \in Branch, text \in Text, active \in BOOLEAN :
              \E id : UpdatePickupPoint(b, id, text, active)

LEMMA RowsStep ==
    ASSUME ContentTypeOK, NEW i \in DOMAIN rows,
           ContentNext \/ \E id : DeletePickupPoint(Here, id)
    PROVE  /\ \/ rows'[i] = rows[i]
              \/ rows'[i] = Gone
              \/ Updates
           /\ now \in Nat /\ now' \in Nat /\ now <= now'
<1> DEFINE Kept == \/ rows'[i] = rows[i]
                   \/ rows'[i] = Gone
                   \/ Updates
           Still == now' = now
<1>1. ASSUME NEW kind \in Kind, NEW b \in Branch, NEW text \in Text, NEW at \in Nat,
             Insert(kind, b, text, at)
      PROVE  Kept
  <2>1. \A row : i \in DOMAIN rows => Append(rows, row)[i] = rows[i]
    BY DEF ContentTypeOK
  <2>2. \E row : rows' = Append(rows, row)
    BY <1>1, Zenon DEF Insert
  <2>3. rows'[i] = rows[i]
    BY <2>1, <2>2
  <2>4. QED BY <2>3
<1>2. ASSUME NEW b \in Branch, NEW text \in Text,
             \/ CreatePickupPoint(b, text)
             \/ \E at \in 0..MaxTime : CreateEvent(b, text, at) \/ CreateAlert(b, text, at)
             \/ AddPhoto(b, text)
      PROVE  Kept /\ Still
  BY <1>1, <1>2 DEF CreatePickupPoint, CreateEvent, CreateAlert, AddPhoto, ContentTypeOK, Kind
<1>3. ASSUME NEW b \in Branch, NEW id,
             DeletePickupPoint(b, id) \/ DeleteEvent(b, id) \/ DeleteAlert(b, id) \/ DeletePhoto(b, id)
      PROVE  Kept /\ Still
  <2>1. Still
    BY <1>3, Zenon DEF DeletePickupPoint, DeleteEvent, DeleteAlert, DeletePhoto
  <2>2. rows'[i] = rows[i] \/ rows'[i] = Gone
    BY <1>3 DEF DeletePickupPoint, DeleteEvent, DeleteAlert, DeletePhoto, DeleteWhere
  <2>3. QED BY <2>1, <2>2
<1>4. ASSUME NEW b \in Branch, NEW text \in Text,
             UpdateBranch(b, text) \/ UpdateServiceTimes(b, text)
                \/ \E times \in Text : CreateBranch(b, text, times)
      PROVE  Kept /\ Still
  <2>1. rows' = rows /\ now' = now
    BY <1>4, Zenon DEF UpdateBranch, UpdateServiceTimes, CreateBranch
  <2>2. QED BY <2>1
<1>5. ASSUME NEW b \in Branch, NEW id, NEW text \in Text, NEW active \in BOOLEAN,
             UpdatePickupPoint(b, id, text, active)
      PROVE  Kept /\ Still
  BY <1>5, Zenon DEF UpdatePickupPoint, Updates
<1>6. ASSUME Tick PROVE Kept
  <2>1. rows' = rows
    BY <1>6, Zenon DEF Tick
  <2>2. QED BY <2>1
<1> HIDE DEF Kept, Still
<1>7. Kept /\ now \in Nat /\ now' \in Nat /\ now <= now'
  <2>1. Kept /\ (Still \/ Tick)
    <3>1. CASE ContentNext
      <4>1. Tick => Kept
        BY <1>6 DEF Kept
      <4>2. QED BY <1>2, <1>3, <1>4, <1>5, <3>1, <4>1, Zenon DEF ContentNext
    <3>2. CASE \E id : DeletePickupPoint(Here, id)
      BY <1>3, <3>2, ContentAssumption
    <3>3. QED BY <3>1, <3>2
  <2>2. now \in Nat /\ now' \in Nat /\ now <= now'
    BY <2>1 DEF Tick, ContentTypeOK, Still
  <2>3. QED BY <2>1, <2>2
<1>8. QED BY <1>7 DEF Kept

Revives(i) == ~Listed(i) /\ Listed(i)'

\* A row that stays as it is stays off its list as time goes on.
LEMMA KeptStaysOff ==
    ASSUME ContentTypeOK, NEW i \in DOMAIN rows, Revives(i),
           rows'[i] = rows[i] \/ rows'[i] = Gone,
           now \in Nat, now' \in Nat, now <= now'
    PROVE  FALSE
<1>1. CASE rows'[i] = rows[i]
  <2>1. rows[i] # Gone => rows[i].at \in Nat
    BY DEF ContentTypeOK, RowRecord
  <2>2. Listed(i)
    BY <1>1, <2>1 DEF Revives, Listed, IsPoint, IsEvent, IsAlert, IsRow
  <2>3. QED BY <2>2 DEF Revives
<1>2. CASE rows'[i] = Gone
  BY <1>2 DEF Revives, Listed
<1>3. QED BY <1>1, <1>2

\* An update that brings a row back is of this row, and sets is_active.
LEMMA RevivesItsPoint ==
    ASSUME ContentTypeOK, NEW i \in DOMAIN rows, Revives(i), Updates,
           now \in Nat, now' \in Nat, now <= now'
    PROVE  \E b \in Branch, text \in Text : UpdatePickupPoint(b, i, text, TRUE)
<1>1. PICK b \in Branch, text \in Text, active \in BOOLEAN :
         \E id : UpdatePickupPoint(b, id, text, active)
  BY DEF Updates
<1>2. PICK id : UpdatePickupPoint(b, id, text, active)
  BY <1>1
<1>3. rows'[i] = IF i = id /\ IsRow(i, "point", b)
                 THEN [kind |-> "point", branch |-> b, text |-> text,
                       at |-> rows[i].at, active |-> active]
                 ELSE rows[i]
  BY <1>2, Zenon DEF UpdatePickupPoint
<1>4. i = id /\ IsRow(i, "point", b)
  <2>1. CASE ~(i = id /\ IsRow(i, "point", b))
    <3>1. rows'[i] = rows[i]
      BY <1>3, <2>1, Zenon
    <3>2. QED BY <3>1, KeptStaysOff
  <2>2. QED BY <2>1
<1>5. active = TRUE
  <2>1. rows'[i] = [kind |-> "point", branch |-> b, text |-> text,
                    at |-> rows[i].at, active |-> active]
    BY <1>3, <1>4, Zenon
  <2>2. Listed(i)'
    BY DEF Revives
  <2>3. QED BY <2>1, <2>2 DEF Listed, IsPoint, IsEvent, IsAlert, IsRow
<1>6. QED BY <1>2, <1>4, <1>5, Zenon

\* What a step of the app is to the server.
LEMMA ContentStep ==
    ASSUME TypeOK, [Next]_vars
    PROVE  UNCHANGED contentVars \/ ContentNext \/ \E id : DeletePickupPoint(Here, id)
<1>1. CASE UNCHANGED vars
  BY <1>1, Zenon DEF vars, contentVars
<1>2. ASSUME NEW o \in DOMAIN ops, ServeAdd(o) PROVE ContentNext
  <2>1. CreatePickupPoint(Here, ops[o].text) /\ ops[o].text \in Text /\ Here \in Branch
    BY <1>2, OpFields, ContentAssumption, Zenon DEF ServeAdd
  <2>2. QED BY <2>1, Zenon DEF ContentNext
<1>3. ASSUME NEW o \in DOMAIN ops, ServeDelete(o) PROVE \E id : DeletePickupPoint(Here, id)
  BY <1>3, Zenon DEF ServeDelete
<1>4. CASE Elsewhere
  BY <1>4, Zenon DEF Elsewhere
<1>5. ASSUME (\E text \in Text : TapAdd(text)) \/ TapRetry
                \/ \E k \in DOMAIN items : TapDelete(items[k])
      PROVE  UNCHANGED contentVars
  BY <1>5, Zenon DEF TapAdd, TapRetry, TapDelete
<1>6. ASSUME NEW o \in DOMAIN ops,
             \/ ShowAdded(o) \/ AddSucceeds(o) \/ AddFails(o) \/ StartDelete(o)
             \/ DeleteThrows(o) \/ DeleteSucceeds(o) \/ DeleteFails(o)
             \/ DeleteFailsUnseen(o) \/ RequestFails(o)
      PROVE  UNCHANGED contentVars
  BY <1>6, Zenon DEF ShowAdded, AddSucceeds, AddFails, StartDelete, DeleteThrows,
                     DeleteSucceeds, DeleteFails, DeleteFailsUnseen, RequestFails
<1>7. ASSUME NEW l \in DOMAIN loads,
             ServeLoad(l) \/ ServeLoadEmpty(l) \/ LoadLost(l) \/ LoadArrives(l)
      PROVE  UNCHANGED contentVars
  BY <1>7, Zenon DEF ServeLoad, ServeLoadEmpty, LoadLost, LoadArrives
<1>8. QED BY <1>1, <1>2, <1>3, <1>4, <1>5, <1>6, <1>7 DEF Next

\* What was deleted or hidden, or whose time is over, does not come back but by
\* an update_pickup_point of this point that sets is_active.
THEOREM GoneStaysGone == Spec => OnlyUpdateRevives
<1>1. TypeOK /\ [Next]_vars =>
         [\A i \in DOMAIN rows :
             (~Listed(i) /\ Listed(i)') =>
                 \E b \in Branch, text \in Text : UpdatePickupPoint(b, i, text, TRUE)]_contentVars
  <2> SUFFICES ASSUME TypeOK, [Next]_vars, NEW i \in DOMAIN rows, ~Listed(i), Listed(i)'
               PROVE  \E b \in Branch, text \in Text : UpdatePickupPoint(b, i, text, TRUE)
    OBVIOUS
  <2>1. Revives(i)
    BY DEF Revives
  <2>2. ContentTypeOK
    BY DEF TypeOK
  <2>3. UNCHANGED contentVars \/ ContentNext \/ \E id : DeletePickupPoint(Here, id)
    BY ContentStep
  <2>4. CASE UNCHANGED contentVars
    BY <2>1, <2>4 DEF Revives, Listed, IsPoint, IsEvent, IsAlert, IsRow, contentVars
  <2>5. QED BY <2>1, <2>2, <2>3, <2>4, RowsStep, KeptStaysOff, RevivesItsPoint
<1>2. QED BY <1>1, TypeCorrect, PTL DEF Spec, OnlyUpdateRevives

-----------------------------------------------------------------------------
(* One list at a time *)

\* The rows of one table and branch are the same after the step.
Apart(kind, b) ==
    /\ \A i \in DOMAIN rows : IsRow(i, kind, b) => i \in DOMAIN rows' /\ rows'[i] = rows[i]
    /\ \A i \in DOMAIN rows' : IsRow(i, kind, b)' => i \in DOMAIN rows /\ rows'[i] = rows[i]

LEMMA InsertApart ==
    ASSUME ContentTypeOK, NEW kind, NEW b, NEW text, NEW at, Insert(kind, b, text, at),
           NEW k, NEW c, ~(k = kind /\ c = b)
    PROVE  Apart(k, c)
<1> DEFINE row == [kind |-> kind, branch |-> b, text |-> text, at |-> at, active |-> TRUE]
<1>1. rows' = Append(rows, row)
  BY Zenon DEF Insert
<1>2. row.kind = kind /\ row.branch = b
  OBVIOUS
<1> HIDE DEF row
<1>3. /\ DOMAIN rows' = DOMAIN rows \cup {Len(rows) + 1}
      /\ \A i \in DOMAIN rows : rows'[i] = rows[i]
      /\ rows'[Len(rows) + 1] = row
  BY <1>1 DEF ContentTypeOK
<1>4. QED BY <1>2, <1>3 DEF Apart, IsRow

LEMMA ChangeApart ==
    ASSUME NEW kind, NEW b, NEW k, NEW c, ~(k = kind /\ c = b),
           DOMAIN rows' = DOMAIN rows,
           \A i \in DOMAIN rows :
              \/ rows'[i] = rows[i]
              \/ IsRow(i, kind, b) /\ (rows'[i] = Gone \/ IsRow(i, kind, b)')
    PROVE  Apart(k, c)
BY DEF Apart, IsRow

\* A call is about the rows of one table and branch, or about a branch.
LEMMA ApartStep ==
    ASSUME ContentTypeOK, now' = now, ContentNext \/ \E id : DeletePickupPoint(Here, id)
    PROVE  \/ rows' = rows
           \/ /\ branches' = branches
              /\ \E kind, b : \A k, c : ~(k = kind /\ c = b) => Apart(k, c)
<1> DEFINE One == /\ branches' = branches
                  /\ \E kind, b : \A k, c : ~(k = kind /\ c = b) => Apart(k, c)
<1>1. ASSUME NEW kind, NEW b, NEW text, NEW at, Insert(kind, b, text, at), branches' = branches
      PROVE  One
  <2>1. \A k, c : ~(k = kind /\ c = b) => Apart(k, c)
    BY <1>1, InsertApart
  <2>2. \E k0, b0 : \A k, c : ~(k = k0 /\ c = b0) => Apart(k, c)
    <3> WITNESS kind, b
    <3>1. QED BY <2>1
  <2>3. QED BY <1>1, <2>2, Zenon
<1>2. ASSUME NEW kind, NEW b, branches' = branches, DOMAIN rows' = DOMAIN rows,
             \A i \in DOMAIN rows :
                \/ rows'[i] = rows[i]
                \/ IsRow(i, kind, b) /\ (rows'[i] = Gone \/ IsRow(i, kind, b)')
      PROVE  One
  <2>1. \A k, c : ~(k = kind /\ c = b) => Apart(k, c)
    BY <1>2, ChangeApart
  <2>2. \E k0, b0 : \A k, c : ~(k = k0 /\ c = b0) => Apart(k, c)
    <3> WITNESS kind, b
    <3>1. QED BY <2>1
  <2>3. QED BY <1>2, <2>2, Zenon
<1> HIDE DEF One
<1>3. ASSUME NEW b \in Branch, NEW text \in Text,
             \/ CreatePickupPoint(b, text)
             \/ \E at \in 0..MaxTime : CreateEvent(b, text, at) \/ CreateAlert(b, text, at)
             \/ AddPhoto(b, text)
      PROVE  One
  BY <1>1, <1>3, Zenon DEF CreatePickupPoint, CreateEvent, CreateAlert, AddPhoto
<1>4. ASSUME NEW b, NEW id,
             DeletePickupPoint(b, id) \/ DeleteEvent(b, id) \/ DeleteAlert(b, id) \/ DeletePhoto(b, id)
      PROVE  One
  <2>1. branches' = branches /\ DOMAIN rows' = DOMAIN rows
    BY <1>4 DEF DeletePickupPoint, DeleteEvent, DeleteAlert, DeletePhoto, DeleteWhere
  <2>2. ASSUME NEW kind,
               \A i \in DOMAIN rows : \/ rows'[i] = rows[i]
                                      \/ IsRow(i, kind, b) /\ rows'[i] = Gone
        PROVE  One
    <3>1. \A i \in DOMAIN rows :
             \/ rows'[i] = rows[i]
             \/ IsRow(i, kind, b) /\ (rows'[i] = Gone \/ IsRow(i, kind, b)')
      BY <2>2, Zenon
    <3>2. QED BY <1>2, <2>1, <3>1
  <2>3. CASE DeletePickupPoint(b, id)
    <3>1. ASSUME NEW i \in DOMAIN rows
          PROVE  \/ rows'[i] = rows[i]
                 \/ IsRow(i, "point", b) /\ rows'[i] = Gone
      <4>1. rows'[i] = IF rows[i] # Gone /\ (i = id /\ IsRow(i, "point", b)) THEN Gone ELSE rows[i]
        BY <2>3, Zenon DEF DeletePickupPoint, DeleteWhere
      <4>2. QED BY <4>1 DEF IsRow
    <3>2. QED BY <2>2, <3>1
  <2>4. CASE DeleteEvent(b, id)
    <3>1. ASSUME NEW i \in DOMAIN rows
          PROVE  \/ rows'[i] = rows[i]
                 \/ IsRow(i, "event", b) /\ rows'[i] = Gone
      <4>1. rows'[i] = IF rows[i] # Gone /\ (i = id /\ IsRow(i, "event", b)) THEN Gone ELSE rows[i]
        BY <2>4, Zenon DEF DeleteEvent, DeleteWhere
      <4>2. QED BY <4>1 DEF IsRow
    <3>2. QED BY <2>2, <3>1
  <2>5. CASE DeleteAlert(b, id)
    <3>1. ASSUME NEW i \in DOMAIN rows
          PROVE  \/ rows'[i] = rows[i]
                 \/ IsRow(i, "alert", b) /\ rows'[i] = Gone
      <4>1. rows'[i] = IF rows[i] # Gone /\ (i = id /\ IsRow(i, "alert", b)) THEN Gone ELSE rows[i]
        BY <2>5, Zenon DEF DeleteAlert, DeleteWhere
      <4>2. QED BY <4>1 DEF IsRow
    <3>2. QED BY <2>2, <3>1
  <2>6. CASE DeletePhoto(b, id)
    <3>1. ASSUME NEW i \in DOMAIN rows
          PROVE  \/ rows'[i] = rows[i]
                 \/ IsRow(i, "photo", b) /\ rows'[i] = Gone
      <4>1. rows'[i] = IF rows[i] # Gone /\ (IsRow(i, "photo", b) /\ rows[i].text = id) THEN Gone ELSE rows[i]
        BY <2>6, Zenon DEF DeletePhoto, DeleteWhere
      <4>2. QED BY <4>1 DEF IsRow
    <3>2. QED BY <2>2, <3>1
  <2>7. QED BY <1>4, <2>3, <2>4, <2>5, <2>6
<1>5. ASSUME NEW b, NEW id, NEW text, NEW active, UpdatePickupPoint(b, id, text, active)
      PROVE  One
  <2>1. branches' = branches /\ DOMAIN rows' = DOMAIN rows
    BY <1>5 DEF UpdatePickupPoint
  <2>2. \A i \in DOMAIN rows :
           \/ rows'[i] = rows[i]
           \/ IsRow(i, "point", b) /\ (rows'[i] = Gone \/ IsRow(i, "point", b)')
    BY <1>5 DEF UpdatePickupPoint, IsRow
  <2>3. QED BY <1>2, <2>1, <2>2, Zenon
<1>6. ASSUME NEW b, NEW text,
             UpdateBranch(b, text) \/ UpdateServiceTimes(b, text)
                \/ \E times \in Text : CreateBranch(b, text, times)
      PROVE  rows' = rows
  BY <1>6, Zenon DEF UpdateBranch, UpdateServiceTimes, CreateBranch
<1>7. Tick => rows' = rows
  BY Zenon DEF Tick
<1>8. One \/ rows' = rows
  <2>1. CASE ContentNext
    BY <1>3, <1>4, <1>5, <1>6, <1>7, <2>1, Zenon DEF ContentNext
  <2>2. CASE \E id : DeletePickupPoint(Here, id)
    BY <1>4, <2>2, Zenon
  <2>3. QED BY <2>1, <2>2
<1>9. QED BY <1>8 DEF One

\* The four lists are of the rows of their table and branch.
LEMMA ApartLists ==
    ASSUME now' = now, NEW b \in Branch
    PROVE  /\ Apart("point", b) => Published'["points"][b] = Published["points"][b]
           /\ Apart("event", b) => Published'["events"][b] = Published["events"][b]
           /\ Apart("alert", b) => Published'["alerts"][b] = Published["alerts"][b]
           /\ Apart("photo", b) => Published'["photos"][b] = Published["photos"][b]
<1>1. /\ Published["points"][b] = Contents(GetPickupPoints(b))
      /\ Published["events"][b] = Contents(GetEvents(b))
      /\ Published["alerts"][b] = Contents(GetAlerts(b))
      /\ Published["photos"][b] = Contents(GetPhotos(b))
  BY DEF Published
<1>2. /\ Published'["points"][b] = Contents(GetPickupPoints(b))'
      /\ Published'["events"][b] = Contents(GetEvents(b))'
      /\ Published'["alerts"][b] = Contents(GetAlerts(b))'
      /\ Published'["photos"][b] = Contents(GetPhotos(b))'
  BY DEF Published
<1>3. Apart("point", b) => Contents(GetPickupPoints(b))' = Contents(GetPickupPoints(b))
  BY DEF Apart, Contents, GetPickupPoints, IsPoint, IsRow
<1>4. Apart("event", b) => Contents(GetEvents(b))' = Contents(GetEvents(b))
  BY DEF Apart, Contents, GetEvents, IsEvent, IsRow
<1>5. Apart("alert", b) => Contents(GetAlerts(b))' = Contents(GetAlerts(b))
  BY DEF Apart, Contents, GetAlerts, IsAlert, IsRow
<1>6. Apart("photo", b) => Contents(GetPhotos(b))' = Contents(GetPhotos(b))
  BY DEF Apart, Contents, GetPhotos, IsRow
<1>7. QED BY <1>1, <1>2, <1>3, <1>4, <1>5, <1>6

\* A call changes at most one list, of one branch, and then no branch.
THEOREM OneChange == Spec => OneListAtATime
<1>1. TypeOK /\ [Next]_vars =>
         [now' = now =>
            \A kind \in DOMAIN Published, b \in Branch :
               Published[kind][b] # Published'[kind][b] =>
                  /\ GetAllBranches' = GetAllBranches
                  /\ \A k \in DOMAIN Published, c \in Branch :
                        Published[k][c] # Published'[k][c] => k = kind /\ c = b]_contentVars
  <2> SUFFICES ASSUME TypeOK, [Next]_vars, contentVars' # contentVars, now' = now,
                      NEW kind \in DOMAIN Published, NEW b \in Branch,
                      Published[kind][b] # Published'[kind][b]
               PROVE  /\ GetAllBranches' = GetAllBranches
                      /\ \A k \in DOMAIN Published, c \in Branch :
                            Published[k][c] # Published'[k][c] => k = kind /\ c = b
    OBVIOUS
  <2>1. ContentNext \/ \E id : DeletePickupPoint(Here, id)
    BY ContentStep
  <2>2. ContentTypeOK
    BY DEF TypeOK
  <2>3. DOMAIN Published = {"points", "events", "alerts", "photos"}
    BY DEF Published
  <2>4. rows' # rows
    <3>1. rows' = rows => \A k : Apart(k, b)
      BY DEF Apart, IsRow
    <3>2. QED BY <2>3, <3>1, ApartLists
  <2>5. PICK k0, b0 : branches' = branches /\ \A k, c : ~(k = k0 /\ c = b0) => Apart(k, c)
    BY <2>1, <2>2, <2>4, ApartStep
  <2>6. GetAllBranches' = GetAllBranches
    BY <2>5 DEF GetAllBranches
  <2>7. ASSUME NEW k \in DOMAIN Published, NEW c \in Branch, Published[k][c] # Published'[k][c]
        PROVE  /\ c = b0
               /\ \/ k0 = "point" /\ k = "points"
                  \/ k0 = "event" /\ k = "events"
                  \/ k0 = "alert" /\ k = "alerts"
                  \/ k0 = "photo" /\ k = "photos"
    <3>1. k \in {"points", "events", "alerts", "photos"}
      BY <2>3
    <3>2. /\ k = "points" => ~Apart("point", c)
          /\ k = "events" => ~Apart("event", c)
          /\ k = "alerts" => ~Apart("alert", c)
          /\ k = "photos" => ~Apart("photo", c)
      BY <2>7, ApartLists, Zenon
    <3>3. QED BY <2>5, <3>1, <3>2, Zenon
  <2>8. QED BY <2>6, <2>7
<1>2. QED BY <1>1, TypeCorrect, PTL DEF Spec, OneListAtATime

-----------------------------------------------------------------------------
(* The settled list *)

Points == GetPickupPoints(Here)

UnderWay(o) == ops[o].at \in {"sent", "failed"}

\* The ids of adds that may still be rolled back, and of deletes that took
\* their item off the screen and may still be rolled back.
Adds ==
    {id \in Int : \E o \in DOMAIN ops :
        ops[o].type = "add" /\ UnderWay(o) /\ ops[o].id = id}

Deletes ==
    {id \in Int : \E o \in DOMAIN ops :
        ops[o].type = "delete" /\ UnderWay(o) /\ ops[o].id = id /\ ops[o].index # NoIndex}

\* A list of ids of S, in the server's order, and of A, anywhere.
Explained(s, S, A) ==
    /\ \A k \in DOMAIN s : s[k] \in S \cup A
    /\ \A j, k \in DOMAIN s : j < k /\ s[j] \in S /\ s[k] \in S => s[j] < s[k]

\* What the screen shows when the last reload has arrived and no success
\* asks for another: the server's points and the adds under way; what is
\* missing is being deleted; and a rollback that finds the list as its delete
\* left it brings back such a list.
Faithful ==
    /\ Explained(items, Points, Adds)
    /\ \A id \in Points : Shown(id) \/ id \in Deletes
    /\ \A o \in DOMAIN ops : ops[o].calm /\ ops[o].index # NoIndex =>
          /\ ops[o].index \in 1..(Len(items) + 1)
          /\ Explained(InsertAt(items, ops[o].index, ops[o].id), Points, Adds)

Clean == trouble \subseteq {"double add"}

\* No success that has not asked for its reload yet.
NoneOk == \A o \in DOMAIN ops : ops[o].at # "ok"

LastLoad == loads[Len(loads)]

SettledInv ==
    /\ ScreenInv
    /\ loads # << >>
    /\ Clean =>
        /\ \A l \in DOMAIN loads : loads[l].at # "lost"
        /\ NoneOk /\ LastLoad.at = "answered" => Lists(LastLoad.list, Points)
        /\ NoneOk /\ LastLoad.at = "arrived" => Faithful

-----------------------------------------------------------------------------
(* Explained lists *)

LEMMA ListsExplained ==
    ASSUME NEW s, NEW S, NEW A, Lists(s, S)
    PROVE  Explained(s, S, A) /\ \A id \in S : \E k \in DOMAIN s : s[k] = id
<1>1. S = {s[k] : k \in DOMAIN s}
  BY DEF Lists, ToSet
<1>2. QED BY <1>1 DEF Lists, Explained

LEMMA ExplainedLists ==
    ASSUME NEW s, NEW S, Explained(s, S, {}), \A id \in S : \E k \in DOMAIN s : s[k] = id
    PROVE  Lists(s, S)
<1>1. S = {s[k] : k \in DOMAIN s}
  BY DEF Explained
<1>2. QED BY <1>1 DEF Lists, ToSet, Explained

LEMMA ExplainedBy ==
    ASSUME NEW s, NEW S, NEW A, NEW B, Explained(s, S, A),
           \A k \in DOMAIN s : s[k] \in A => s[k] \in S \cup B
    PROVE  Explained(s, S, B)
BY DEF Explained

LEMMA ExplainedRemove ==
    ASSUME NEW s \in Seq(Int), NEW S, NEW A, NEW k \in DOMAIN s, Explained(s, S, A)
    PROVE  Explained(RemoveAt(s, k), S, A)
<1>1. Len(s) \in Nat /\ DOMAIN s = 1..Len(s) /\ k \in 1..Len(s)
  OBVIOUS
<1>2. /\ DOMAIN RemoveAt(s, k) = 1..(Len(s) - 1)
      /\ \A j \in 1..(Len(s) - 1) :
            RemoveAt(s, k)[j] = IF j < k THEN s[j] ELSE s[j + 1]
  BY RemoveAtLemma, Zenon
<1> DEFINE t == RemoveAt(s, k)
           Was(j) == IF j < k THEN j ELSE j + 1
<1> HIDE DEF t
<1>3. \A j \in DOMAIN t : Was(j) \in DOMAIN s /\ t[j] = s[Was(j)] /\ j \in Int
  BY <1>1, <1>2 DEF t
<1>4. \A i, j \in Int : i < j => Was(i) < Was(j)
  BY <1>1
<1> HIDE DEF Was
<1>5. Explained(t, S, A)
  BY <1>3, <1>4 DEF Explained
<1>6. QED BY <1>5 DEF t

LEMMA ExplainedTop ==
    ASSUME NEW s \in Seq(Int), NEW S, NEW A, NEW id \in Int, id \notin S, id \in A,
           Explained(s, S, A)
    PROVE  Explained(<<id>> \o s, S, A)
<1> DEFINE t == <<id>> \o s
<1>1. /\ DOMAIN t = 1..(Len(s) + 1) /\ Len(s) \in Nat /\ DOMAIN s = 1..Len(s)
      /\ t[1] = id
      /\ \A k \in 2..(Len(s) + 1) : t[k] = s[k - 1]
  OBVIOUS
<1> HIDE DEF t
<1>2. ASSUME NEW k \in DOMAIN t
      PROVE  /\ k \in Int
             /\ \/ k = 1 /\ t[k] = id
                \/ k - 1 \in DOMAIN s /\ t[k] = s[k - 1]
  <2>1. k \in 1..(Len(s) + 1)
    BY <1>1
  <2>2. CASE k = 1
    <3>1. t[k] = id
      BY <1>1, <2>2, Zenon
    <3>2. QED BY <2>1, <2>2, <3>1
  <2>3. CASE k # 1
    <3>1. k \in 2..(Len(s) + 1) /\ k - 1 \in 1..Len(s)
      BY <1>1, <2>1, <2>3
    <3>2. QED BY <1>1, <3>1
  <2>4. QED BY <2>2, <2>3
<1>3. \A k \in DOMAIN t : t[k] \in S \cup A
  BY <1>2 DEF Explained
<1>4. ASSUME NEW j \in DOMAIN t, NEW k \in DOMAIN t, j < k, t[j] \in S, t[k] \in S
      PROVE  t[j] < t[k]
  <2>1. j - 1 \in DOMAIN s /\ k - 1 \in DOMAIN s /\ t[j] = s[j - 1] /\ t[k] = s[k - 1]
        /\ j \in Int /\ k \in Int
    BY <1>2, <1>4
  <2>2. j - 1 < k - 1
    BY <1>4, <2>1
  <2>3. QED BY <1>4, <2>1, <2>2 DEF Explained
<1>5. QED BY <1>3, <1>4 DEF Explained, t

LEMMA Inserted ==
    ASSUME NEW S, NEW s \in Seq(S), NEW i \in 1..(Len(s) + 1), NEW e \in S,
           NEW u, u = InsertAt(s, i, e)
    PROVE  u \in Seq(S) /\ PutIn(u, s, i, e)
BY InsertAtLemma, Zenon

\* Putting back what was taken off gives the list it was taken from.
LEMMA TakenAndPutBack ==
    ASSUME NEW T, NEW s \in Seq(T), NEW k \in Nat, 1 <= k, k <= Len(s),
           NEW t, t = RemoveAt(s, k),
           NEW u, u = InsertAt(t, k, s[k])
    PROVE  k \in 1..(Len(t) + 1) /\ u = s
<1>1. Len(s) \in Nat /\ DOMAIN s = 1..Len(s) /\ k \in 1..Len(s) /\ s[k] \in T
  OBVIOUS
<1>2. /\ t \in Seq(T) /\ Len(t) = Len(s) - 1
      /\ \A j \in 1..(Len(s) - 1) : t[j] = IF j < k THEN s[j] ELSE s[j + 1]
  BY RemoveAtLemma
<1>3. k \in 1..(Len(t) + 1)
  BY <1>1, <1>2
<1>4. u \in Seq(T) /\ PutIn(u, t, k, s[k])
  <2>1. t \in Seq(T) /\ s[k] \in T
    BY <1>1, <1>2
  <2>2. QED BY <1>3, <2>1, Inserted
<1>5. ASSUME NEW j \in 1..Len(s) PROVE u[j] = s[j]
  <2>1. j \in 1..(Len(t) + 1) /\ j \in Int /\ k \in Int
    BY <1>1, <1>2
  <2>2. u[j] = IF j < k THEN t[j] ELSE IF j = k THEN s[k] ELSE t[j - 1]
    BY <1>4, <2>1 DEF PutIn
  <2>3. CASE j < k
    <3>1. j \in 1..(Len(s) - 1)
      BY <1>1, <2>1, <2>3
    <3>2. t[j] = s[j]
      BY <1>2, <2>3, <3>1
    <3>3. QED BY <2>2, <2>3, <3>2
  <2>4. CASE j = k
    BY <2>1, <2>2, <2>4
  <2>5. CASE j > k
    <3>1. j - 1 \in 1..(Len(s) - 1) /\ ~(j - 1 < k) /\ (j - 1) + 1 = j
      BY <1>1, <2>1, <2>5
    <3>2. t[j - 1] = s[(j - 1) + 1]
      BY <1>2, <3>1
    <3>3. QED BY <2>1, <2>2, <2>5, <3>1, <3>2
  <2>6. QED BY <2>1, <2>3, <2>4, <2>5
<1>6. Len(u) = Len(s)
  BY <1>1, <1>2, <1>4 DEF PutIn
<1>7. u = s
  BY <1>4, <1>5, <1>6, SeqEqual
<1>8. QED BY <1>3, <1>7

\* What is taken off leaves the rest.
LEMMA RemovedStays ==
    ASSUME TypeOK, NEW k \in DOMAIN items, items' = RemoveAt(items, k)
    PROVE  \A i \in DOMAIN items : i # k => \E j \in DOMAIN items' : items'[j] = items[i]
<1>1. Len(items) \in Nat /\ DOMAIN items = 1..Len(items) /\ k \in 1..Len(items)
  BY DEF TypeOK
<1>2. /\ DOMAIN items' = 1..(Len(items) - 1)
      /\ \A j \in 1..(Len(items) - 1) : items'[j] = IF j < k THEN items[j] ELSE items[j + 1]
  <2>1. items \in Seq(Int)
    BY DEF TypeOK
  <2>2. /\ items' \in Seq(Int) /\ Len(items') = Len(items) - 1
        /\ \A j \in 1..(Len(items) - 1) : items'[j] = IF j < k THEN items[j] ELSE items[j + 1]
    BY <2>1, RemoveAtLemma
  <2>3. QED BY <2>2
<1>3. ASSUME NEW i \in DOMAIN items, i # k
      PROVE  \E j \in DOMAIN items' : items'[j] = items[i]
  <2>1. i \in 1..Len(items) /\ k \in Int
    BY <1>1
  <2>2. CASE i < k
    <3>1. i \in 1..(Len(items) - 1)
      BY <1>1, <2>1, <2>2
    <3>2. QED BY <1>2, <2>2, <3>1
  <2>3. CASE i > k
    <3>1. i - 1 \in 1..(Len(items) - 1) /\ ~(i - 1 < k) /\ (i - 1) + 1 = i
      BY <1>1, <2>1, <2>3
    <3>2. QED BY <1>2, <3>1
  <2>4. QED BY <1>3, <2>1, <2>2, <2>3
<1>4. QED BY <1>3

-----------------------------------------------------------------------------
(* How the sets of pending ids change *)

LEMMA OpsAfter ==
    ASSUME TypeOK, NEW o \in DOMAIN ops, NEW op,
           ops' = Disturbing(o, op) \/ ops' = Moving(o, op)
    PROVE  /\ DOMAIN ops' = DOMAIN ops /\ ops'[o] = op
           /\ \A p \in DOMAIN ops : p # o =>
                 /\ ops'[p].type = ops[p].type /\ ops'[p].at = ops[p].at
                 /\ ops'[p].id = ops[p].id /\ ops'[p].index = ops[p].index
                 /\ ops'[p].calm => ops[p].calm
<1>1. CASE ops' = Disturbing(o, op)
  BY <1>1 DEF Disturbing, Op
<1>2. CASE ops' = Moving(o, op)
  BY <1>2 DEF Moving
<1>3. QED BY <1>1, <1>2

LEMMA OpFieldsOf ==
    \A type, at, id, text, index, calm :
        LET op == Op(type, at, id, text, index, calm) IN
        op.type = type /\ op.at = at /\ op.id = id /\ op.index = index /\ op.calm = calm
BY DEF Op

\* After a step that disturbs, no delete can rely on its index.
LEMMA NoneCalm ==
    ASSUME TypeOK, NEW o \in DOMAIN ops, NEW op, ops' = Disturbing(o, op), op.calm = FALSE
    PROVE  \A p \in DOMAIN ops' : ~ops'[p].calm
<1>1. DOMAIN ops' = DOMAIN ops /\ ops'[o] = op /\ \A p \in DOMAIN ops \ {o} : ops'[p].calm = FALSE
  BY Disturbs, Zenon DEF Goes
<1>2. ASSUME NEW p \in DOMAIN ops' PROVE ops'[p].calm = FALSE
  <2>1. CASE p = o
    BY <1>1, <2>1, Zenon
  <2>2. CASE p # o
    BY <1>1, <2>2, Zenon
  <2>3. QED BY <2>1, <2>2
<1>3. QED BY <1>2

\* What an operation that goes on does to the two sets.
LEMMA PendingAfter ==
    ASSUME TypeOK, NEW o \in DOMAIN ops, NEW op,
           ops' = Disturbing(o, op) \/ ops' = Moving(o, op),
           op.type = ops[o].type, op.id = ops[o].id
    PROVE  /\ Adds \ {ops[o].id} \subseteq Adds'
           /\ Adds' \subseteq Adds \cup {ops[o].id}
           /\ ops[o].type = "delete" \/ (op.at \in {"sent", "failed"} <=> UnderWay(o)) =>
                 Adds' = Adds
           /\ Deletes \ {ops[o].id} \subseteq Deletes'
           /\ ~UnderWay(o) => Deletes \subseteq Deletes'
           /\ \/ ops[o].type = "add"
              \/ op.index = ops[o].index /\ (op.at \in {"sent", "failed"} <=> UnderWay(o))
              \/ ops[o].index = NoIndex /\ op.index = NoIndex
              => Deletes' = Deletes
<1>1. /\ DOMAIN ops' = DOMAIN ops /\ ops'[o] = op
      /\ \A p \in DOMAIN ops : p # o =>
            /\ ops'[p].type = ops[p].type /\ ops'[p].at = ops[p].at
            /\ ops'[p].id = ops[p].id /\ ops'[p].index = ops[p].index
  BY OpsAfter
<1>2. /\ Adds \ {ops[o].id} \subseteq Adds'
      /\ Adds' \subseteq Adds \cup {ops[o].id}
  BY <1>1 DEF Adds, UnderWay
<1>3. /\ Deletes \ {ops[o].id} \subseteq Deletes'
      /\ ~UnderWay(o) => Deletes \subseteq Deletes'
  BY <1>1 DEF Deletes, UnderWay
<1>4. ops[o].type = "delete" \/ (op.at \in {"sent", "failed"} <=> UnderWay(o)) => Adds' = Adds
  BY <1>1 DEF Adds, UnderWay
<1>5. \/ ops[o].type = "add"
      \/ op.index = ops[o].index /\ (op.at \in {"sent", "failed"} <=> UnderWay(o))
      \/ ops[o].index = NoIndex /\ op.index = NoIndex
      => Deletes' = Deletes
  BY <1>1 DEF Deletes, UnderWay
<1>6. QED BY <1>2, <1>3, <1>4, <1>5

\* Neither a point nor an add of another operation has the id of an add.
LEMMA AddIds ==
    ASSUME ScreenInv, NEW o \in DOMAIN ops, ops[o].type = "add"
    PROVE  /\ ops[o].id \in Int /\ ops[o].id \notin Points
           /\ \A p \in DOMAIN ops : ops[p].type = "add" /\ ops[p].id = ops[o].id => p = o
<1>1. TypeOK /\ IdsKnown
  BY DEF ScreenInv
<1>2. DOMAIN ops = 1..Len(ops) /\ Len(ops) \in Nat
  BY <1>1 DEF TypeOK
<1>3. \A p \in DOMAIN ops : ops[p].type = "add" => ops[p].id = 0 - p
  BY <1>1 DEF IdsKnown
<1>4. Points \subseteq 1..Len(rows) /\ Len(rows) \in Nat
  BY <1>1, PointsLemma DEF TypeOK, Points
<1>5. QED BY <1>2, <1>3, <1>4

\* Everything on the screen is a number.
LEMMA ItemsAre ==
    ASSUME TypeOK
    PROVE  /\ items \in Seq(Int) /\ Len(items) \in Nat /\ DOMAIN items = 1..Len(items)
           /\ \A k \in DOMAIN items : items[k] \in Int
BY DEF TypeOK

-----------------------------------------------------------------------------
(* The screen stays faithful *)

LEMMA SameScreen ==
    ASSUME Faithful, items' = items, Points' = Points, Adds' = Adds, Deletes \subseteq Deletes',
           \A o \in DOMAIN ops' : ops'[o].calm =>
              o \in DOMAIN ops /\ ops[o].calm /\ ops'[o].index = ops[o].index /\ ops'[o].id = ops[o].id
    PROVE  Faithful'
<1>1. Explained(items', Points', Adds')
  BY DEF Faithful
<1>2. \A id \in Points' : Shown(id)' \/ id \in Deletes'
  BY DEF Faithful, Shown
<1>3. ASSUME NEW o \in DOMAIN ops', ops'[o].calm, ops'[o].index # NoIndex
      PROVE  /\ ops'[o].index \in 1..(Len(items') + 1)
             /\ Explained(InsertAt(items', ops'[o].index, ops'[o].id), Points', Adds')
  BY <1>3 DEF Faithful
<1>4. QED BY <1>1, <1>2, <1>3 DEF Faithful

LEMMA ShowAddedFaithful ==
    ASSUME ScreenInv, Faithful, NEW o \in DOMAIN ops, ShowAdded(o), Points' = Points
    PROVE  Faithful'
<1> DEFINE op == Op("add", "sent", ops[o].id, form, NoIndex, FALSE)
<1>0. /\ op.type = ops[o].type /\ op.id = ops[o].id /\ op.at = "sent" /\ op.calm = FALSE
      /\ ops[o].type = "add" /\ ops[o].at = "tapped"
  BY DEF ShowAdded, Op, At
<1>1. ops' = Disturbing(o, op) /\ items' = <<ops[o].id>> \o items
  BY Zenon DEF ShowAdded
<1> HIDE DEF op
<1>t. TypeOK
  BY DEF ScreenInv
<1>2. \A p \in DOMAIN ops' : ~ops'[p].calm
  BY <1>0, <1>1, <1>t, NoneCalm, Zenon
<1>3. ops[o].id \in Int /\ ops[o].id \notin Points
  BY <1>0, AddIds
<1>4. Adds \subseteq Adds' /\ ops[o].id \in Adds' /\ Deletes' = Deletes
  <2>1. DOMAIN ops' = DOMAIN ops /\ ops'[o] = op
    BY <1>1, <1>t, OpsAfter
  <2>2. ops[o].id \in Adds'
    BY <1>0, <1>3, <2>1 DEF Adds, UnderWay
  <2>3. Adds \ {ops[o].id} \subseteq Adds' /\ Deletes' = Deletes
    BY <1>0, <1>1, <1>t, PendingAfter
  <2>4. QED BY <2>2, <2>3
<1>5. Explained(items', Points', Adds')
  <2>1. Explained(items, Points, Adds')
    BY <1>4, ExplainedBy DEF Faithful, Explained
  <2>2. QED BY <1>1, <1>3, <1>4, <1>t, <2>1, ItemsAre, ExplainedTop
<1>6. \A id : Shown(id) => Shown(id)'
  <2>1. \A k \in 1..Len(items) : k + 1 \in DOMAIN items' /\ items'[k + 1] = items[k]
    BY <1>1, <1>3, <1>t, ItemsAre
  <2>2. QED BY <1>t, <2>1, ItemsAre DEF Shown
<1>7. QED BY <1>2, <1>4, <1>5, <1>6 DEF Faithful

LEMMA AddFailsFaithful ==
    ASSUME ScreenInv, Distinct, Faithful, NEW o \in DOMAIN ops, AddFails(o), Points' = Points
    PROVE  Faithful'
<1> DEFINE op == Ended(ops[o])
<1>0. /\ op.type = ops[o].type /\ op.id = ops[o].id /\ op.at = "done" /\ op.calm = FALSE
      /\ ops[o].type = "add"
  BY DEF AddFails, Ended, Op
<1>1. /\ ops' = Disturbing(o, op)
      /\ \/ \E k \in DOMAIN items : IsFirst(k, ops[o].id) /\ items' = RemoveAt(items, k)
         \/ ~Shown(ops[o].id) /\ items' = items
  BY Zenon DEF AddFails
<1> HIDE DEF op
<1>t. TypeOK
  BY DEF ScreenInv
<1>2. \A p \in DOMAIN ops' : ~ops'[p].calm
  BY <1>0, <1>1, <1>t, NoneCalm, Zenon
<1>3. ops[o].id \notin Points
  BY <1>0, AddIds
<1>4. Adds \ {ops[o].id} \subseteq Adds' /\ Deletes' = Deletes
  BY <1>0, <1>1, <1>t, PendingAfter
<1>5. /\ Explained(items', Points, Adds)
      /\ \A k \in DOMAIN items' : items'[k] # ops[o].id
      /\ \A id \in Points : Shown(id) => Shown(id)'
  <2>1. CASE ~Shown(ops[o].id) /\ items' = items
    BY <2>1 DEF Faithful, Shown
  <2>2. ASSUME NEW k \in DOMAIN items, items[k] = ops[o].id, items' = RemoveAt(items, k)
        PROVE  /\ Explained(items', Points, Adds)
               /\ \A j \in DOMAIN items' : items'[j] # ops[o].id
               /\ \A id \in Points : Shown(id) => Shown(id)'
    <3>1. Explained(items', Points, Adds)
      BY <1>t, <2>2, ItemsAre, ExplainedRemove DEF Faithful
    <3>2. \A j \in DOMAIN items' : items'[j] # ops[o].id
      BY <2>2, Removed
    <3>3. \A i \in DOMAIN items : i # k => \E j \in DOMAIN items' : items'[j] = items[i]
      BY <1>t, <2>2, RemovedStays
    <3>4. QED BY <1>3, <2>2, <3>1, <3>2, <3>3 DEF Shown
  <2>3. QED BY <1>1, <2>1, <2>2 DEF IsFirst
<1>6. Explained(items', Points', Adds')
  BY <1>4, <1>5, ExplainedBy
<1>7. QED BY <1>2, <1>4, <1>5, <1>6 DEF Faithful

LEMMA StartDeleteFaithful ==
    ASSUME ScreenInv, Faithful, NEW o \in DOMAIN ops, StartDelete(o), Points' = Points
    PROVE  Faithful'
<1>t. TypeOK
  BY DEF ScreenInv
<1>1. PICK i \in Nat :
         /\ ops' = Disturbing(o, Op("delete", "sent", ops[o].id, Blank, i, TRUE))
         /\ \/ i \in DOMAIN items /\ items[i] = ops[o].id /\ items' = RemoveAt(items, i)
            \/ i = NoIndex /\ items' = items
  <2>1. NoIndex \in Nat /\ \A k \in DOMAIN items : k \in Nat
    BY <1>t DEF NoIndex, TypeOK
  <2>2. QED BY <2>1, Zenon DEF StartDelete, IsFirst
<1> DEFINE op == Op("delete", "sent", ops[o].id, Blank, i, TRUE)
<1>0. /\ op.type = ops[o].type /\ op.id = ops[o].id /\ op.at = "sent" /\ op.index = i
      /\ ops[o].type = "delete" /\ ops[o].at = "tapped" /\ ops[o].id \in Int
  BY <1>t, OpFields DEF StartDelete, Op, At
<1>2. ops' = Disturbing(o, op)
  BY <1>1
<1> HIDE DEF op
<1>3. DOMAIN ops' = DOMAIN ops /\ ops'[o] = op
  BY <1>2, <1>t, OpsAfter
<1>4. ASSUME NEW p \in DOMAIN ops', ops'[p].calm PROVE p = o
  <2>1. \A q \in DOMAIN ops \ {o} : ops'[q].calm = FALSE
    BY <1>2, <1>t, Disturbs, Zenon
  <2>2. QED BY <1>3, <1>4, <2>1, Zenon
<1>5. Adds' = Adds /\ Deletes \subseteq Deletes'
  BY <1>0, <1>2, <1>t, PendingAfter DEF UnderWay
<1>6. CASE i \in DOMAIN items /\ items[i] = ops[o].id /\ items' = RemoveAt(items, i)
  <2>1. ops[o].id \in Deletes'
    <3>1. i # NoIndex
      BY <1>6, <1>t, ItemsAre DEF NoIndex
    <3>2. QED BY <1>0, <1>3, <3>1 DEF Deletes, UnderWay
  <2>2. Explained(items', Points', Adds')
    BY <1>5, <1>6, <1>t, ItemsAre, ExplainedRemove DEF Faithful
  <2>3. \A id \in Points' : Shown(id)' \/ id \in Deletes'
    <3>1. \A j \in DOMAIN items : j # i => \E k \in DOMAIN items' : items'[k] = items[j]
      BY <1>6, <1>t, RemovedStays
    <3>2. QED BY <1>5, <1>6, <2>1, <3>1 DEF Faithful, Shown
  <2>4. i \in 1..(Len(items') + 1) /\ InsertAt(items', i, ops[o].id) = items
    <3>1. items \in Seq(Int) /\ 1 <= i /\ i <= Len(items)
      BY <1>6, <1>t, ItemsAre
    <3>2. ASSUME NEW u, u = InsertAt(items', i, items[i])
          PROVE  i \in 1..(Len(items') + 1) /\ u = items
      BY <1>6, <3>1, <3>2, TakenAndPutBack
    <3>3. QED BY <1>6, <3>2
  <2>5. QED BY <1>0, <1>3, <1>4, <1>5, <2>2, <2>3, <2>4 DEF Faithful
<1>7. CASE i = NoIndex /\ items' = items
  BY <1>0, <1>3, <1>4, <1>5, <1>7 DEF Faithful, Shown
<1>8. QED BY <1>1, <1>6, <1>7

\* A rollback that may trust its index.
LEMMA DeleteFailsFaithful ==
    ASSUME ScreenInv, Faithful, NEW o \in DOMAIN ops, DeleteFails(o), ops[o].calm, Points' = Points
    PROVE  Faithful'
<1> DEFINE op == Ended(ops[o])
           i  == ops[o].index
           id == ops[o].id
<1>0. /\ op.type = ops[o].type /\ op.id = id /\ op.at = "done" /\ op.calm = FALSE
      /\ ops[o].type = "delete"
  BY DEF DeleteFails, Ended, Op
<1>1. /\ ops' = Disturbing(o, op)
      /\ i \in 1..(Len(items) + 1) /\ items' = InsertAt(items, i, id)
  BY Zenon DEF DeleteFails
<1> HIDE DEF op
<1>t. TypeOK
  BY DEF ScreenInv
<1>2. \A p \in DOMAIN ops' : ~ops'[p].calm
  BY <1>0, <1>1, <1>t, NoneCalm, Zenon
<1>3. Adds' = Adds /\ Deletes \ {id} \subseteq Deletes'
  BY <1>0, <1>1, <1>t, PendingAfter
<1>4. i # NoIndex
  BY <1>1, <1>t, ItemsAre DEF NoIndex
<1>5. Explained(items', Points', Adds')
  BY <1>1, <1>3, <1>4 DEF Faithful
<1>6. \A x : x = id \/ Shown(x) => Shown(x)'
  <2>1. i \in Int /\ id \in Int
    BY <1>1, <1>t, ItemsAre, OpFields
  <2> HIDE DEF i, id
  <2>2. items' \in Seq(Int) /\ PutIn(items', items, i, id)
    <3>1. \A S : items \in Seq(S) /\ id \in S =>
             items' \in Seq(S) /\ PutIn(items', items, i, id)
      BY <1>1, Inserted
    <3>2. QED BY <1>t, <2>1, <3>1, ItemsAre
  <2>3. /\ DOMAIN items' = 1..(Len(items) + 1) /\ Len(items) \in Nat
        /\ \A j \in 1..(Len(items) + 1) :
              items'[j] = IF j < i THEN items[j] ELSE IF j = i THEN id ELSE items[j - 1]
    BY <1>t, <2>2, ItemsAre DEF PutIn
  <2>4. items'[i] = id /\ i \in DOMAIN items'
    BY <1>1, <2>1, <2>3
  <2>5. ASSUME NEW k \in DOMAIN items PROVE \E j \in DOMAIN items' : items'[j] = items[k]
    <3>1. k \in 1..Len(items)
      BY <1>t, ItemsAre
    <3>2. CASE k < i
      <4>1. k \in 1..(Len(items) + 1)
        BY <2>3, <3>1
      <4>2. QED BY <2>3, <3>2, <4>1
    <3>3. CASE ~(k < i)
      <4>1. k + 1 \in 1..(Len(items) + 1) /\ ~(k + 1 < i) /\ k + 1 # i /\ (k + 1) - 1 = k
        BY <2>1, <2>3, <3>1, <3>3
      <4>2. QED BY <2>3, <4>1
    <3>4. QED BY <3>2, <3>3
  <2>6. QED BY <2>4, <2>5 DEF Shown
<1> HIDE DEF i, id
<1>7. QED BY <1>2, <1>3, <1>5, <1>6 DEF Faithful

\* A reload that arrives as the last one replaces the screen.
LEMMA ArrivalFaithful ==
    ASSUME TypeOK, NEW l \in DOMAIN loads, LoadArrives(l), Lists(loads[l].list, Points),
           Points' = Points
    PROVE  Faithful'
<1>1. items' = loads[l].list
  BY Zenon DEF LoadArrives, Reloaded
<1>2. \A p \in DOMAIN ops' : ~ops'[p].calm
  BY DEF LoadArrives, Op
<1>3. /\ Explained(items', Points', Adds')
      /\ \A id \in Points' : \E k \in DOMAIN items' : items'[k] = id
  BY <1>1, ListsExplained
<1>4. QED BY <1>2, <1>3 DEF Faithful, Shown

-----------------------------------------------------------------------------
(* Steps of SettledInv *)

LEMMA InitSettled == Init => SettledInv
<1> SUFFICES ASSUME Init PROVE SettledInv
  OBVIOUS
<1>1. loads = <<[at |-> "sent", list |-> << >>]>>
  BY DEF Init
<1>2. Len(loads) = 1 /\ loads # << >> /\ \A l \in DOMAIN loads : loads[l].at = "sent"
  BY <1>1
<1>3. LastLoad.at = "sent"
  BY <1>1 DEF LastLoad
<1>4. QED BY <1>2, <1>3, InitScreen DEF SettledInv

\* Steps that leave the reloads alone.
LEMMA SettledKept ==
    ASSUME SettledInv, ScreenInv', loads' = loads, trouble \subseteq trouble',
           Clean' => /\ Points' = Points
                     /\ NoneOk' => NoneOk /\ (Faithful => Faithful')
    PROVE  SettledInv'
<1>1. Clean' => Clean
  BY DEF Clean
<1>2. LastLoad' = LastLoad
  BY DEF LastLoad
<1>3. QED BY <1>1, <1>2 DEF SettledInv

\* Steps that start a reload.
LEMMA SettledLoading ==
    ASSUME SettledInv, ScreenInv', StartLoad, trouble \subseteq trouble'
    PROVE  SettledInv'
<1>1. TypeOK
  BY DEF SettledInv, ScreenInv
<1>2. /\ Len(loads') = Len(loads) + 1 /\ DOMAIN loads' = 1..(Len(loads) + 1)
      /\ Len(loads) \in Nat /\ DOMAIN loads = 1..Len(loads)
      /\ \A l \in DOMAIN loads : loads'[l] = loads[l]
      /\ loads'[Len(loads) + 1].at = "sent"
  BY <1>1 DEF TypeOK, StartLoad
<1>3. LastLoad'.at = "sent" /\ loads' # << >>
  BY <1>2 DEF LastLoad
<1>4. (\A l \in DOMAIN loads : loads[l].at # "lost") => \A l \in DOMAIN loads' : loads'[l].at # "lost"
  BY <1>2
<1>5. Clean' => Clean
  BY DEF Clean
<1>6. QED BY <1>3, <1>4, <1>5 DEF SettledInv

LEMMA CauseGrows ==
    \A what, happened : Cause(what, happened) =>
        trouble \subseteq trouble' /\ (happened => what \in trouble')
BY Zenon DEF Cause

LEMMA NotClean ==
    ASSUME NEW what \in trouble', what # "double add"
    PROVE  ~Clean'
BY DEF Clean

\* An operation that goes on without success leaves no success behind.
LEMMA NoneOkAfter ==
    ASSUME TypeOK, NEW o \in DOMAIN ops, NEW op,
           ops' = Disturbing(o, op) \/ ops' = Moving(o, op)
    PROVE  /\ ops[o].at # "ok" => (NoneOk' => NoneOk)
           /\ op.at = "ok" => ~NoneOk'
BY OpsAfter DEF NoneOk

LEMMA TapSettled ==
    ASSUME SettledInv, ScreenInv',
           \/ \E text \in Text : TapAdd(text)
           \/ TapRetry
           \/ \E k \in DOMAIN items : TapDelete(items[k])
    PROVE  SettledInv'
<1>t. TypeOK
  BY DEF SettledInv, ScreenInv
<1>0. TempId \in Int /\ \A k \in DOMAIN items : items[k] \in Int
  BY <1>t, TapIds
<1>1. PICK op \in OpRecord : op.at = "tapped" /\ op.calm = FALSE /\ ops' = Append(ops, op)
  <2>1. \A type \in {"add", "delete"}, id \in Int :
           LET op == Op(type, "tapped", id, Blank, NoIndex, FALSE) IN
           op \in OpRecord /\ op.at = "tapped" /\ op.calm = FALSE
    <3>1. Blank \in Text /\ NoIndex \in Nat /\ FALSE \in BOOLEAN
      BY ListsAssumption DEF NoIndex
    <3>2. "tapped" \in {"tapped", "sent", "ok", "failed", "done"}
      OBVIOUS
    <3>3. \A type \in {"add", "delete"}, id \in Int :
             Op(type, "tapped", id, Blank, NoIndex, FALSE) \in OpRecord
      BY <3>1, <3>2, IsOp
    <3>4. \A type \in {"add", "delete"}, id \in Int :
             /\ Op(type, "tapped", id, Blank, NoIndex, FALSE).at = "tapped"
             /\ Op(type, "tapped", id, Blank, NoIndex, FALSE).calm = FALSE
      BY DEF Op
    <3>5. QED BY <3>3, <3>4
  <2>2. \E type \in {"add", "delete"}, id \in Int :
           ops' = Append(ops, Op(type, "tapped", id, Blank, NoIndex, FALSE))
    BY <1>0, Zenon DEF TapAdd, TapRetry, TapDelete, StartAdd
  <2>3. QED BY <2>1, <2>2, Zenon
<1>2. UNCHANGED <<items, loads, contentVars>> /\ trouble \subseteq trouble'
  BY CauseGrows, Zenon DEF TapAdd, TapRetry, TapDelete, StartAdd
<1>3. /\ DOMAIN ops' = DOMAIN ops \cup {Len(ops) + 1}
      /\ Len(ops) + 1 \notin DOMAIN ops
      /\ \A p \in DOMAIN ops : ops'[p] = ops[p]
      /\ ops'[Len(ops) + 1] = op
  BY <1>1, <1>t DEF TypeOK
<1>4. Adds' = Adds /\ Deletes' = Deletes /\ (NoneOk' => NoneOk)
  BY <1>1, <1>3 DEF Adds, Deletes, UnderWay, NoneOk
<1>5. Points' = Points
  BY <1>2 DEF Points, GetPickupPoints, IsPoint, IsRow, contentVars
<1>6. Faithful => Faithful'
  <2>1. \A p \in DOMAIN ops' : ops'[p].calm => p \in DOMAIN ops /\ ops'[p] = ops[p]
    BY <1>1, <1>3
  <2>2. QED BY <1>2, <1>4, <1>5, <2>1, SameScreen
<1>7. QED BY <1>2, <1>4, <1>5, <1>6, SettledKept

LEMMA SameContent ==
    ASSUME UNCHANGED contentVars
    PROVE  Points' = Points
BY DEF Points, GetPickupPoints, IsPoint, IsRow, contentVars

\* A success is followed by a reload.
LEMMA SucceedsSettled ==
    ASSUME SettledInv, ScreenInv', NEW o \in DOMAIN ops,
           AddSucceeds(o) \/ DeleteSucceeds(o)
    PROVE  SettledInv'
BY SettledLoading DEF AddSucceeds, DeleteSucceeds

\* What the server does it tells, and then a reload is to come.
LEMMA ServeSettled ==
    ASSUME SettledInv, ScreenInv', NEW o \in DOMAIN ops,
           ServeAdd(o) \/ ServeDelete(o)
    PROVE  SettledInv'
<1>t. TypeOK
  BY DEF SettledInv, ScreenInv
<1>1. \E told \in {"ok", "failed"} : \E op :
         op.at = told /\ ops' = Moving(o, op) /\ Cause("answer lost", told = "failed")
  <2>1. CASE ServeAdd(o)
    <3>1. PICK told \in {"ok", "failed"} :
             /\ ops' = Moving(o, Op("add", told, ops[o].id, ops[o].text, NoIndex, FALSE))
             /\ Cause("answer lost", told = "failed")
      BY <2>1, Zenon DEF ServeAdd
    <3>2. Op("add", told, ops[o].id, ops[o].text, NoIndex, FALSE).at = told
      BY DEF Op
    <3>3. QED BY <3>1, <3>2, Zenon
  <2>2. CASE ServeDelete(o)
    <3>1. PICK told \in {"ok", "failed"} :
             /\ ops' = Moving(o, Op("delete", told, ops[o].id, Blank, ops[o].index, ops[o].calm))
             /\ Cause("answer lost", told = "failed")
      BY <2>2, Zenon DEF ServeDelete
    <3>2. Op("delete", told, ops[o].id, Blank, ops[o].index, ops[o].calm).at = told
      BY DEF Op
    <3>3. QED BY <3>1, <3>2, Zenon
  <2>3. QED BY <2>1, <2>2
<1>2. PICK told \in {"ok", "failed"} :
         \E op : op.at = told /\ ops' = Moving(o, op) /\ Cause("answer lost", told = "failed")
  BY <1>1, Zenon
<1>3. loads' = loads
  BY Zenon DEF ServeAdd, ServeDelete
<1>4. trouble \subseteq trouble' /\ (told = "failed" => "answer lost" \in trouble')
  BY <1>2, CauseGrows, Zenon
<1>5. told = "failed" => ~Clean'
  BY <1>4 DEF Clean
<1>6. told = "ok" => ~NoneOk'
  <2>1. PICK op : op.at = told /\ ops' = Moving(o, op)
    BY <1>2, Zenon
  <2>2. QED BY <1>t, <2>1, NoneOkAfter
<1>7. Clean' => Clean /\ \A l \in DOMAIN loads' : loads'[l].at # "lost"
  BY <1>3, <1>4 DEF Clean, SettledInv
<1>8. QED BY <1>3, <1>5, <1>6, <1>7 DEF SettledInv

\* Steps of an operation that neither is nor becomes a success.
LEMMA OpSettled ==
    ASSUME SettledInv, ScreenInv', NEW o \in DOMAIN ops, NEW op,
           ops' = Disturbing(o, op) \/ ops' = Moving(o, op), ops[o].at # "ok",
           loads' = loads, trouble \subseteq trouble',
           Clean' => Points' = Points /\ (Faithful => Faithful')
    PROVE  SettledInv'
<1>1. TypeOK
  BY DEF SettledInv, ScreenInv
<1>2. NoneOk' => NoneOk
  BY <1>1, NoneOkAfter
<1>3. QED BY <1>2, SettledKept

LEMMA ShowAddedSettled ==
    ASSUME SettledInv, ScreenInv', NEW o \in DOMAIN ops, ShowAdded(o)
    PROVE  SettledInv'
<1>1. /\ ops' = Disturbing(o, Op("add", "sent", ops[o].id, form, NoIndex, FALSE))
      /\ ops[o].at = "tapped" /\ loads' = loads /\ trouble' = trouble
      /\ UNCHANGED contentVars
  BY Zenon DEF ShowAdded, At
<1>2. Points' = Points
  BY <1>1, SameContent
<1>3. Faithful => Faithful'
  BY <1>2, ShowAddedFaithful DEF SettledInv
<1>4. QED BY <1>1, <1>2, <1>3, OpSettled

LEMMA AddFailsSettled ==
    ASSUME SettledInv, ScreenInv', NEW o \in DOMAIN ops, AddFails(o)
    PROVE  SettledInv'
<1>1. /\ ops' = Disturbing(o, Ended(ops[o]))
      /\ ops[o].at = "failed" /\ loads' = loads /\ trouble' = trouble
      /\ UNCHANGED contentVars
  BY Zenon DEF AddFails, At
<1>2. Points' = Points
  BY <1>1, SameContent
<1>3. Clean' => (Faithful => Faithful')
  <2>1. Clean' => "rollback disturbed" \notin trouble
    BY <1>1 DEF Clean
  <2>2. Clean' => Distinct
    BY <2>1 DEF SettledInv, ScreenInv
  <2>3. QED BY <1>2, <2>2, AddFailsFaithful DEF SettledInv
<1>4. QED BY <1>1, <1>2, <1>3, OpSettled

LEMMA StartDeleteSettled ==
    ASSUME SettledInv, ScreenInv', NEW o \in DOMAIN ops, StartDelete(o)
    PROVE  SettledInv'
<1>1. /\ \E op : ops' = Disturbing(o, op)
      /\ ops[o].at = "tapped" /\ loads' = loads /\ trouble' = trouble
      /\ UNCHANGED contentVars
  BY Zenon DEF StartDelete, At
<1>2. Points' = Points
  BY <1>1, SameContent
<1>3. Faithful => Faithful'
  BY <1>2, StartDeleteFaithful DEF SettledInv
<1>4. QED BY <1>1, <1>2, <1>3, OpSettled

\* A rollback without trouble trusts its index.
LEMMA DeleteFailsSettled ==
    ASSUME SettledInv, ScreenInv', NEW o \in DOMAIN ops, DeleteFails(o)
    PROVE  SettledInv'
<1>1. /\ ops' = Disturbing(o, Ended(ops[o]))
      /\ ops[o].at = "failed" /\ loads' = loads
      /\ Cause("rollback disturbed", ~ops[o].calm)
      /\ UNCHANGED contentVars
  BY Zenon DEF DeleteFails, At
<1>2. Points' = Points
  BY <1>1, SameContent
<1>3. trouble \subseteq trouble' /\ (~ops[o].calm => "rollback disturbed" \in trouble')
  BY <1>1, CauseGrows, Zenon
<1>4. ~ops[o].calm => ~Clean'
  BY <1>3 DEF Clean
<1>5. ops[o].calm => (Faithful => Faithful')
  BY <1>2, DeleteFailsFaithful DEF SettledInv
<1>6. QED BY <1>1, <1>2, <1>3, <1>4, <1>5, OpSettled

\* Steps that leave the screen alone.
LEMMA QuietSettled ==
    ASSUME SettledInv, ScreenInv', NEW o \in DOMAIN ops,
           RequestFails(o) \/ DeleteThrows(o)
    PROVE  SettledInv'
<1>t. TypeOK
  BY DEF SettledInv, ScreenInv
<1>1. PICK op :
         /\ ops' = Moving(o, op)
         /\ op.type = ops[o].type /\ op.id = ops[o].id
         /\ op.calm => ops[o].calm /\ op.index = ops[o].index
         /\ op.at \in {"sent", "failed"} <=> UnderWay(o)
         /\ op.index = ops[o].index \/ ~UnderWay(o)
  <2>1. CASE RequestFails(o)
    <3> DEFINE op == Op(ops[o].type, "failed", ops[o].id, ops[o].text, ops[o].index, ops[o].calm)
    <3>1. /\ op.type = ops[o].type /\ op.id = ops[o].id /\ op.at = "failed"
          /\ op.index = ops[o].index /\ op.calm = ops[o].calm
      BY DEF Op
    <3>2. ops' = Moving(o, op) /\ ops[o].at = "sent"
      BY <2>1, Zenon DEF RequestFails, At
    <3> HIDE DEF op
    <3>3. QED BY <3>1, <3>2 DEF UnderWay
  <2>2. CASE DeleteThrows(o)
    <3> DEFINE op == Ended(ops[o])
    <3>1. /\ op.type = ops[o].type /\ op.id = ops[o].id /\ op.at = "done"
          /\ op.index = NoIndex /\ op.calm = FALSE
      BY DEF Op, Ended
    <3>2. ops' = Moving(o, op) /\ ops[o].at = "tapped"
      BY <2>2, Zenon DEF DeleteThrows, At
    <3> HIDE DEF op
    <3>3. QED BY <3>1, <3>2 DEF UnderWay
  <2>3. QED BY <2>1, <2>2
<1>2. /\ loads' = loads /\ items' = items /\ UNCHANGED contentVars
      /\ ops[o].at # "ok" /\ trouble' = trouble
  BY DEF RequestFails, DeleteThrows, At
<1>3. Points' = Points
  BY <1>2, SameContent
<1>4. Faithful => Faithful'
  <2>1. Adds' = Adds
    BY <1>t, <1>1, PendingAfter
  <2>2. Deletes \subseteq Deletes'
    BY <1>t, <1>1, PendingAfter
  <2>3. /\ DOMAIN ops' = DOMAIN ops /\ ops'[o] = op
        /\ \A p \in DOMAIN ops \ {o} : ops'[p] = ops[p]
    BY <1>t, <1>1 DEF Moving, TypeOK
  <2>4. \A p \in DOMAIN ops' : ops'[p].calm =>
           p \in DOMAIN ops /\ ops[p].calm /\ ops'[p].index = ops[p].index /\ ops'[p].id = ops[p].id
    BY <1>1, <2>3
  <2>5. QED BY <1>2, <1>3, <2>1, <2>2, <2>4, SameScreen
<1>5. QED BY <1>1, <1>2, <1>3, <1>4, OpSettled

\* A rollback that finds no place, without trouble, is one of a delete that
\* took nothing off.
LEMMA UnseenSettled ==
    ASSUME SettledInv, ScreenInv', NEW o \in DOMAIN ops, DeleteFailsUnseen(o)
    PROVE  SettledInv'
<1> DEFINE op == Ended(ops[o])
<1>t. TypeOK
  BY DEF SettledInv, ScreenInv
<1>0. /\ op.type = ops[o].type /\ op.id = ops[o].id /\ op.at = "done"
      /\ op.index = NoIndex /\ op.calm = FALSE
  BY DEF Op, Ended
<1>1. /\ ops' = Disturbing(o, op) /\ ops[o].at = "failed" /\ ops[o].type = "delete"
      /\ loads' = loads /\ items' = items /\ UNCHANGED contentVars
      /\ Cause("rollback disturbed", ops[o].index # NoIndex)
  BY Zenon DEF DeleteFailsUnseen, At
<1> HIDE DEF op
<1>2. trouble \subseteq trouble' /\ (ops[o].index # NoIndex => "rollback disturbed" \in trouble')
  BY <1>1, CauseGrows, Zenon
<1>3. Clean' => ops[o].index = NoIndex
  BY <1>2 DEF Clean
<1>4. Points' = Points
  BY <1>1, SameContent
<1>5. ops[o].index = NoIndex => (Faithful => Faithful')
  <2>1. Adds' = Adds
    BY <1>t, <1>0, <1>1, PendingAfter
  <2>2. ops[o].index = NoIndex => Deletes' = Deletes
    BY <1>t, <1>0, <1>1, PendingAfter
  <2>3. \A p \in DOMAIN ops' : ~ops'[p].calm
    BY <1>t, <1>0, <1>1, NoneCalm, Zenon
  <2>4. QED BY <1>1, <1>4, <2>1, <2>2, <2>3, SameScreen
<1>6. QED BY <1>1, <1>2, <1>3, <1>4, <1>5, OpSettled

-----------------------------------------------------------------------------
(* Reloads *)

LEMMA LoadsAfter ==
    ASSUME TypeOK, NEW l \in DOMAIN loads, NEW load,
           loads' = [loads EXCEPT ![l] = load]
    PROVE  /\ Len(loads') = Len(loads) /\ DOMAIN loads' = DOMAIN loads
           /\ loads # << >> => loads' # << >>
           /\ loads'[l] = load
           /\ \A m \in DOMAIN loads : m # l => loads'[m] = loads[m]
           /\ Len(loads) \in DOMAIN loads
           /\ l = Len(loads) => LastLoad' = load
           /\ l # Len(loads) => LastLoad' = LastLoad
<1>1. loads \in Seq(LoadRecord) /\ Len(loads) \in Nat /\ DOMAIN loads = 1..Len(loads)
  BY DEF TypeOK
<1>2. /\ Len(loads') = Len(loads) /\ DOMAIN loads' = DOMAIN loads
      /\ loads'[l] = load
      /\ \A m \in DOMAIN loads : m # l => loads'[m] = loads[m]
  BY <1>1
<1>3. Len(loads) \in DOMAIN loads /\ loads' # << >>
  BY <1>1, <1>2
<1>4. QED BY <1>2, <1>3 DEF LastLoad

\* What a reload is answered with is the list of the server.
LEMMA ServeLoadSettled ==
    ASSUME SettledInv, ScreenInv', NEW l \in DOMAIN loads, ServeLoad(l)
    PROVE  SettledInv'
<1>t. TypeOK
  BY DEF SettledInv, ScreenInv
<1>1. PICK s :
         /\ Lists(s, Points)
         /\ loads' = [loads EXCEPT ![l] = [at |-> "answered", list |-> s]]
  BY Zenon DEF ServeLoad, Points
<1>2. /\ UNCHANGED contentVars /\ trouble' = trouble /\ items' = items /\ ops' = ops
  BY Zenon DEF ServeLoad
<1>3. Points' = Points /\ (Clean' <=> Clean) /\ (NoneOk' <=> NoneOk) /\ (Faithful => Faithful')
  <2>1. Points' = Points
    BY <1>2, SameContent
  <2>2. Adds' = Adds /\ Deletes' = Deletes
    BY <1>2 DEF Adds, Deletes, UnderWay
  <2>3. QED BY <1>2, <2>1, <2>2, SameScreen DEF Clean, NoneOk
<1> DEFINE load == [at |-> "answered", list |-> s]
<1>4. load.at = "answered" /\ load.list = s
  OBVIOUS
<1>5. loads' = [loads EXCEPT ![l] = load]
  BY <1>1
<1> HIDE DEF load
<1>6. loads' # << >>
  BY <1>t, <1>5, LoadsAfter DEF SettledInv
<1>7. (\A m \in DOMAIN loads : loads[m].at # "lost") => \A m \in DOMAIN loads' : loads'[m].at # "lost"
  BY <1>t, <1>4, <1>5, LoadsAfter
<1>8. \/ LastLoad' = LastLoad
      \/ LastLoad' = load
  BY <1>t, <1>5, LoadsAfter
<1>9. QED BY <1>1, <1>3, <1>4, <1>6, <1>7, <1>8 DEF SettledInv

\* A reload that brings nothing, or an empty list for a failed SELECT.
LEMMA LoadTrouble ==
    ASSUME SettledInv, ScreenInv', NEW l \in DOMAIN loads, ServeLoadEmpty(l) \/ LoadLost(l)
    PROVE  SettledInv'
<1>t. TypeOK
  BY DEF SettledInv, ScreenInv
<1>1. ~Clean'
  <2>1. "empty answer" \in trouble' \/ "reload lost" \in trouble'
    <3>1. trouble' = trouble \cup {"empty answer"} \/ trouble' = trouble \cup {"reload lost"}
      BY Zenon DEF ServeLoadEmpty, LoadLost
    <3>2. QED BY <3>1
  <2>2. QED BY <2>1 DEF Clean
<1>2. \E load : loads' = [loads EXCEPT ![l] = load]
  BY DEF ServeLoadEmpty, LoadLost
<1>3. loads' # << >>
  BY <1>t, <1>2, LoadsAfter DEF SettledInv
<1>4. QED BY <1>1, <1>3 DEF SettledInv

\* The last reload's answer is what the server has; an earlier one that
\* arrives after it is trouble.
LEMMA LoadArrivesSettled ==
    ASSUME SettledInv, ScreenInv', NEW l \in DOMAIN loads, LoadArrives(l)
    PROVE  SettledInv'
<1>t. TypeOK
  BY DEF SettledInv, ScreenInv
<1>1. /\ loads[l].at = "answered"
      /\ loads' = [loads EXCEPT ![l] = [at |-> "arrived", list |-> << >>]]
      /\ Cause("overtaken", \E m \in DOMAIN loads : m > l /\ loads[m].at = "arrived")
      /\ UNCHANGED contentVars
  BY Zenon DEF LoadArrives
<1>2. /\ trouble \subseteq trouble'
      /\ (\E m \in DOMAIN loads : m > l /\ loads[m].at = "arrived") => "overtaken" \in trouble'
  BY <1>1, CauseGrows, Zenon
<1>3. Points' = Points
  BY <1>1, SameContent
<1>4. NoneOk' <=> NoneOk
  BY DEF LoadArrives, Op, NoneOk
<1> DEFINE load == [at |-> "arrived", list |-> << >>]
<1>5. load.at = "arrived"
  OBVIOUS
<1>6. loads' = [loads EXCEPT ![l] = load]
  BY <1>1
<1> HIDE DEF load
<1>7. loads' # << >>
  BY <1>t, <1>6, LoadsAfter DEF SettledInv
<1>8. (\A m \in DOMAIN loads : loads[m].at # "lost") => \A m \in DOMAIN loads' : loads'[m].at # "lost"
  BY <1>t, <1>5, <1>6, LoadsAfter
<1>9. Clean' => Clean
  BY <1>2 DEF Clean
<1>10. CASE l = Len(loads)
  <2>1. LastLoad' = load /\ LastLoad = loads[l]
    BY <1>t, <1>6, <1>10, LoadsAfter DEF LastLoad
  <2>2. Lists(loads[l].list, Points) => Faithful'
    BY <1>t, <1>3, ArrivalFaithful
  <2>3. Clean' /\ NoneOk' => Faithful'
    BY <1>1, <1>4, <1>9, <2>1, <2>2 DEF SettledInv
  <2>4. QED BY <1>5, <1>7, <1>8, <1>9, <2>1, <2>3 DEF SettledInv
<1>11. CASE l # Len(loads)
  <2>1. LastLoad' = LastLoad /\ Len(loads) \in DOMAIN loads
    BY <1>t, <1>6, <1>11, LoadsAfter
  <2>2. Len(loads) > l
    BY <1>t, <1>11 DEF TypeOK
  <2>3. Clean' => LastLoad.at # "arrived"
    BY <1>2, <2>1, <2>2 DEF LastLoad, Clean
  <2>4. QED BY <1>3, <1>4, <1>7, <1>8, <1>9, <2>1, <2>3 DEF SettledInv
<1>12. QED BY <1>10, <1>11

-----------------------------------------------------------------------------

\* A call of others that changes this branch's list is trouble.
LEMMA ElsewhereSettled ==
    ASSUME SettledInv, ScreenInv', Elsewhere
    PROVE  SettledInv'
<1>1. /\ Cause("elsewhere", Points' # Points)
      /\ loads' = loads /\ items' = items /\ ops' = ops
  BY DEF Elsewhere, Points
<1>2. trouble \subseteq trouble' /\ (Points' # Points => "elsewhere" \in trouble')
  BY <1>1, CauseGrows, Zenon
<1>3. Clean' => Points' = Points
  BY <1>2 DEF Clean
<1>4. NoneOk' <=> NoneOk
  BY <1>1 DEF NoneOk
<1>5. Adds' = Adds /\ Deletes' = Deletes
  BY <1>1 DEF Adds, Deletes, UnderWay
<1>6. Points' = Points => (Faithful => Faithful')
  BY <1>1, <1>5, SameScreen
<1>7. QED BY <1>1, <1>2, <1>3, <1>4, <1>6, SettledKept

LEMMA NextSettled == SettledInv /\ [Next]_vars => SettledInv'
<1> SUFFICES ASSUME SettledInv, [Next]_vars PROVE SettledInv'
  OBVIOUS
<1>s. ScreenInv'
  BY NextScreen DEF SettledInv
<1>1. CASE Next
  <2>1. CASE \/ \E text \in Text : TapAdd(text)
             \/ TapRetry
             \/ \E k \in DOMAIN items : TapDelete(items[k])
    BY <1>s, <2>1, TapSettled
  <2>2. ASSUME NEW o \in DOMAIN ops,
               \/ ShowAdded(o) \/ ServeAdd(o) \/ AddSucceeds(o) \/ AddFails(o)
               \/ StartDelete(o) \/ DeleteThrows(o) \/ ServeDelete(o) \/ DeleteSucceeds(o)
               \/ DeleteFails(o) \/ DeleteFailsUnseen(o)
               \/ RequestFails(o)
        PROVE  SettledInv'
    BY <1>s, <2>2, ShowAddedSettled, ServeSettled, SucceedsSettled, AddFailsSettled,
       StartDeleteSettled, QuietSettled, DeleteFailsSettled, UnseenSettled
  <2>3. ASSUME NEW l \in DOMAIN loads,
               ServeLoad(l) \/ ServeLoadEmpty(l) \/ LoadLost(l) \/ LoadArrives(l)
        PROVE  SettledInv'
    BY <1>s, <2>3, ServeLoadSettled, LoadTrouble, LoadArrivesSettled
  <2>4. CASE Elsewhere
    BY <1>s, <2>4, ElsewhereSettled
  <2>5. QED BY <1>1, <2>1, <2>2, <2>3, <2>4 DEF Next
<1>2. CASE UNCHANGED vars
  <2>1. UNCHANGED <<contentVars, items, ops, loads, trouble>>
    BY <1>2 DEF vars, contentVars
  <2>2. Points' = Points
    BY <2>1, SameContent
  <2>3. NoneOk' <=> NoneOk
    BY <2>1 DEF NoneOk
  <2>4. Adds' = Adds /\ Deletes' = Deletes
    BY <2>1 DEF Adds, Deletes, UnderWay
  <2>5. Faithful => Faithful'
    BY <2>1, <2>2, <2>4, SameScreen
  <2>6. QED BY <1>s, <2>1, <2>2, <2>3, <2>5, SettledKept
<1>3. QED BY <1>1, <1>2

\* When nothing is under way any more the screen shows what the server has, in
\* its order: the last reload was started by the last success and has brought
\* the server's list, and every add and delete since then that failed was
\* rolled back to such a list.
THEOREM SettledList == Spec => []SettledListIsServers
<1>1. SettledInv => SettledListIsServers
  <2> SUFFICES ASSUME SettledInv, AtRest, Clean PROVE Lists(items, Points)
    BY DEF SettledListIsServers, Clean, Points
  <2>1. Adds = {} /\ Deletes = {} /\ NoneOk
    BY DEF AtRest, Adds, Deletes, UnderWay, NoneOk
  <2>2. LastLoad.at = "arrived"
    <3>1. Len(loads) \in DOMAIN loads
      <4>1. loads \in Seq(LoadRecord) /\ loads # << >>
        BY DEF SettledInv, ScreenInv, TypeOK
      <4>2. QED BY <4>1
    <3>2. QED BY <3>1 DEF AtRest, SettledInv, LastLoad
  <2>3. Faithful
    BY <2>1, <2>2 DEF SettledInv
  <2>4. Explained(items, Points, {}) /\ \A id \in Points : \E k \in DOMAIN items : items[k] = id
    BY <2>1, <2>3 DEF Faithful, Shown
  <2>5. QED BY <2>4, ExplainedLists
<1>2. QED BY <1>1, InitSettled, NextSettled, PTL DEF Spec
=============================================================================
