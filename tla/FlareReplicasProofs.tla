------------------------- MODULE FlareReplicasProofs ------------------------
(***************************************************************************)
(* What holds of FlareReplicas for every set of peers, flares and stamps   *)
(* and every bound.  All proofs go through two lemmas about the conflict   *)
(* resolution itself, one on apply and one on merge.                       *)
(***************************************************************************)
EXTENDS FlareReplicas, PeerClockProofs

-----------------------------------------------------------------------------
(* Apply and merge on one entry *)

\* An entry is missing exactly when it is NoFlare, and then its stamp is
\* below every stamp an operation can carry.
LEMMA EntryFacts ==
    ASSUME NEW rec \in FlareEntry
    PROVE  /\ rec.lamport \in Stamp \cup {-1}
           /\ rec.lamport \in Int
           /\ rec.lamport >= -1
           /\ rec.lamport = -1 <=> rec = NoFlare
           /\ rec # NoFlare => rec \in FlareState
<1>1. CASE rec = NoFlare
  BY <1>1 DEF NoFlare
<1>2. CASE rec \in FlareState
  <2>1. rec.lamport \in Stamp /\ rec.lamport \in Nat
    BY <1>2, CrdtAssumption DEF FlareState
  <2>2. rec.lamport # -1 /\ rec # NoFlare
    BY <2>1 DEF NoFlare
  <2>3. QED BY <1>2, <2>1, <2>2
<1>3. QED BY <1>1, <1>2 DEF FlareEntry

\* Every operation is of one of the four shapes.
LEMMA OpFacts ==
    ASSUME NEW op \in Op
    PROVE  /\ op.flare \in Flare /\ op.peer \in Peer
           /\ op.lamport \in Stamp /\ op.lamport \in Nat
           /\ \/ op.kind = "InsertPickup" /\ op.location \in Location
              \/ op.kind = "UpdateStatus" /\ op.status \in PickupStatus
              \/ op.kind = "AssignClergy" /\ op.clergy \in Clergy
              \/ op.kind = "CompletePickup"
BY CrdtAssumption DEF Op

\* What each kind of operation can leave of an entry: the entry as it was, or
\* one stamped by the operation, which is then the more recent of the two.
LEMMA ApplyFacts ==
    ASSUME NEW rec \in FlareEntry, NEW op \in Op
    PROVE  /\ ApplyToFlare(rec, op) \in FlareState
           /\ \/ ApplyToFlare(rec, op) = rec
              \/ /\ ApplyToFlare(rec, op).lamport = op.lamport
                 /\ op.lamport > rec.lamport
           /\ op.kind # "UpdateStatus" =>
                 ApplyToFlare(rec, op).lamport >= op.lamport
<1> DEFINE new == ApplyToFlare(rec, op)
           Goal == /\ new \in FlareState
                   /\ \/ new = rec
                      \/ new.lamport = op.lamport /\ op.lamport > rec.lamport
                   /\ op.kind # "UpdateStatus" => new.lamport >= op.lamport
<1> SUFFICES Goal
  OBVIOUS
<1>0. /\ op.lamport \in Stamp /\ op.lamport \in Nat
      /\ rec.lamport \in Int /\ rec.lamport >= -1
      /\ Exists(rec) => rec \in FlareState
  BY EntryFacts, OpFacts DEF Exists
<1>1. CASE op.kind = "InsertPickup"
  <2>1. new = InsertPickup(rec, op)
    BY <1>1 DEF ApplyToFlare
  <2>2. QED
    BY <1>0, <1>1, <2>1, OpFacts
    DEF InsertPickup, Exists, FlareState, PickupStatus
<1>2. CASE ~Exists(rec) /\ op.kind # "InsertPickup"
  <2>1. \E status \in PickupStatus, assigned \in Clergy \cup {Nobody} :
           new = Created(op, status, assigned)
    BY <1>2, OpFacts
    DEF ApplyToFlare, UpdateStatus, AssignClergy, CompletePickup, PickupStatus
  <2>2. QED
    BY <1>0, <1>2, <2>1 DEF Created, FlareState, Exists
<1>3. CASE Exists(rec) /\ op.kind # "InsertPickup"
  <2>1. /\ rec.status \in PickupStatus
        /\ rec.assigned \in Clergy \cup {Nobody}
        /\ rec.location \in Location \cup {Unknown}
    BY <1>0, <1>3 DEF FlareState
  <2>2. \/ new = rec /\ (op.lamport <= rec.lamport \/ op.kind = "UpdateStatus")
        \/ /\ op.lamport > rec.lamport
           /\ \E status \in PickupStatus, assigned \in Clergy \cup {Nobody} :
                 new = Updated(rec, op, status, assigned)
    BY <1>0, <1>3, <2>1, OpFacts
    DEF ApplyToFlare, UpdateStatus, AssignClergy, CompletePickup, PickupStatus
  <2>3. QED
    BY <1>0, <1>3, <2>1, <2>2 DEF Updated, FlareState
<1>4. QED BY <1>1, <1>2, <1>3

\* merge takes one of the two entries whole, and the more recent one.
LEMMA NewerFacts ==
    ASSUME NEW mine \in FlareEntry, NEW theirs \in FlareEntry
    PROVE  /\ Newer(mine, theirs) \in {mine, theirs}
           /\ Newer(mine, theirs) \in FlareEntry
           /\ Newer(mine, theirs).lamport >= mine.lamport
           /\ Newer(mine, theirs).lamport >= theirs.lamport
BY EntryFacts DEF Newer

\* apply yields a well-formed state.
LEMMA ApplyType ==
    ASSUME NEW s \in CRDTState, NEW op \in Op, NEW p \in Peer
    PROVE  Apply(s, op, p) \in CRDTState
<1>1. Increment(s.clock, p) \in Clock
  BY DEF CRDTState, Clock, Increment
<1>2. /\ s.flares[op.flare] \in FlareEntry
      /\ ApplyToFlare(s.flares[op.flare], op) \in FlareEntry
  BY OpFacts, ApplyFacts DEF CRDTState, FlareEntry
<1>3. QED BY <1>1, <1>2 DEF Apply, CRDTState

\* merge yields a well-formed state.
LEMMA MergeType ==
    ASSUME NEW s \in CRDTState, NEW t \in CRDTState
    PROVE  Merge(s, t) \in CRDTState
<1>1. MergeClocks(s.clock, t.clock) \in Clock
  BY DEF CRDTState, Clock, MergeClocks
<1>2. \A f \in Flare : Newer(s.flares[f], t.flares[f]) \in FlareEntry
  BY NewerFacts DEF CRDTState
<1>3. QED BY <1>1, <1>2 DEF Merge, CRDTState

-----------------------------------------------------------------------------
(* Steps *)

\* A step of any specification is one of the four actions.
LEMMA StepKinds ==
    ASSUME Next
    PROVE  \/ \E p \in Peer, op \in Op : Issue(p, op)
           \/ \E p \in Peer, op \in issued : Deliver(p, op)
           \/ \E p \in Peer : SendState(p)
           \/ \E p \in Peer, s \in wire : MergeState(p, s)
BY DEF Next, OpNext, StateNext, IssueSome

\* Every replica and every state in flight stays a well-formed CRDTState, on
\* any channel: apply and merge are total on what peers can send each other.
THEOREM TypeCorrect == Spec => []TypeOK
<1>1. Init => TypeOK
  BY DEF Init, TypeOK, NewState, CRDTState, FlareEntry, NewClock, Clock
<1>2. TypeOK /\ [Next]_vars => TypeOK'
  <2> SUFFICES ASSUME TypeOK, [Next]_vars PROVE TypeOK'
    OBVIOUS
  <2>1. ASSUME NEW p \in Peer, NEW op \in Op, Issue(p, op) PROVE TypeOK'
    <3>1. Apply(state[p], op, p) \in CRDTState
      BY ApplyType DEF TypeOK
    <3>2. state' \in [Peer -> CRDTState]
      BY <2>1, <3>1 DEF TypeOK, Issue
    <3>3. delivered' \in [Peer -> SUBSET issued']
      <4>1. \A q \in Peer : delivered'[q] \subseteq issued'
        BY <2>1 DEF TypeOK, Issue
      <4>2. QED BY <2>1, <4>1 DEF TypeOK, Issue
    <3>4. QED BY <2>1, <3>2, <3>3 DEF TypeOK, Issue
  <2>2. ASSUME NEW p \in Peer, NEW op \in issued, Deliver(p, op) PROVE TypeOK'
    <3>1. Apply(state[p], op, op.peer) \in CRDTState
      BY ApplyType, OpFacts DEF TypeOK
    <3>2. state' \in [Peer -> CRDTState]
      BY <2>2, <3>1 DEF TypeOK, Deliver
    <3>3. delivered' \in [Peer -> SUBSET issued']
      <4>1. \A q \in Peer : delivered'[q] \subseteq issued'
        BY <2>2 DEF TypeOK, Deliver
      <4>2. QED BY <2>2, <4>1 DEF TypeOK, Deliver
    <3>4. QED BY <2>2, <3>2, <3>3 DEF TypeOK, Deliver
  <2>3. ASSUME NEW p \in Peer, SendState(p) PROVE TypeOK'
    BY <2>3 DEF TypeOK, SendState
  <2>4. ASSUME NEW p \in Peer, NEW s \in wire, MergeState(p, s) PROVE TypeOK'
    <3>1. Merge(state[p], s) \in CRDTState
      BY MergeType DEF TypeOK
    <3>2. QED BY <2>4, <3>1 DEF TypeOK, MergeState
  <2>5. CASE UNCHANGED vars
    BY <2>5 DEF TypeOK, vars
  <2>6. QED BY <2>1, <2>2, <2>3, <2>4, <2>5, StepKinds
<1>3. QED BY <1>1, <1>2, PTL DEF Spec

\* The specifications of one channel are special cases of Spec.
LEMMA OneChannel ==
    /\ StateSpec => Spec
    /\ OpSpec => Spec
<1>1. [StateNext]_vars => [Next]_vars
  BY DEF Next
<1>2. [OpNext]_vars => [Next]_vars
  BY DEF Next
<1>3. QED BY <1>1, <1>2, PTL DEF Spec, StateSpec, OpSpec

-----------------------------------------------------------------------------
(* Where entries come from *)

\* An entry anywhere after a step was somewhere before it, or is what apply
\* made of one that was, with an operation issued by then.
LEMMA EntryOrigin ==
    ASSUME TypeOK, [Next]_vars, NEW s \in KnownStates', NEW f \in Flare
    PROVE  \E t \in KnownStates :
              \/ s.flares[f] = t.flares[f]
              \/ \E op \in issued' :
                    /\ op.flare = f
                    /\ s.flares[f] = ApplyToFlare(t.flares[f], op)
<1> DEFINE Goal ==
      \E t \in KnownStates :
         \/ s.flares[f] = t.flares[f]
         \/ \E op \in issued' : /\ op.flare = f
                                /\ s.flares[f] = ApplyToFlare(t.flares[f], op)
<1>0. CASE s \in KnownStates
  BY <1>0
<1>1. ASSUME NEW p \in Peer, NEW op \in Op, op \in issued',
             state' = [state EXCEPT ![p] = Apply(@, op, op.peer)],
             s = state'[p]
      PROVE  Goal
  <2>1. state[p] \in CRDTState /\ state[p] \in KnownStates
    BY DEF TypeOK, KnownStates
  <2>2. s.flares = [state[p].flares EXCEPT ![op.flare] = ApplyToFlare(@, op)]
    BY <1>1 DEF Apply, TypeOK
  <2>3. f = op.flare => s.flares[f] = ApplyToFlare(state[p].flares[f], op)
    BY <2>1, <2>2 DEF CRDTState
  <2>4. f # op.flare => s.flares[f] = state[p].flares[f]
    BY <2>1, <2>2 DEF CRDTState
  <2>5. QED BY <1>1, <2>1, <2>3, <2>4
<1>2. ASSUME NEW p \in Peer, NEW t \in wire, MergeState(p, t), s = state'[p]
      PROVE  Goal
  <2>1. /\ state[p] \in CRDTState /\ state[p] \in KnownStates
        /\ t \in CRDTState /\ t \in KnownStates
    BY DEF TypeOK, KnownStates
  <2>2. s.flares[f] = Newer(state[p].flares[f], t.flares[f])
    BY <1>2 DEF MergeState, Merge, TypeOK
  <2>3. s.flares[f] \in {state[p].flares[f], t.flares[f]}
    BY <2>2 DEF Newer
  <2>4. QED BY <2>1, <2>3
<1>3. ASSUME NEW p \in Peer, NEW op \in Op, Issue(p, op) PROVE Goal
  <2>1. s \in KnownStates \/ s = state'[p]
    BY <1>3 DEF Issue, KnownStates, TypeOK
  <2>2. QED BY <1>0, <1>1, <1>3, <2>1 DEF Issue
<1>4. ASSUME NEW p \in Peer, NEW op \in issued, Deliver(p, op) PROVE Goal
  <2>1. s \in KnownStates \/ s = state'[p]
    BY <1>4 DEF Deliver, KnownStates, TypeOK
  <2>2. QED BY <1>0, <1>1, <1>4, <2>1 DEF Deliver, TypeOK
<1>5. ASSUME NEW p \in Peer, SendState(p) PROVE Goal
  <2>1. s \in KnownStates
    BY <1>5 DEF SendState, KnownStates
  <2>2. QED BY <1>0, <2>1
<1>6. ASSUME NEW p \in Peer, NEW t \in wire, MergeState(p, t) PROVE Goal
  <2>1. s \in KnownStates \/ s = state'[p]
    BY <1>6 DEF MergeState, KnownStates, TypeOK
  <2>2. QED BY <1>0, <1>2, <1>6, <2>1
<1>7. CASE UNCHANGED vars
  <2>1. s \in KnownStates
    BY <1>7 DEF vars, KnownStates
  <2>2. QED BY <1>0, <2>1
<1>8. QED BY <1>3, <1>4, <1>5, <1>6, <1>7, StepKinds

-----------------------------------------------------------------------------
(* Queued flares and provenance *)

\* QueuedIsUnassigned holds on every channel, for all constants.
THEOREM QueuedUnassigned == Spec => []QueuedIsUnassigned
<1> DEFINE Fine(rec) == rec.status = "Queued" => rec.assigned = Nobody
<1>1. Init => QueuedIsUnassigned
  BY DEF Init, QueuedIsUnassigned, KnownStates, NewState, NoFlare
<1>2. ASSUME NEW rec \in FlareEntry, NEW op \in Op, Fine(rec)
      PROVE  Fine(ApplyToFlare(rec, op))
  BY <1>2, OpFacts
  DEF ApplyToFlare, InsertPickup, UpdateStatus, AssignClergy, CompletePickup,
      Created, Updated, CanTransition
<1>3. TypeOK /\ TypeOK' /\ QueuedIsUnassigned /\ [Next]_vars
         => QueuedIsUnassigned'
  <2> SUFFICES ASSUME TypeOK, TypeOK', QueuedIsUnassigned, [Next]_vars,
                      NEW s \in KnownStates', NEW f \in Flare
               PROVE  Fine(s.flares[f])
    BY DEF QueuedIsUnassigned
  <2>1. \A t \in KnownStates : t.flares[f] \in FlareEntry /\ Fine(t.flares[f])
    BY DEF TypeOK, KnownStates, CRDTState, QueuedIsUnassigned
  <2>2. issued' \subseteq Op
    BY DEF TypeOK
  <2> HIDE DEF Fine
  <2>3. QED BY <1>2, <2>1, <2>2, EntryOrigin
<1>4. QED BY <1>1, <1>3, TypeCorrect, PTL DEF Spec

\* An operation explains what apply makes with it of an explained entry.
LEMMA ApplyExplained ==
    ASSUME NEW ops \in SUBSET Op, NEW op \in ops, NEW rec \in FlareEntry,
           Explains(ops, op.flare, rec)
    PROVE  Explains(ops, op.flare, ApplyToFlare(rec, op))
<1> DEFINE new == ApplyToFlare(rec, op)
<1> SUFFICES Explains(ops, op.flare, new)
  OBVIOUS
<1>0. /\ op \in Op
      /\ op.lamport \in Nat
      /\ rec.lamport \in Int /\ rec.lamport >= -1
      /\ \A o \in ops : o.lamport \in Nat
      /\ Unknown \notin Location /\ Nobody \notin Clergy
  BY EntryFacts, OpFacts, CrdtAssumption
<1>1. CASE new = rec
  BY <1>1
<1>2. CASE op.kind = "InsertPickup" /\ new # rec
  <2>1. new = [status |-> "Queued", location |-> op.location,
               assigned |-> Nobody, lamport |-> op.lamport]
    BY <1>2 DEF ApplyToFlare, InsertPickup
  <2>2. Accounts(op, new)
    BY <1>2, <2>1 DEF Accounts
  <2>3. QED BY <1>0, <1>2, <2>1, <2>2 DEF Explains
<1>3. CASE op.kind # "InsertPickup" /\ new # rec
  <2>1. /\ new.lamport = op.lamport
        /\ op.lamport > rec.lamport
    BY <1>3, ApplyFacts, <1>0
  <2>2. new.location \in {Unknown, rec.location}
    BY <1>3
    DEF ApplyToFlare, UpdateStatus, AssignClergy, CompletePickup, Created, Updated
  <2>3. Accounts(op, new)
    BY <1>0, <1>3, OpFacts
    DEF ApplyToFlare, UpdateStatus, AssignClergy, CompletePickup, Created,
        Updated, Accounts
  <2>4. \/ new.assigned \in {Nobody, rec.assigned}
        \/ op.kind = "AssignClergy" /\ new.assigned = op.clergy
    BY <1>0, <1>3, OpFacts
    DEF ApplyToFlare, UpdateStatus, AssignClergy, CompletePickup, Created, Updated
  <2> HIDE DEF new
  <2>5. new.location # Unknown =>
          \E o \in ops : /\ o.kind = "InsertPickup"
                         /\ o.flare = op.flare
                         /\ o.location = new.location
                         /\ o.lamport <= new.lamport
    BY <1>0, <2>1, <2>2 DEF Explains
  <2>6. new.assigned # Nobody =>
          \E o \in ops : /\ o.kind = "AssignClergy"
                         /\ o.flare = op.flare
                         /\ o.clergy = new.assigned
                         /\ o.lamport <= new.lamport
    <3>1. CASE new.assigned \in {Nobody, rec.assigned}
      BY <1>0, <2>1, <3>1 DEF Explains
    <3>2. CASE op.kind = "AssignClergy" /\ new.assigned = op.clergy
      BY <1>0, <2>1, <3>2
    <3>3. QED BY <2>4, <3>1, <3>2
  <2>7. op.flare = op.flare /\ op.lamport = new.lamport /\ Accounts(op, new)
    BY <2>1, <2>3
  <2>8. QED BY <2>5, <2>6, <2>7 DEF Explains
<1>4. QED BY <1>1, <1>2, <1>3

\* Provenance holds on every channel, for all constants: nothing that a
\* replica or a message says of a flare was made up on the way.
THEOREM EntriesHaveProvenance == Spec => []Provenance
<1>1. Init => Provenance
  BY DEF Init, Provenance, KnownStates, NewState, NoFlare, Explains, Exists
<1>2. TypeOK /\ TypeOK' /\ Provenance /\ [Next]_vars => Provenance'
  <2> SUFFICES ASSUME TypeOK, TypeOK', Provenance, [Next]_vars,
                      NEW s \in KnownStates', NEW f \in Flare
               PROVE  Explains(issued', f, s.flares[f])
    BY DEF Provenance
  <2>1. issued \subseteq issued' /\ issued' \subseteq Op
    <3>1. issued \subseteq issued'
      BY StepKinds DEF Issue, Deliver, SendState, MergeState, vars
    <3>2. QED BY <3>1 DEF TypeOK
  <2>2. ASSUME NEW t \in KnownStates
        PROVE  t.flares[f] \in FlareEntry /\ Explains(issued', f, t.flares[f])
    <3>1. t.flares[f] \in FlareEntry
      BY DEF TypeOK, KnownStates, CRDTState
    <3>2. Explains(issued, f, t.flares[f])
      BY DEF Provenance
    <3>3. Explains(issued', f, t.flares[f])
      BY <2>1, <3>2 DEF Explains
    <3>4. QED BY <3>1, <3>3
  <2>3. PICK t \in KnownStates :
           \/ s.flares[f] = t.flares[f]
           \/ \E op \in issued' : /\ op.flare = f
                                  /\ s.flares[f] = ApplyToFlare(t.flares[f], op)
    BY EntryOrigin
  <2>4. QED BY <2>1, <2>2, <2>3, ApplyExplained
<1>3. QED BY <1>1, <1>2, TypeCorrect, PTL DEF Spec

-----------------------------------------------------------------------------
(* Replicas only move forward *)

\* A step changes the entries of at most one peer, each to a version at least
\* as recent.
LEMMA StepMovesForward ==
    ASSUME TypeOK, [Next]_vars
    PROVE  /\ \A p \in Peer, f \in Flare :
                 state'[p].flares[f].lamport >= state[p].flares[f].lamport
           /\ state' = state \/ \E p \in Peer :
                 \A q \in Peer \ {p} : state'[q] = state[q]
<1>0. \A p \in Peer, f \in Flare : /\ state[p].flares[f] \in FlareEntry
                                   /\ state[p].flares[f].lamport \in Int
  BY EntryFacts DEF TypeOK, CRDTState
<1>1. ASSUME NEW p \in Peer, NEW op \in Op,
             state' = [state EXCEPT ![p] = Apply(@, op, op.peer)]
      PROVE  /\ \A q \in Peer \ {p} : state'[q] = state[q]
             /\ \A q \in Peer, f \in Flare :
                   state'[q].flares[f].lamport >= state[q].flares[f].lamport
  <2>1. \A q \in Peer \ {p} : state'[q] = state[q]
    BY <1>1 DEF TypeOK
  <2>2. ASSUME NEW f \in Flare
        PROVE  state'[p].flares[f].lamport >= state[p].flares[f].lamport
    <3>1. state'[p].flares = [state[p].flares EXCEPT
                                 ![op.flare] = ApplyToFlare(@, op)]
      BY <1>1 DEF Apply, TypeOK
    <3>2. \/ state'[p].flares[f] = state[p].flares[f]
          \/ state'[p].flares[f] = ApplyToFlare(state[p].flares[f], op)
      BY <3>1 DEF TypeOK, CRDTState
    <3>3. op.lamport \in Int
      BY OpFacts
    <3>4. QED BY <1>0, <3>2, <3>3, ApplyFacts
  <2>3. QED BY <1>0, <2>1, <2>2
<1>2. ASSUME NEW p \in Peer, NEW s \in wire, MergeState(p, s)
      PROVE  /\ \A q \in Peer \ {p} : state'[q] = state[q]
             /\ \A q \in Peer, f \in Flare :
                   state'[q].flares[f].lamport >= state[q].flares[f].lamport
  <2>1. \A q \in Peer \ {p} : state'[q] = state[q]
    BY <1>2 DEF TypeOK, MergeState
  <2>2. ASSUME NEW f \in Flare
        PROVE  state'[p].flares[f].lamport >= state[p].flares[f].lamport
    <3>1. state'[p].flares[f] = Newer(state[p].flares[f], s.flares[f])
      BY <1>2 DEF MergeState, Merge, TypeOK
    <3>2. s.flares[f] \in FlareEntry
      BY DEF TypeOK, CRDTState
    <3>3. QED BY <1>0, <3>1, <3>2, NewerFacts
  <2>3. QED BY <1>0, <2>1, <2>2
<1>3. ASSUME state' = state
      PROVE  \A q \in Peer, f \in Flare :
                state'[q].flares[f].lamport >= state[q].flares[f].lamport
  BY <1>0, <1>3
<1>4. CASE \E p \in Peer, op \in Op : Issue(p, op)
  BY <1>1, <1>4 DEF Issue
<1>5. CASE \E p \in Peer, op \in issued : Deliver(p, op)
  BY <1>1, <1>5 DEF Deliver, TypeOK
<1>6. CASE \E p \in Peer : SendState(p)
  BY <1>3, <1>6 DEF SendState
<1>7. CASE \E p \in Peer, s \in wire : MergeState(p, s)
  BY <1>2, <1>7
<1>8. CASE UNCHANGED vars
  BY <1>3, <1>8 DEF vars
<1>9. QED BY <1>4, <1>5, <1>6, <1>7, <1>8, StepKinds

\* UnconditionalOpsStick holds on every channel: an insert, an assignment or a
\* completion that a peer applied is never undone by an older version.
THEOREM UnconditionalStick == Spec => []UnconditionalOpsStick
<1>1. Init => UnconditionalOpsStick
  BY DEF Init, UnconditionalOpsStick
<1>2. TypeOK /\ TypeOK' /\ UnconditionalOpsStick /\ [Next]_vars
         => UnconditionalOpsStick'
  <2> SUFFICES ASSUME TypeOK, TypeOK', UnconditionalOpsStick, [Next]_vars,
                      NEW p \in Peer, NEW op \in delivered'[p],
                      op.kind # "UpdateStatus"
               PROVE  state'[p].flares[op.flare].lamport >= op.lamport
    BY DEF UnconditionalOpsStick
  <2>0. op \in Op /\ op.flare \in Flare /\ op.lamport \in Int
    BY OpFacts DEF TypeOK
  <2>1. /\ state[p].flares[op.flare] \in FlareEntry
        /\ state[p].flares[op.flare].lamport \in Int
        /\ state'[p].flares[op.flare].lamport \in Int
    BY <2>0, EntryFacts DEF TypeOK, CRDTState
  <2>2. CASE op \in delivered[p]
    <3>1. state[p].flares[op.flare].lamport >= op.lamport
      BY <2>2 DEF UnconditionalOpsStick
    <3>2. QED BY <2>0, <2>1, <3>1, StepMovesForward
  <2>3. CASE op \notin delivered[p]
    <3>1. state' = [state EXCEPT ![p] = Apply(@, op, op.peer)]
      BY <2>3, StepKinds
      DEF Issue, Deliver, SendState, MergeState, vars, TypeOK
    <3>2. state'[p].flares[op.flare]
             = ApplyToFlare(state[p].flares[op.flare], op)
      BY <2>0, <3>1 DEF Apply, TypeOK, CRDTState
    <3>3. QED BY <2>0, <2>1, <3>2, ApplyFacts
  <2>4. QED BY <2>2, <2>3
<1>3. QED BY <1>1, <1>2, TypeCorrect, PTL DEF Spec

-----------------------------------------------------------------------------
(* The engine implements LatestWins *)

\* The mapping of LW, named.
Written == {<<op.flare, op.lamport>> : op \in issued}
Seen == [p \in Peer |-> [f \in Flare |-> state[p].flares[f].lamport]]

\* A step that leaves the other peers alone is a Learn of LatestWins.
LEMMA StepIsLearn ==
    ASSUME TypeOK, TypeOK', Provenance', [Next]_vars, NEW p \in Peer,
           \A q \in Peer \ {p} : state'[q] = state[q]
    PROVE  LW!Learn(p)
<1>1. Seen' \in [Peer -> [Flare -> Stamp \cup {-1}]]
  BY EntryFacts DEF Seen, TypeOK, CRDTState
<1>2. \A q \in Peer \ {p} : Seen'[q] = Seen[q]
  BY DEF Seen
<1>3. ASSUME NEW f \in Flare
      PROVE  \/ Seen'[p][f] = Seen[p][f]
             \/ Seen'[p][f] > Seen[p][f] /\ <<f, Seen'[p][f]>> \in Written'
  <2>1. /\ Seen'[p][f] = state'[p].flares[f].lamport
        /\ Seen[p][f] = state[p].flares[f].lamport
    BY DEF Seen
  <2>2. Seen'[p][f] >= Seen[p][f]
    BY <2>1, StepMovesForward
  <2>3. Seen'[p][f] \in Int /\ Seen[p][f] \in Int /\ Seen[p][f] >= -1
    BY <2>1, EntryFacts DEF TypeOK, CRDTState
  <2>4. Seen'[p][f] # -1 => <<f, Seen'[p][f]>> \in Written'
    <3>1. Explains(issued', f, state'[p].flares[f])
      BY DEF Provenance, KnownStates
    <3>2. QED BY <2>1, <3>1 DEF Explains, Exists, Written
  <2>5. QED BY <2>2, <2>3, <2>4
<1>4. QED BY <1>1, <1>2, <1>3 DEF LW!Learn, Seen, Written

\* Replicas that apply operations and merge states, however late, lost,
\* reordered or repeated these are, implement LatestWins.
THEOREM EngineImplementsLatestWins == Spec => ImplementsLatestWins
<1>1. Init => LW!Init
  BY DEF Init, LW!Init, NewState, NoFlare
<1>2. TypeOK /\ TypeOK' /\ Provenance' /\ [Next]_vars => [LW!Next]_(LW!vars)
  <2> SUFFICES ASSUME TypeOK, TypeOK', Provenance', [Next]_vars
               PROVE  [LW!Next]_(LW!vars)
    OBVIOUS
  <2>1. ASSUME NEW p \in Peer, NEW op \in Op, Issue(p, op)
        PROVE  LW!Next
    <3>1. LW!Learn(p)
      BY <2>1, StepIsLearn DEF Issue, TypeOK
    <3>2. Written' = Written \cup {<<op.flare, op.lamport>>}
      BY <2>1 DEF Issue, Written
    <3>3. LW!Write(p, op.flare, op.lamport)
      BY <3>1, <3>2 DEF LW!Write, Written
    <3>4. QED BY <3>3, OpFacts DEF LW!Next
  <2>2. ASSUME NEW p \in Peer, NEW op \in issued, Deliver(p, op)
        PROVE  LW!Next
    <3>1. LW!Learn(p)
      BY <2>2, StepIsLearn DEF Deliver, TypeOK
    <3>2. QED BY <2>2, <3>1 DEF Deliver, LW!Hear, LW!Next
  <2>3. ASSUME NEW p \in Peer, SendState(p)
        PROVE  UNCHANGED LW!vars
    BY <2>3 DEF SendState, LW!vars
  <2>4. ASSUME NEW p \in Peer, NEW s \in wire, MergeState(p, s)
        PROVE  LW!Next
    <3>1. LW!Learn(p)
      BY <2>4, StepIsLearn DEF MergeState, TypeOK
    <3>2. QED BY <2>4, <3>1 DEF MergeState, LW!Hear, LW!Next
  <2>5. CASE UNCHANGED vars
    BY <2>5 DEF vars, LW!vars
  <2>6. QED BY <2>1, <2>2, <2>3, <2>4, <2>5, StepKinds
<1>3. QED
  BY <1>1, <1>2, TypeCorrect, EntriesHaveProvenance, PTL
  DEF Spec, ImplementsLatestWins, LW!Spec

-----------------------------------------------------------------------------
(* Exchanging states *)

\* When peers exchange states, the entries after a step are entries there were
\* before, but for the one an operation issued for the first time just made.
LEMMA FreshEntry ==
    ASSUME TypeOK, [StateNext]_vars,
           NEW f \in Flare
    PROVE  \/ \A s \in KnownStates' : \E t \in KnownStates :
                 s.flares[f] = t.flares[f]
           \/ \E p \in Peer, op \in Op :
                 /\ op.flare = f
                 /\ op \notin issued /\ op \in issued'
                 /\ state'[p].flares[f].lamport = op.lamport
                 /\ \A s \in KnownStates' :
                       \/ s = state'[p]
                       \/ \E t \in KnownStates : s.flares[f] = t.flares[f]
<1>0. [Next]_vars
  BY DEF Next
<1>1. ASSUME NEW p \in Peer, NEW op \in Op, Issue(p, op)
      PROVE  \/ \A s \in KnownStates' : \E t \in KnownStates :
                   s.flares[f] = t.flares[f]
             \/ /\ op.flare = f
                /\ state'[p].flares[f].lamport = op.lamport
                /\ \A s \in KnownStates' : s = state'[p] \/ s \in KnownStates
  <2>1. \A s \in KnownStates' : s = state'[p] \/ s \in KnownStates
    BY <1>1 DEF Issue, KnownStates, TypeOK
  <2>2. state[p] \in KnownStates /\ state[p].flares[f] \in FlareEntry
    BY DEF KnownStates, TypeOK, CRDTState
  <2>3. state'[p].flares = [state[p].flares EXCEPT
                               ![op.flare] = ApplyToFlare(@, op)]
    BY <1>1 DEF Issue, Apply, TypeOK
  <2>4. \/ state'[p].flares[f] = state[p].flares[f]
        \/ /\ op.flare = f
           /\ state'[p].flares[f] = ApplyToFlare(state[p].flares[f], op)
    BY <2>3 DEF TypeOK, CRDTState
  <2>5. QED BY <2>1, <2>2, <2>4, ApplyFacts
<1>2. ASSUME ~(\E p \in Peer, op \in Op : Issue(p, op))
      PROVE  \A s \in KnownStates' : \E t \in KnownStates :
                s.flares[f] = t.flares[f]
  <2>1. CASE \E p \in Peer : SendState(p)
    BY <2>1 DEF SendState, KnownStates
  <2>2. ASSUME NEW p \in Peer, NEW w \in wire, MergeState(p, w)
        PROVE  \A s \in KnownStates' : \E t \in KnownStates :
                  s.flares[f] = t.flares[f]
    <3>1. \A s \in KnownStates' : s = state'[p] \/ s \in KnownStates
      BY <2>2 DEF MergeState, KnownStates, TypeOK
    <3>2. state'[p].flares[f] = Newer(state[p].flares[f], w.flares[f])
      BY <2>2 DEF MergeState, Merge, TypeOK
    <3>3. state[p] \in KnownStates /\ w \in KnownStates
      BY DEF KnownStates
    <3>4. QED BY <3>1, <3>2, <3>3 DEF Newer
  <2>3. CASE UNCHANGED vars
    BY <2>3 DEF vars, KnownStates
  <2>4. QED BY <1>2, <2>1, <2>2, <2>3 DEF StateNext, IssueSome
<1>3. QED BY <1>1, <1>2 DEF Issue

\* Operations stay issued, so a clash stays one.
LEMMA ClashStays ==
    ASSUME [StateNext]_vars, NEW f \in Flare, NEW l, Clash(f, l)
    PROVE  Clash(f, l)'
<1>1. issued \subseteq issued'
  BY DEF StateNext, IssueSome, Issue, SendState, MergeState, vars
<1>2. QED BY <1>1 DEF Clash

\* When peers exchange states, the stamp of an entry identifies its version,
\* unless two operations on the flare were issued with that stamp.
THEOREM StampsIdentify == StateSpec => []StampIdentifiesVersion
<1>1. Init => StampIdentifiesVersion
  BY DEF Init, StampIdentifiesVersion, KnownStates, NewState
<1>2. TypeOK /\ Provenance /\ StampIdentifiesVersion
         /\ [StateNext]_vars => StampIdentifiesVersion'
  <2> SUFFICES ASSUME TypeOK, Provenance, StampIdentifiesVersion,
                      [StateNext]_vars,
                      NEW s \in KnownStates', NEW t \in KnownStates',
                      NEW f \in Flare,
                      s.flares[f].lamport = t.flares[f].lamport
               PROVE  \/ s.flares[f] = t.flares[f]
                      \/ Clash(f, s.flares[f].lamport)'
    BY DEF StampIdentifiesVersion, Clash
  <2> DEFINE Same == \/ s.flares[f] = t.flares[f]
                     \/ Clash(f, s.flares[f].lamport)'
  <2>0. ASSUME NEW u \in KnownStates, NEW v \in KnownStates,
               s.flares[f] = u.flares[f], t.flares[f] = v.flares[f]
        PROVE  Same
    <3>1. \/ u.flares[f] = v.flares[f]
          \/ Clash(f, u.flares[f].lamport)
      BY <2>0 DEF StampIdentifiesVersion
    <3>2. CASE Clash(f, u.flares[f].lamport)
      <4>1. Clash(f, u.flares[f].lamport)'
        BY <3>2, ClashStays
      <4>2. QED BY <2>0, <4>1
    <3>3. QED BY <2>0, <3>1, <3>2
  <2>1. CASE \A u \in KnownStates' : \E v \in KnownStates :
                u.flares[f] = v.flares[f]
    BY <2>0, <2>1
  <2>2. ASSUME NEW p \in Peer, NEW op \in Op,
               op.flare = f, op \notin issued, op \in issued',
               state'[p].flares[f].lamport = op.lamport,
               \A u \in KnownStates' :
                  \/ u = state'[p]
                  \/ \E v \in KnownStates : u.flares[f] = v.flares[f]
        PROVE  Same
    <3>1. ASSUME NEW v \in KnownStates, v.flares[f].lamport = op.lamport
          PROVE  Clash(f, op.lamport)'
      <4>1. Explains(issued, f, v.flares[f])
        BY DEF Provenance
      <4>2. Exists(v.flares[f])
        BY <3>1, OpFacts DEF Exists
      <4>3. PICK o \in issued : o.flare = f /\ o.lamport = op.lamport
        BY <3>1, <4>1, <4>2 DEF Explains
      <4>4. o \in issued' /\ o # op
        BY <2>2, <4>3
           DEF StateNext, IssueSome, Issue, SendState, MergeState, vars
      <4>5. QED BY <2>2, <4>3, <4>4 DEF Clash
    <3>2. CASE s = state'[p] /\ t = state'[p]
      BY <3>2
    <3>3. ASSUME NEW v \in KnownStates,
                 \/ s.flares[f] = v.flares[f] /\ t = state'[p]
                 \/ t.flares[f] = v.flares[f] /\ s = state'[p]
          PROVE  Same
      <4>1. v.flares[f].lamport = op.lamport
        BY <2>2, <3>3
      <4>2. s.flares[f].lamport = op.lamport
        BY <2>2, <3>3
      <4>3. QED BY <3>1, <4>1, <4>2
    <3>4. QED BY <2>0, <2>2, <3>2, <3>3
  <2>3. QED BY <2>1, <2>2, FreshEntry
<1>3. QED
  BY <1>1, <1>2, TypeCorrect, EntriesHaveProvenance, OneChannel, PTL
  DEF StateSpec

\* When states are exchanged, merge is associative, and it is commutative on
\* every flare on which no two operations share the stamp of the entries merged:
\* there, and only there, the order of the exchange can matter.
THEOREM ExchangeConverges == StateSpec => []MergeConverges
<1>1. TypeOK /\ StampIdentifiesVersion => MergeConverges
  <2> SUFFICES ASSUME TypeOK, StampIdentifiesVersion,
                      NEW s \in KnownStates, NEW t \in KnownStates
               PROVE  /\ \A f \in Flare :
                            \/ Merge(s, t).flares[f] = Merge(t, s).flares[f]
                            \/ /\ s.flares[f].lamport = t.flares[f].lamport
                               /\ Clash(f, s.flares[f].lamport)
                      /\ \A u \in wire : Merge(Merge(s, t), u).flares
                                           = Merge(s, Merge(t, u)).flares
    BY DEF MergeConverges
  <2>1. \A u \in KnownStates, f \in Flare : u.flares[f].lamport \in Int
    BY EntryFacts DEF TypeOK, KnownStates, CRDTState
  <2>2. ASSUME NEW f \in Flare
        PROVE  \/ Merge(s, t).flares[f] = Merge(t, s).flares[f]
               \/ /\ s.flares[f].lamport = t.flares[f].lamport
                  /\ Clash(f, s.flares[f].lamport)
    <3>1. s.flares[f].lamport \in Int /\ t.flares[f].lamport \in Int
      BY <2>1
    <3>2. CASE s.flares[f].lamport = t.flares[f].lamport
      <4>1. \/ s.flares[f] = t.flares[f]
            \/ Clash(f, s.flares[f].lamport)
        BY <3>2 DEF StampIdentifiesVersion
      <4>2. s.flares[f] = t.flares[f] =>
               Merge(s, t).flares[f] = Merge(t, s).flares[f]
        BY DEF Merge, Newer
      <4>3. QED BY <3>2, <4>1, <4>2
    <3>3. CASE s.flares[f].lamport # t.flares[f].lamport
      BY <3>1, <3>3 DEF Merge, Newer
    <3>4. QED BY <3>2, <3>3
  <2>3. ASSUME NEW u \in wire, NEW f \in Flare
        PROVE  Newer(Newer(s.flares[f], t.flares[f]), u.flares[f])
                  = Newer(s.flares[f], Newer(t.flares[f], u.flares[f]))
    <3>1. /\ s.flares[f].lamport \in Int
          /\ t.flares[f].lamport \in Int
          /\ u.flares[f].lamport \in Int
      BY <2>1 DEF KnownStates
    <3>2. QED BY <3>1 DEF Newer
  <2>4. \A u \in wire :
           Merge(Merge(s, t), u).flares = Merge(s, Merge(t, u)).flares
    BY <2>3 DEF Merge
  <2>5. QED BY <2>2, <2>4
<1>2. QED BY <1>1, StampsIdentify, TypeCorrect, OneChannel, PTL

-----------------------------------------------------------------------------
(* What a vector clock says of the flares *)

\* Only peer p counts for p, so nobody knows a higher count than p's own.
OwnCountIsHighest ==
    \A s \in KnownStates, p \in Peer : s.clock[p] <= state[p].clock[p]

\* Any state that counts as far as t for peer p knows of flare f as much as t.
CountCarries(p, t, f) ==
    \A s \in KnownStates :
        s.clock[p] >= t.clock[p] => s.flares[f].lamport >= t.flares[f].lamport

\* What a state knows of a flare came to it with the count of some peer, so
\* nobody gets that far in the count without also knowing it.
KnowledgeHasCarrier ==
    \A t \in KnownStates, f \in Flare : \E p \in Peer : CountCarries(p, t, f)


\* What is known in a type-correct state.
LEMMA KnownTypes ==
    ASSUME TypeOK, NEW s \in KnownStates
    PROVE  /\ s \in CRDTState
           /\ \A p \in Peer : s.clock[p] \in Nat
           /\ \A f \in Flare : /\ s.flares[f] \in FlareEntry
                               /\ s.flares[f].lamport \in Int
<1>1. s \in CRDTState
  BY DEF TypeOK, KnownStates
<1>2. \A p \in Peer : s.clock[p] \in Nat
  BY <1>1 DEF CRDTState, Clock
<1>3. \A f \in Flare : s.flares[f] \in FlareEntry
  BY <1>1 DEF CRDTState
<1>4. QED BY <1>1, <1>2, <1>3, EntryFacts

\* The states known after an exchange of states: the old ones and the new
\* state of the peer that moved, all well formed.
LEMMA OneNewState ==
    ASSUME TypeOK, TypeOK', NEW p \in Peer,
           \A q \in Peer \ {p} : state'[q] = state[q], wire' = wire
    PROVE  /\ state[p] \in KnownStates /\ state'[p] \in KnownStates'
           /\ \A s \in KnownStates' : s = state'[p] \/ s \in KnownStates
BY DEF KnownStates

\* The peer that issues counts one more for itself, and knows no less.
LEMMA IssueClock ==
    ASSUME TypeOK, TypeOK', NEW p \in Peer, NEW op \in Op, Issue(p, op)
    PROVE  /\ \A q \in Peer \ {p} : state'[q] = state[q]
           /\ state'[p].clock[p] = state[p].clock[p] + 1
           /\ \A q \in Peer \ {p} : state'[p].clock[q] = state[p].clock[q]
           /\ \A f \in Flare :
                 state'[p].flares[f].lamport >= state[p].flares[f].lamport
<1>1. \A q \in Peer \ {p} : state'[q] = state[q]
  BY DEF Issue, TypeOK
<1>2. state'[p].clock = Increment(state[p].clock, p)
  BY DEF Issue, Apply, TypeOK
<1>3. state[p].clock \in Clock
  BY DEF TypeOK, CRDTState
<1>4. /\ state'[p].clock[p] = state[p].clock[p] + 1
      /\ \A q \in Peer \ {p} : state'[p].clock[q] = state[p].clock[q]
  BY <1>2, <1>3 DEF Increment, Clock
<1>5. [Next]_vars
  BY DEF Next, OpNext, IssueSome
<1>6. QED BY <1>1, <1>4, <1>5, StepMovesForward

\* A merge takes for every peer the higher count and for every flare the more
\* recent entry.
LEMMA MergeClock ==
    ASSUME TypeOK, TypeOK', NEW p \in Peer, NEW w \in wire, MergeState(p, w)
    PROVE  /\ \A q \in Peer \ {p} : state'[q] = state[q]
           /\ \A q \in Peer : /\ state'[p].clock[q] >= state[p].clock[q]
                              /\ state'[p].clock[q] >= w.clock[q]
                              /\ state'[p].clock[q]
                                    \in {state[p].clock[q], w.clock[q]}
           /\ \A f \in Flare :
                 /\ state'[p].flares[f] \in {state[p].flares[f], w.flares[f]}
                 /\ state'[p].flares[f].lamport >= state[p].flares[f].lamport
                 /\ state'[p].flares[f].lamport >= w.flares[f].lamport
<1>1. \A q \in Peer \ {p} : state'[q] = state[q]
  BY DEF MergeState, TypeOK
<1>2. state'[p] = Merge(state[p], w)
  BY DEF MergeState, TypeOK
<1>3. state[p] \in KnownStates /\ w \in KnownStates
  BY DEF KnownStates
<1>4. ASSUME NEW q \in Peer
      PROVE  /\ state'[p].clock[q] >= state[p].clock[q]
             /\ state'[p].clock[q] >= w.clock[q]
             /\ state'[p].clock[q] \in {state[p].clock[q], w.clock[q]}
  <2>1. state[p].clock[q] \in Nat /\ w.clock[q] \in Nat
    BY <1>3, KnownTypes
  <2>2. state'[p].clock[q] = IF w.clock[q] > state[p].clock[q]
                             THEN w.clock[q] ELSE state[p].clock[q]
    BY <1>2 DEF Merge, MergeClocks
  <2>3. QED BY <2>1, <2>2
<1>5. ASSUME NEW f \in Flare
      PROVE  /\ state'[p].flares[f] \in {state[p].flares[f], w.flares[f]}
             /\ state'[p].flares[f].lamport >= state[p].flares[f].lamport
             /\ state'[p].flares[f].lamport >= w.flares[f].lamport
  <2>1. state[p].flares[f] \in FlareEntry /\ w.flares[f] \in FlareEntry
    BY <1>3, KnownTypes
  <2>2. state'[p].flares[f] = Newer(state[p].flares[f], w.flares[f])
    BY <1>2 DEF Merge
  <2>3. QED BY <2>1, <2>2, NewerFacts
<1>6. QED BY <1>1, <1>4, <1>5

\* ClockReflectsKnowledge holds when peers exchange states, for all constants
\* and whatever stamps the operations carry.
THEOREM ClocksReflect == StateSpec => []ClockReflectsKnowledge
<1>1. Init => OwnCountIsHighest /\ KnowledgeHasCarrier
  <2> SUFFICES ASSUME Init PROVE OwnCountIsHighest /\ KnowledgeHasCarrier
    OBVIOUS
  <2>1. \A s \in KnownStates : s = NewState
    BY DEF Init, KnownStates
  <2>2. \A p \in Peer : state[p] = NewState /\ NewState.clock[p] = 0
    BY DEF Init, NewState, NewClock
  <2>3. OwnCountIsHighest
    <3> SUFFICES ASSUME NEW s \in KnownStates, NEW p \in Peer
                 PROVE  s.clock[p] <= state[p].clock[p]
      BY DEF OwnCountIsHighest
    <3>1. s.clock[p] = 0 /\ state[p].clock[p] = 0
      BY <2>1, <2>2
    <3>2. QED BY <3>1
  <2>4. \A f \in Flare : NewState.flares[f].lamport = -1
    BY DEF NewState, NoFlare
  <2>5. KnowledgeHasCarrier
    BY <2>1, <2>4, ReplicasAssumption DEF KnowledgeHasCarrier, CountCarries
  <2>6. QED BY <2>3, <2>5
<1>2. TypeOK /\ TypeOK' /\ OwnCountIsHighest /\ KnowledgeHasCarrier
         /\ [StateNext]_vars => OwnCountIsHighest' /\ KnowledgeHasCarrier'
  <2> SUFFICES ASSUME TypeOK, TypeOK', OwnCountIsHighest, KnowledgeHasCarrier,
                      [StateNext]_vars
               PROVE  OwnCountIsHighest' /\ KnowledgeHasCarrier'
    OBVIOUS
  <2>1. ASSUME NEW p \in Peer, NEW op \in Op, Issue(p, op)
        PROVE  OwnCountIsHighest' /\ KnowledgeHasCarrier'
    <3> DEFINE old == state[p]
               new == state'[p]
    <3>1. /\ old \in KnownStates /\ new \in KnownStates'
          /\ \A s \in KnownStates' : s = new \/ s \in KnownStates
      BY <2>1, IssueClock, OneNewState DEF Issue
    <3>2. /\ new.clock[p] = old.clock[p] + 1
          /\ \A q \in Peer \ {p} : new.clock[q] = old.clock[q]
          /\ \A f \in Flare : new.flares[f].lamport >= old.flares[f].lamport
      BY <2>1, IssueClock
    <3>3. /\ \A q \in Peer : old.clock[q] \in Nat /\ new.clock[q] \in Nat
          /\ \A f \in Flare : /\ old.flares[f].lamport \in Int
                              /\ new.flares[f].lamport \in Int
      BY <3>1, <3>2, KnownTypes, EntryFacts DEF TypeOK, CRDTState, Clock
    <3>4. \A s \in KnownStates, q \in Peer : s.clock[q] <= state[q].clock[q]
      BY DEF OwnCountIsHighest
    <3>5. \A q \in Peer \ {p} : state'[q] = state[q]
      BY <2>1, IssueClock
    <3> HIDE DEF old, new
    <3>6. OwnCountIsHighest'
      <4> SUFFICES ASSUME NEW s \in KnownStates', NEW q \in Peer
                   PROVE  s.clock[q] <= state'[q].clock[q]
        BY DEF OwnCountIsHighest
      <4>1. CASE q = p
        <5>1. CASE s = new
          BY <3>3, <4>1, <5>1 DEF new
        <5>2. CASE s \in KnownStates
          BY <3>2, <3>3, <3>4, <4>1, <5>2, KnownTypes DEF old, new
        <5>3. QED BY <3>1, <5>1, <5>2
      <4>2. CASE q # p
        BY <3>1, <3>2, <3>4, <3>5, <4>2
      <4>3. QED BY <4>1, <4>2
    <3>7. KnowledgeHasCarrier'
      <4> SUFFICES ASSUME NEW t \in KnownStates', NEW f \in Flare
                   PROVE  \E q \in Peer : CountCarries(q, t, f)'
        BY DEF KnowledgeHasCarrier
      <4>1. CASE t = new
        <5>1. ASSUME NEW s \in KnownStates', s.clock[p] >= t.clock[p]
              PROVE  s.flares[f].lamport >= t.flares[f].lamport
          <6>1. s \notin KnownStates
            BY <3>2, <3>3, <3>4, <4>1, <5>1, KnownTypes DEF old
          <6>2. QED BY <3>1, <3>3, <4>1, <6>1
        <5>2. CountCarries(p, t, f)'
          BY <5>1 DEF CountCarries
        <5>3. QED BY <5>2
      <4>2. CASE t \in KnownStates
        <5>1. PICK q \in Peer : CountCarries(q, t, f)
          BY <4>2 DEF KnowledgeHasCarrier
        <5>2. t.clock[q] \in Nat /\ t.flares[f].lamport \in Int
          BY <4>2, KnownTypes
        <5>3. ASSUME new.clock[q] >= t.clock[q]
              PROVE  new.flares[f].lamport >= t.flares[f].lamport
          <6>1. old.clock[q] >= t.clock[q]
            BY <3>2, <3>3, <3>4, <4>2, <5>2, <5>3 DEF old
          <6>2. old.flares[f].lamport >= t.flares[f].lamport
            BY <3>1, <5>1, <6>1 DEF CountCarries
          <6>3. QED BY <3>2, <3>3, <5>2, <6>2
        <5>4. CountCarries(q, t, f)'
          BY <3>1, <5>1, <5>3 DEF CountCarries
        <5>5. QED BY <5>4
      <4>3. QED BY <3>1, <4>1, <4>2
    <3>8. QED BY <3>6, <3>7
  <2>2. ASSUME NEW p \in Peer, SendState(p)
        PROVE  OwnCountIsHighest' /\ KnowledgeHasCarrier'
    <3>1. KnownStates' = KnownStates /\ state' = state
      BY <2>2 DEF SendState, KnownStates
    <3>2. QED
      BY <3>1 DEF OwnCountIsHighest, KnowledgeHasCarrier, CountCarries
  <2>3. ASSUME NEW p \in Peer, NEW w \in wire, MergeState(p, w)
        PROVE  OwnCountIsHighest' /\ KnowledgeHasCarrier'
    <3> DEFINE old == state[p]
               new == state'[p]
    <3>1. /\ old \in KnownStates /\ new \in KnownStates' /\ w \in KnownStates
          /\ \A s \in KnownStates' : s = new \/ s \in KnownStates
      BY <2>3, MergeClock, OneNewState DEF MergeState, KnownStates
    <3>2. /\ \A q \in Peer : /\ new.clock[q] >= old.clock[q]
                             /\ new.clock[q] >= w.clock[q]
                             /\ new.clock[q] \in {old.clock[q], w.clock[q]}
          /\ \A f \in Flare :
                /\ new.flares[f] \in {old.flares[f], w.flares[f]}
                /\ new.flares[f].lamport >= old.flares[f].lamport
                /\ new.flares[f].lamport >= w.flares[f].lamport
      BY <2>3, MergeClock
    <3>3. /\ \A q \in Peer : old.clock[q] \in Nat /\ w.clock[q] \in Nat
          /\ \A f \in Flare : /\ old.flares[f].lamport \in Int
                              /\ w.flares[f].lamport \in Int
      BY <3>1, KnownTypes
    <3>4. \A s \in KnownStates, q \in Peer : s.clock[q] <= state[q].clock[q]
      BY DEF OwnCountIsHighest
    <3>5. \A q \in Peer \ {p} : state'[q] = state[q]
      BY <2>3, MergeClock
    <3> HIDE DEF old, new
    <3>6. OwnCountIsHighest'
      <4> SUFFICES ASSUME NEW s \in KnownStates', NEW q \in Peer
                   PROVE  s.clock[q] <= state'[q].clock[q]
        BY DEF OwnCountIsHighest
      <4>0. state[q].clock[q] \in Nat /\ state'[q].clock[q] \in Nat
        BY DEF TypeOK, CRDTState, Clock
      <4>1. state'[q].clock[q] >= state[q].clock[q]
        <5>1. CASE q = p
          BY <3>2, <5>1 DEF old, new
        <5>2. CASE q # p
          BY <3>5, <4>0, <5>2
        <5>3. QED BY <5>1, <5>2
      <4>2. s.clock[q] <= state[q].clock[q]
        BY <3>1, <3>2, <3>4
      <4>3. s.clock[q] \in Nat
        BY <3>1, <3>2, <3>3, KnownTypes
      <4>4. QED BY <4>0, <4>1, <4>2, <4>3
    <3>7. KnowledgeHasCarrier'
      <4> SUFFICES ASSUME NEW t \in KnownStates', NEW f \in Flare
                   PROVE  \E q \in Peer : CountCarries(q, t, f)'
        BY DEF KnowledgeHasCarrier
      <4>1. ASSUME NEW u \in KnownStates, NEW q \in Peer,
                   CountCarries(q, u, f), new.clock[q] >= u.clock[q]
            PROVE  new.flares[f].lamport >= u.flares[f].lamport
        <5>1. u.clock[q] \in Nat /\ u.flares[f].lamport \in Int
          BY KnownTypes
        <5>2. CASE new.clock[q] = old.clock[q]
          <6>1. old.flares[f].lamport >= u.flares[f].lamport
            BY <3>1, <4>1, <5>2 DEF CountCarries
          <6>2. QED BY <3>2, <3>3, <5>1, <6>1
        <5>3. CASE new.clock[q] = w.clock[q]
          <6>1. w.flares[f].lamport >= u.flares[f].lamport
            BY <3>1, <4>1, <5>3 DEF CountCarries
          <6>2. QED BY <3>2, <3>3, <5>1, <6>1
        <5>4. QED BY <3>2, <5>2, <5>3
      <4>2. ASSUME NEW u \in KnownStates,
                   \A q \in Peer : t.clock[q] >= u.clock[q],
                   t.flares[f] = u.flares[f]
            PROVE  \E q \in Peer : CountCarries(q, t, f)'
        <5>1. PICK q \in Peer : CountCarries(q, u, f)
          BY <4>2 DEF KnowledgeHasCarrier
        <5>2. ASSUME NEW s \in KnownStates', s.clock[q] >= t.clock[q]
              PROVE  s.flares[f].lamport >= t.flares[f].lamport
          <6>1. /\ s.clock[q] \in Nat /\ t.clock[q] \in Nat
                /\ u.clock[q] \in Nat
            BY <3>1, <3>2, <3>3, KnownTypes
          <6>2. s.clock[q] >= u.clock[q]
            BY <4>2, <5>2, <6>1
          <6>3. s.flares[f].lamport >= u.flares[f].lamport
            BY <3>1, <4>1, <5>1, <6>2 DEF CountCarries
          <6>4. QED BY <4>2, <6>3
        <5>3. CountCarries(q, t, f)'
          BY <5>2 DEF CountCarries
        <5>4. QED BY <5>3
      <4>3. CASE t \in KnownStates
        <5>1. \A q \in Peer : t.clock[q] >= t.clock[q]
          BY <4>3, KnownTypes
        <5>2. QED BY <4>2, <4>3, <5>1
      <4>4. CASE t = new
        BY <3>1, <3>2, <4>2, <4>4
      <4>5. QED BY <3>1, <4>3, <4>4
    <3>8. QED BY <3>6, <3>7
  <2>4. CASE UNCHANGED vars
    <3>1. KnownStates' = KnownStates /\ state' = state
      BY <2>4 DEF vars, KnownStates
    <3>2. QED
      BY <3>1 DEF OwnCountIsHighest, KnowledgeHasCarrier, CountCarries
  <2>5. QED BY <2>1, <2>2, <2>3, <2>4 DEF StateNext, IssueSome
<1>3. TypeOK /\ KnowledgeHasCarrier => ClockReflectsKnowledge
  <2> SUFFICES ASSUME TypeOK, KnowledgeHasCarrier,
                      NEW s \in KnownStates, NEW t \in KnownStates,
                      IsAfter(s.clock, t.clock), NEW f \in Flare
               PROVE  s.flares[f].lamport >= t.flares[f].lamport
    BY DEF ClockReflectsKnowledge
  <2>1. PICK p \in Peer : CountCarries(p, t, f)
    BY DEF KnowledgeHasCarrier
  <2>2. s.clock[p] >= t.clock[p]
    BY KnownTypes DEF IsAfter
  <2>3. QED BY <2>1, <2>2 DEF CountCarries
<1>4. QED
  BY <1>1, <1>2, <1>3, TypeCorrect, OneChannel, PTL DEF StateSpec
=============================================================================
