--------------------------- MODULE FlareReplicas ----------------------------
(***************************************************************************)
(* Peers that each keep a CRDTState (crates/crdt_engine) and exchange what *)
(* they know.  The engine is a library: it decides what an operation or a  *)
(* peer's state does to a replica, and leaves to its callers which stamps  *)
(* they put on operations and what they send to whom.  The repository has  *)
(* two intended ways to exchange (crates/sqlite_embedded/src/sync.rs):     *)
(*                                                                         *)
(*   - operations: SyncResponse carries "ops: Vec<Op>", and a peer calls   *)
(*     apply on each.  An operation may arrive late, twice, after a later  *)
(*     one, or never: the outbox resends what was not acknowledged and its *)
(*     backoff reorders (module OutboxQueue);                              *)
(*   - states: a peer serializes its CRDTState and the other calls merge.  *)
(*     A state in flight may be old, arrive twice, or never.               *)
(*                                                                         *)
(* OpSpec is the first, StateSpec the second, Spec any mix of the two.     *)
(***************************************************************************)
EXTENDS FlareCrdt, FiniteSets

CONSTANTS
    Server,        \* the peer that is the backend
    UniqueStamps,  \* TRUE when no two operations carry the same stamp
    CarefulIssuers, \* TRUE when issuers check what Careful says
    MaxOps,        \* bound: operations issued
    MaxApplies,    \* bound: what a clock counts for one peer
    MaxWire        \* bound: states in flight

ASSUME ReplicasAssumption ==
    /\ Server \in Peer
    /\ UniqueStamps \in BOOLEAN
    /\ CarefulIssuers \in BOOLEAN

VARIABLES
    state,      \* state[p]: the CRDTState of peer p
    issued,     \* the operations peers have created
    delivered,  \* delivered[p]: the operations p has applied (history)
    wire        \* the serialized states in flight

vars == <<state, issued, delivered, wire>>

-----------------------------------------------------------------------------

Init ==
    /\ state = [p \in Peer |-> NewState]
    /\ issued = {}
    /\ delivered = [p \in Peer |-> {}]
    /\ wire = {}

\* What a careful caller makes sure of before it creates an operation: an
\* insert names a new flare, anything else one its replica knows and that the
\* operation changes.
Careful(p, op) ==
    LET rec == state[p].flares[op.flare] IN
    /\ op.kind = "InsertPickup" => \A o \in issued : o.flare # op.flare
    /\ op.kind # "InsertPickup" => Exists(rec)
    /\ op.lamport > rec.lamport
    /\ ApplyToFlare(rec, op).lamport = op.lamport

\* Peer p creates an operation (Op::new) and applies it to its own replica.
Issue(p, op) ==
    /\ op.peer = p
    /\ op \notin issued
    /\ UniqueStamps => \A o \in issued : o.lamport # op.lamport
    /\ CarefulIssuers => Careful(p, op)
    /\ Cardinality(issued) < MaxOps
    /\ state[p].clock[p] < MaxApplies
    /\ issued' = issued \cup {op}
    /\ state' = [state EXCEPT ![p] = Apply(@, op, p)]
    /\ delivered' = [delivered EXCEPT ![p] = @ \cup {op}]
    /\ UNCHANGED wire

\* Peer p applies an operation that somebody issued.  Nothing in apply tells
\* a first delivery from a repeated one.
Deliver(p, op) ==
    /\ op \in issued
    /\ state[p].clock[op.peer] < MaxApplies
    /\ state' = [state EXCEPT ![p] = Apply(@, op, op.peer)]
    /\ delivered' = [delivered EXCEPT ![p] = @ \cup {op}]
    /\ UNCHANGED <<issued, wire>>

\* Peer p sends its state.  It stays in flight: it may be merged by several
\* peers, several times, long after p has moved on, or never.
SendState(p) ==
    /\ Cardinality(wire) < MaxWire
    /\ wire' = wire \cup {state[p]}
    /\ UNCHANGED <<state, issued, delivered>>

MergeState(p, s) ==
    /\ s \in wire
    /\ state' = [state EXCEPT ![p] = Merge(@, s)]
    /\ UNCHANGED <<issued, delivered, wire>>

-----------------------------------------------------------------------------

IssueSome == \E p \in Peer, op \in Op : Issue(p, op)

OpNext ==
    \/ IssueSome
    \/ \E p \in Peer, op \in issued : Deliver(p, op)

StateNext ==
    \/ IssueSome
    \/ \E p \in Peer : SendState(p)
    \/ \E p \in Peer, s \in wire : MergeState(p, s)

Next == OpNext \/ StateNext

OpSpec    == Init /\ [][OpNext]_vars
StateSpec == Init /\ [][StateNext]_vars
Spec      == Init /\ [][Next]_vars

-----------------------------------------------------------------------------
(* What is checked and proved *)

KnownStates == {state[p] : p \in Peer} \cup wire

\* Every replica and every state in flight is a well-formed CRDTState.
TypeOK ==
    /\ state \in [Peer -> CRDTState]
    /\ issued \subseteq Op
    /\ delivered \in [Peer -> SUBSET issued]
    /\ wire \subseteq CRDTState

\* A queued flare has no clergy assigned, at any peer, on any channel: apply
\* sets the assignee and leaves Queued together, an insert clears both
\* together, and merge never mixes the fields of two entries.
QueuedIsUnassigned ==
    \A s \in KnownStates, f \in Flare :
        s.flares[f].status = "Queued" => s.flares[f].assigned = Nobody

\* The operation op accounts for the status and the assignee of an entry
\* stamped by it.
Accounts(op, rec) ==
    /\ op.kind = "InsertPickup"   => /\ rec.status = "Queued"
                                     /\ rec.location = op.location
    /\ op.kind = "UpdateStatus"   => rec.status = op.status
    /\ op.kind = "AssignClergy"   => rec.assigned = op.clergy
    /\ op.kind = "CompletePickup" => rec.status = "Completed"

\* The operations ops explain the entry rec of flare f.
Explains(ops, f, rec) ==
    /\ Exists(rec) =>
          \E op \in ops : /\ op.flare = f
                          /\ op.lamport = rec.lamport
                          /\ Accounts(op, rec)
    /\ rec.location # Unknown =>
          \E op \in ops : /\ op.kind = "InsertPickup"
                          /\ op.flare = f
                          /\ op.location = rec.location
                          /\ op.lamport <= rec.lamport
    /\ rec.assigned # Nobody =>
          \E op \in ops : /\ op.kind = "AssignClergy"
                          /\ op.flare = f
                          /\ op.clergy = rec.assigned
                          /\ op.lamport <= rec.lamport

\* Whatever a replica or a message says of a flare, somebody said: the stamp
\* of an entry is that of an issued operation on that flare which accounts
\* for it; a known location comes from an insert and an assignee from an
\* assignment, no later than the stamp.  Nothing is made up by merging.
Provenance ==
    \A s \in KnownStates, f \in Flare : Explains(issued, f, s.flares[f])

\* Two different operations on flare f were issued with the stamp l.  Nothing
\* in the engine prevents it: Op::new takes the stamp its caller chose.
Clash(f, l) ==
    \E o1, o2 \in issued :
        /\ o1 # o2
        /\ o1.flare = f   /\ o2.flare = f
        /\ o1.lamport = l /\ o2.lamport = l

\* When peers exchange states, two entries of a flare with the same stamp are
\* the same entry, wherever they are, or else two operations on that flare
\* were issued with that stamp: "Higher lamport wins" can go wrong on no other
\* account, however old the states are that are merged.
StampIdentifiesVersion ==
    \A s, t \in KnownStates, f \in Flare :
        s.flares[f].lamport = t.flares[f].lamport =>
            s.flares[f] = t.flares[f] \/ Clash(f, s.flares[f].lamport)

\* An insert, an assignment or a completion that a peer has applied counts
\* from then on: the peer's entry is at least as recent as it.  (A status
\* update may be refused for good: its transition is checked when it arrives.)
UnconditionalOpsStick ==
    \A p \in Peer : \A op \in delivered[p] :
        op.kind # "UpdateStatus" =>
            state[p].flares[op.flare].lamport >= op.lamport

\* Two peers that merge each other's state agree on every flare but those on
\* which operations with equal stamps were issued, and only while the entries
\* in question carry that stamp: merge has no tie-break for these, and each
\* peer keeps its own.  Three states can be merged in either grouping.
MergeConverges ==
    \A s, t \in KnownStates :
        /\ \A f \in Flare :
              \/ Merge(s, t).flares[f] = Merge(t, s).flares[f]
              \/ /\ s.flares[f].lamport = t.flares[f].lamport
                 /\ Clash(f, s.flares[f].lamport)
        /\ \A u \in wire :
              Merge(Merge(s, t), u).flares = Merge(s, Merge(t, u)).flares

\* A state whose vector clock is causally after another's knows of every
\* flare a version at least as recent.
ClockReflectsKnowledge ==
    \A s, t \in KnownStates :
        IsAfter(s.clock, t.clock) =>
            \A f \in Flare : s.flares[f].lamport >= t.flares[f].lamport

\* Peers that have applied the same operations hold the same flares, whatever
\* the order in which the operations reached them.
SameOpsSameFlares ==
    \A p, q \in Peer :
        delivered[p] = delivered[q] => state[p].flares = state[q].flares

\* A client's state that is concurrent with the server's never changes the
\* status the server holds of a flare: in a conflict the server's status wins.
ServerStatusWins ==
    [][\A s \in wire, f \in Flare :
          /\ issued' = issued
          /\ state'[Server] = Merge(state[Server], s)
          /\ IsConcurrent(state[Server].clock, s.clock)
          /\ Exists(state[Server].flares[f])
          => state'[Server].flares[f].status
                = state[Server].flares[f].status]_vars

-----------------------------------------------------------------------------
(* The promise of module LatestWins *)

LW == INSTANCE LatestWins WITH
        written <- {<<op.flare, op.lamport>> : op \in issued},
        seen    <- [p \in Peer |->
                      [f \in Flare |-> state[p].flares[f].lamport]]

\* Replicas only move forward, and only to stamps that were issued, under any
\* mix of operations and states, late, lost and repeated.
ImplementsLatestWins == LW!Spec
=============================================================================
