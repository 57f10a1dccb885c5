----------------------------- MODULE FlareCrdt ------------------------------
(***************************************************************************)
(* The operations and the conflict resolution of crates/crdt_engine: the   *)
(* status machine (op.rs), CRDTState::apply and CRDTState::merge           *)
(* (merge.rs), as functions on the record one replica keeps of one flare.  *)
(* A replica's whole state is in module FlareReplicas.                     *)
(*                                                                         *)
(* Data the properties do not tell apart is left out: timestamps and       *)
(* completion proofs (apply ignores them), signatures (apply never checks  *)
(* them), and eta_seconds, which every assignment sets together with       *)
(* assigned_clergy_h3 ("assigned" stands for the pair).                    *)
(***************************************************************************)
EXTENDS PeerClock

CONSTANTS
    Flare,      \* flare ids
    Location,   \* the location_h3 cells that InsertPickup carries
    Clergy,     \* the (clergy_h3, eta_seconds) pairs that AssignClergy carries
    Stamp,      \* the lamport stamps that operations carry
    Unknown,    \* the location "unknown" of merge.rs
    Nobody      \* no clergy assigned: None

ASSUME CrdtAssumption ==
    /\ Stamp \subseteq Nat
    /\ Unknown \notin Location
    /\ Nobody \notin Clergy

-----------------------------------------------------------------------------
(* The status machine of op.rs *)

PickupStatus == {"Queued", "Dispatched", "EnRoute", "Completed", "Expired"}

\* PickupStatus::can_transition_to
CanTransition(from, to) ==
    <<from, to>> \in { <<"Queued", "Dispatched">>,  <<"Queued", "Expired">>,
                       <<"Dispatched", "EnRoute">>, <<"Dispatched", "Expired">>,
                       <<"EnRoute", "Completed">>,  <<"EnRoute", "Expired">> }

\* Op with its OpType.  The four shapes share the fields of Op.
Op ==
    [kind : {"InsertPickup"}, flare : Flare, lamport : Stamp, peer : Peer,
        location : Location]
    \cup
    [kind : {"UpdateStatus"}, flare : Flare, lamport : Stamp, peer : Peer,
        status : PickupStatus]
    \cup
    [kind : {"AssignClergy"}, flare : Flare, lamport : Stamp, peer : Peer,
        clergy : Clergy]
    \cup
    [kind : {"CompletePickup"}, flare : Flare, lamport : Stamp, peer : Peer]

-----------------------------------------------------------------------------
(* FlareState.  A flare a replica has no entry for is NoFlare: its stamp    *)
(* is below every real one, so that "missing" and "older" are one case      *)
(* wherever the code treats them alike.                                     *)

FlareState ==
    [status : PickupStatus, location : Location \cup {Unknown},
     assigned : Clergy \cup {Nobody}, lamport : Stamp]

NoFlare ==
    [status |-> "Missing", location |-> Unknown, assigned |-> Nobody,
     lamport |-> -1]

Exists(rec) == rec.lamport # -1

-----------------------------------------------------------------------------
(* CRDTState::apply, one operator per arm of its match.                     *)

\* The entry apply creates when an operation other than an insert names a
\* flare this replica has never heard of.
Created(op, status, assigned) ==
    [status |-> status, location |-> Unknown, assigned |-> assigned,
     lamport |-> op.lamport]

\* The entry apply leaves of a flare it knows: only an insert sets a location.
Updated(rec, op, status, assigned) ==
    [status |-> status, location |-> rec.location, assigned |-> assigned,
     lamport |-> op.lamport]

\* Faulty form: a late insert replaces a more recent entry.
InsertPickupAlways(rec, op) ==
    [status |-> "Queued", location |-> op.location,
     assigned |-> Nobody, lamport |-> op.lamport]

InsertPickup(rec, op) ==
    IF Exists(rec) /\ op.lamport <= rec.lamport
    THEN rec
    ELSE [status |-> "Queued", location |-> op.location,
          assigned |-> Nobody, lamport |-> op.lamport]

\* Faulty form: the entry keeps its old stamp.
UpdateStatusUnstamped(rec, op) ==
    IF ~Exists(rec) THEN Created(op, op.status, Nobody)
    ELSE IF op.lamport > rec.lamport /\ CanTransition(rec.status, op.status)
         THEN [rec EXCEPT !.status = op.status]
         ELSE rec

UpdateStatus(rec, op) ==
    IF ~Exists(rec) THEN Created(op, op.status, Nobody)
    ELSE IF op.lamport > rec.lamport /\ CanTransition(rec.status, op.status)
         THEN Updated(rec, op, op.status, rec.assigned)
         ELSE rec

\* Faulty form: the status stays Queued.
AssignClergyQueued(rec, op) ==
    IF ~Exists(rec) THEN Created(op, "Dispatched", op.clergy)
    ELSE IF op.lamport > rec.lamport
         THEN Updated(rec, op, rec.status, op.clergy)
         ELSE rec

AssignClergy(rec, op) ==
    IF ~Exists(rec) THEN Created(op, "Dispatched", op.clergy)
    ELSE IF op.lamport > rec.lamport
         THEN Updated(rec, op,
                      IF rec.status = "Queued" THEN "Dispatched" ELSE rec.status,
                      op.clergy)
         ELSE rec

\* Faulty form: completion checks the transition, as a status update does.
CompletePickupChecked(rec, op) ==
    IF ~Exists(rec) THEN Created(op, "Completed", Nobody)
    ELSE IF op.lamport > rec.lamport /\ CanTransition(rec.status, "Completed")
         THEN Updated(rec, op, "Completed", rec.assigned)
         ELSE rec

CompletePickup(rec, op) ==
    IF ~Exists(rec) THEN Created(op, "Completed", Nobody)
    ELSE IF op.lamport > rec.lamport
         THEN Updated(rec, op, "Completed", rec.assigned)
         ELSE rec

\* What apply leaves of the entry rec of the flare that op names.
ApplyToFlare(rec, op) ==
    IF op.kind = "InsertPickup"      THEN InsertPickup(rec, op)
    ELSE IF op.kind = "UpdateStatus" THEN UpdateStatus(rec, op)
    ELSE IF op.kind = "AssignClergy" THEN AssignClergy(rec, op)
    ELSE CompletePickup(rec, op)

-----------------------------------------------------------------------------
(* CRDTState: the flares map and the vector clock of a replica.             *)

FlareEntry == FlareState \cup {NoFlare}

CRDTState == [flares : [Flare -> FlareEntry], clock : Clock]

\* CRDTState::new
NewState == [flares |-> [f \in Flare |-> NoFlare], clock |-> NewClock]

\* CRDTState::apply: the clock moves first, whatever becomes of the operation
Apply(state, op, peer) ==
    [flares |-> [state.flares EXCEPT ![op.flare] = ApplyToFlare(@, op)],
     clock  |-> Increment(state.clock, peer)]

\* Faulty forms: receiving an entry counts as a new event on it; only the
\* status and the stamp are taken; a flare this replica lacks is skipped.
NewerTouched(mine, theirs) ==
    IF theirs.lamport > mine.lamport
    THEN [theirs EXCEPT !.lamport = @ + 1] ELSE mine

NewerStatusOnly(mine, theirs) ==
    IF theirs.lamport > mine.lamport
    THEN [mine EXCEPT !.status = theirs.status, !.lamport = theirs.lamport]
    ELSE mine

NewerIfKnown(mine, theirs) ==
    IF Exists(mine) /\ theirs.lamport > mine.lamport THEN theirs ELSE mine

\* One round of merge's loop: "Higher lamport wins", a missing flare is taken
Newer(mine, theirs) == IF theirs.lamport > mine.lamport THEN theirs ELSE mine

\* CRDTState::merge
Merge(state, other) ==
    [flares |-> [f \in Flare |-> Newer(state.flares[f], other.flares[f])],
     clock  |-> MergeClocks(state.clock, other.clock)]
=============================================================================
