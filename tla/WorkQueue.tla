----------------------------- MODULE WorkQueue ------------------------------
(***************************************************************************)
(* What a work queue promises, whatever happens to those who take from it: *)
(* what it has accepted is pending until somebody it was handed to settles *)
(* it; only what is pending and not put off is handed out; what is settled *)
(* stays settled.  Several takers may hold the same item, and one that     *)
(* dies gives back what it held.  The promise says nothing of order, and   *)
(* not that anything is ever settled.                                      *)
(***************************************************************************)
CONSTANTS Id, Taker

VARIABLES
    accepted,  \* the items taken in
    pending,   \* those of them that are not settled
    waiting,   \* those that are put off
    held       \* held[t]: the items t was handed and has not dealt with

vars == <<accepted, pending, waiting, held>>

Init ==
    /\ accepted = {}
    /\ pending = {}
    /\ waiting = {}
    /\ held = [t \in Taker |-> {}]

Accept(id) ==
    /\ id \notin accepted
    /\ accepted' = accepted \cup {id}
    /\ pending' = pending \cup {id}
    /\ UNCHANGED <<waiting, held>>

HandOut(t, ids) ==
    /\ held[t] = {}
    /\ ids \subseteq pending \ waiting
    /\ held' = [held EXCEPT ![t] = ids]
    /\ UNCHANGED <<accepted, pending, waiting>>

\* t is done with an item, for good or not.
Done(t, id) ==
    /\ id \in held[t]
    /\ held' = [held EXCEPT ![t] = @ \ {id}]
    /\ pending' \in {pending, pending \ {id}}
    /\ UNCHANGED <<accepted, waiting>>

\* An item is put off, by whomever, or its time has come.
PutOff(id) ==
    /\ id \in accepted
    /\ waiting' = waiting \cup {id}
    /\ UNCHANGED <<accepted, pending, held>>

Release(ids) ==
    /\ waiting' = waiting \ ids
    /\ UNCHANGED <<accepted, pending, held>>

GiveAllBack ==
    /\ held' = [t \in Taker |-> {}]
    /\ UNCHANGED <<accepted, pending, waiting>>

Next ==
    \/ \E id \in Id : Accept(id) \/ PutOff(id)
    \/ \E t \in Taker : \E ids \in SUBSET (pending \ waiting) : HandOut(t, ids)
    \/ \E t \in Taker : \E id \in Id : Done(t, id)
    \/ \E ids \in SUBSET waiting : Release(ids)
    \/ GiveAllBack

Spec == Init /\ [][Next]_vars
=============================================================================
