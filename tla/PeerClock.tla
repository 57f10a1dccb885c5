----------------------------- MODULE PeerClock ------------------------------
(***************************************************************************)
(* The VectorClock of crates/crdt_engine/src/clock.rs.                     *)
(*                                                                         *)
(* The code keeps a BTreeMap from peer to counter and reads a missing      *)
(* entry as 0 (get), so a clock is here a total function from peers to     *)
(* counters.  No operation of the code can tell the two apart, except the  *)
(* derived equality on clocks, which nothing in the repository uses.       *)
(* increment() on a u64 is unbounded here: reaching 2^64 is out of reach   *)
(* of any peer.                                                            *)
(***************************************************************************)
EXTENDS Integers

CONSTANT Peer  \* the public keys that identify devices and the server

Clock == [Peer -> Nat]

\* VectorClock::new
NewClock == [p \in Peer |-> 0]

\* VectorClock::increment
Increment(c, p) == [c EXCEPT ![p] = @ + 1]

\* VectorClock::merge: the pointwise maximum
MergeClocks(c, d) == [p \in Peer |-> IF d[p] > c[p] THEN d[p] ELSE c[p]]

\* VectorClock::is_after: the loop's early return is the first conjunct,
\* has_greater the second
IsAfter(c, d) ==
    /\ \A p \in Peer : ~(c[p] < d[p])
    /\ \E p \in Peer : c[p] > d[p]

\* VectorClock::is_before
IsBefore(c, d) == IsAfter(d, c)

\* VectorClock::is_concurrent (equal clocks are "concurrent" too)
IsConcurrent(c, d) == ~IsAfter(c, d) /\ ~IsAfter(d, c)
=============================================================================
