-------------------------- MODULE PeerClockProofs ---------------------------
(***************************************************************************)
(* Facts about the vector clock of crates/crdt_engine/src/clock.rs, for    *)
(* every set of peers and every clock.                                     *)
(***************************************************************************)
EXTENDS PeerClock, TLAPS

\* The operations of the clock yield clocks.
LEMMA ClockTypes ==
    ASSUME NEW c \in Clock, NEW d \in Clock, NEW p \in Peer
    PROVE  /\ NewClock \in Clock
           /\ Increment(c, p) \in Clock
           /\ MergeClocks(c, d) \in Clock
BY DEF Clock, NewClock, Increment, MergeClocks

\* A peer that counts one more operation is causally after what it was: the
\* clock cannot move without is_after noticing.
THEOREM IncrementIsAfter ==
    ASSUME NEW c \in Clock, NEW p \in Peer
    PROVE  IsAfter(Increment(c, p), c)
<1>1. \A q \in Peer : ~(Increment(c, p)[q] < c[q])
  BY DEF Clock, Increment
<1>2. Increment(c, p)[p] > c[p]
  BY DEF Clock, Increment
<1>3. QED BY <1>1, <1>2 DEF IsAfter

\* is_after is a strict partial order: no clock is after itself, no two
\* clocks are after each other, and causality composes.
THEOREM AfterIsStrictOrder ==
    ASSUME NEW c \in Clock, NEW d \in Clock, NEW e \in Clock
    PROVE  /\ ~IsAfter(c, c)
           /\ ~(IsAfter(c, d) /\ IsAfter(d, c))
           /\ IsAfter(c, d) /\ IsAfter(d, e) => IsAfter(c, e)
<1>1. ~IsAfter(c, c)
  BY DEF IsAfter, Clock
<1>2. ~(IsAfter(c, d) /\ IsAfter(d, c))
  BY DEF IsAfter, Clock
<1>3. ASSUME IsAfter(c, d), IsAfter(d, e)
      PROVE  IsAfter(c, e)
  <2>1. \A q \in Peer : c[q] >= d[q] /\ d[q] >= e[q]
    BY <1>3 DEF IsAfter, Clock
  <2>2. PICK p \in Peer : c[p] > d[p]
    BY <1>3 DEF IsAfter
  <2>3. c[p] > e[p]
    BY <2>1, <2>2 DEF Clock
  <2>4. QED BY <2>1, <2>3 DEF IsAfter, Clock
<1>4. QED BY <1>1, <1>2, <1>3

\* merge is the least upper bound: it loses nothing of either clock and
\* invents nothing, so any clock after or equal to both is to the merge.
THEOREM MergeIsLeastUpperBound ==
    ASSUME NEW c \in Clock, NEW d \in Clock, NEW e \in Clock
    PROVE  /\ \A q \in Peer : MergeClocks(c, d)[q] >= c[q]
                           /\ MergeClocks(c, d)[q] >= d[q]
           /\ (\A q \in Peer : e[q] >= c[q] /\ e[q] >= d[q])
                 => \A q \in Peer : e[q] >= MergeClocks(c, d)[q]
BY DEF Clock, MergeClocks

\* merge is idempotent, commutative and associative: the order in which clocks
\* are merged, and how often, makes no difference.
THEOREM MergeClocksIsSemilattice ==
    ASSUME NEW c \in Clock, NEW d \in Clock, NEW e \in Clock
    PROVE  /\ MergeClocks(c, c) = c
           /\ MergeClocks(c, d) = MergeClocks(d, c)
           /\ MergeClocks(MergeClocks(c, d), e)
                 = MergeClocks(c, MergeClocks(d, e))
BY DEF Clock, MergeClocks
=============================================================================
