----------------------------- MODULE LatestWins -----------------------------
(***************************************************************************)
(* What a replicated flare store promises, whatever the channel does: the  *)
(* store of a peer is a register per flare that holds the stamp of the     *)
(* last write it took.  A step touches one peer, raises stamps or leaves   *)
(* them, and raises them only to stamps that somebody wrote.  Nothing is   *)
(* forgotten, nothing goes back, nothing is invented.                      *)
(***************************************************************************)
EXTENDS Integers

CONSTANTS Peer, Flare, Stamp

VARIABLES
    written,  \* the (flare, stamp) pairs somebody has written
    seen      \* seen[p][f]: the stamp p holds for f, -1 when it has none

vars == <<written, seen>>

Init ==
    /\ written = {}
    /\ seen = [p \in Peer |-> [f \in Flare |-> -1]]

\* Peer p takes for each flare what it had, or a later write.
Learn(p) ==
    /\ seen' \in [Peer -> [Flare -> Stamp \cup {-1}]]
    /\ \A q \in Peer \ {p} : seen'[q] = seen[q]
    /\ \A f \in Flare :
          \/ seen'[p][f] = seen[p][f]
          \/ seen'[p][f] > seen[p][f] /\ <<f, seen'[p][f]>> \in written'

\* Peer p makes a write of its own, which may be outdated when it is made.
Write(p, f, n) ==
    /\ written' = written \cup {<<f, n>>}
    /\ Learn(p)

Hear(p) ==
    /\ written' = written
    /\ Learn(p)

Next ==
    \E p \in Peer :
        \/ \E f \in Flare, n \in Stamp : Write(p, f, n)
        \/ Hear(p)

Spec == Init /\ [][Next]_vars
=============================================================================
