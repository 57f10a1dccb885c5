--------------------------- MODULE MCOutboxQueue ----------------------------
(***************************************************************************)
(* Small instances of OutboxQueue.  Workers are interchangeable.           *)
(***************************************************************************)
EXTENDS OutboxQueue, TLC

SymWorkers == Permutations(Worker)
=============================================================================
