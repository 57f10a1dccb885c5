-------------------------- MODULE MCFlareReplicas ---------------------------
(***************************************************************************)
(* Small instances of FlareReplicas.  Peers are interchangeable in every   *)
(* property but ServerStatusWins, flares in every one.                     *)
(***************************************************************************)
EXTENDS FlareReplicas, TLC

SymPeers == Permutations(Peer)

SymPeersFlares == Permutations(Peer) \cup Permutations(Flare)
=============================================================================
