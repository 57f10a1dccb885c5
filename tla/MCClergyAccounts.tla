-------------------------- MODULE MCClergyAccounts --------------------------
(***************************************************************************)
(* Small instances of ClergyAccounts.  Requests are interchangeable, and   *)
(* so are emails other than AdminEmail.                                    *)
(***************************************************************************)
EXTENDS ClergyAccounts, TLC

SymAccounts == Permutations(Request) \cup Permutations(Email \ {AdminEmail})
=============================================================================
