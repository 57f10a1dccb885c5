-------------------------- MODULE MCMemberAccounts --------------------------
(***************************************************************************)
(* Small instances of MemberAccounts.  Requests and emails are             *)
(* interchangeable.                                                        *)
(***************************************************************************)
EXTENDS MemberAccounts, TLC

SymAccounts == Permutations(Request) \cup Permutations(Email)
=============================================================================
