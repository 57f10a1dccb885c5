-------------------------- MODULE MCFlareTracking ---------------------------
(***************************************************************************)
(* A small instance of FlareTracking: one member, whose tokens last one    *)
(* unit of time.                                                           *)
(***************************************************************************)
EXTENDS FlareTracking

CONSTANT member

MCPerson == {member}

MCRoleOf == [p \in MCPerson |-> VerifiedMember]
=============================================================================
