--------------------------- MODULE SessionTokens ----------------------------
(***************************************************************************)
(* Roles, delegation chains and session tokens: auth/roles.rs,             *)
(* auth/delegation.rs, auth/jwt.rs and the extractor of                    *)
(* middleware/auth.rs.                                                     *)
(*                                                                         *)
(* Signing and decoding are the JWT library's: a token is its claims.  The *)
(* ids, signatures and times in a chain are looked at by nobody, so a      *)
(* chain is the roles of its issuers.  Revocation is left out, since the   *)
(* extractor always passes an empty list.  Time counts half days, which    *)
(* divide every lifetime; the minute the library grants after exp is much  *)
(* less.                                                                   *)
(***************************************************************************)
EXTENDS Naturals, Sequences

CONSTANTS
    Person,   \* subjects of tokens
    NoToken,  \* no token at hand
    NoUser    \* what the extractor makes of a request without a valid token

ASSUME TokenAssumption == NoUser \notin Person

GlobalAdmin    == "global_admin"
RegionalAdmin  == "regional_admin"
BranchClergy   == "branch_clergy"
VerifiedMember == "verified_member"

Role == {GlobalAdmin, RegionalAdmin, BranchClergy, VerifiedMember}

\* The discriminants of the enum: the lower, the more powerful.
Level(role) == IF role = GlobalAdmin THEN 0
               ELSE IF role = RegionalAdmin THEN 1
               ELSE IF role = BranchClergy THEN 2 ELSE 3

CanDelegateTo(role) ==
    IF role = GlobalAdmin THEN {RegionalAdmin, BranchClergy}
    ELSE IF role = RegionalAdmin THEN {BranchClergy} ELSE {}

TokenLifetime(role) ==
    IF role \in {GlobalAdmin, RegionalAdmin} THEN 14
    ELSE IF role = BranchClergy THEN 6 ELSE 1

Claims == [sub : Person, role : Role, exp : Nat, chain : Seq(Role)]

\* Faulty form: a slip of the sign, the token is born expired.
IssueTokenExpired(sub, role, chain, now) ==
    [sub |-> sub, role |-> role, exp |-> now - TokenLifetime(role), chain |-> chain]

IssueToken(sub, role, chain, now) ==
    [sub |-> sub, role |-> role, exp |-> now + TokenLifetime(role), chain |-> chain]

\* Each issuer may delegate to the next, the last to the token's role.
VerifyDelegationChain(claims) ==
    LET chain == claims.chain
        n     == Len(chain)
    IN \/ n = 0
       \/ /\ n <= 5
          /\ \A i \in 1..(n - 1) : chain[i + 1] \in CanDelegateTo(chain[i])
          /\ claims.role \in CanDelegateTo(chain[n])

BuildDelegationChain(parent) == Append(parent.chain, parent.role)

ValidateToken(claims, now) ==
    /\ now <= claims.exp
    /\ VerifyDelegationChain(claims)

\* Option<AuthenticatedUser>: a token that is refused counts as none.
AuthenticatedUser(token, now) ==
    IF token # NoToken /\ ValidateToken(token, now) THEN token.sub ELSE NoUser
=============================================================================
