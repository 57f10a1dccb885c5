--------------------------- MODULE ClergyAccounts ---------------------------
(***************************************************************************)
(* The accounts of clergy (crates/backend_api, src/handlers/admin.rs): the *)
(* bootstrap of the first global admin, regional admins and branch clergy, *)
(* and their login (src/auth/handlers.rs).                                 *)
(*                                                                         *)
(* A handler is a sequence of SQL statements without a transaction, each   *)
(* one step here; other requests run in between and any statement may      *)
(* fail.  A process that dies between two statements leaves what a failed  *)
(* statement leaves.  A request is one call of a handler: the ids of the   *)
(* account and of the region it makes (both Uuid::new_v4) are the request. *)
(* Accounts are never changed or deleted.                                  *)
(*                                                                         *)
(* The handlers believe the subject and the role in the caller's token.    *)
(* login makes tokens for rows; issue_token_handler (/v1/auth/token/issue) *)
(* makes one for any subject with any role.  A member's token stands for   *)
(* all whose role creates nobody.                                          *)
(***************************************************************************)
CONSTANTS
    Request,     \* calls of the handlers
    Email,
    AdminEmail,  \* the email of the bootstrap admin
    Nobody       \* no request: no region, no creator, a member

ASSUME ClergyAssumption ==
    /\ AdminEmail \in Email
    /\ Nobody \notin Request

VARIABLES
    pc,       \* pc[r]: where request r is
    account,  \* account[r]: the row r inserts or inserted
    rows,     \* requests whose row is in clergy_users
    regions,  \* requests whose region is in regions
    caller,   \* caller[r]: the token request r came with
    tokens    \* accounts somebody has logged in to

vars == <<pc, account, rows, regions, caller, tokens>>

Account(role, email, region, creator) ==
    [role |-> role, email |-> email, region |-> region, creator |-> creator]

NoAccount == Account("none", AdminEmail, Nobody, Nobody)

Taken(e) == \E id \in rows : account[id].email = e

\* A token; login tells where it comes from, which the handlers cannot see.
Token(subject, role, login) == [subject |-> subject, role |-> role, login |-> login]

NoToken == Token(Nobody, "verified_member", TRUE)

\* The role in a token of login is that of the row it was issued for.
RoleOf(id) == IF id = Nobody THEN "verified_member" ELSE account[id].role

\* The tokens a caller can have: issue_token_handler keeps no state, and asks
\* for none.  Its tokens with other roles are as good as Nobody's.
Tokens ==
    {Token(id, RoleOf(id), TRUE) : id \in tokens \cup {Nobody}} \cup
    [subject : Request \cup {Nobody}, role : {"global_admin", "regional_admin"}, login : {FALSE}]

\* Request r goes to its next statement, or is answered.
GoTo(r, place) == pc' = [pc EXCEPT ![r] = place]

\* Faulty form: the schema without UNIQUE.
InsertWithoutUnique(r) ==
    /\ rows' = rows \cup {r}
    /\ GoTo(r, "created")
    /\ UNCHANGED <<account, regions, caller, tokens>>

\* The statement of request r that inserts its account: UNIQUE(email) refuses a
\* second row, and the statement may fail otherwise.  Either ends the request.
InsertAccount(r) ==
    /\ \/ /\ ~Taken(account[r].email)
          /\ rows' = rows \cup {r}
          /\ GoTo(r, "created")
       \/ /\ GoTo(r, "refused")
          /\ UNCHANGED rows
    /\ UNCHANGED <<account, regions, caller, tokens>>

-----------------------------------------------------------------------------

Init ==
    /\ pc = [r \in Request |-> "new"]
    /\ account = [r \in Request |-> NoAccount]
    /\ rows = {}
    /\ regions = {}
    /\ caller = [r \in Request |-> NoToken]
    /\ tokens = {}

\* Request r is asked for an account, for which token is the caller's.
Ask(r, token, asked, place) ==
    /\ GoTo(r, place)
    /\ account' = [account EXCEPT ![r] = asked]
    /\ caller' = [caller EXCEPT ![r] = token]

Refuse(r) == GoTo(r, "refused") /\ UNCHANGED <<account, caller>>

\* Faulty form: every bootstrap admin has an email of its own.
BootstrapAny(r) ==
    /\ pc[r] = "new"
    /\ \/ /\ \A id \in rows : account[id].role # "global_admin"
          /\ \E e \in Email :
                Ask(r, NoToken, Account("global_admin", e, Nobody, Nobody), "bootstrap")
       \/ Refuse(r)
    /\ UNCHANGED <<rows, regions, tokens>>

\* bootstrap_admin: SELECT COUNT(*) of global admins.  One is enough for
\* FORBIDDEN; a failed statement is a 500.
Bootstrap(r) ==
    /\ pc[r] = "new"
    /\ \/ /\ \A id \in rows : account[id].role # "global_admin"
          /\ Ask(r, NoToken, Account("global_admin", AdminEmail, Nobody, Nobody), "bootstrap")
       \/ Refuse(r)
    /\ UNCHANGED <<rows, regions, tokens>>

InsertGlobalAdmin(r) == pc[r] = "bootstrap" /\ InsertAccount(r)

-----------------------------------------------------------------------------

\* create_regional_admin: FORBIDDEN but for a global admin, then SELECT by
\* email.  A row found is a CONFLICT; exists.is_ok() takes a failed SELECT for
\* no row, so the handler may also go on when the email is taken.
CreateRegional(r, token, email) ==
    /\ pc[r] = "new"
    /\ \/ /\ token.role = "global_admin"
          /\ Ask(r, token, Account("regional_admin", email, r, token.subject), "region")
       \/ Refuse(r)
    /\ UNCHANGED <<rows, regions, tokens>>

\* INSERT INTO regions, which stays whatever becomes of the admin.
InsertRegion(r) ==
    /\ pc[r] = "region"
    /\ \/ regions' = regions \cup {r} /\ GoTo(r, "regional")
       \/ UNCHANGED regions /\ GoTo(r, "refused")
    /\ UNCHANGED <<account, rows, caller, tokens>>

InsertRegionalAdmin(r) == pc[r] = "regional" /\ InsertAccount(r)

-----------------------------------------------------------------------------

\* create_branch_clergy: SELECT by email, as above.
CreateClergy(r, token, email) ==
    /\ pc[r] = "new"
    /\ \/ Ask(r, token, Account("branch_clergy", email, Nobody, token.subject), "permission")
       \/ Refuse(r)
    /\ UNCHANGED <<rows, regions, tokens>>

\* The account of r is to stand in region.
Allow(r, region) ==
    /\ GoTo(r, "clergy")
    /\ account' = [account EXCEPT ![r].region = region]
    /\ UNCHANGED caller

\* Faulty form: the region of the request is not compared.
PermitAnyRegion(r, wanted) ==
    /\ pc[r] = "permission"
    /\ \/ caller[r].role = "global_admin" /\ Allow(r, Nobody)
       \/ caller[r].role = "regional_admin" /\ wanted # Nobody /\ Allow(r, wanted)
       \/ Refuse(r)
    /\ UNCHANGED <<rows, regions, tokens>>

\* The match on the role; wanted is the region of the request, Nobody when it
\* names none.  For a global admin the INSERT leaves region_id out, whatever is
\* wanted; a regional admin must want the one in the row of the token's subject
\* (FORBIDDEN when there is no such row, it has none, or the SELECT fails).
Permit(r, wanted) ==
    LET by == account[r].creator IN
    /\ pc[r] = "permission"
    /\ \/ caller[r].role = "global_admin" /\ Allow(r, Nobody)
       \/ /\ caller[r].role = "regional_admin"
          /\ by \in rows /\ wanted # Nobody /\ wanted = account[by].region
          /\ Allow(r, wanted)
       \/ Refuse(r)
    /\ UNCHANGED <<rows, regions, tokens>>

InsertBranchClergy(r) == pc[r] = "clergy" /\ InsertAccount(r)

-----------------------------------------------------------------------------

\* Faulty form: the account of a request that was not inserted.
LoginEarly(id) ==
    /\ pc[id] # "new"
    /\ tokens' = tokens \cup {id}
    /\ UNCHANGED <<pc, account, rows, regions, caller>>

\* login finds the row by email and password, and issues a token with its id
\* and role.
Login(id) ==
    /\ id \in rows
    /\ tokens' = tokens \cup {id}
    /\ UNCHANGED <<pc, account, rows, regions, caller>>

Next ==
    \/ \E r \in Request :
          \/ Bootstrap(r)
          \/ InsertGlobalAdmin(r)
          \/ InsertRegion(r)
          \/ InsertRegionalAdmin(r)
          \/ InsertBranchClergy(r)
          \/ Login(r)
    \/ \E r \in Request, token \in Tokens, email \in Email :
          CreateRegional(r, token, email) \/ CreateClergy(r, token, email)
    \/ \E r \in Request, wanted \in Request \cup {Nobody} : Permit(r, wanted)

Spec == Init /\ [][Next]_vars

-----------------------------------------------------------------------------
(* What is checked and proved *)

Roles == {"global_admin", "regional_admin", "branch_clergy", "none"}

\* Rows are well-formed, and tokens are for rows.
TypeOK ==
    /\ pc \in [Request -> {"new", "bootstrap", "region", "regional", "permission",
                           "clergy", "created", "refused"}]
    /\ account \in [Request -> [role : Roles, email : Email,
                                region : Request \cup {Nobody},
                                creator : Request \cup {Nobody}]]
    /\ rows \subseteq {r \in Request : pc[r] = "created"}
    /\ regions \subseteq Request
    /\ caller \in [Request -> [subject : Request \cup {Nobody},
                               role : Roles \cup {"verified_member"}, login : BOOLEAN]]
    /\ tokens \subseteq rows

\* At most one global admin ever exists, however many bootstraps count none at
\* the same time (bootstrap_admin).
OneGlobalAdmin ==
    \A i, j \in rows :
        account[i].role = "global_admin" /\ account[j].role = "global_admin" => i = j

\* An email has one account of clergy, whichever handlers race for it, between
\* their SELECT and their INSERT or past a failed SELECT: login by email is
\* unambiguous.
OneClergyPerEmail ==
    \A i, j \in rows : account[i].email = account[j].email => i = j

\* Where an account belongs: a global admin nowhere, a regional admin in a
\* region that exists, branch clergy nowhere or in the region of its creator.
Placed(a) ==
    \/ a.role = "global_admin" /\ a.creator = Nobody /\ a.region = Nobody
    \/ a.role = "regional_admin" /\ a.region \in regions
    \/ /\ a.role = "branch_clergy"
       /\ \/ a.region = Nobody
          \/ /\ a.region \in regions
             /\ a.creator \in rows
             /\ a.region = account[a.creator].region

\* Who may have made it: a regional admin a global admin; branch clergy a
\* global admin, who gives it no region, or a regional admin.
MadeByRight(a) ==
    a.role # "global_admin" =>
        /\ a.creator \in rows
        /\ \/ account[a.creator].role = "global_admin"
           \/ /\ account[a.creator].role = "regional_admin"
              /\ a.role = "branch_clergy"
              /\ a.region # Nobody

\* Every account has its place, whatever token its request came with: no admin
\* is left without its region by a statement that failed, and no clergy is put
\* into a region other than its creator's.  An account whose creator logged in
\* was made by one with the right to; an account made with a token of
\* issue_token_handler may name any creator, or none that exists.
HierarchyHolds ==
    \A id \in rows :
        /\ Placed(account[id])
        /\ caller[id].login => MadeByRight(account[id])

\* What makes them inductive: an account that a request is about to insert is
\* as good as those in the table, and one whose request is further back is for
\* what its handler makes.
Pending(r) ==
    /\ account[r].role = "global_admin" => account[r].email = AdminEmail
    /\ pc[r] \in {"bootstrap", "regional", "clergy"} =>
          Placed(account[r]) /\ (caller[r].login => MadeByRight(account[r]))
    /\ pc[r] = "region" =>
          /\ account[r].role = "regional_admin"
          /\ account[r].region = r
          /\ caller[r].login => MadeByRight(account[r])
    /\ pc[r] = "permission" =>
          /\ account[r].role = "branch_clergy"
          /\ account[r].creator = caller[r].subject
          /\ caller[r].login => /\ caller[r].subject \in rows \cup {Nobody}
                                /\ caller[r].role = RoleOf(caller[r].subject)

PendingPlaced == \A r \in Request : Pending(r)
=============================================================================
