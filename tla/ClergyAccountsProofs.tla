------------------------ MODULE ClergyAccountsProofs ------------------------
(***************************************************************************)
(* ClergyAccounts for any requests and emails, whatever statements fail.   *)
(***************************************************************************)
EXTENDS ClergyAccounts, TLAPS

IInv ==
    /\ TypeOK
    /\ OneClergyPerEmail
    /\ HierarchyHolds
    /\ PendingPlaced

LEMMA InitInv == Init => IInv
BY ClergyAssumption
DEF Init, IInv, TypeOK, OneClergyPerEmail, HierarchyHolds, PendingPlaced, Pending, NoAccount, Account, Roles,
    NoToken, Token

-----------------------------------------------------------------------------
(* What a step does to the tables *)

\* The three INSERTs of accounts.
Inserting(r) ==
    \/ InsertGlobalAdmin(r)
    \/ InsertRegionalAdmin(r)
    \/ InsertBranchClergy(r)

\* An account is inserted by a request that is about to, if its email is free;
\* nothing else touches clergy_users.
LEMMA RowsStep ==
    ASSUME [Next]_vars
    PROVE  \/ rows' = rows
           \/ \E r \in Request :
                 /\ Inserting(r)
                 /\ ~Taken(account[r].email)
                 /\ rows' = rows \cup {r}
                 /\ account' = account
BY DEF Next, vars, Inserting, Bootstrap, InsertGlobalAdmin, InsertRegion, InsertRegionalAdmin,
       Permit, InsertBranchClergy, Login, CreateRegional, CreateClergy, InsertAccount, Ask,
       Allow, Refuse

\* The four steps that ask for an account, place it, or refuse it.
Asking(r) ==
    \/ Bootstrap(r)
    \/ \E token \in Tokens, e \in Email : CreateRegional(r, token, e) \/ CreateClergy(r, token, e)
    \/ \E wanted \in Request \cup {Nobody} : Permit(r, wanted)

LEMMA Steps ==
    ASSUME [Next]_vars
    PROVE  \/ UNCHANGED vars
           \/ \E r \in Request : Inserting(r) \/ InsertRegion(r) \/ Login(r) \/ Asking(r)
BY DEF Next, Inserting, Asking

\* Tables only grow, and an account that is inserted or about to be is fixed.
LEMMA Growing ==
    ASSUME TypeOK, [Next]_vars
    PROVE  /\ rows \subseteq rows'
           /\ regions \subseteq regions'
           /\ \A r \in Request :
                 pc[r] \notin {"new", "permission"} =>
                     account'[r] = account[r] /\ caller'[r] = caller[r]
<1> USE DEF TypeOK
<1>1. CASE UNCHANGED vars
  BY <1>1 DEF vars
<1>2. ASSUME NEW r \in Request,
             \/ Inserting(r) \/ InsertRegion(r) \/ Login(r)
      PROVE  UNCHANGED <<account, caller>> /\ rows \subseteq rows' /\ regions \subseteq regions'
  BY <1>2 DEF Inserting, InsertGlobalAdmin, InsertRegionalAdmin, InsertBranchClergy,
              InsertAccount, InsertRegion, Login
<1>3. ASSUME NEW r \in Request, Asking(r)
      PROVE  /\ UNCHANGED <<rows, regions>>
             /\ pc[r] \in {"new", "permission"}
             /\ \A s \in Request \ {r} : account'[s] = account[s] /\ caller'[s] = caller[s]
  BY <1>3 DEF Asking, Bootstrap, CreateRegional, CreateClergy, Permit, Ask, Allow, Refuse
<1>4. QED BY <1>1, <1>2, <1>3, Steps

\* A place in the hierarchy is kept, and so is a right to it.
LEMMA PlacedStays ==
    ASSUME TypeOK, [Next]_vars, NEW a
    PROVE  /\ Placed(a) => Placed(a)'
           /\ MadeByRight(a) => MadeByRight(a)'
<1>1. /\ rows \subseteq rows' /\ regions \subseteq regions'
      /\ \A id \in rows : account'[id] = account[id]
  BY Growing DEF TypeOK
<1>2. QED BY <1>1 DEF Placed, MadeByRight

-----------------------------------------------------------------------------
(* One lemma per conjunct *)

LEMMA TokenType ==
    ASSUME TypeOK, NEW token \in Tokens
    PROVE  /\ token \in [subject : Request \cup {Nobody},
                        role : Roles \cup {"verified_member"}, login : BOOLEAN]
           /\ token.login => /\ token.subject \in rows \cup {Nobody}
                             /\ token.role = RoleOf(token.subject)
<1>1. ASSUME NEW id \in tokens \cup {Nobody}, token = Token(id, RoleOf(id), TRUE)
      PROVE  /\ token \in [subject : Request \cup {Nobody},
                          role : Roles \cup {"verified_member"}, login : BOOLEAN]
             /\ token.subject \in rows \cup {Nobody} /\ token.role = RoleOf(token.subject)
  <2>1. RoleOf(id) \in Roles \cup {"verified_member"} /\ id \in Request \cup {Nobody}
    BY DEF TypeOK, RoleOf
  <2>2. QED BY <1>1, <2>1 DEF TypeOK, Token
<1>2. CASE token \in [subject : Request \cup {Nobody},
                      role : {"global_admin", "regional_admin"}, login : {FALSE}]
  BY <1>2 DEF Roles
<1>3. QED BY <1>1, <1>2 DEF Tokens

LEMMA TypeStep == TypeOK /\ [Next]_vars => TypeOK'
<1> SUFFICES ASSUME TypeOK, [Next]_vars
             PROVE  TypeOK'
  OBVIOUS
<1> USE DEF TypeOK, GoTo, Account, Roles
<1>1. CASE UNCHANGED vars
  BY <1>1 DEF vars
<1>2. ASSUME NEW r \in Request, Inserting(r)
      PROVE  TypeOK'
  <2>1. pc[r] \in {"bootstrap", "regional", "clergy"} /\ InsertAccount(r)
    BY <1>2 DEF Inserting, InsertGlobalAdmin, InsertRegionalAdmin, InsertBranchClergy
  <2>2. QED BY <2>1 DEF InsertAccount
<1>3. ASSUME NEW r \in Request, InsertRegion(r) \/ Login(r)
      PROVE  TypeOK'
  BY <1>3 DEF InsertRegion, Login
<1>4. ASSUME NEW r \in Request, NEW token, NEW asked, NEW place,
             Ask(r, token, asked, place), pc[r] = "new", UNCHANGED <<rows, regions, tokens>>,
             place \in {"bootstrap", "region", "permission"},
             asked \in [role : Roles, email : Email, region : Request \cup {Nobody},
                        creator : Request \cup {Nobody}],
             token \in [subject : Request \cup {Nobody},
                        role : Roles \cup {"verified_member"}, login : BOOLEAN]
      PROVE  TypeOK'
  BY <1>4 DEF Ask
<1>5. ASSUME NEW r \in Request, Refuse(r), pc[r] \in {"new", "permission"},
             UNCHANGED <<rows, regions, tokens>>
      PROVE  TypeOK'
  BY <1>5 DEF Refuse
<1>6. ASSUME NEW r \in Request, Bootstrap(r)
      PROVE  TypeOK'
  <2>1. CASE Ask(r, NoToken, Account("global_admin", AdminEmail, Nobody, Nobody), "bootstrap")
    BY <1>4, <1>6, <2>1, ClergyAssumption DEF Bootstrap, NoToken, Token
  <2>2. CASE Refuse(r)
    BY <1>5, <1>6, <2>2 DEF Bootstrap
  <2>3. QED BY <1>6, <2>1, <2>2 DEF Bootstrap
<1>7. ASSUME NEW r \in Request, NEW token \in Tokens, NEW e \in Email,
             CreateRegional(r, token, e) \/ CreateClergy(r, token, e)
      PROVE  TypeOK'
  <2>1. token \in [subject : Request \cup {Nobody},
                   role : Roles \cup {"verified_member"}, login : BOOLEAN]
    BY TokenType
  <2>2. /\ Account("regional_admin", e, r, token.subject) \in
             [role : Roles, email : Email, region : Request \cup {Nobody},
              creator : Request \cup {Nobody}]
        /\ Account("branch_clergy", e, Nobody, token.subject) \in
             [role : Roles, email : Email, region : Request \cup {Nobody},
              creator : Request \cup {Nobody}]
    BY <2>1
  <2>3. CASE Ask(r, token, Account("regional_admin", e, r, token.subject), "region")
    BY <1>4, <1>7, <2>1, <2>2, <2>3 DEF CreateRegional, CreateClergy
  <2>4. CASE Ask(r, token, Account("branch_clergy", e, Nobody, token.subject), "permission")
    BY <1>4, <1>7, <2>1, <2>2, <2>4 DEF CreateRegional, CreateClergy
  <2>5. CASE Refuse(r)
    BY <1>5, <1>7, <2>5 DEF CreateRegional, CreateClergy
  <2>6. QED BY <1>7, <2>3, <2>4, <2>5 DEF CreateRegional, CreateClergy
<1>8. ASSUME NEW r \in Request, NEW wanted \in Request \cup {Nobody}, Permit(r, wanted)
      PROVE  TypeOK'
  <2>1. CASE Refuse(r)
    BY <1>5, <1>8, <2>1 DEF Permit
  <2>2. ASSUME NEW region \in {wanted, Nobody}, Allow(r, region)
        PROVE  TypeOK'
    BY <1>8, <2>2 DEF Permit, Allow
  <2>3. QED BY <1>8, <2>1, <2>2 DEF Permit
<1>9. QED BY <1>1, <1>2, <1>3, <1>6, <1>7, <1>8, Steps DEF Asking

LEMMA EmailStep == TypeOK /\ OneClergyPerEmail /\ [Next]_vars => OneClergyPerEmail'
<1> SUFFICES ASSUME TypeOK, OneClergyPerEmail, [Next]_vars
             PROVE  OneClergyPerEmail'
  OBVIOUS
<1>1. \A id \in rows : account'[id] = account[id]
  BY Growing DEF TypeOK
<1>2. QED BY <1>1, RowsStep DEF OneClergyPerEmail, Taken

LEMMA HierarchyStep ==
    TypeOK /\ HierarchyHolds /\ PendingPlaced /\ [Next]_vars => HierarchyHolds'
<1> SUFFICES ASSUME TypeOK, HierarchyHolds, PendingPlaced, [Next]_vars,
                    NEW id \in rows'
             PROVE  Placed(account[id])' /\ (caller'[id].login => MadeByRight(account[id])')
  BY DEF HierarchyHolds
<1>1. /\ Placed(account[id]) /\ (caller[id].login => MadeByRight(account[id]))
      /\ account'[id] = account[id] /\ caller'[id] = caller[id]
  <2>1. CASE id \in rows
    BY <2>1, Growing DEF TypeOK, HierarchyHolds
  <2>2. CASE id \notin rows
    <3>1. id \in Request /\ Inserting(id)
      BY <2>2, RowsStep
    <3>2. pc[id] \in {"bootstrap", "regional", "clergy"}
      BY <3>1 DEF Inserting, InsertGlobalAdmin, InsertRegionalAdmin, InsertBranchClergy
    <3>3. QED BY <3>1, <3>2, Growing DEF PendingPlaced, Pending
  <2>3. QED BY <2>1, <2>2
<1>2. PICK a : a = account[id]
  OBVIOUS
<1>3. Placed(a)' /\ (caller[id].login => MadeByRight(a)')
  BY <1>1, <1>2, PlacedStays
<1>4. QED BY <1>1, <1>2, <1>3 DEF Placed, MadeByRight

\* A request that does not move is as good as it was.
LEMMA PendingStays ==
    ASSUME TypeOK, [Next]_vars, NEW r \in Request, Pending(r),
           pc'[r] = pc[r], account'[r] = account[r], caller'[r] = caller[r]
    PROVE  Pending(r)'
<1>1. /\ rows \subseteq rows'
      /\ \A id \in rows : account'[id] = account[id]
  BY Growing DEF TypeOK
<1>2. PICK a : a = account[r]
  OBVIOUS
<1>3. (Placed(a) => Placed(a)') /\ (MadeByRight(a) => MadeByRight(a)')
  BY PlacedStays
<1>4. /\ pc'[r] \in {"bootstrap", "regional", "clergy"} =>
             Placed(account[r])' /\ (caller'[r].login => MadeByRight(account[r])')
      /\ pc'[r] = "region" /\ caller'[r].login => MadeByRight(account[r])'
  BY <1>2, <1>3 DEF Pending, Placed, MadeByRight
<1>5. \A id \in rows \cup {Nobody} : RoleOf(id)' = RoleOf(id)
  BY <1>1 DEF RoleOf
<1>6. pc'[r] = "permission" =>
          /\ account'[r].role = "branch_clergy"
          /\ account'[r].creator = caller'[r].subject
          /\ caller'[r].login =>
                /\ caller'[r].subject \in rows' \cup {Nobody}
                /\ caller'[r].role = RoleOf(caller[r].subject)'
  BY <1>1, <1>5 DEF Pending
<1>7. QED BY <1>4, <1>6 DEF Pending, RoleOf

\* A request that moves is as good as its place asks for.
LEMMA RefusedPending ==
    ASSUME NEW r \in Request, TypeOK, Pending(r), Refuse(r)
    PROVE  Pending(r)'
BY DEF Refuse, Pending, GoTo, TypeOK

LEMMA RegionalPending ==
    ASSUME TypeOK, NEW r \in Request, Pending(r), NEW token \in Tokens, NEW e \in Email,
           CreateRegional(r, token, e), ~Refuse(r)
    PROVE  Pending(r)'
<1>1. /\ account' = [account EXCEPT ![r] = Account("regional_admin", e, r, token.subject)]
      /\ caller' = [caller EXCEPT ![r] = token]
      /\ rows' = rows /\ r \notin rows /\ pc'[r] = "region" /\ token.role = "global_admin"
  BY DEF CreateRegional, Ask, TypeOK, GoTo
<1>2. token.login => /\ token.subject \in rows /\ token.subject # r
                     /\ account'[token.subject].role = "global_admin"
  BY <1>1, TokenType DEF RoleOf, TypeOK
<1>3. /\ account'[r].role = "regional_admin" /\ account'[r].region = r
      /\ account'[r].creator = token.subject /\ caller'[r] = token
  BY <1>1 DEF Account, TypeOK
<1>4. QED BY <1>1, <1>2, <1>3 DEF Pending, MadeByRight

LEMMA ClergyPending ==
    ASSUME TypeOK, NEW r \in Request, Pending(r), NEW token \in Tokens, NEW e \in Email,
           CreateClergy(r, token, e), ~Refuse(r)
    PROVE  Pending(r)'
<1>1. /\ account' = [account EXCEPT ![r] = Account("branch_clergy", e, Nobody, token.subject)]
      /\ caller' = [caller EXCEPT ![r] = token]
      /\ rows' = rows /\ r \notin rows /\ pc'[r] = "permission"
  BY DEF CreateClergy, Ask, TypeOK, GoTo
<1>2. token.login => /\ token.subject \in rows \cup {Nobody} /\ token.subject # r
                     /\ token.role = RoleOf(token.subject)
  BY <1>1, TokenType, ClergyAssumption
<1>3. token.login => RoleOf(token.subject)' = RoleOf(token.subject)
  BY <1>1, <1>2 DEF RoleOf, TypeOK
<1>4. /\ account'[r].role = "branch_clergy" /\ account'[r].creator = token.subject
      /\ caller'[r] = token
  BY <1>1 DEF Account, TypeOK
<1>5. /\ account'[r].creator = caller'[r].subject
      /\ caller'[r].login => /\ caller'[r].subject \in rows' \cup {Nobody}
                             /\ caller'[r].role = RoleOf(caller[r].subject)'
  BY <1>1, <1>2, <1>3, <1>4 DEF RoleOf
<1>6. QED BY <1>1, <1>4, <1>5 DEF Pending

LEMMA PermitPending ==
    ASSUME TypeOK, HierarchyHolds, NEW r \in Request, Pending(r),
           NEW wanted \in Request \cup {Nobody}, Permit(r, wanted), ~Refuse(r)
    PROVE  Pending(r)'
<1> DEFINE by == account[r].creator
<1>1. /\ pc[r] = "permission" /\ pc'[r] = "clergy" /\ r \notin rows
      /\ rows' = rows /\ regions' = regions /\ caller' = caller
  BY DEF Permit, Allow, GoTo, TypeOK
<1>2. \/ /\ caller[r].role = "global_admin"
         /\ account' = [account EXCEPT ![r].region = Nobody]
      \/ /\ caller[r].role = "regional_admin" /\ by \in rows
         /\ wanted # Nobody /\ wanted = account[by].region
         /\ account' = [account EXCEPT ![r].region = wanted]
  BY DEF Permit, Allow
<1>3. \A id \in rows : account'[id] = account[id]
  BY <1>1, <1>2 DEF TypeOK
<1>4. /\ account'[r].role = "branch_clergy" /\ account'[r].creator = by
      /\ by = caller[r].subject
      /\ caller[r].login => by \in rows \cup {Nobody} /\ caller[r].role = RoleOf(by)
  BY <1>1, <1>2 DEF Pending, TypeOK
<1>5. CASE caller[r].role = "global_admin" /\ account'[r].region = Nobody
  <2>1. caller[r].login => by \in rows /\ account[by].role = "global_admin"
    BY <1>4, <1>5 DEF RoleOf
  <2>2. QED BY <1>1, <1>3, <1>4, <1>5, <2>1 DEF Pending, Placed, MadeByRight
<1>6. CASE /\ caller[r].role = "regional_admin" /\ by \in rows /\ wanted # Nobody
           /\ wanted = account[by].region /\ account'[r].region = wanted
  <2>1. caller[r].login => account[by].role = "regional_admin"
    BY <1>4, <1>6, ClergyAssumption DEF RoleOf, TypeOK
  <2>2. wanted \in regions
    BY <1>6 DEF HierarchyHolds, Placed
  <2>3. QED BY <1>1, <1>3, <1>4, <1>6, <2>1, <2>2 DEF Pending, Placed, MadeByRight
<1>7. QED BY <1>2, <1>5, <1>6 DEF TypeOK

LEMMA PendingMoves ==
    ASSUME TypeOK, HierarchyHolds, [Next]_vars, NEW r \in Request, Pending(r)
    PROVE  Pending(r)'
<1>1. CASE pc'[r] = pc[r] /\ account'[r] = account[r] /\ caller'[r] = caller[r]
  BY <1>1, PendingStays
<1>2. CASE Bootstrap(r)
  BY <1>2, RefusedPending
  DEF Bootstrap, Ask, Pending, Placed, MadeByRight, TypeOK, GoTo, Account, NoToken, Token
<1>3. CASE Inserting(r)
  BY <1>3 DEF Inserting, InsertGlobalAdmin, InsertRegionalAdmin, InsertBranchClergy,
              InsertAccount, Pending, TypeOK, GoTo
<1>4. CASE InsertRegion(r)
  <2>1. /\ pc[r] = "region" /\ UNCHANGED <<account, rows, caller>>
        /\ \/ pc'[r] = "regional" /\ r \in regions'
           \/ pc'[r] = "refused"
    BY <1>4 DEF InsertRegion, TypeOK, GoTo
  <2>2. QED BY <2>1 DEF Pending, Placed, MadeByRight
<1>5. CASE Asking(r)
  BY <1>2, <1>5, RefusedPending, RegionalPending, ClergyPending, PermitPending DEF Asking
<1>6. ASSUME NEW s \in Request, s # r,
             Inserting(s) \/ InsertRegion(s) \/ Login(s) \/ Asking(s)
      PROVE  pc'[r] = pc[r] /\ account'[r] = account[r] /\ caller'[r] = caller[r]
  BY <1>6
  DEF Asking, Bootstrap, Inserting, InsertGlobalAdmin, InsertRegionalAdmin, InsertBranchClergy,
      InsertAccount, InsertRegion, Permit, Login, CreateRegional, CreateClergy, Ask, Allow,
      Refuse, GoTo, TypeOK
<1>7. CASE UNCHANGED vars \/ Login(r)
  BY <1>1, <1>7 DEF vars, Login
<1>8. QED BY <1>1, <1>3, <1>4, <1>5, <1>6, <1>7, Steps

LEMMA NextInv == IInv /\ [Next]_vars => IInv'
<1> SUFFICES ASSUME IInv, [Next]_vars
             PROVE  IInv'
  OBVIOUS
<1>1. PendingPlaced'
  <2> SUFFICES ASSUME NEW r \in Request PROVE Pending(r)'
    BY DEF PendingPlaced
  <2>1. QED BY PendingMoves DEF IInv, PendingPlaced
<1>2. QED BY <1>1, TypeStep, EmailStep, HierarchyStep DEF IInv

-----------------------------------------------------------------------------
(* The theorems *)

LEMMA Inductive == Spec => []IInv
<1>1. QED BY InitInv, NextInv, PTL DEF Spec

\* Rows are well-formed and tokens are for rows, for any requests.
THEOREM TypeCorrect == Spec => []TypeOK
<1>1. IInv => TypeOK
  BY DEF IInv
<1>2. QED BY Inductive, <1>1, PTL

\* Races between the SELECT by email and the INSERT leave one account per
\* email.
THEOREM OneClergy == Spec => []OneClergyPerEmail
<1>1. IInv => OneClergyPerEmail
  BY DEF IInv
<1>2. QED BY Inductive, <1>1, PTL

\* Races between bootstraps leave one global admin: they all insert the same
\* email.
THEOREM OneAdmin == Spec => []OneGlobalAdmin
<1>1. IInv => OneGlobalAdmin
  BY DEF IInv, TypeOK, PendingPlaced, Pending, OneClergyPerEmail, OneGlobalAdmin
<1>2. QED BY Inductive, <1>1, PTL

\* Every account has its place, and one whose creator logged in was made by
\* one with the right to make it.
THEOREM Hierarchy == Spec => []HierarchyHolds
<1>1. IInv => HierarchyHolds
  BY DEF IInv
<1>2. QED BY Inductive, <1>1, PTL
=============================================================================
