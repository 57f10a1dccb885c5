----------------------- MODULE MemberAccountsProofs -------------------------
(***************************************************************************)
(* MemberAccounts for any requests and emails, failures and restarts.      *)
(***************************************************************************)
EXTENDS MemberAccounts, TLAPS

IInv ==
    /\ TypeOK
    /\ OneMemberPerEmail
    /\ PastComparison
    /\ TokenMeansVerified
    /\ VerifiedByCode
    /\ Unanswered
    /\ MadeOnce
    /\ UsedCodeIsGone

LEMMA InitInv == Init => IInv
BY AccountsAssumption
DEF Init, IInv, TypeOK, Busy, OneMemberPerEmail, PastComparison, TokenMeansVerified, VerifiedByCode,
    Unanswered, MadeOnce, UsedCodeIsGone, PastClear

-----------------------------------------------------------------------------
(* One lemma per conjunct *)

\* What another statement than the one meant does is all in altered.
LEMMA SplicedStep ==
    ASSUME NEW r \in Request, InsertSpliced(r)
    PROVE  /\ rows \subseteq rows' /\ rows' \subseteq rows \cup {r}
           /\ verified \subseteq verified' \cup altered'
           /\ verified' \subseteq verified \cup altered'
           /\ verified' \subseteq verified \cup rows'
           /\ altered \cup {r} \subseteq altered'
           /\ altered' \subseteq altered \cup rows' \cup {r}
<1>1. PICK touched \in SUBSET (rows \cup {r}) :
         /\ rows' = rows \cup touched
         /\ \E v \in SUBSET touched : verified' = (verified \ touched) \cup v
         /\ altered' = altered \cup touched \cup {r}
  BY DEF InsertSpliced
<1>2. QED BY <1>1

LEMMA TypeStep == TypeOK /\ PastComparison /\ [Next]_vars => TypeOK'
<1> SUFFICES ASSUME TypeOK, PastComparison, [Next]_vars
             PROVE  TypeOK'
  OBVIOUS
<1> USE DEF TypeOK, Busy, Answer, GoTo
<1>1. CASE UNCHANGED vars
  BY <1>1 DEF vars
<1>2. ASSUME NEW r \in Request, RegisterStep(r)
      PROVE  TypeOK'
  <2>1. CASE Register(r)
    BY <2>1 DEF Register
  <2>2. CASE InsertMember(r)
    BY <2>2 DEF InsertMember
  <2>3. CASE InsertSpliced(r)
    <3>1. verified' \subseteq rows' /\ rows' \subseteq Request /\ altered' \subseteq Request
      BY <2>3, SplicedStep
    <3>2. QED BY <2>3, <3>1 DEF InsertSpliced
  <2>4. CASE StoreOtp(r)
    BY <2>4 DEF StoreOtp
  <2>5. QED BY <1>2, <2>1, <2>2, <2>3, <2>4 DEF RegisterStep
<1>3. ASSUME NEW r \in Request, VerifyStep(r)
      PROVE  TypeOK'
  <2>1. ASSUME NEW id \in Request, NEW right \in BOOLEAN, Verify(r, id, right)
        PROVE  TypeOK'
    BY <2>1 DEF Verify
  <2>2. CASE ClearOtp(r)
    BY <2>2 DEF ClearOtp
  <2>3. CASE UpdateMember(r)
    BY <2>3 DEF UpdateMember, PastComparison
  <2>4. CASE ReadName(r)
    BY <2>4 DEF ReadName
  <2>5. CASE VerifyFails(r)
    BY <2>5 DEF VerifyFails
  <2>6. QED BY <1>3, <2>1, <2>2, <2>3, <2>4, <2>5 DEF VerifyStep
<1>4. ASSUME NEW r \in Request, Login(r) \/ Expire(r)
      PROVE  TypeOK'
  BY <1>4 DEF Login, Expire
<1>5. CASE Restart
  BY <1>5 DEF Restart
<1>6. QED BY <1>1, <1>2, <1>3, <1>4, <1>5 DEF Next

\* Every step is an INSERT gone astray or one of the others.
LEMMA OtherSteps ==
    ASSUME [Next]_vars, ~\E r \in Request : InsertSpliced(r)
    PROVE  /\ altered' = altered
           /\ \/ rows' = rows
              \/ \E r \in Request : ~Taken(email[r]) /\ rows' = rows \cup {r}
           /\ \/ verified' = verified
              \/ \E r \in Request : /\ pc[r] = "update"
                                    /\ verified' = verified \cup ({member[r]} \cap rows)
BY DEF Next, RegisterStep, VerifyStep, Register, InsertMember, StoreOtp, Verify, ClearOtp,
       UpdateMember, ReadName, VerifyFails, Login, Expire, Restart, vars

\* Nobody is taken out of rows, proved, hurt and altered, nor out of verified
\* but by another statement than the one meant.  Emails do not change.
LEMMA Growing ==
    ASSUME [Next]_vars
    PROVE  /\ rows \subseteq rows' /\ proved \subseteq proved'
           /\ verified \subseteq verified' \cup altered' /\ hurt \subseteq hurt'
           /\ altered \subseteq altered'
           /\ email' = email
<1>1. proved \subseteq proved' /\ hurt \subseteq hurt' /\ email' = email
  BY DEF Next, RegisterStep, VerifyStep, Register, InsertMember, InsertSpliced, StoreOtp, Verify,
         ClearOtp, UpdateMember, ReadName, VerifyFails, Login, Expire, Restart, vars
<1>2. QED BY <1>1, SplicedStep, OtherSteps

\* Only InsertMember adds a row that altered does not name, and only for an
\* email that has none.
LEMMA OneMemberStep ==
    TypeOK /\ OneMemberPerEmail /\ [Next]_vars => OneMemberPerEmail'
<1> SUFFICES ASSUME TypeOK, OneMemberPerEmail, [Next]_vars
             PROVE  OneMemberPerEmail'
  OBVIOUS
<1>1. CASE \E r \in Request : InsertSpliced(r)
  <2>1. rows' \ altered' \subseteq rows \ altered
    BY <1>1, SplicedStep
  <2>2. QED BY <2>1, Growing DEF OneMemberPerEmail
<1>2. CASE ~\E r \in Request : InsertSpliced(r)
  BY <1>2, OtherSteps, Growing DEF OneMemberPerEmail, Taken, TypeOK
<1>3. QED BY <1>1, <1>2

\* Only UpdateMember verifies a member, one past the comparison.
LEMMA VerifiedStep ==
    TypeOK /\ PastComparison /\ VerifiedByCode /\ [Next]_vars => VerifiedByCode'
<1> SUFFICES ASSUME TypeOK, PastComparison, VerifiedByCode, [Next]_vars
             PROVE  VerifiedByCode'
  OBVIOUS
<1>1. CASE \E r \in Request : InsertSpliced(r)
  BY <1>1, SplicedStep, Growing DEF VerifiedByCode
<1>2. CASE ~\E r \in Request : InsertSpliced(r)
  <2>1. \A r \in Request : pc[r] = "update" => member[r] \in proved
    BY DEF PastComparison
  <2>2. QED BY <1>2, <2>1, OtherSteps, Growing DEF VerifiedByCode
<1>3. QED BY <1>1, <1>2

\* Only ReadName and Login hand out tokens.
LEMMA TokenStep ==
    IInv /\ [Next]_vars => TokenMeansVerified'
<1> SUFFICES ASSUME IInv, [Next]_vars
             PROVE  TokenMeansVerified'
  OBVIOUS
<1>1. \/ token' = token
      \/ \E r \in Request : token' = [token EXCEPT ![r] = NoMember]
      \/ \E r \in Request : pc[r] = "name" /\ token' = [token EXCEPT ![r] = member[r]]
      \/ \E r \in Request, id \in verified : token' = [token EXCEPT ![r] = id]
  BY DEF Next, RegisterStep, VerifyStep, Register, InsertMember, InsertSpliced, StoreOtp, Verify, ClearOtp,
         UpdateMember, ReadName, VerifyFails, Login, Under, Expire, Restart, vars, Answer, GoTo
<1>2. QED
  BY <1>1, Growing DEF IInv, TypeOK, TokenMeansVerified, PastComparison

\* A request goes past the comparison in Verify, while its member's entry is
\* valid, and reaches the token through UpdateMember.
LEMMA PastStep ==
    TypeOK /\ PastComparison /\ [Next]_vars => PastComparison'
<1> SUFFICES ASSUME TypeOK, PastComparison, [Next]_vars
             PROVE  PastComparison'
  OBVIOUS
<1>1. ASSUME NEW id \in Request, otp'[id] # "none" \/ pc'[id] = "store"
      PROVE  id \in rows' \cup altered'
  <2>1. CASE otp[id] # "none" \/ pc[id] = "store"
    BY <2>1, Growing DEF PastComparison
  <2>2. CASE otp[id] = "none" /\ pc[id] # "store"
    <3>1. CASE otp'[id] # "none"
      BY <2>2, <3>1
      DEF Next, RegisterStep, VerifyStep, Register, InsertMember, InsertSpliced, StoreOtp, Verify, ClearOtp,
          UpdateMember, ReadName, VerifyFails, Login, Expire, Restart, vars, TypeOK
    <3>2. CASE pc'[id] = "store"
      BY <2>2, <3>2
      DEF Next, RegisterStep, VerifyStep, Register, InsertMember, InsertSpliced, StoreOtp, Verify, ClearOtp,
          UpdateMember, ReadName, VerifyFails, Login, Expire, Restart, vars, TypeOK, Answer, GoTo,
          Busy
    <3>3. QED BY <1>1, <3>1, <3>2
  <2>3. QED BY <2>1, <2>2
<1>2. ASSUME NEW r \in Request, pc'[r] \in {"clear", "update", "name"}
      PROVE  member'[r] \in (rows' \cup altered') \cap proved'
  <2>1. CASE pc[r] \in {"clear", "update", "name"} /\ member'[r] = member[r]
    BY <2>1, Growing DEF PastComparison
  <2>2. CASE \E id \in Request, right \in BOOLEAN : Verify(r, id, right)
    <3>1. PICK id \in Request, right \in BOOLEAN : Verify(r, id, right)
      BY <2>2
    <3>2. otp[id] = "valid" /\ proved' = proved \cup {id} /\ member'[r] = id /\ rows' = rows /\ altered' = altered
      BY <1>2, <3>1 DEF Verify, Answer, TypeOK
    <3>3. QED BY <3>2 DEF PastComparison
  <2>3. QED
    BY <1>2, <2>1, <2>2
    DEF Next, RegisterStep, VerifyStep, Register, InsertMember, InsertSpliced, StoreOtp, Verify, ClearOtp,
        UpdateMember, ReadName, VerifyFails, Login, Expire, Restart, vars, TypeOK, Answer, GoTo,
        Busy
<1>3. ASSUME NEW r \in Request, pc'[r] = "name"
      PROVE  member'[r] \in verified' \cup altered'
  <2>1. CASE pc[r] = "name" /\ member'[r] = member[r]
    BY <2>1, Growing DEF PastComparison
  <2>2. CASE UpdateMember(r)
    BY <2>2, Growing DEF UpdateMember, PastComparison, GoTo
  <2>3. QED
    BY <1>3, <2>1, <2>2
    DEF Next, RegisterStep, VerifyStep, Register, InsertMember, InsertSpliced, StoreOtp, Verify, ClearOtp,
        UpdateMember, ReadName, VerifyFails, Login, Expire, Restart, vars, TypeOK, Answer, GoTo,
        Busy
<1>4. QED BY <1>1, <1>2, <1>3 DEF PastComparison

\* Whoever has lost the code and is neither verified nor hurt was so before,
\* or has a row since this step: what an action takes from the first two
\* alternatives it gives to the other.
LEMMA CodeStep ==
    TypeOK /\ CodeLostOnlyByFailure /\ [Next]_vars => CodeLostOnlyByFailure'
<1> SUFFICES ASSUME TypeOK, CodeLostOnlyByFailure, [Next]_vars,
                    NEW id \in rows', id \notin verified', id \notin hurt', id \notin altered'
             PROVE  \/ otp'[id] # "none"
                    \/ \E r \in Request : /\ pc'[r] \in {"store", "clear", "update"}
                                          /\ member'[r] = id
  BY DEF CodeLostOnlyByFailure
<1> DEFINE Holder(r) == pc[r] \in {"store", "clear", "update"} /\ member[r] = id
<1> USE DEF TypeOK, Answer, GoTo, Busy
<1>1. id \in Request
  BY DEF Next, RegisterStep, VerifyStep, Register, InsertMember, InsertSpliced, StoreOtp, Verify, ClearOtp,
         UpdateMember, ReadName, VerifyFails, Login, Expire, Restart, vars
<1>2. \/ otp[id] # "none"
      \/ \E r \in Request : Holder(r)
      \/ \E r \in Request : InsertMember(r) /\ rows' # rows /\ id = r
  <2>1. CASE id \in rows
    <3>1. id \notin verified /\ id \notin hurt /\ id \notin altered
      BY Growing
    <3>2. QED BY <2>1, <3>1 DEF CodeLostOnlyByFailure
  <2>2. CASE id \notin rows
    BY <2>2
    DEF Next, RegisterStep, VerifyStep, Register, InsertMember, InsertSpliced, StoreOtp, Verify, ClearOtp,
        UpdateMember, ReadName, VerifyFails, Login, Expire, Restart, vars
  <2>3. QED BY <2>1, <2>2
<1>3. CASE \E r \in Request : InsertMember(r) /\ rows' # rows /\ id = r
  BY <1>3 DEF InsertMember
\* Only ClearOtp and Restart remove an entry.
<1>4. CASE otp[id] # "none"
  <2>1. CASE otp'[id] # "none"
    BY <2>1
  <2>2. CASE \E r \in Request : ClearOtp(r)
    BY <1>1, <1>4, <2>2 DEF ClearOtp
  <2>3. CASE Restart
    BY <1>1, <2>3 DEF Restart
  <2>4. QED
    BY <1>1, <1>4, <2>1, <2>2, <2>3
    DEF Next, RegisterStep, VerifyStep, Register, InsertMember, InsertSpliced, StoreOtp, Verify,
        UpdateMember, ReadName, VerifyFails, Login, Expire, vars
\* The request that has the member either stays, or stores the entry, or goes
\* on to the UPDATE, or verifies the member, or is hurt.
<1>5. ASSUME NEW r \in Request, Holder(r), ~Restart
      PROVE  otp'[id] # "none" \/ Holder(r)'
  BY <1>1, <1>5
  DEF Next, RegisterStep, VerifyStep, Register, InsertMember, InsertSpliced, StoreOtp, Verify, ClearOtp,
      UpdateMember, ReadName, VerifyFails, Login, Expire, vars
<1>6. CASE Restart
  BY <1>6 DEF Restart
<1>7. QED BY <1>2, <1>3, <1>4, <1>5, <1>6

\* Answered requests stay answered, and only StoreOtp makes an entry, for the
\* request that it answers.
LEMMA EntryStep ==
    ASSUME TypeOK, [Next]_vars, NEW id \in Request
    PROVE  /\ pc[id] = "answered" => pc'[id] = "answered"
           /\ otp[id] = "none" /\ otp'[id] # "none" => pc[id] = "store" /\ pc'[id] = "answered"
<1>1. \/ \E r \in Request : RegisterStep(r)
      \/ \E r \in Request : VerifyStep(r)
      \/ \E r \in Request : Login(r) \/ Expire(r)
      \/ Restart
      \/ UNCHANGED vars
  BY DEF Next
<1> USE DEF TypeOK, Answer, GoTo, Busy
<1>2. CASE \E r \in Request : RegisterStep(r)
  BY <1>2 DEF RegisterStep, Register, InsertMember, InsertSpliced, StoreOtp
<1>3. CASE \E r \in Request : VerifyStep(r)
  BY <1>3 DEF VerifyStep, Verify, ClearOtp, UpdateMember, ReadName, VerifyFails
<1>4. CASE \E r \in Request : Login(r) \/ Expire(r)
  BY <1>4 DEF Login, Expire
<1>5. CASE Restart \/ UNCHANGED vars
  BY <1>5 DEF Restart, vars
<1>6. QED BY <1>1, <1>2, <1>3, <1>4, <1>5

\* What a step does to the place, the member and the token of a request r.
Stays(r) == pc'[r] = pc[r] /\ member'[r] = member[r] /\ token'[r] = token[r]

Begins(r) ==
    /\ pc[r] = "new"
    /\ pc'[r] \in {"answered", "insert", "clear"}
    /\ \/ member'[r] = r /\ pc'[r] \in {"answered", "insert"}
       \/ member'[r] \in Request /\ pc'[r] = "answered"
       \/ member'[r] \in Request /\ pc'[r] = "clear" /\ otp[member'[r]] # "none"
    /\ token'[r] \in {token[r], NoMember}

LogsIn(r) == pc[r] = "new" /\ pc'[r] = "answered" /\ member'[r] = member[r]

GoesOn(r) ==
    /\ member'[r] = member[r]
    /\ \/ pc[r] = "insert" /\ pc'[r] = "store" /\ token'[r] = token[r]
       \/ pc[r] = "clear" /\ pc'[r] = "update" /\ token'[r] = token[r] /\ otp'[member[r]] = "none"
       \/ pc[r] = "update" /\ pc'[r] = "name" /\ token'[r] = token[r]
       \/ pc[r] = "name" /\ pc'[r] = "answered" /\ token'[r] = member[r]
       \/ pc[r] \in Busy /\ pc'[r] = "answered" /\ token'[r] = NoMember
       \/ pc[r] \in Busy /\ pc'[r] = "dead" /\ token'[r] = token[r]

LEMMA RequestStep ==
    ASSUME TypeOK, [Next]_vars, NEW r \in Request
    PROVE  Stays(r) \/ Begins(r) \/ LogsIn(r) \/ GoesOn(r)
<1> USE DEF Stays, Answer, GoTo
<1>t. /\ pc \in [Request -> Busy \cup {"new", "answered", "dead"}]
      /\ member \in [Request -> Request \cup {NoMember}]
      /\ token \in [Request -> Request \cup {NoMember}]
      /\ otp \in [Request -> {"none", "valid", "expired"}]
      /\ \A q \in Request : pc[q] \in Busy => member[q] \in Request
  BY DEF TypeOK
<1>1. ASSUME NEW q \in Request, RegisterStep(q)
      PROVE  Stays(r) \/ Begins(r) \/ LogsIn(r) \/ GoesOn(r)
  <2>1. CASE Register(q)
    BY <1>t, <2>1 DEF Register, Begins
  <2>2. CASE InsertMember(q) \/ InsertSpliced(q)
    BY <1>t, <2>2 DEF InsertMember, InsertSpliced, GoesOn, Busy
  <2>3. CASE StoreOtp(q)
    BY <1>t, <2>3 DEF StoreOtp, GoesOn, Busy
  <2>4. QED BY <1>1, <2>1, <2>2, <2>3 DEF RegisterStep
<1>2. ASSUME NEW q \in Request, VerifyStep(q)
      PROVE  Stays(r) \/ Begins(r) \/ LogsIn(r) \/ GoesOn(r)
  <2>1. ASSUME NEW id \in Request, NEW right \in BOOLEAN, Verify(q, id, right)
        PROVE  Stays(r) \/ Begins(r)
    BY <1>t, <2>1 DEF Verify, Begins
  <2>2. CASE ClearOtp(q)
    BY <1>t, <2>2 DEF ClearOtp, GoesOn, Busy
  <2>3. CASE UpdateMember(q)
    BY <1>t, <2>3 DEF UpdateMember, GoesOn
  <2>4. CASE ReadName(q)
    BY <1>t, <2>4 DEF ReadName, GoesOn
  <2>5. CASE VerifyFails(q)
    BY <1>t, <2>5 DEF VerifyFails, GoesOn, Busy
  <2>6. QED BY <1>2, <2>1, <2>2, <2>3, <2>4, <2>5 DEF VerifyStep
<1>3. ASSUME NEW q \in Request, Login(q) \/ Expire(q)
      PROVE  Stays(r) \/ LogsIn(r)
  BY <1>t, <1>3 DEF Login, Expire, LogsIn
<1>4. CASE Restart
  BY <1>t, <1>4 DEF Restart, GoesOn
<1>5. CASE UNCHANGED vars
  BY <1>5 DEF vars
<1>6. QED BY <1>1, <1>2, <1>3, <1>4, <1>5 DEF Next

LEMMA UnansweredStep ==
    TypeOK /\ Unanswered /\ [Next]_vars => Unanswered'
<1> SUFFICES ASSUME TypeOK, Unanswered, [Next]_vars, NEW r \in Request
             PROVE  /\ pc'[r] = "new" => member'[r] = NoMember
                    /\ pc'[r] # "answered" => token'[r] = NoMember
  BY DEF Unanswered
<1>1. /\ pc[r] = "new" => member[r] = NoMember
      /\ pc[r] # "answered" => token[r] = NoMember
  BY DEF Unanswered
<1>2. CASE Stays(r)
  BY <1>1, <1>2 DEF Stays
<1>3. CASE Begins(r)
  BY <1>1, <1>3 DEF Begins
<1>4. CASE LogsIn(r)
  BY <1>4 DEF LogsIn
<1>5. CASE GoesOn(r)
  BY <1>1, <1>5 DEF GoesOn, Busy
<1>6. QED BY <1>2, <1>3, <1>4, <1>5, RequestStep

\* A request is about to remove an entry because it has been there before, or
\* because Verify has just seen it, and is past the removal because it has been
\* before, or because ClearOtp has just been executed.
LEMMA WayToRemoval ==
    ASSUME TypeOK, PastComparison, Unanswered, [Next]_vars, NEW r \in Request
    PROVE  /\ pc'[r] = "clear" =>
                 \/ pc[r] = "clear" /\ member'[r] = member[r]
                 \/ member'[r] \in Request /\ otp[member'[r]] # "none"
           /\ PastClear(r)' =>
                 /\ member'[r] = member[r]
                 /\ \/ PastClear(r)
                    \/ pc[r] = "clear" /\ otp'[member[r]] = "none"
<1>1. /\ pc[r] = "new" => member[r] = NoMember
      /\ pc[r] # "answered" => token[r] = NoMember
  BY DEF Unanswered
<1>2. CASE Stays(r)
  BY <1>2 DEF Stays, PastClear
<1>3. CASE Begins(r)
  BY <1>1, <1>3 DEF Begins, PastClear
<1>4. CASE LogsIn(r)
  BY <1>1, <1>4 DEF LogsIn, PastClear
<1>5. CASE GoesOn(r)
  <2>1. pc'[r] # "clear"
    BY <1>5 DEF GoesOn
  <2>2. ASSUME PastClear(r)'
        PROVE  \/ PastClear(r)
               \/ pc[r] = "clear" /\ otp'[member[r]] = "none"
    <3>1. member'[r] = member[r] /\ member[r] # NoMember
      BY <1>5, <2>2 DEF GoesOn, PastClear
    <3>2. CASE pc[r] \in {"update", "name"}
      BY <3>1, <3>2 DEF PastClear
    <3>3. CASE pc[r] \notin {"update", "name"} /\ pc[r] # "clear"
      <4>1. pc'[r] \notin {"update", "name"} /\ token'[r] = NoMember
        BY <1>1, <1>5, <3>3 DEF GoesOn, Busy
      <4>2. QED BY <2>2, <3>1, <4>1 DEF PastClear
    <3>4. CASE pc[r] = "clear"
      <4>1. pc'[r] = "update" \/ token'[r] = NoMember
        BY <1>1, <1>5, <3>4 DEF GoesOn, Busy
      <4>2. pc'[r] = "update" => otp'[member[r]] = "none"
        BY <1>5, <3>4 DEF GoesOn
      <4>3. QED BY <2>2, <3>1, <3>4, <4>1, <4>2, <1>5 DEF PastClear, GoesOn
    <3>5. QED BY <3>2, <3>3, <3>4
  <2>3. QED BY <1>5, <2>1, <2>2 DEF GoesOn
<1>6. QED BY <1>2, <1>3, <1>4, <1>5, RequestStep

LEMMA GoneStep ==
    TypeOK /\ PastComparison /\ Unanswered /\ MadeOnce /\ UsedCodeIsGone /\ [Next]_vars
        => MadeOnce' /\ UsedCodeIsGone'
<1> SUFFICES ASSUME TypeOK, PastComparison, Unanswered, MadeOnce, UsedCodeIsGone, [Next]_vars
             PROVE  MadeOnce' /\ UsedCodeIsGone'
  OBVIOUS
<1>1. \A id \in Request : otp'[id] # "none" => pc'[id] = "answered"
  BY EntryStep DEF MadeOnce
<1>2. ASSUME NEW r \in Request, pc'[r] = "clear" \/ PastClear(r)'
      PROVE  member'[r] \in Request /\ pc[member'[r]] = "answered"
  BY <1>2, WayToRemoval DEF MadeOnce, PastClear, PastComparison, TypeOK, Busy
<1>3. ASSUME NEW r \in Request, PastClear(r)'
      PROVE  otp'[member'[r]] = "none"
  <2>1. CASE PastClear(r)
    <3>1. otp[member[r]] = "none" /\ member[r] \in Request /\ pc[member[r]] = "answered"
      BY <2>1 DEF UsedCodeIsGone, MadeOnce, PastClear, TypeOK
    <3>2. QED BY <1>3, <3>1, EntryStep, WayToRemoval
  <2>2. QED BY <1>3, <2>1, WayToRemoval
<1>4. QED BY <1>1, <1>2, <1>3, EntryStep DEF MadeOnce, UsedCodeIsGone

LEMMA NextInv == IInv /\ [Next]_vars => IInv'
BY TypeStep, OneMemberStep, PastStep, VerifiedStep, TokenStep, UnansweredStep, GoneStep DEF IInv

LEMMA Invariance == Spec => []IInv
BY InitInv, NextInv, PTL DEF Spec

-----------------------------------------------------------------------------
(* Theorems *)

\* Rows, codes and requests stay well-formed; only rows are verified.
THEOREM TypeCorrect == Spec => []TypeOK
<1>1. IInv => TypeOK
  BY DEF IInv
<1>2. QED BY <1>1, Invariance, PTL

\* An email never has two members whose INSERT was the one meant.
THEOREM OneMember == Spec => []OneMemberPerEmail
<1>1. IInv => OneMemberPerEmail
  BY DEF IInv
<1>2. QED BY <1>1, Invariance, PTL

\* Tokens are for members that are verified, or that a statement other than
\* the one meant has touched.
THEOREM TokensAreForVerified == Spec => []TokenMeansVerified
<1>1. IInv => TokenMeansVerified
  BY DEF IInv
<1>2. QED BY <1>1, Invariance, PTL

\* A member is verified only after its valid code was sent, or by a statement
\* that a quote in the form of register_member made.
THEOREM VerifiedHadCode == Spec => []VerifiedByCode
<1>1. IInv => VerifiedByCode
  BY DEF IInv
<1>2. QED BY <1>1, Invariance, PTL

\* No verification that begins after another has removed a member's code
\* succeeds with it.
THEOREM UsedCodesGone == Spec => []UsedCodeIsGone
<1>1. IInv => UsedCodeIsGone
  BY DEF IInv
<1>2. QED BY <1>1, Invariance, PTL

\* The entry of a member that is not verified leaves OTP_STORE only by a failed
\* statement or a restart, unless a statement other than the one meant touched
\* the member.  (An entry that expires stays, and is of no use.)
THEOREM CodeKept == Spec => []CodeLostOnlyByFailure
<1>1. Init => CodeLostOnlyByFailure
  BY DEF Init, CodeLostOnlyByFailure
<1>2. TypeOK /\ CodeLostOnlyByFailure /\ [Next]_vars => CodeLostOnlyByFailure'
  BY CodeStep
<1>3. QED BY <1>1, <1>2, TypeCorrect, PTL DEF Spec
=============================================================================
