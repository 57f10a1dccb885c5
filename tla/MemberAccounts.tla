--------------------------- MODULE MemberAccounts ---------------------------
(***************************************************************************)
(* Registration, verification and login of members (crates/backend_api,    *)
(* src/auth/handlers.rs).                                                  *)
(*                                                                         *)
(* Members are rows of a database; the one-time passwords are a map in the *)
(* memory of the process (OTP_STORE), lost when it restarts.  A handler is *)
(* a sequence of statements and lock sections, each one step here; other   *)
(* requests run in between, any statement may fail, and the process may    *)
(* die.  A request is one call of a handler, and a member's id is the      *)
(* request that registered it (Uuid::new_v4 in register_member).  Clergy   *)
(* who log in with a row of clergy_users are in module ClergyAccounts.     *)
(*                                                                         *)
(* The table is the one the statements are written for: with the columns   *)
(* email, name, role and verification_status, which the CREATE TABLE of    *)
(* db.rs lacks, and with its UNIQUE canonical_id.                          *)
(***************************************************************************)
CONSTANTS
    Request,   \* calls of the handlers
    Email,
    NoMember   \* not a request

ASSUME AccountsAssumption == NoMember \notin Request

VARIABLES
    pc,        \* pc[r]: where request r is
    email,     \* email[r]: the email r registers
    member,    \* member[r]: the member r verifies, logs in or registers
    rows,      \* ids with a row in table members
    verified,  \* ids whose row says FullyVerified
    otp,       \* otp[id]: the entry of OTP_STORE
    token,     \* token[r]: the member r's answer is a token for
    proved,    \* members whose valid code somebody sent (history)
    hurt,      \* members that met a failed statement or a restart (history)
    altered    \* members whose INSERT was another statement than the one
               \* meant, and those such a statement touched (history)

vars == <<pc, email, member, rows, verified, otp, token, proved, hurt, altered>>

Busy == {"insert", "store", "clear", "update", "name"}

\* The members login and register_member may find under email e: a row that
\* another statement touched may say any email.
Under(e) == {id \in rows : email[id] = e \/ id \in altered}

\* A row with the canonical_id of e, "member:" and e, is certain to exist.
Taken(e) == \E id \in rows \ altered : email[id] = e

\* Request r is answered, with a token for m or with none.
Answer(r, m) ==
    /\ pc' = [pc EXCEPT ![r] = "answered"]
    /\ token' = [token EXCEPT ![r] = m]

GoTo(r, place) ==
    /\ pc' = [pc EXCEPT ![r] = place]
    /\ UNCHANGED token

-----------------------------------------------------------------------------

Init ==
    /\ pc = [r \in Request |-> "new"]
    /\ email \in [Request -> Email]
    /\ member = [r \in Request |-> NoMember]
    /\ rows = {}
    /\ verified = {}
    /\ otp = [id \in Request |-> "none"]
    /\ token = [r \in Request |-> NoMember]
    /\ proved = {}
    /\ hurt = {}
    /\ altered = {}

-----------------------------------------------------------------------------
(* register_member *)

\* SELECT id FROM members WHERE email.  A row found is a CONFLICT, and without
\* a connection the answer is an error; exists.is_ok() takes no row and a
\* failed SELECT alike, so the handler may also go on when the email is taken.
Register(r) ==
    /\ pc[r] = "new"
    /\ Answer(r, NoMember) \/ GoTo(r, "insert")
    /\ member' = [member EXCEPT ![r] = r]
    /\ UNCHANGED <<email, rows, verified, otp, proved, hurt, altered>>

\* Faulty form: the schema without UNIQUE on canonical_id.
InsertWithoutUnique(r) ==
    /\ pc[r] = "insert"
    /\ GoTo(r, "store")
    /\ rows' = rows \cup {r}
    /\ UNCHANGED <<email, member, verified, otp, proved, hurt, altered>>

\* INSERT INTO members.  The canonical_id is UNIQUE (db.rs): the second of two
\* that both saw no row fails.
InsertMember(r) ==
    /\ pc[r] = "insert"
    /\ \/ /\ ~Taken(email[r])
          /\ GoTo(r, "store")
          /\ rows' = rows \cup {r}
       \/ /\ Answer(r, NoMember)
          /\ UNCHANGED rows
    /\ UNCHANGED <<email, member, verified, otp, proved, hurt, altered>>

\* The statement is put together with format!, so an email or a name with a
\* quote in it makes another statement than the one meant.  It fails (above),
\* or succeeds: it may leave out r's row, and set the status and the email of
\* whatever rows it touches.
InsertSpliced(r) ==
    /\ pc[r] = "insert"
    /\ GoTo(r, "store")
    /\ \E touched \in SUBSET (rows \cup {r}) :
          /\ rows' = rows \cup touched
          /\ \E v \in SUBSET touched : verified' = (verified \ touched) \cup v
          /\ altered' = altered \cup touched \cup {r}
    /\ UNCHANGED <<email, member, otp, proved, hurt>>

\* OTP_STORE gets the code, valid for 300 seconds, and the member its answer.
StoreOtp(r) ==
    /\ pc[r] = "store"
    /\ otp' = [otp EXCEPT ![r] = "valid"]
    /\ Answer(r, NoMember)
    /\ UNCHANGED <<email, member, rows, verified, proved, hurt, altered>>

\* 300 seconds are over.  The entry stays in the map.
Expire(id) ==
    /\ otp[id] = "valid"
    /\ otp' = [otp EXCEPT ![id] = "expired"]
    /\ UNCHANGED <<pc, email, member, rows, verified, token, proved, hurt, altered>>

-----------------------------------------------------------------------------
(* verify_otp *)

\* Faulty form: the time is not looked at.
VerifyLate(r, id, right) ==
    /\ pc[r] = "new"
    /\ IF otp[id] # "none" /\ right THEN GoTo(r, "clear") ELSE Answer(r, NoMember)
    /\ proved' = IF otp[id] = "valid" /\ right THEN proved \cup {id} ELSE proved
    /\ member' = [member EXCEPT ![r] = id]
    /\ UNCHANGED <<email, rows, verified, otp, hurt, altered>>

\* Faulty form: a wrong code uses the entry up.
VerifyOneTry(r, id, right) ==
    /\ pc[r] = "new"
    /\ IF otp[id] = "valid" /\ right
       THEN GoTo(r, "clear") /\ proved' = proved \cup {id} /\ UNCHANGED otp
       ELSE Answer(r, NoMember) /\ UNCHANGED proved /\ otp' = [otp EXCEPT ![id] = "none"]
    /\ member' = [member EXCEPT ![r] = id]
    /\ UNCHANGED <<email, rows, verified, hurt, altered>>

\* A copy of the entry is compared with the code: BAD_REQUEST when there is
\* none or it has expired, UNAUTHORIZED when the code is wrong.
Verify(r, id, right) ==
    /\ pc[r] = "new"
    /\ IF otp[id] = "valid" /\ right
       THEN GoTo(r, "clear") /\ proved' = proved \cup {id}
       ELSE Answer(r, NoMember) /\ UNCHANGED proved
    /\ member' = [member EXCEPT ![r] = id]
    /\ UNCHANGED <<email, rows, verified, otp, hurt, altered>>

\* Faulty form: the entry is left to expire.
ClearOtpLater(r) ==
    /\ pc[r] = "clear"
    /\ GoTo(r, "update")
    /\ UNCHANGED <<email, member, rows, verified, otp, proved, hurt, altered>>

\* The entry is removed, under a second lock.
ClearOtp(r) ==
    /\ pc[r] = "clear"
    /\ otp' = [otp EXCEPT ![member[r]] = "none"]
    /\ GoTo(r, "update")
    /\ UNCHANGED <<email, member, rows, verified, proved, hurt, altered>>

\* Faulty form: the row is not written, as after a failure that is ignored.
UpdateIgnored(r) ==
    /\ pc[r] = "update"
    /\ GoTo(r, "name")
    /\ UNCHANGED <<email, member, rows, verified, otp, proved, hurt, altered>>

\* Faulty form: the id of the request in place of the member's.
UpdateOwnRow(r) ==
    /\ pc[r] = "update"
    /\ verified' = verified \cup {r}
    /\ GoTo(r, "name")
    /\ UNCHANGED <<email, member, rows, otp, proved, hurt, altered>>

\* UPDATE members SET verification_status = 'FullyVerified' WHERE id.
UpdateMember(r) ==
    /\ pc[r] = "update"
    /\ verified' = verified \cup ({member[r]} \cap rows)
    /\ GoTo(r, "name")
    /\ UNCHANGED <<email, member, rows, otp, proved, hurt, altered>>

\* SELECT name, and the token.
ReadName(r) ==
    /\ pc[r] = "name"
    /\ member[r] \in rows
    /\ Answer(r, member[r])
    /\ UNCHANGED <<email, member, rows, verified, otp, proved, hurt, altered>>

\* pool.get() or a statement fails in verify_otp, or the member has no row:
\* 500.  The code is gone.
VerifyFails(r) ==
    /\ pc[r] \in {"update", "name"}
    /\ Answer(r, NoMember)
    /\ hurt' = hurt \cup {member[r]}
    /\ UNCHANGED <<email, member, rows, verified, otp, proved, altered>>

-----------------------------------------------------------------------------
(* login of a member, and the process *)

\* SELECT ... WHERE email AND verification_status = 'FullyVerified': a token,
\* or UNAUTHORIZED when there is no such row or the SELECT fails.
Login(r) ==
    /\ pc[r] = "new"
    /\ \/ \E id \in verified \cap Under(email[r]) : Answer(r, id)
       \/ Answer(r, NoMember)
    /\ UNCHANGED <<email, member, rows, verified, otp, proved, hurt, altered>>

\* The process dies and starts again: requests get no answer, OTP_STORE is
\* empty, the table is as it was.
Restart ==
    /\ \/ \E r \in Request : pc[r] \in Busy
       \/ \E id \in Request : otp[id] # "none"
    /\ pc' = [r \in Request |-> IF pc[r] \in Busy THEN "dead" ELSE pc[r]]
    /\ otp' = [id \in Request |-> "none"]
    /\ hurt' = hurt \cup rows
    /\ UNCHANGED <<email, member, rows, verified, token, proved, altered>>

RegisterStep(r) == Register(r) \/ InsertMember(r) \/ InsertSpliced(r) \/ StoreOtp(r)

VerifyStep(r) ==
    \/ \E id \in Request, right \in BOOLEAN : Verify(r, id, right)
    \/ ClearOtp(r)
    \/ UpdateMember(r)
    \/ ReadName(r)
    \/ VerifyFails(r)

Next ==
    \/ \E r \in Request : RegisterStep(r) \/ VerifyStep(r) \/ Login(r) \/ Expire(r)
    \/ Restart

Spec == Init /\ [][Next]_vars

-----------------------------------------------------------------------------
(* What is checked and proved *)

\* Rows, codes and requests are well-formed: only rows are verified, and a
\* request is busy with a member.
TypeOK ==
    /\ pc \in [Request -> Busy \cup {"new", "answered", "dead"}]
    /\ email \in [Request -> Email]
    /\ member \in [Request -> Request \cup {NoMember}]
    /\ rows \subseteq Request
    /\ verified \subseteq rows
    /\ otp \in [Request -> {"none", "valid", "expired"}]
    /\ token \in [Request -> Request \cup {NoMember}]
    /\ proved \subseteq Request
    /\ hurt \subseteq Request
    /\ altered \subseteq Request
    /\ \A r \in Request : /\ pc[r] \in Busy => member[r] \in Request
                          /\ pc[r] \in {"insert", "store"} => member[r] = r

\* An email has one member, however two registrations interleave between the
\* SELECT and the INSERT of register_member, unless the INSERT was another
\* statement than the one meant.
OneMemberPerEmail ==
    \A i, j \in rows \ altered : email[i] = email[j] => i = j

\* A token that verify_otp or login hands out is for a member whose row says
\* FullyVerified: neither vouches for a member that login refuses, unless a
\* register_member with a quote in its form has set the row back.
\* (issue_token_handler signs without looking at the table; see
\* ClergyAccounts.)
TokenMeansVerified ==
    \A r \in Request : token[r] # NoMember => token[r] \in verified \cup altered

\* A member becomes verified only when somebody sent its code while it was
\* valid (verify_otp), or by an INSERT with a quote in its form: no other
\* request, whatever its input, verifies anybody, and such a request only whom
\* it touches.
VerifiedByCode == verified \subseteq proved \cup altered

\* What makes the three inductive: codes are for members with a row, and a
\* request past the comparison works for a member whose code was sent.
PastComparison ==
    /\ \A id \in Request : otp[id] # "none" \/ pc[id] = "store" => id \in rows \cup altered
    /\ \A r \in Request :
          /\ pc[r] \in {"clear", "update", "name"} =>
                 member[r] \in (rows \cup altered) \cap proved
          /\ pc[r] = "name" => member[r] \in verified \cup altered

\* A member that registered and is not verified has its entry in OTP_STORE, or
\* a request is about to put it there, or a verification with it is under way.
\* Only a failed statement or a restart takes the entry from it (or a statement
\* other than the one meant its status), and then for good: register_member
\* answers CONFLICT and nothing else makes a code.  The entry of a member that
\* waits 300 seconds stays and counts here, but is of no more use to it.
CodeLostOnlyByFailure ==
    \A id \in rows \ (verified \cup hurt \cup altered) :
        \/ otp[id] # "none"
        \/ \E r \in Request : pc[r] \in {"store", "clear", "update"} /\ member[r] = id

\* Request r, a verify_otp, has removed its member's entry from OTP_STORE: it is
\* on its way to the token, or has handed it out.
PastClear(r) ==
    /\ member[r] # NoMember
    /\ pc[r] \in {"update", "name"} \/ token[r] = member[r]

\* "Clear OTP after use" (verify_otp): a code that a verification has used up is
\* gone for good, so none that begins later succeeds with it, whatever other
\* requests do and however often the process restarts.  (Two that are between
\* the comparison and the removal at the same time both succeed: the check and
\* the removal take the lock one after the other.)
UsedCodeIsGone ==
    \A r \in Request : PastClear(r) => otp[member[r]] = "none"

\* What makes it inductive: a code is made once, at the end of the member's
\* registration, and only answered requests have tokens.
Unanswered ==
    \A r \in Request : /\ pc[r] = "new" => member[r] = NoMember
                       /\ pc[r] # "answered" => token[r] = NoMember

MadeOnce ==
    /\ \A id \in Request : otp[id] # "none" => pc[id] = "answered"
    /\ \A r \in Request : pc[r] = "clear" \/ PastClear(r) => pc[member[r]] = "answered"
=============================================================================
