--------------------------- MODULE BranchContent ----------------------------
(***************************************************************************)
(* What the branches publish: pickup points, events, alerts, photos and    *)
(* the branches themselves, behind the handlers of                         *)
(* crates/backend_api/src/handlers/clergy.rs and branches.rs.  Each        *)
(* handler is one SQL statement on one table, hence one step.              *)
(*                                                                         *)
(* The rows of the four content tables are one sequence.  A row's id is    *)
(* its place (the code's random UUID: never used twice); a deleted row     *)
(* leaves Gone behind.  Of a row's fields only those a list depends on are *)
(* kept: its branch, one text (name, message or url), the time it is about *)
(* (event_date, expires_at, created_at of a photo) and is_active.  A list  *)
(* is the set of its rows; events and photos come sorted in the code.      *)
(***************************************************************************)
EXTENDS Integers, Sequences, SequencesExt

CONSTANTS
    Branch,      \* ids of branches
    Here,        \* the branch that exists from the start, verified
    Text,        \* names, messages, urls
    Gone,        \* what a deleted row leaves
    NoBranch,    \* a branch id not in use
    MaxRows,     \* bound: rows ever created
    MaxTime      \* bound: the clock

ASSUME ContentAssumption ==
    /\ Here \in Branch
    /\ Text # {}
    /\ MaxRows \in Nat /\ MaxTime \in Nat

VARIABLES rows, branches, now

contentVars == <<rows, branches, now>>

Kind == {"point", "event", "alert", "photo"}

RowRecord == [kind : Kind, branch : Branch, text : Text, at : Nat, active : BOOLEAN]

BranchRecord == [name : Text, times : Text, verified : BOOLEAN]

ContentTypeOK ==
    /\ rows \in Seq(RowRecord \cup {Gone})
    /\ branches \in [Branch -> BranchRecord \cup {NoBranch}]
    /\ now \in Nat

-----------------------------------------------------------------------------
(* The lists *)

IsRow(i, kind, b) ==
    rows[i] # Gone /\ rows[i].kind = kind /\ rows[i].branch = b

IsPoint(i, b) == IsRow(i, "point", b) /\ rows[i].active

IsEvent(i, b) == IsRow(i, "event", b) /\ rows[i].active /\ rows[i].at > now

IsAlert(i, b) == IsRow(i, "alert", b) /\ rows[i].active /\ rows[i].at > now

\* SELECT ... WHERE branch_id = ? AND is_active = 1
GetPickupPoints(b) == {i \in DOMAIN rows : IsPoint(i, b)}

\* ... AND event_date > now
GetEvents(b) == {i \in DOMAIN rows : IsEvent(i, b)}

\* ... AND expires_at > now
GetAlerts(b) == {i \in DOMAIN rows : IsAlert(i, b)}

\* All of the branch; their urls are what the client gets.
GetPhotos(b) == {i \in DOMAIN rows : IsRow(i, "photo", b)}

\* s is the answer that lists the ids S in the order of their insertion, which
\* is the order of a scan.
Lists(s, S) == ToSet(s) = S /\ \A j, k \in DOMAIN s : j < k => s[j] < s[k]

\* Every verified branch, with all its details.
GetAllBranches ==
    [b \in {c \in Branch : branches[c] # NoBranch /\ branches[c].verified} |->
        branches[b]]

-----------------------------------------------------------------------------
(* The handlers *)

Insert(kind, b, text, at) ==
    /\ Len(rows) < MaxRows
    /\ rows' = Append(rows, [kind |-> kind, branch |-> b, text |-> text,
                             at |-> at, active |-> TRUE])

\* DELETE: nothing happens, and the answer is OK, when no row matches.
DeleteWhere(Test(_)) ==
    rows' = [i \in DOMAIN rows |-> IF rows[i] # Gone /\ Test(i) THEN Gone ELSE rows[i]]

\* Faulty form: UPDATE ... SET is_active = 1 after the INSERT, without the id.
CreatePickupPointActivates(b, text) ==
    /\ Len(rows) < MaxRows
    /\ rows' = Append([i \in DOMAIN rows |->
                         IF IsRow(i, "point", b) THEN [rows[i] EXCEPT !.active = TRUE] ELSE rows[i]],
                      [kind |-> "point", branch |-> b, text |-> text, at |-> 0, active |-> TRUE])
    /\ UNCHANGED <<branches, now>>

CreatePickupPoint(b, text) ==
    Insert("point", b, text, 0) /\ UNCHANGED <<branches, now>>

\* Any of the fields may be left out, but not all (BAD_REQUEST); is_active is
\* one of them.
UpdatePickupPoint(b, id, text, active) ==
    /\ rows' = [i \in DOMAIN rows |->
                   IF i = id /\ IsRow(i, "point", b)
                   THEN [kind |-> "point", branch |-> b, text |-> text,
                         at |-> rows[i].at, active |-> active]
                   ELSE rows[i]]
    /\ UNCHANGED <<branches, now>>

DeletePickupPoint(b, id) ==
    /\ DeleteWhere(LAMBDA i : i = id /\ IsRow(i, "point", b))
    /\ UNCHANGED <<branches, now>>

CreateEvent(b, text, at) ==
    Insert("event", b, text, at) /\ UNCHANGED <<branches, now>>

DeleteEvent(b, id) ==
    /\ DeleteWhere(LAMBDA i : i = id /\ IsRow(i, "event", b))
    /\ UNCHANGED <<branches, now>>

CreateAlert(b, text, at) ==
    Insert("alert", b, text, at) /\ UNCHANGED <<branches, now>>

DeleteAlert(b, id) ==
    /\ DeleteWhere(LAMBDA i : i = id /\ IsRow(i, "alert", b))
    /\ UNCHANGED <<branches, now>>

\* Faulty form: the clock of another time zone.
AddPhotoEarlier(b, url) ==
    Insert("photo", b, url, now - 1) /\ UNCHANGED <<branches, now>>

AddPhoto(b, url) ==
    Insert("photo", b, url, now) /\ UNCHANGED <<branches, now>>

\* Faulty form: the statement without branch_id.
DeletePhotoAnywhere(b, url) ==
    /\ DeleteWhere(LAMBDA i : rows[i].kind = "photo" /\ rows[i].text = url)
    /\ UNCHANGED <<branches, now>>

\* By url: every copy of the picture goes.
DeletePhoto(b, url) ==
    /\ DeleteWhere(LAMBDA i : IsRow(i, "photo", b) /\ rows[i].text = url)
    /\ UNCHANGED <<branches, now>>

\* Verified from the start.
CreateBranch(b, name, times) ==
    /\ branches[b] = NoBranch
    /\ branches' = [branches EXCEPT
                       ![b] = [name |-> name, times |-> times, verified |-> TRUE]]
    /\ UNCHANGED <<rows, now>>

UpdateBranch(b, name) ==
    /\ branches[b] # NoBranch
    /\ branches' = [branches EXCEPT ![b].name = name]
    /\ UNCHANGED <<rows, now>>

UpdateServiceTimes(b, times) ==
    /\ branches[b] # NoBranch
    /\ branches' = [branches EXCEPT ![b].times = times]
    /\ UNCHANGED <<rows, now>>

Tick ==
    /\ now < MaxTime
    /\ now' = now + 1
    /\ UNCHANGED <<rows, branches>>

-----------------------------------------------------------------------------

ContentInit ==
    /\ rows = << >>
    /\ LET text == CHOOSE text \in Text : TRUE IN
          branches = [b \in Branch |->
                         IF b = Here THEN [name |-> text, times |-> text, verified |-> TRUE]
                         ELSE NoBranch]
    /\ now = 0

ContentNext ==
    \/ \E b \in Branch, text \in Text :
          \/ CreatePickupPoint(b, text)
          \/ \E at \in 0..MaxTime : CreateEvent(b, text, at) \/ CreateAlert(b, text, at)
          \/ AddPhoto(b, text)
          \/ DeletePhoto(b, text)
          \/ UpdateBranch(b, text)
          \/ UpdateServiceTimes(b, text)
          \/ \E times \in Text : CreateBranch(b, text, times)
    \/ \E b \in Branch, id \in DOMAIN rows :
          \/ \E text \in Text, active \in BOOLEAN : UpdatePickupPoint(b, id, text, active)
          \/ DeletePickupPoint(b, id)
          \/ DeleteEvent(b, id)
          \/ DeleteAlert(b, id)
    \/ Tick

ContentSpec == ContentInit /\ [][ContentNext]_contentVars

-----------------------------------------------------------------------------
(* Properties *)

Listed(i) ==
    LET b == rows[i].branch IN
    rows[i] # Gone /\ (IsPoint(i, b) \/ IsEvent(i, b) \/ IsAlert(i, b) \/ IsRow(i, "photo", b))

\* What is off its list, because it was deleted, hidden or its time is over,
\* does not come back by itself or by anybody's call about something else: the
\* step that brings it back is an update_pickup_point of this very point, of
\* its branch, with is_active set, and nothing else changes.
OnlyUpdateRevives ==
    [][\A i \in DOMAIN rows :
          (~Listed(i) /\ Listed(i)') =>
              \E b \in Branch, text \in Text : UpdatePickupPoint(b, i, text, TRUE)]_contentVars

Contents(ids) == {<<i, rows[i].text>> : i \in ids}

\* Everything the server shows, list by list.
Published ==
    [points |-> [b \in Branch |-> Contents(GetPickupPoints(b))],
     events |-> [b \in Branch |-> Contents(GetEvents(b))],
     alerts |-> [b \in Branch |-> Contents(GetAlerts(b))],
     photos |-> [b \in Branch |-> Contents(GetPhotos(b))]]

\* A call changes one list of one branch: the WHERE clauses keep the branches
\* and the tables apart, also where two branches hold the same picture, and
\* what is done to a branch leaves its lists alone.  Time alone may end things
\* in several lists.
OneListAtATime ==
    [][now' = now =>
          \A kind \in DOMAIN Published, b \in Branch :
             Published[kind][b] # Published'[kind][b] =>
                /\ GetAllBranches' = GetAllBranches
                /\ \A k \in DOMAIN Published, c \in Branch :
                      Published[k][c] # Published'[k][c] => k = kind /\ c = b]_contentVars
=============================================================================
