--------------------------- MODULE FlareTracking ----------------------------
(***************************************************************************)
(* How a member follows a flare: the token the app keeps                   *)
(* (providers/auth_provider.dart, services/api_client.dart), the list of   *)
(* flares in memory (providers/flare_provider.dart), the timer of the open *)
(* screen (screens/my_flares_screen.dart), and the two handlers of         *)
(* handlers/flare.rs, of which the part that decides whose a flare is and  *)
(* who may ask for it is modelled here (its connections, in                *)
(* FlareSubmission).                                                       *)
(*                                                                         *)
(* A flare's id is its place in the table.  Nothing in the repository      *)
(* changes the status of a stored flare: Advance is whatever tool the      *)
(* clergy use.                                                             *)
(***************************************************************************)
EXTENDS SessionTokens, SequencesExt

CONSTANTS
    RoleOf,     \* the role of each person
    Call,       \* places for requests under way (bound)
    Idle,       \* an unused place
    MaxFlares,  \* bound: flares stored
    MaxLogins,  \* bound: logins
    MaxTime     \* bound: the clock

ASSUME TrackingAssumption ==
    /\ RoleOf \in [Person -> Role]
    /\ MaxFlares \in Nat /\ MaxLogins \in Nat /\ MaxTime \in Nat

VARIABLES
    now,
    flares,   \* the table: owner and status
    token,    \* access_token in the app's secure storage
    shown,    \* _flares, newest first
    calls,    \* requests of the app that are under way
    logins,   \* (bound)
    carried   \* the token each flare was submitted with (history)

vars == <<now, flares, token, shown, calls, logins, carried>>

\* What comes between "queued" and the end makes no difference here.
\* "completed" is the end for flare_model.dart, "resolved" for the screen.
Status == {"queued", "completed", "resolved"}

Rank(status) == IF status = "queued" THEN 0 ELSE IF status = "completed" THEN 1 ELSE 2

FlareRecord == [owner : Person \cup {NoUser}, status : Status]

\* token: kept until the answer, of a refusal until that has arrived;
\* late: an answer about the same flare has overtaken this one (history)
CallRecord == [kind : {"submit", "refresh"},
               at : {"sent", "answered", "refused"},
               token : Claims \cup {NoToken},
               id : Nat, status : Status, late : BOOLEAN]

TypeOK ==
    /\ now \in Nat
    /\ flares \in Seq(FlareRecord)
    /\ token \in Claims \cup {NoToken}
    /\ shown \in Seq([id : Nat, status : Status])
    /\ \A k \in DOMAIN shown : shown[k].id \in DOMAIN flares
    /\ calls \in [Call -> CallRecord \cup {Idle}]
    /\ \A c \in Call :
          calls[c] # Idle /\ (calls[c].kind = "refresh" \/ calls[c].at # "sent") =>
             calls[c].id \in DOMAIN flares
    /\ logins \in Nat
    /\ carried \in Seq(Claims \cup {NoToken})
    /\ Len(carried) = Len(flares)

Request(kind, at, t, id, status, late) ==
    [kind |-> kind, at |-> at, token |-> t, id |-> id, status |-> status, late |-> late]

Is(c, kind, at) == calls[c] # Idle /\ calls[c].kind = kind /\ calls[c].at = at

-----------------------------------------------------------------------------
(* The session *)

Login(p) ==
    /\ logins < MaxLogins
    /\ logins' = logins + 1
    /\ token' = IssueToken(p, RoleOf[p], << >>, now)
    /\ UNCHANGED <<now, flares, shown, calls, carried>>

\* The flares stay in memory.
Logout ==
    /\ token # NoToken
    /\ token' = NoToken
    /\ UNCHANGED <<now, flares, shown, calls, logins, carried>>

\* The app is started again: only the storage is left.
Restart ==
    /\ shown' = << >>
    /\ calls' = [c \in Call |-> Idle]
    /\ UNCHANGED <<now, flares, token, logins, carried>>

Tick ==
    /\ now < MaxTime
    /\ now' = now + 1
    /\ UNCHANGED <<flares, token, shown, calls, logins, carried>>

-----------------------------------------------------------------------------
(* Submitting *)

SubmitFlare(c) ==
    /\ calls[c] = Idle
    /\ calls' = [calls EXCEPT ![c] = Request("submit", "sent", token, 0, "queued", FALSE)]
    /\ UNCHANGED <<now, flares, token, shown, logins, carried>>

\* Faulty form: every flare is anonymous.
OwnerForgotten(user) == NoUser

Owner(user) == user

\* The flare is its sender's, or anonymous.
ServeSubmit(c) ==
    /\ Is(c, "submit", "sent")
    /\ Len(flares) < MaxFlares
    /\ flares' = Append(flares, [owner  |-> Owner(AuthenticatedUser(calls[c].token, now)),
                                 status |-> "queued"])
    /\ carried' = Append(carried, calls[c].token)
    /\ calls' = [calls EXCEPT ![c] =
                    Request("submit", "answered", NoToken, Len(flares) + 1, "queued", FALSE)]
    /\ UNCHANGED <<now, token, shown, logins>>

SubmitArrives(c) ==
    /\ Is(c, "submit", "answered")
    /\ shown' = <<[id |-> calls[c].id, status |-> "queued"]>> \o shown
    /\ calls' = [calls EXCEPT ![c] = Idle]
    /\ UNCHANGED <<now, flares, token, logins, carried>>

-----------------------------------------------------------------------------
(* Following *)

\* Somebody else's tool.
Advance(i) ==
    /\ \E status \in Status :
          /\ Rank(status) > Rank(flares[i].status)
          /\ flares' = [flares EXCEPT ![i] = [owner |-> flares[i].owner, status |-> status]]
    /\ UNCHANGED <<now, token, shown, calls, logins, carried>>

\* Faulty form: only the first of the list is looked at.
IsNewest(k) == k = 1 /\ shown[k].status # "resolved"

\* The first of the list that is not resolved.
IsActive(k) ==
    /\ shown[k].status # "resolved"
    /\ \A j \in 1..(k - 1) : shown[j].status = "resolved"

\* Every 30 seconds, whatever came of the last call.
TimerFires(c) ==
    /\ calls[c] = Idle
    /\ \E k \in DOMAIN shown :
          /\ IsActive(k)
          /\ calls' = [calls EXCEPT ![c] =
                          Request("refresh", "sent", token, shown[k].id, "queued", FALSE)]
    /\ UNCHANGED <<now, flares, token, shown, logins, carried>>

Permitted(user, flare) ==
    \/ user # NoUser /\ flare.owner = user
    \/ user = NoUser /\ flare.owner = NoUser

GetFlareStatus(c) ==
    /\ Is(c, "refresh", "sent")
    /\ LET flare == flares[calls[c].id]
           Answer(at, t, status) ==
               [calls EXCEPT ![c] = Request("refresh", at, t, calls[c].id, status, FALSE)]
       IN calls' = IF Permitted(AuthenticatedUser(calls[c].token, now), flare)
                   THEN Answer("answered", NoToken, flare.status)
                   ELSE Answer("refused", calls[c].token, "queued")
    /\ UNCHANGED <<now, flares, token, shown, logins, carried>>

\* Faulty form: the index from before the await, by now another flare's.
UpdatedTop(id, status) ==
    [k \in DOMAIN shown |->
        IF k = 1 THEN [id |-> shown[k].id, status |-> status] ELSE shown[k]]

Updated(id, status) ==
    [k \in DOMAIN shown |->
        IF shown[k].id = id THEN [id |-> id, status |-> status] ELSE shown[k]]

RefreshArrives(c) ==
    /\ Is(c, "refresh", "answered")
    /\ shown' = Updated(calls[c].id, calls[c].status)
    /\ calls' = [d \in Call |->
                    IF d = c THEN Idle
                    ELSE IF Is(d, "refresh", "answered") /\ calls[d].id = calls[c].id
                    THEN Request("refresh", "answered", NoToken, calls[d].id,
                                 calls[d].status, TRUE)
                    ELSE calls[d]]
    /\ UNCHANGED <<now, flares, token, logins, carried>>

\* FORBIDDEN is dropped in silence.
RefusalArrives(c) ==
    /\ Is(c, "refresh", "refused")
    /\ calls' = [calls EXCEPT ![c] = Idle]
    /\ UNCHANGED <<now, flares, token, shown, logins, carried>>

\* The request is lost or its handler fails; or the answer is lost, which for
\* a refresh comes to the same.
Fails(c) ==
    /\ Is(c, "submit", "sent") \/ Is(c, "submit", "answered") \/ Is(c, "refresh", "sent")
    /\ calls' = [calls EXCEPT ![c] = Idle]
    /\ UNCHANGED <<now, flares, token, shown, logins, carried>>

-----------------------------------------------------------------------------

Init ==
    /\ now = 0
    /\ flares = << >>
    /\ token = NoToken
    /\ shown = << >>
    /\ calls = [c \in Call |-> Idle]
    /\ logins = 0
    /\ carried = << >>

Next ==
    \/ \E p \in Person : Login(p)
    \/ Logout \/ Restart \/ Tick
    \/ \E c \in Call :
          \/ SubmitFlare(c) \/ ServeSubmit(c) \/ SubmitArrives(c)
          \/ TimerFires(c) \/ GetFlareStatus(c) \/ RefreshArrives(c)
          \/ RefusalArrives(c) \/ Fails(c)
    \/ \E i \in DOMAIN flares : Advance(i)

\* The screen stays open and its timer keeps running (strongly fair because
\* submissions may take all places, of which the app has no end); every request
\* ends some day, and of refreshes made again and again some get through.
Fairness ==
    /\ SF_vars(\E c \in Call : TimerFires(c))
    /\ \A c \in Call :
          /\ WF_vars(SubmitArrives(c) \/ RefreshArrives(c) \/ RefusalArrives(c) \/ Fails(c))
          /\ SF_vars(GetFlareStatus(c))

Spec == Init /\ [][Next]_vars

FairSpec == Spec /\ Fairness

-----------------------------------------------------------------------------
(* Properties *)

\* A member who neither logs in again nor out is refused only when the token
\* has expired since: with the token that sent the flare, or with none if
\* there was none, the flare can be followed.
SenderMayFollow ==
    \A c \in Call : Is(c, "refresh", "refused") =>
        \/ calls[c].token # carried[calls[c].id]
        \/ ~ValidateToken(calls[c].token, now)

\* The screen is never ahead of the server, about any flare.
NeverAhead ==
    \A k \in DOMAIN shown : Rank(shown[k].status) <= Rank(flares[shown[k].id].status)

\* What the screen says of a flare goes back only when an answer is overtaken
\* by a later one: the timer does not wait for answers.
BackOnlyWhenOvertaken ==
    [][\A k \in DOMAIN shown, j \in DOMAIN shown' :
          shown[k].id = shown'[j].id /\ Rank(shown'[j].status) < Rank(shown[k].status) =>
              \E c \in Call : Is(c, "refresh", "answered") /\ calls[c].late]_vars

MayFollow(k) == Permitted(AuthenticatedUser(token, now), flares[shown[k].id])

\* The timer's turn comes to k: the newer ones are resolved and may be
\* followed too.
Reached(k) ==
    \A j \in 1..(k - 1) : flares[shown[j].id].status = "resolved" /\ MayFollow(j)

\* In the end the screen shows what the server has of every flare the timer
\* reaches, though answers are lost and overtake each other.  (A newer flare
\* that is completed but not resolved, or that may not be followed any more,
\* keeps it from all older ones for good.)
ReachedSettles ==
    <>[](\A k \in DOMAIN shown :
            Reached(k) /\ MayFollow(k) => shown[k].status = flares[shown[k].id].status)
=============================================================================
