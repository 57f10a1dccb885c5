------------------------ MODULE FlareTrackingProofs -------------------------
(***************************************************************************)
(* FlareTracking for any number of persons, flares, requests and answers,  *)
(* and the chains of SessionTokens at any length.                          *)
(***************************************************************************)
EXTENDS FlareTracking, SequenceTheorems, TLAPS

-----------------------------------------------------------------------------
(* Delegation chains *)

Grant(role, chain) == [role |-> role, chain |-> chain]

\* What a chain should mean: each issuer stands strictly above the next and
\* the last above the token's role, so two issuers are the most there can be;
\* nobody passes on the role of a member.
Descends(role, chain) ==
    /\ \A i, j \in DOMAIN chain : i < j => Level(chain[i]) < Level(chain[j])
    /\ \A i \in DOMAIN chain : Level(chain[i]) < Level(role)
    /\ Len(chain) <= 2
    /\ chain # << >> => role # VerifiedMember

LEMMA DelegatesDown ==
    ASSUME NEW r \in Role, NEW s \in CanDelegateTo(r)
    PROVE  /\ s \in Role /\ s # VerifiedMember /\ Level(r) < Level(s)
           /\ Level(r) \in 0..1 /\ Level(s) \in 1..2
BY DEF CanDelegateTo, Role, Level, GlobalAdmin, RegionalAdmin, BranchClergy, VerifiedMember

LEMMA LevelType == \A r \in Role : Level(r) \in 0..3
BY DEF Role, Level

\* A chain that is accepted descends from issuer to issuer: the checks of
\* neighbours, the one of the last and the limit of five together leave no way
\* round the hierarchy, whatever the length.
THEOREM AcceptedChainDescends ==
    ASSUME NEW role \in Role, NEW chain \in Seq(Role),
           VerifyDelegationChain(Grant(role, chain))
    PROVE  Descends(role, chain)
<1> DEFINE n == Len(chain)
<1>1. n \in Nat /\ DOMAIN chain = 1..n /\ \A i \in 1..n : chain[i] \in Role
  OBVIOUS
<1>2. Grant(role, chain).chain = chain /\ Grant(role, chain).role = role
  BY DEF Grant
<1>3. CASE n = 0
  BY <1>1, <1>3 DEF Descends
<1>4. CASE n # 0
  <2>1. /\ \A i \in 1..(n - 1) : chain[i + 1] \in CanDelegateTo(chain[i])
        /\ role \in CanDelegateTo(chain[n])
    BY <1>2, <1>4 DEF VerifyDelegationChain
  <2>2. Level(chain[n]) \in 0..1 /\ Level(chain[n]) < Level(role) /\ role # VerifiedMember
    BY <1>1, <1>4, <2>1, DelegatesDown
  <2>3. \A i \in 1..(n - 1) : /\ Level(chain[i]) < Level(chain[i + 1])
                              /\ Level(chain[i]) \in 0..1 /\ Level(chain[i + 1]) \in 1..2
    <3>1. TAKE i \in 1..(n - 1)
    <3>2. i \in 1..n /\ i + 1 \in 1..n
      BY <1>1
    <3>3. chain[i] \in Role /\ chain[i + 1] \in CanDelegateTo(chain[i])
      BY <1>1, <2>1, <3>2
    <3>4. QED BY <3>3, DelegatesDown
  <2>4. n <= 2
    <3>1. SUFFICES ASSUME n > 2 PROVE FALSE
      BY <1>1
    <3>2. 1 \in 1..(n - 1) /\ 2 \in 1..(n - 1)
      BY <1>1, <3>1
    <3>3. Level(chain[1]) < Level(chain[2]) /\ Level(chain[1]) \in 0..1 /\ Level(chain[2]) \in 0..1
      BY <2>3, <3>2
    <3>4. Level(chain[2]) < Level(chain[3]) /\ Level(chain[3]) \in 1..2
      BY <2>3, <3>2
    <3>5. Level(chain[3]) \in 0..1
      <4>1. CASE n = 3
        BY <2>2, <4>1
      <4>2. CASE n > 3
        <5>1. 3 \in 1..(n - 1)
          BY <1>1, <4>2
        <5>2. QED BY <2>3, <5>1
      <4>3. QED BY <1>1, <3>1, <4>1, <4>2
    <3>6. QED BY <3>3, <3>4, <3>5
  <2>5. \A i, j \in DOMAIN chain : i < j => Level(chain[i]) < Level(chain[j])
    <3>1. \A i, j \in 1..n : i < j => i = 1 /\ j = i + 1 /\ i \in 1..(n - 1)
      BY <1>1, <2>4
    <3>2. QED BY <1>1, <2>3, <3>1
  <2>6. \A i \in DOMAIN chain : Level(chain[i]) < Level(role)
    <3>1. TAKE i \in DOMAIN chain
    <3>2. CASE i = n
      BY <2>2, <3>2
    <3>3. CASE i # n
      <4>1. i = 1 /\ n = 2 /\ i \in 1..(n - 1)
        BY <1>1, <2>4, <3>3
      <4>2. Level(chain[1]) < Level(chain[2]) /\ Level(chain[2]) < Level(role)
        BY <2>2, <2>3, <4>1
      <4>3. Level(chain[1]) \in 0..3 /\ Level(chain[2]) \in 0..3 /\ Level(role) \in 0..3
        BY <1>1, <4>1, LevelType
      <4>4. QED BY <4>1, <4>2, <4>3
    <3>4. QED BY <3>2, <3>3
  <2>7. QED BY <2>2, <2>4, <2>5, <2>6 DEF Descends
<1>5. QED BY <1>3, <1>4

\* What build_delegation_chain makes of an accepted token is accepted again,
\* for the roles its holder may delegate to and for no other.
THEOREM BuiltChainIsAccepted ==
    ASSUME NEW holder \in Role, NEW role \in Role, NEW chain \in Seq(Role),
           VerifyDelegationChain(Grant(holder, chain))
    PROVE  VerifyDelegationChain(Grant(role, BuildDelegationChain(Grant(holder, chain))))
              <=> role \in CanDelegateTo(holder)
<1> DEFINE n     == Len(chain)
           built == Append(chain, holder)
<1>1. /\ n \in Nat /\ DOMAIN chain = 1..n
      /\ Len(built) = n + 1
      /\ \A i \in 1..n : built[i] = chain[i]
      /\ built[n + 1] = holder
  OBVIOUS
<1>2. BuildDelegationChain(Grant(holder, chain)) = built
  BY DEF BuildDelegationChain, Grant
<1>3. /\ Grant(holder, chain).chain = chain /\ Grant(holder, chain).role = holder
      /\ Grant(role, built).chain = built /\ Grant(role, built).role = role
  BY DEF Grant
<1>4. n <= 2
  BY AcceptedChainDescends DEF Descends
<1>5. \A i \in 1..n : built[i + 1] \in CanDelegateTo(built[i])
  <2>1. TAKE i \in 1..n
  <2>2. n # 0 => /\ \A k \in 1..(n - 1) : chain[k + 1] \in CanDelegateTo(chain[k])
                 /\ holder \in CanDelegateTo(chain[n])
    BY <1>3 DEF VerifyDelegationChain
  <2>3. CASE i = n
    BY <1>1, <2>2, <2>3
  <2>4. CASE i # n
    <3>0. \A m \in Nat : \A k \in 1..m : k # m => k \in 1..(m - 1) /\ k + 1 \in 1..m
      OBVIOUS
    <3>1. i \in 1..(n - 1) /\ i + 1 \in 1..n
      BY <1>1, <2>4, <3>0, Zenon
    <3>2. QED BY <1>1, <2>2, <3>1
  <2>5. QED BY <2>3, <2>4
<1> HIDE DEF built
<1>6. VerifyDelegationChain(Grant(role, built)) <=>
         \/ Len(built) = 0
         \/ /\ Len(built) <= 5
            /\ \A i \in 1..(Len(built) - 1) : built[i + 1] \in CanDelegateTo(built[i])
            /\ role \in CanDelegateTo(built[Len(built)])
  BY <1>3 DEF VerifyDelegationChain
<1>7. QED BY <1>1, <1>2, <1>4, <1>5, <1>6

-----------------------------------------------------------------------------
(* Types *)

LEMMA UserType ==
    ASSUME NEW t \in Claims \cup {NoToken}, NEW time
    PROVE  AuthenticatedUser(t, time) \in Person \cup {NoUser}
BY DEF AuthenticatedUser, Claims

LEMMA TokenType ==
    ASSUME NEW p \in Person, NEW time \in Nat
    PROVE  IssueToken(p, RoleOf[p], << >>, time) \in Claims
<1>1. RoleOf[p] \in Role
  BY TrackingAssumption
<1>2. TokenLifetime(RoleOf[p]) \in Nat
  BY DEF TokenLifetime
<1>3. QED BY <1>1, <1>2 DEF IssueToken, Claims

\* One request goes on, the table of flares does not shrink.
LEMMA CallStep ==
    ASSUME TypeOK, NEW c \in Call, NEW r, calls' = [calls EXCEPT ![c] = r],
           r \in CallRecord \cup {Idle},
           r # Idle /\ (r.kind = "refresh" \/ r.at # "sent") => r.id \in DOMAIN flares',
           DOMAIN flares \subseteq DOMAIN flares'
    PROVE  /\ calls' \in [Call -> CallRecord \cup {Idle}]
           /\ \A d \in Call : calls'[d] # Idle
                 /\ (calls'[d].kind = "refresh" \/ calls'[d].at # "sent") =>
                       calls'[d].id \in DOMAIN flares'
<1>1. calls \in [Call -> CallRecord \cup {Idle}]
  BY DEF TypeOK
<1>2. \A d \in Call : calls'[d] = IF d = c THEN r ELSE calls[d]
  BY <1>1
<1>3. calls' \in [Call -> CallRecord \cup {Idle}]
  BY <1>1
<1>4. QED BY <1>2, <1>3 DEF TypeOK

LEMMA InitType == Init => TypeOK
BY DEF Init, TypeOK

LEMMA SessionType ==
    ASSUME TypeOK, (\E p \in Person : Login(p)) \/ Logout \/ Restart \/ Tick
    PROVE  TypeOK'
<1>1. CASE \E p \in Person : Login(p)
  <2>1. token' \in Claims
    BY <1>1, TokenType DEF Login, TypeOK
  <2>2. QED BY <1>1, <2>1 DEF Login, TypeOK
<1>2. CASE Logout
  BY <1>2 DEF Logout, TypeOK
<1>3. CASE Restart
  BY <1>3 DEF Restart, TypeOK
<1>4. CASE Tick
  BY <1>4 DEF Tick, TypeOK
<1>5. QED BY <1>1, <1>2, <1>3, <1>4

\* Who a flare belongs to.
LEMMA StoredLemma ==
    ASSUME TypeOK, NEW c \in Call, ServeSubmit(c)
    PROVE  LET owner == AuthenticatedUser(calls[c].token, now)
               n     == Len(flares)
           IN /\ n \in Nat /\ DOMAIN flares = 1..n /\ DOMAIN carried = 1..n
              /\ owner \in Person \cup {NoUser} /\ calls[c].token \in Claims \cup {NoToken}
              /\ flares' \in Seq(FlareRecord) /\ carried' \in Seq(Claims \cup {NoToken})
              /\ DOMAIN flares' = 1..(n + 1) /\ DOMAIN carried' = 1..(n + 1)
              /\ \A i \in 1..n : flares'[i] = flares[i] /\ carried'[i] = carried[i]
              /\ flares'[n + 1] = [owner |-> owner, status |-> "queued"]
              /\ carried'[n + 1] = calls[c].token
              /\ Len(carried') = Len(flares')
<1> DEFINE owner == AuthenticatedUser(calls[c].token, now)
<1>1. calls[c] \in CallRecord
  BY DEF TypeOK, ServeSubmit, Is
<1>2. calls[c].token \in Claims \cup {NoToken}
  BY <1>1 DEF CallRecord
<1>3. owner \in Person \cup {NoUser}
  BY <1>2, UserType
<1>4. /\ flares' = Append(flares, [owner |-> owner, status |-> "queued"])
      /\ carried' = Append(carried, calls[c].token)
  BY DEF ServeSubmit, Owner
<1> HIDE DEF owner
<1>5. [owner |-> owner, status |-> "queued"] \in FlareRecord
  BY <1>3 DEF FlareRecord, Status
<1>6. /\ flares \in Seq(FlareRecord) /\ carried \in Seq(Claims \cup {NoToken})
      /\ Len(carried) = Len(flares)
  BY DEF TypeOK
<1>7. /\ Len(flares) \in Nat /\ DOMAIN flares = 1..Len(flares) /\ DOMAIN carried = 1..Len(flares)
      /\ flares' \in Seq(FlareRecord) /\ carried' \in Seq(Claims \cup {NoToken})
      /\ DOMAIN flares' = 1..(Len(flares) + 1) /\ DOMAIN carried' = 1..(Len(flares) + 1)
      /\ \A i \in 1..Len(flares) : flares'[i] = flares[i] /\ carried'[i] = carried[i]
      /\ flares'[Len(flares) + 1] = [owner |-> owner, status |-> "queued"]
      /\ carried'[Len(flares) + 1] = calls[c].token
      /\ Len(carried') = Len(flares')
  BY <1>2, <1>4, <1>5, <1>6
<1>8. QED BY <1>2, <1>3, <1>7 DEF owner

LEMMA SubmitType ==
    ASSUME TypeOK, NEW c \in Call, SubmitFlare(c) \/ ServeSubmit(c) \/ SubmitArrives(c)
    PROVE  TypeOK'
<1>0. "queued" \in Status /\ FALSE \in BOOLEAN /\ 0 \in Nat /\ NoToken \in Claims \cup {NoToken}
  BY DEF Status
<1>1. CASE SubmitFlare(c)
  <2> DEFINE r == Request("submit", "sent", token, 0, "queued", FALSE)
  <2>1. r \in CallRecord /\ r.kind = "submit" /\ r.at = "sent"
    <3>1. token \in Claims \cup {NoToken}
      BY DEF TypeOK
    <3>2. QED BY <1>0, <3>1 DEF Request, CallRecord
  <2>2. calls' = [calls EXCEPT ![c] = r] /\ UNCHANGED <<now, flares, token, shown, logins, carried>>
    BY <1>1 DEF SubmitFlare
  <2> HIDE DEF r
  <2>3. QED BY <2>1, <2>2, CallStep DEF TypeOK
<1>2. CASE ServeSubmit(c)
  <2> DEFINE r == Request("submit", "answered", NoToken, Len(flares) + 1, "queued", FALSE)
             n == Len(flares)
  <2>1. /\ n \in Nat /\ DOMAIN flares = 1..n /\ DOMAIN flares' = 1..(n + 1)
        /\ flares' \in Seq(FlareRecord) /\ carried' \in Seq(Claims \cup {NoToken})
        /\ Len(carried') = Len(flares')
    BY <1>2, StoredLemma
  <2>2. r \in CallRecord /\ r.id = n + 1
    <3>1. n + 1 \in Nat
      BY <2>1
    <3>2. QED BY <1>0, <3>1 DEF Request, CallRecord
  <2>3. calls' = [calls EXCEPT ![c] = r] /\ UNCHANGED <<now, token, shown, logins>>
    BY <1>2 DEF ServeSubmit
  <2> HIDE DEF r
  <2>4. /\ n + 1 \in DOMAIN flares' /\ DOMAIN flares \subseteq DOMAIN flares'
    BY <2>1
  <2>5. QED BY <2>1, <2>2, <2>3, <2>4, CallStep DEF TypeOK
<1>3. CASE SubmitArrives(c)
  <2>1. calls[c] \in CallRecord /\ calls[c].id \in DOMAIN flares
    BY <1>3 DEF TypeOK, SubmitArrives, Is
  <2>2. [id |-> calls[c].id, status |-> "queued"] \in [id : Nat, status : Status]
    BY <1>0, <2>1 DEF CallRecord
  <2>3. shown' = <<[id |-> calls[c].id, status |-> "queued"]>> \o shown
    BY <1>3 DEF SubmitArrives
  <2>4. shown \in Seq([id : Nat, status : Status])
    BY DEF TypeOK
  <2>5. /\ shown' \in Seq([id : Nat, status : Status])
        /\ \A k \in DOMAIN shown' : \/ shown'[k].id = calls[c].id
                                    \/ \E j \in DOMAIN shown : shown'[k] = shown[j]
    BY <2>2, <2>3, <2>4
  <2>6. calls' = [calls EXCEPT ![c] = Idle] /\ UNCHANGED <<now, flares, token, logins, carried>>
    BY <1>3 DEF SubmitArrives
  <2>7. \A k \in DOMAIN shown' : shown'[k].id \in DOMAIN flares'
    BY <2>1, <2>5, <2>6 DEF TypeOK
  <2>8. QED BY <2>5, <2>6, <2>7, CallStep DEF TypeOK
<1>4. QED BY <1>1, <1>2, <1>3

\* A later status of one flare.
LEMMA AdvanceLemma ==
    ASSUME TypeOK, NEW i \in DOMAIN flares, Advance(i)
    PROVE  /\ flares' \in Seq(FlareRecord) /\ DOMAIN flares' = DOMAIN flares
           /\ Len(flares') = Len(flares)
           /\ \A j \in DOMAIN flares : /\ flares'[j].owner = flares[j].owner
                                       /\ Rank(flares[j].status) <= Rank(flares'[j].status)
<1>1. PICK status \in Status :
         /\ Rank(status) > Rank(flares[i].status)
         /\ flares' = [flares EXCEPT ![i] = [owner |-> flares[i].owner, status |-> status]]
  BY DEF Advance
<1>2. flares \in Seq(FlareRecord) /\ flares[i].owner \in Person \cup {NoUser}
  <2>1. flares \in Seq(FlareRecord) /\ flares[i] \in FlareRecord
    BY DEF TypeOK
  <2>2. QED BY <2>1 DEF FlareRecord
<1>3. [owner |-> flares[i].owner, status |-> status] \in FlareRecord
  BY <1>2 DEF FlareRecord
<1>4. /\ flares' \in Seq(FlareRecord) /\ Len(flares') = Len(flares)
      /\ DOMAIN flares' = DOMAIN flares
      /\ flares'[i] = [owner |-> flares[i].owner, status |-> status]
      /\ \A j \in DOMAIN flares : j # i => flares'[j] = flares[j]
  BY <1>1, <1>2, <1>3
<1>5. \A s : Rank(s) \in 0..2
  BY DEF Rank
<1>6. QED BY <1>1, <1>4, <1>5

LEMMA AdvanceType ==
    ASSUME TypeOK, NEW i \in DOMAIN flares, Advance(i)
    PROVE  TypeOK'
<1>1. UNCHANGED <<now, token, shown, calls, logins, carried>>
  BY DEF Advance
<1>2. QED BY <1>1, AdvanceLemma DEF TypeOK

\* The answer to a refresh.
LEMMA AnswerLemma ==
    ASSUME TypeOK, NEW c \in Call, GetFlareStatus(c)
    PROVE  LET r    == calls'[c]
               id   == calls[c].id
               user == AuthenticatedUser(calls[c].token, now)
           IN /\ id \in DOMAIN flares
              /\ calls[c].token \in Claims \cup {NoToken}
              /\ user \in Person \cup {NoUser}
              /\ calls' = [calls EXCEPT ![c] = r]
              /\ r \in CallRecord /\ r.kind = "refresh" /\ r.id = id /\ r.late = FALSE
              /\ \/ r.at = "answered" /\ r.status = flares[id].status
                 \/ /\ r.at = "refused" /\ r.token = calls[c].token
                    /\ ~Permitted(user, flares[id])
<1> DEFINE id    == calls[c].id
           user  == AuthenticatedUser(calls[c].token, now)
           yes   == Request("refresh", "answered", NoToken, id, flares[id].status, FALSE)
           no    == Request("refresh", "refused", calls[c].token, id, "queued", FALSE)
<1>1. calls[c] \in CallRecord /\ id \in DOMAIN flares
  BY DEF TypeOK, GetFlareStatus, Is
<1>2. /\ calls[c].token \in Claims \cup {NoToken} /\ id \in Nat
      /\ flares[id].status \in Status /\ "queued" \in Status
  <2>1. flares[id] \in FlareRecord
    BY <1>1 DEF TypeOK
  <2>2. QED BY <1>1, <2>1 DEF CallRecord, FlareRecord, Status
<1>3. user \in Person \cup {NoUser}
  BY <1>2, UserType
<1>4. /\ yes \in CallRecord /\ yes.kind = "refresh" /\ yes.at = "answered"
      /\ yes.id = id /\ yes.status = flares[id].status /\ yes.late = FALSE
  <2>1. FALSE \in BOOLEAN /\ NoToken \in Claims \cup {NoToken}
    OBVIOUS
  <2>2. QED BY <1>2, <2>1 DEF Request, CallRecord
<1>5. /\ no \in CallRecord /\ no.kind = "refresh" /\ no.at = "refused"
      /\ no.id = id /\ no.token = calls[c].token /\ no.late = FALSE
  <2>1. FALSE \in BOOLEAN
    OBVIOUS
  <2>2. QED BY <1>2, <2>1 DEF Request, CallRecord
<1>6. calls' = IF Permitted(user, flares[id]) THEN [calls EXCEPT ![c] = yes]
               ELSE [calls EXCEPT ![c] = no]
  BY Zenon DEF GetFlareStatus
<1>7. calls \in [Call -> CallRecord \cup {Idle}]
  BY DEF TypeOK
<1> HIDE DEF id, user, yes, no
<1>8. CASE Permitted(user, flares[id])
  <2>1. calls' = [calls EXCEPT ![c] = yes] /\ calls'[c] = yes
    BY <1>6, <1>7, <1>8
  <2>2. QED BY <1>1, <1>2, <1>3, <1>4, <2>1 DEF id, user
<1>9. CASE ~Permitted(user, flares[id])
  <2>1. calls' = [calls EXCEPT ![c] = no] /\ calls'[c] = no
    BY <1>6, <1>7, <1>9
  <2>2. QED BY <1>1, <1>2, <1>3, <1>5, <1>9, <2>1 DEF id, user
<1>10. QED BY <1>8, <1>9

\* An answer that arrives gives its flare the status it brings.
LEMMA ArrivalShows ==
    ASSUME NEW c, RefreshArrives(c)
    PROVE  /\ DOMAIN shown' = DOMAIN shown
           /\ \A k \in DOMAIN shown :
                 /\ shown'[k].id = shown[k].id
                 /\ shown'[k].status = IF shown[k].id = calls[c].id
                                       THEN calls[c].status ELSE shown[k].status
<1>1. shown' = Updated(calls[c].id, calls[c].status)
  BY Zenon DEF RefreshArrives
<1>2. QED BY <1>1 DEF Updated

\* From then on what other requests bring of that flare is late.
LEMMA ArrivalMakesLate ==
    ASSUME NEW c \in Call, RefreshArrives(c)
    PROVE  /\ calls'[c] = Idle
           /\ \A d \in Call \ {c} :
                 \/ calls'[d] = calls[d]
                    /\ ~(Is(d, "refresh", "answered") /\ calls[d].id = calls[c].id)
                 \/ /\ Is(d, "refresh", "answered") /\ calls[d].id = calls[c].id
                    /\ calls'[d].kind = "refresh" /\ calls'[d].at = "answered"
                    /\ calls'[d].id = calls[d].id /\ calls'[d].status = calls[d].status
                    /\ calls'[d].late = TRUE
<1>1. calls' = [d \in Call |->
                  IF d = c THEN Idle
                  ELSE IF Is(d, "refresh", "answered") /\ calls[d].id = calls[c].id
                  THEN Request("refresh", "answered", NoToken, calls[d].id, calls[d].status, TRUE)
                  ELSE calls[d]]
  BY Zenon DEF RefreshArrives
<1>2. calls'[c] = Idle
  BY <1>1
<1>3. ASSUME NEW d \in Call \ {c},
             ~(Is(d, "refresh", "answered") /\ calls[d].id = calls[c].id)
      PROVE  calls'[d] = calls[d]
  BY <1>1, <1>3
<1>4. ASSUME NEW d \in Call \ {c}, Is(d, "refresh", "answered"), calls[d].id = calls[c].id
      PROVE  /\ calls'[d].kind = "refresh" /\ calls'[d].at = "answered"
             /\ calls'[d].id = calls[d].id /\ calls'[d].status = calls[d].status
             /\ calls'[d].late = TRUE
  <2>1. calls'[d] = Request("refresh", "answered", NoToken, calls[d].id, calls[d].status, TRUE)
    BY <1>1, <1>4
  <2>2. QED BY <2>1 DEF Request
<1>5. QED BY <1>2, <1>3, <1>4

LEMMA ArrivalLemma ==
    ASSUME TypeOK, NEW c \in Call, RefreshArrives(c)
    PROVE  LET id     == calls[c].id
               status == calls[c].status
           IN /\ id \in DOMAIN flares /\ status \in Status
              /\ shown' \in Seq([id : Nat, status : Status])
              /\ DOMAIN shown' = DOMAIN shown
              /\ \A k \in DOMAIN shown :
                    /\ shown'[k].id = shown[k].id
                    /\ shown'[k].status = IF shown[k].id = id THEN status ELSE shown[k].status
              /\ calls' \in [Call -> CallRecord \cup {Idle}]
              /\ calls'[c] = Idle
              /\ \A d \in Call \ {c} :
                    \/ calls'[d] = calls[d]
                       /\ ~(Is(d, "refresh", "answered") /\ calls[d].id = id)
                    \/ /\ Is(d, "refresh", "answered") /\ calls[d].id = id
                       /\ calls'[d] \in CallRecord
                       /\ calls'[d].kind = "refresh" /\ calls'[d].at = "answered"
                       /\ calls'[d].id = id /\ calls'[d].status = calls[d].status
                       /\ calls'[d].late = TRUE
<1> DEFINE id     == calls[c].id
           status == calls[c].status
<1>1. calls \in [Call -> CallRecord \cup {Idle}] /\ calls[c] \in CallRecord /\ id \in DOMAIN flares
  BY DEF TypeOK, RefreshArrives, Is
<1>2. status \in Status
  BY <1>1 DEF CallRecord
<1>3. shown' = Updated(id, status)
  BY DEF RefreshArrives
<1>4. /\ shown \in Seq([id : Nat, status : Status])
  BY DEF TypeOK
<1>5. \A k \in DOMAIN shown : shown[k] \in [id : Nat, status : Status]
  BY <1>4, ElementOfSeq, LenProperties
<1>6. /\ DOMAIN shown' = DOMAIN shown
      /\ \A k \in DOMAIN shown :
            /\ shown'[k] \in [id : Nat, status : Status]
            /\ shown'[k].id = shown[k].id
            /\ shown'[k].status = IF shown[k].id = id THEN status ELSE shown[k].status
  BY <1>2, <1>3, <1>5 DEF Updated
<1>7. shown' \in Seq([id : Nat, status : Status])
  <2> DEFINE S == [id : Nat, status : Status]
  <2>1. DOMAIN shown = 1..Len(shown) /\ Len(shown) \in Nat
    BY <1>4
  <2>2. shown' \in [1..Len(shown) -> S]
    <3>1. shown' = [k \in DOMAIN shown |-> shown'[k]]
      BY <1>3 DEF Updated
    <3>2. QED BY <1>6, <2>1, <3>1
  <2> HIDE DEF S
  <2>3. shown' \in Seq(S)
    BY <2>1, <2>2, SeqDef
  <2>4. QED BY <2>3 DEF S
<1>8. calls' = [d \in Call |->
                  IF d = c THEN Idle
                  ELSE IF Is(d, "refresh", "answered") /\ calls[d].id = id
                  THEN Request("refresh", "answered", NoToken, calls[d].id, calls[d].status, TRUE)
                  ELSE calls[d]]
  BY Zenon DEF RefreshArrives
<1>9. calls'[c] = Idle
  BY <1>8
<1>10. ASSUME NEW d \in Call \ {c}
       PROVE  /\ calls'[d] \in CallRecord \cup {Idle}
              /\ \/ calls'[d] = calls[d] /\ ~(Is(d, "refresh", "answered") /\ calls[d].id = id)
                 \/ /\ Is(d, "refresh", "answered") /\ calls[d].id = id
                    /\ calls'[d] \in CallRecord
                    /\ calls'[d].kind = "refresh" /\ calls'[d].at = "answered"
                    /\ calls'[d].id = id /\ calls'[d].status = calls[d].status
                    /\ calls'[d].late = TRUE
  <2>1. CASE ~(Is(d, "refresh", "answered") /\ calls[d].id = id)
    <3>1. calls'[d] = calls[d]
      BY <1>8, <2>1
    <3>2. QED BY <1>1, <2>1, <3>1
  <2>2. CASE Is(d, "refresh", "answered") /\ calls[d].id = id
    <3> DEFINE r == Request("refresh", "answered", NoToken, calls[d].id, calls[d].status, TRUE)
    <3>1. calls'[d] = r
      BY <1>8, <2>2
    <3>2. calls[d] \in CallRecord
      BY <1>1, <2>2 DEF Is
    <3>3. calls[d].id \in Nat /\ calls[d].status \in Status
      BY <3>2 DEF CallRecord
    <3>4. /\ r \in CallRecord /\ r.kind = "refresh" /\ r.at = "answered"
          /\ r.id = calls[d].id /\ r.status = calls[d].status /\ r.late = TRUE
      <4>1. TRUE \in BOOLEAN /\ NoToken \in Claims \cup {NoToken}
        OBVIOUS
      <4>2. QED BY <3>3, <4>1 DEF Request, CallRecord
    <3> HIDE DEF r
    <3>5. QED BY <2>2, <3>1, <3>4
  <2>3. QED BY <2>1, <2>2
<1>11. calls' \in [Call -> CallRecord \cup {Idle}]
  <2>1. calls' = [d \in Call |-> calls'[d]]
    BY <1>8
  <2>2. \A d \in Call : calls'[d] \in CallRecord \cup {Idle}
    BY <1>9, <1>10
  <2>3. QED BY <2>1, <2>2
<1>12. QED BY <1>1, <1>2, <1>6, <1>7, <1>9, <1>10, <1>11

LEMMA FollowType ==
    ASSUME TypeOK, NEW c \in Call,
           \/ TimerFires(c) \/ GetFlareStatus(c) \/ RefreshArrives(c)
           \/ RefusalArrives(c) \/ Fails(c)
    PROVE  TypeOK'
<1>1. CASE TimerFires(c)
  <2>1. PICK k \in DOMAIN shown :
           calls' = [calls EXCEPT ![c] = Request("refresh", "sent", token, shown[k].id, "queued", FALSE)]
    BY <1>1, Zenon DEF TimerFires
  <2> DEFINE r == Request("refresh", "sent", token, shown[k].id, "queued", FALSE)
  <2>2. shown[k].id \in DOMAIN flares /\ shown[k].id \in Nat
    BY DEF TypeOK
  <2>3. r \in CallRecord /\ r.id = shown[k].id
    <3>1. token \in Claims \cup {NoToken} /\ "queued" \in Status /\ FALSE \in BOOLEAN
      BY DEF TypeOK, Status
    <3>2. QED BY <2>2, <3>1 DEF Request, CallRecord
  <2>4. calls' = [calls EXCEPT ![c] = r] /\ UNCHANGED <<now, flares, token, shown, logins, carried>>
    BY <1>1, <2>1, Zenon DEF TimerFires
  <2> HIDE DEF r
  <2>5. QED BY <2>2, <2>3, <2>4, CallStep DEF TypeOK
<1>2. CASE GetFlareStatus(c)
  <2>1. UNCHANGED <<now, flares, token, shown, logins, carried>>
    BY <1>2, Zenon DEF GetFlareStatus
  <2>2. /\ calls' = [calls EXCEPT ![c] = calls'[c]]
        /\ calls'[c] \in CallRecord /\ calls'[c].id \in DOMAIN flares
    BY <1>2, AnswerLemma
  <2>3. PICK r : r = calls'[c]
    OBVIOUS
  <2>4. QED BY <2>1, <2>2, <2>3, CallStep DEF TypeOK
<1>3. CASE RefreshArrives(c)
  <2>1. UNCHANGED <<now, flares, token, logins, carried>>
    BY <1>3, Zenon DEF RefreshArrives
  <2>2. \A d \in Call : calls'[d] # Idle =>
           \/ calls'[d] = calls[d]
           \/ calls'[d].id \in DOMAIN flares
    BY <1>3, ArrivalLemma
  <2>3. \A d \in Call : calls'[d] # Idle /\ (calls'[d].kind = "refresh" \/ calls'[d].at # "sent") =>
           calls'[d].id \in DOMAIN flares
    BY <2>2 DEF TypeOK
  <2>4. /\ shown' \in Seq([id : Nat, status : Status])
        /\ \A k \in DOMAIN shown' : shown'[k].id \in DOMAIN flares
        /\ calls' \in [Call -> CallRecord \cup {Idle}]
    BY <1>3, ArrivalLemma DEF TypeOK
  <2>5. QED BY <2>1, <2>3, <2>4 DEF TypeOK
<1>4. CASE RefusalArrives(c) \/ Fails(c)
  <2>1. calls' = [calls EXCEPT ![c] = Idle] /\ UNCHANGED <<now, flares, token, shown, logins, carried>>
    BY <1>4, Zenon DEF RefusalArrives, Fails
  <2>2. QED BY <2>1, CallStep DEF TypeOK
<1>5. QED BY <1>1, <1>2, <1>3, <1>4

LEMMA NextType == TypeOK /\ [Next]_vars => TypeOK'
<1> SUFFICES ASSUME TypeOK, [Next]_vars PROVE TypeOK'
  OBVIOUS
<1>1. CASE UNCHANGED vars
  BY <1>1 DEF vars, TypeOK
<1>2. QED BY <1>1, SessionType, SubmitType, AdvanceType, FollowType DEF Next

\* What is shown and what is under way speaks of flares that are stored.
THEOREM TypeCorrect == Spec => []TypeOK
<1>1. QED BY InitType, NextType, PTL DEF Spec

-----------------------------------------------------------------------------
(* Steps, as the invariants see them *)

\* The request at c becomes r, the others stay.
Becomes(c, r) ==
    /\ calls'[c] = r
    /\ \A d \in Call \ {c} : calls'[d] = calls[d]

\* Nothing is answered and no flare stored or advanced: requests start or end.
Quiet ==
    /\ UNCHANGED <<flares, carried>>
    /\ now \in Nat /\ now' \in Nat /\ now <= now'
    /\ shown' = shown \/ DOMAIN shown' = {}
    /\ \A c \in Call : \/ calls'[c] = calls[c]
                       \/ calls'[c] = Idle
                       \/ calls'[c].at = "sent"

LEMMA QuietSteps ==
    ASSUME TypeOK,
           \/ UNCHANGED vars
           \/ \E p \in Person : Login(p)
           \/ Logout \/ Restart \/ Tick
           \/ \E c \in Call : SubmitFlare(c) \/ TimerFires(c) \/ RefusalArrives(c) \/ Fails(c)
    PROVE  Quiet
<1>0. calls \in [Call -> CallRecord \cup {Idle}] /\ now \in Nat
  BY DEF TypeOK
<1>1. CASE UNCHANGED vars \/ (\E p \in Person : Login(p)) \/ Logout
  <2>1. UNCHANGED <<now, flares, shown, calls, carried>>
    BY <1>1, Zenon DEF vars, Login, Logout
  <2>2. QED BY <1>0, <2>1 DEF Quiet
<1>2. CASE Restart
  BY <1>0, <1>2 DEF Restart, Quiet
<1>3. CASE Tick
  BY <1>0, <1>3 DEF Tick, Quiet
<1>4. ASSUME NEW c \in Call, SubmitFlare(c) \/ TimerFires(c) \/ RefusalArrives(c) \/ Fails(c)
      PROVE  Quiet
  <2>1. UNCHANGED <<now, flares, shown, carried>>
    BY <1>4, Zenon DEF SubmitFlare, TimerFires, RefusalArrives, Fails
  <2>2. PICK r : calls' = [calls EXCEPT ![c] = r] /\ (r = Idle \/ r.at = "sent")
    <3>1. \A kind, t, id, status, late : Request(kind, "sent", t, id, status, late).at = "sent"
      BY DEF Request
    <3>2. \/ calls' = [calls EXCEPT ![c] = Idle]
          \/ \E kind, t, id, status, late :
                calls' = [calls EXCEPT ![c] = Request(kind, "sent", t, id, status, late)]
      BY <1>4, Zenon DEF SubmitFlare, TimerFires, RefusalArrives, Fails
    <3>3. QED BY <3>1, <3>2
  <2>3. \A d \in Call : calls'[d] = IF d = c THEN r ELSE calls[d]
    BY <1>0, <2>2
  <2>4. QED BY <1>0, <2>1, <2>2, <2>3 DEF Quiet
<1>5. QED BY <1>1, <1>2, <1>3, <1>4

\* The other steps of a request.
LEMMA OneCall ==
    ASSUME TypeOK, NEW c \in Call, NEW r, calls' = [calls EXCEPT ![c] = r]
    PROVE  Becomes(c, r)
BY DEF TypeOK, Becomes

-----------------------------------------------------------------------------
(* Whose flare it is *)

\* A token that is none, or not accepted any more.
Void(t) == t = NoToken \/ ~ValidateToken(t, now)

OwnersKnown ==
    \A i \in DOMAIN flares :
        \/ flares[i].owner = NoUser /\ Void(carried[i])
        \/ /\ flares[i].owner # NoUser
           /\ carried[i] # NoToken /\ flares[i].owner = carried[i].sub

RefusalsJustified ==
    \A c \in Call : Is(c, "refresh", "refused") =>
        \/ calls[c].token # carried[calls[c].id]
        \/ calls[c].token # NoToken /\ ~ValidateToken(calls[c].token, now)

OwnerInv == TypeOK /\ OwnersKnown /\ RefusalsJustified

\* Time makes no token good again.
LEMMA StaysVoid ==
    ASSUME NEW t \in Claims, NEW a \in Nat, NEW b \in Nat, a <= b, ~ValidateToken(t, a)
    PROVE  ~ValidateToken(t, b)
BY DEF ValidateToken, Claims

LEMMA TokenTypes ==
    ASSUME TypeOK
    PROVE  /\ \A i \in DOMAIN flares : carried[i] \in Claims \cup {NoToken}
           /\ \A c \in Call : calls[c] # Idle => calls[c].token \in Claims \cup {NoToken}
<1>1. DOMAIN flares = DOMAIN carried /\ carried \in Seq(Claims \cup {NoToken})
  BY DEF TypeOK
<1>2. \A i \in DOMAIN carried : carried[i] \in Claims \cup {NoToken}
  BY <1>1, ElementOfSeq, LenProperties
<1>3. \A c \in Call : calls[c] # Idle => calls[c] \in CallRecord
  BY DEF TypeOK
<1>4. QED BY <1>1, <1>2, <1>3 DEF CallRecord

LEMMA OwnersInTime ==
    ASSUME OwnerInv, TypeOK', now <= now', UNCHANGED <<flares, carried>>
    PROVE  OwnersKnown'
<1>1. now \in Nat /\ now' \in Nat /\ \A i \in DOMAIN flares : carried[i] \in Claims \cup {NoToken}
  BY TokenTypes DEF OwnerInv, TypeOK
<1>2. \A i \in DOMAIN flares : Void(carried[i]) =>
         carried'[i] = NoToken \/ ~ValidateToken(carried'[i], now')
  BY <1>1, StaysVoid DEF Void
<1>3. QED BY <1>2 DEF OwnerInv, OwnersKnown, Void

LEMMA QuietOwners ==
    ASSUME OwnerInv, TypeOK', Quiet
    PROVE  OwnerInv'
<1>1. OwnersKnown'
  BY OwnersInTime DEF Quiet
<1>2. ASSUME NEW c \in Call, calls'[c] = calls[c], Is(c, "refresh", "refused")
      PROVE  \/ calls[c].token # carried'[calls[c].id]
             \/ calls[c].token # NoToken /\ ~ValidateToken(calls[c].token, now')
  <2>1. calls[c].token \in Claims \cup {NoToken}
    BY <1>2, TokenTypes DEF OwnerInv, Is
  <2>2. \/ calls[c].token # carried[calls[c].id]
        \/ calls[c].token # NoToken /\ ~ValidateToken(calls[c].token, now)
    BY <1>2 DEF OwnerInv, RefusalsJustified
  <2>3. QED BY <2>1, <2>2, StaysVoid DEF Quiet
<1>3. RefusalsJustified'
  <2> SUFFICES ASSUME NEW c \in Call, Is(c, "refresh", "refused")'
               PROVE  (\/ calls[c].token # carried[calls[c].id]
                       \/ calls[c].token # NoToken /\ ~ValidateToken(calls[c].token, now))'
    BY DEF RefusalsJustified
  <2>1. calls'[c] = calls[c]
    BY DEF Quiet, Is
  <2>2. Is(c, "refresh", "refused")
    BY <2>1 DEF Is
  <2>3. QED BY <1>2, <2>1, <2>2
<1>4. QED BY <1>1, <1>3 DEF OwnerInv

\* The sender's token, while it is accepted, makes the flare the sender's.
LEMMA StoredOwners ==
    ASSUME OwnerInv, TypeOK', NEW c \in Call, ServeSubmit(c)
    PROVE  OwnerInv'
<1> DEFINE user == AuthenticatedUser(calls[c].token, now)
           n    == Len(flares)
<1>t. TypeOK
  BY DEF OwnerInv
<1>1. /\ n \in Nat /\ DOMAIN flares = 1..n
      /\ user \in Person \cup {NoUser} /\ calls[c].token \in Claims \cup {NoToken}
      /\ DOMAIN flares' = 1..(n + 1)
      /\ \A i \in 1..n : flares'[i] = flares[i] /\ carried'[i] = carried[i]
      /\ flares'[n + 1] = [owner |-> user, status |-> "queued"]
      /\ carried'[n + 1] = calls[c].token
  BY <1>t, StoredLemma
<1>2. now' = now
  BY DEF ServeSubmit
<1>3. \/ user = NoUser /\ Void(calls[c].token)
      \/ user # NoUser /\ calls[c].token # NoToken /\ user = calls[c].token.sub
  <2>1. calls[c].token # NoToken => calls[c].token.sub # NoUser
    BY <1>1, TokenAssumption DEF Claims
  <2>2. QED BY <2>1 DEF AuthenticatedUser, Void
<1>4. flares'[n + 1].owner = user
  BY <1>1
<1> HIDE DEF user, n
<1>5. OwnersKnown'
  <2>1. \A i \in DOMAIN flares' : i \in DOMAIN flares \/ i = n + 1
    BY <1>1
  <2>2. \A i \in DOMAIN flares : flares'[i] = flares[i] /\ carried'[i] = carried[i]
    BY <1>1
  <2>3. QED BY <1>1, <1>2, <1>3, <1>4, <2>1, <2>2 DEF OwnerInv, OwnersKnown, Void
<1>6. RefusalsJustified'
  <2> SUFFICES ASSUME NEW d \in Call, Is(d, "refresh", "refused")'
               PROVE  (\/ calls[d].token # carried[calls[d].id]
                       \/ calls[d].token # NoToken /\ ~ValidateToken(calls[d].token, now))'
    BY DEF RefusalsJustified
  <2> DEFINE r == Request("submit", "answered", NoToken, Len(flares) + 1, "queued", FALSE)
  <2>1. Becomes(c, r)
    BY <1>t, OneCall, Zenon DEF ServeSubmit
  <2>2. r.kind = "submit"
    BY DEF Request
  <2> HIDE DEF r
  <2>3. calls'[d] = calls[d] /\ Is(d, "refresh", "refused")
    BY <2>1, <2>2 DEF Becomes, Is
  <2>4. calls[d].id \in DOMAIN flares
    BY <1>t, <2>3 DEF TypeOK, Is
  <2>5. carried'[calls[d].id] = carried[calls[d].id]
    BY <1>1, <2>4
  <2>6. QED BY <1>2, <2>3, <2>5 DEF OwnerInv, RefusalsJustified
<1>7. QED BY <1>5, <1>6 DEF OwnerInv

\* Whoever asks with what the flare was sent with is refused only when that
\* is not accepted any more.
LEMMA AnsweredOwners ==
    ASSUME OwnerInv, TypeOK', NEW c \in Call, GetFlareStatus(c)
    PROVE  OwnerInv'
<1> DEFINE t    == calls[c].token
           id   == calls[c].id
           user == AuthenticatedUser(t, now)
<1>t. TypeOK
  BY DEF OwnerInv
<1>1. UNCHANGED <<now, flares, carried>>
  BY Zenon DEF GetFlareStatus
<1>2. /\ id \in DOMAIN flares /\ t \in Claims \cup {NoToken}
      /\ calls' = [calls EXCEPT ![c] = calls'[c]]
      /\ calls'[c].id = id
      /\ \/ calls'[c].at = "answered"
         \/ calls'[c].token = t /\ ~Permitted(user, flares[id])
  BY <1>t, AnswerLemma
<1>3. ~Permitted(user, flares[id]) =>
         t # carried[id] \/ (t # NoToken /\ ~ValidateToken(t, now))
  <2>1. t # NoToken => t.sub # NoUser
    BY <1>2, TokenAssumption DEF Claims
  <2>2. \/ flares[id].owner = NoUser /\ Void(carried[id])
        \/ /\ flares[id].owner # NoUser
           /\ carried[id] # NoToken /\ flares[id].owner = carried[id].sub
    BY <1>2 DEF OwnerInv, OwnersKnown
  <2>3. IF t # NoToken /\ ValidateToken(t, now) THEN user = t.sub ELSE user = NoUser
    BY DEF AuthenticatedUser
  <2> HIDE DEF t, id, user
  <2>4. CASE t = NoToken
    BY <2>2, <2>3, <2>4 DEF Permitted
  <2>5. CASE t # NoToken /\ ValidateToken(t, now)
    BY <2>1, <2>2, <2>3, <2>5 DEF Permitted, Void
  <2>6. QED BY <2>4, <2>5
<1> HIDE DEF t, id, user
<1>4. OwnersKnown'
  BY <1>1 DEF OwnerInv, OwnersKnown, Void
<1>5. RefusalsJustified'
  <2>1. PICK r : r = calls'[c]
    OBVIOUS
  <2>2. Becomes(c, r)
    BY <1>t, <1>2, <2>1, OneCall, Zenon
  <2>3. \A d \in Call \ {c} : calls'[d] = calls[d]
    BY <2>2 DEF Becomes
  <2>4. QED BY <1>1, <1>2, <1>3, <2>3 DEF OwnerInv, RefusalsJustified, Is, t
<1>6. QED BY <1>4, <1>5 DEF OwnerInv

LEMMA OtherOwners ==
    ASSUME OwnerInv, TypeOK',
           \/ \E c \in Call : SubmitArrives(c) \/ RefreshArrives(c)
           \/ \E i \in DOMAIN flares : Advance(i)
    PROVE  OwnerInv'
<1>t. TypeOK
  BY DEF OwnerInv
<1>1. UNCHANGED <<now, carried>>
  BY Zenon DEF SubmitArrives, RefreshArrives, Advance
<1>2. DOMAIN flares' = DOMAIN flares /\ \A i \in DOMAIN flares : flares'[i].owner = flares[i].owner
  <2>1. CASE \E c \in Call : SubmitArrives(c) \/ RefreshArrives(c)
    <3>1. flares' = flares
      BY <2>1, Zenon DEF SubmitArrives, RefreshArrives
    <3>2. QED BY <3>1
  <2>2. CASE \E i \in DOMAIN flares : Advance(i)
    BY <1>t, <2>2, AdvanceLemma
  <2>3. QED BY <2>1, <2>2
<1>3. OwnersKnown'
  BY <1>1, <1>2 DEF OwnerInv, OwnersKnown, Void
<1>4. \A c \in Call : Is(c, "refresh", "refused")' => calls'[c] = calls[c]
  <2>1. CASE \E i \in DOMAIN flares : Advance(i)
    BY <2>1, Zenon DEF Advance
  <2>2. ASSUME NEW d \in Call, SubmitArrives(d)
        PROVE  \A c \in Call : Is(c, "refresh", "refused")' => calls'[c] = calls[c]
    <3>1. Becomes(d, Idle)
      BY <1>t, <2>2, OneCall, Zenon DEF SubmitArrives
    <3>2. QED BY <3>1 DEF Becomes, Is
  <2>3. ASSUME NEW d \in Call, RefreshArrives(d)
        PROVE  \A c \in Call : Is(c, "refresh", "refused")' => calls'[c] = calls[c]
    BY <1>t, <2>3, ArrivalLemma DEF Is
  <2>4. QED BY <2>1, <2>2, <2>3
<1>5. RefusalsJustified'
  BY <1>1, <1>4 DEF OwnerInv, RefusalsJustified, Is
<1>6. QED BY <1>3, <1>5 DEF OwnerInv

LEMMA NextOwners == OwnerInv /\ [Next]_vars => OwnerInv'
<1> SUFFICES ASSUME OwnerInv, [Next]_vars PROVE OwnerInv'
  OBVIOUS
<1>1. TypeOK /\ TypeOK'
  BY NextType DEF OwnerInv
<1>2. QED BY <1>1, QuietSteps, QuietOwners, StoredOwners, AnsweredOwners, OtherOwners DEF Next

\* Whoever neither logs in again nor out can follow the flares sent since,
\* until the token expires.
THEOREM SenderFollows == Spec => []SenderMayFollow
<1>1. Init => OwnerInv
  BY InitType DEF Init, OwnerInv, OwnersKnown, RefusalsJustified, Is
<1>2. OwnerInv => SenderMayFollow
  BY DEF OwnerInv, RefusalsJustified, SenderMayFollow
<1>3. QED BY <1>1, <1>2, NextOwners, PTL DEF Spec

-----------------------------------------------------------------------------
(* What the screen says *)

\* Every flare is shown once: the answer to its submission brings it.
ShownOnce ==
    /\ \A j, k \in DOMAIN shown : shown[j].id = shown[k].id => j = k
    /\ \A c \in Call : Is(c, "submit", "answered") =>
          /\ \A k \in DOMAIN shown : shown[k].id # calls[c].id
          /\ \A d \in Call : Is(d, "submit", "answered") /\ calls[d].id = calls[c].id => d = c

AnswersBehind ==
    \A c \in Call : Is(c, "refresh", "answered") =>
        Rank(calls[c].status) <= Rank(flares[calls[c].id].status)

\* An answer no other has overtaken brings news.
AnswersBring ==
    \A c \in Call : Is(c, "refresh", "answered") /\ ~calls[c].late =>
        \A k \in DOMAIN shown : shown[k].id = calls[c].id =>
            Rank(shown[k].status) <= Rank(calls[c].status)

StatusInv == TypeOK /\ ShownOnce /\ NeverAhead /\ AnswersBehind /\ AnswersBring

LEMMA RankType == \A s : Rank(s) \in 0..2 /\ Rank("queued") = 0
BY DEF Rank

\* The order of the answers and the table say it all, whichever step keeps them.
LEMMA QuietStatus ==
    ASSUME StatusInv, TypeOK', Quiet
    PROVE  StatusInv'
<1>1. /\ flares' = flares
      /\ shown' = shown \/ DOMAIN shown' = {}
      /\ \A c \in Call : calls'[c] = calls[c] \/ calls'[c] = Idle \/ calls'[c].at = "sent"
  BY DEF Quiet
<1>2. \A c \in Call, kind \in {"submit", "refresh"} :
         calls'[c] # Idle /\ calls'[c].kind = kind /\ calls'[c].at = "answered" =>
            Is(c, kind, "answered") /\ calls'[c] = calls[c]
  BY <1>1 DEF Is
<1>3. ShownOnce'
  BY <1>1, <1>2 DEF StatusInv, ShownOnce, Is
<1>4. NeverAhead'
  BY <1>1 DEF StatusInv, NeverAhead
<1>5. AnswersBehind'
  BY <1>1, <1>2 DEF StatusInv, AnswersBehind, Is
<1>6. AnswersBring'
  BY <1>1, <1>2 DEF StatusInv, AnswersBring, Is
<1>7. QED BY <1>3, <1>4, <1>5, <1>6 DEF StatusInv

LEMMA StoredStatus ==
    ASSUME StatusInv, TypeOK', NEW c \in Call, ServeSubmit(c)
    PROVE  StatusInv'
<1> DEFINE n == Len(flares)
           r == Request("submit", "answered", NoToken, n + 1, "queued", FALSE)
<1>t. TypeOK
  BY DEF StatusInv
<1>1. /\ n \in Nat /\ DOMAIN flares = 1..n
      /\ \A i \in 1..n : flares'[i] = flares[i]
  BY <1>t, StoredLemma
<1>2. shown' = shown
  BY Zenon DEF ServeSubmit
<1>3. Becomes(c, r)
  BY <1>t, OneCall, Zenon DEF ServeSubmit
<1>4. r.kind = "submit" /\ r.id = n + 1
  BY DEF Request
<1>5. /\ \A k \in DOMAIN shown : shown[k].id \in 1..n
      /\ \A d \in Call : Is(d, "submit", "answered") \/ Is(d, "refresh", "answered") =>
            calls[d].id \in 1..n
  BY <1>t, <1>1 DEF TypeOK, Is
<1> HIDE DEF n, r
<1>6. \A m \in 1..n : m # n + 1
  BY <1>1
<1>7. ShownOnce'
  BY <1>2, <1>3, <1>4, <1>5, <1>6 DEF StatusInv, ShownOnce, Is, Becomes
<1>8. NeverAhead'
  BY <1>1, <1>2, <1>5 DEF StatusInv, NeverAhead
<1>9. AnswersBehind'
  BY <1>1, <1>3, <1>4, <1>5 DEF StatusInv, AnswersBehind, Is, Becomes
<1>10. AnswersBring'
  BY <1>2, <1>3, <1>4 DEF StatusInv, AnswersBring, Is, Becomes
<1>11. QED BY <1>7, <1>8, <1>9, <1>10 DEF StatusInv

LEMMA ShownStatus ==
    ASSUME StatusInv, TypeOK', NEW c \in Call, SubmitArrives(c)
    PROVE  StatusInv'
<1> DEFINE new == [id |-> calls[c].id, status |-> "queued"]
<1>t. TypeOK
  BY DEF StatusInv
<1>1. flares' = flares /\ shown' = <<new>> \o shown /\ Is(c, "submit", "answered")
  BY Zenon DEF SubmitArrives
<1>2. Becomes(c, Idle)
  BY <1>t, OneCall, Zenon DEF SubmitArrives
<1>3. new.id = calls[c].id /\ new.status = "queued"
  OBVIOUS
<1>4. shown \in Seq([id : Nat, status : Status])
  BY <1>t DEF TypeOK
<1> HIDE DEF new
<1>5. /\ Len(shown) \in Nat
      /\ DOMAIN shown = 1..Len(shown)
      /\ DOMAIN shown' = 1..(Len(shown) + 1)
      /\ shown'[1] = new
      /\ \A k \in DOMAIN shown' : k # 1 => k - 1 \in DOMAIN shown /\ shown'[k] = shown[k - 1]
  <2>1. /\ Len(shown) \in Nat /\ DOMAIN shown = 1..Len(shown)
        /\ DOMAIN shown' = 1..(Len(shown) + 1) /\ shown'[1] = new
        /\ \A k \in 2..(Len(shown) + 1) : shown'[k] = shown[k - 1]
    BY <1>1, <1>4
  <2>2. QED BY <2>1
<1>6. \A d \in Call, kind \in {"submit", "refresh"} :
         calls'[d] # Idle /\ calls'[d].kind = kind /\ calls'[d].at = "answered" =>
            d # c /\ Is(d, kind, "answered") /\ calls'[d] = calls[d]
  BY <1>2 DEF Is, Becomes
<1>7. \A k \in DOMAIN shown : shown[k].id # calls[c].id
  BY <1>1 DEF StatusInv, ShownOnce
<1>8. ShownOnce'
  <2>1. ASSUME NEW j \in DOMAIN shown', NEW k \in DOMAIN shown', shown'[j].id = shown'[k].id
        PROVE  j = k
    <3>1. CASE j # 1 /\ k # 1
      <4>1. j - 1 = k - 1
        BY <1>5, <2>1, <3>1 DEF StatusInv, ShownOnce
      <4>2. QED BY <1>5, <4>1
    <3>2. CASE j = 1 \/ k = 1
      BY <1>3, <1>5, <1>7, <2>1, <3>2
    <3>3. QED BY <3>1, <3>2
  <2>2. ASSUME NEW d \in Call, Is(d, "submit", "answered")'
        PROVE  /\ \A k \in DOMAIN shown' : shown'[k].id # calls'[d].id
               /\ \A e \in Call : Is(e, "submit", "answered")' /\ calls'[e].id = calls'[d].id => e = d
    <3>1. d # c /\ Is(d, "submit", "answered") /\ calls'[d] = calls[d]
      BY <1>6, <2>2 DEF Is
    <3>2. calls[d].id # calls[c].id
      BY <1>1, <3>1 DEF StatusInv, ShownOnce
    <3>3. \A k \in DOMAIN shown' : shown'[k].id # calls'[d].id
      BY <1>3, <1>5, <3>1, <3>2 DEF StatusInv, ShownOnce
    <3>4. QED BY <1>6, <3>1, <3>3 DEF StatusInv, ShownOnce, Is
  <2>3. QED BY <2>1, <2>2 DEF ShownOnce
<1>9. NeverAhead'
  <2>1. Rank("queued") <= Rank(flares[calls[c].id].status)
    BY RankType
  <2>2. QED BY <1>1, <1>3, <1>5, <2>1 DEF StatusInv, NeverAhead
<1>10. AnswersBehind'
  BY <1>1, <1>6 DEF StatusInv, AnswersBehind, Is
<1>11. AnswersBring'
  <2>1. \A s : Rank("queued") <= Rank(s)
    BY RankType
  <2>2. QED BY <1>3, <1>5, <1>6, <2>1 DEF StatusInv, AnswersBring, Is
<1>12. QED BY <1>8, <1>9, <1>10, <1>11 DEF StatusInv

LEMMA AdvancedStatus ==
    ASSUME StatusInv, TypeOK', NEW i \in DOMAIN flares, Advance(i)
    PROVE  StatusInv'
<1>t. TypeOK
  BY DEF StatusInv
<1>1. UNCHANGED <<shown, calls>>
  BY Zenon DEF Advance
<1>2. \A j \in DOMAIN flares : Rank(flares[j].status) <= Rank(flares'[j].status)
  BY <1>t, AdvanceLemma
<1>3. /\ \A k \in DOMAIN shown : shown[k].id \in DOMAIN flares
      /\ \A c \in Call : Is(c, "refresh", "answered") => calls[c].id \in DOMAIN flares
  BY <1>t DEF TypeOK, Is
<1>4. NeverAhead'
  BY <1>1, <1>2, <1>3, RankType DEF StatusInv, NeverAhead
<1>5. AnswersBehind'
  BY <1>1, <1>2, <1>3, RankType DEF StatusInv, AnswersBehind, Is
<1>6. ShownOnce' /\ AnswersBring'
  BY <1>1 DEF StatusInv, ShownOnce, AnswersBring, Is
<1>7. QED BY <1>4, <1>5, <1>6 DEF StatusInv

LEMMA AnsweredStatus ==
    ASSUME StatusInv, TypeOK', NEW c \in Call, GetFlareStatus(c)
    PROVE  StatusInv'
<1> DEFINE id == calls[c].id
<1>t. TypeOK
  BY DEF StatusInv
<1>1. UNCHANGED <<flares, shown>>
  BY Zenon DEF GetFlareStatus
<1>2. PICK r :
         /\ r = calls'[c] /\ calls' = [calls EXCEPT ![c] = r]
         /\ r.kind = "refresh" /\ r.id = id
         /\ \/ r.at = "refused"
            \/ r.at = "answered" /\ r.status = flares[id].status
  BY <1>t, AnswerLemma
<1>3. Becomes(c, r)
  BY <1>t, <1>2, OneCall
<1> HIDE DEF id
<1>4. ShownOnce'
  BY <1>1, <1>2, <1>3 DEF StatusInv, ShownOnce, Is, Becomes
<1>5. NeverAhead'
  BY <1>1 DEF StatusInv, NeverAhead
<1>6. AnswersBehind'
  BY <1>1, <1>2, <1>3, RankType DEF StatusInv, AnswersBehind, Is, Becomes
<1>7. AnswersBring'
  <2>1. \A k \in DOMAIN shown : shown[k].id = id => Rank(shown[k].status) <= Rank(flares[id].status)
    BY DEF StatusInv, NeverAhead
  <2>2. QED BY <1>1, <1>2, <1>3, <2>1 DEF StatusInv, AnswersBring, Is, Becomes
<1>8. QED BY <1>4, <1>5, <1>6, <1>7 DEF StatusInv

LEMMA ArrivedStatus ==
    ASSUME StatusInv, TypeOK', NEW c \in Call, RefreshArrives(c)
    PROVE  StatusInv'
<1> DEFINE id     == calls[c].id
           status == calls[c].status
<1>t. TypeOK
  BY DEF StatusInv
<1>0. /\ DOMAIN shown' = DOMAIN shown
      /\ \A k \in DOMAIN shown :
            /\ shown'[k].id = shown[k].id
            /\ shown'[k].status = IF shown[k].id = id THEN status ELSE shown[k].status
  BY ArrivalShows, Zenon
<1>1. /\ calls'[c] = Idle
      /\ \A d \in Call \ {c} :
            \/ calls'[d] = calls[d]
               /\ ~(Is(d, "refresh", "answered") /\ calls[d].id = id)
            \/ /\ Is(d, "refresh", "answered") /\ calls[d].id = id
               /\ calls'[d].kind = "refresh" /\ calls'[d].at = "answered"
               /\ calls'[d].id = calls[d].id /\ calls'[d].status = calls[d].status
               /\ calls'[d].late = TRUE
  BY ArrivalMakesLate, Zenon
<1>2. flares' = flares /\ Is(c, "refresh", "answered")
  BY Zenon DEF RefreshArrives
<1>3. Rank(status) <= Rank(flares[id].status)
  BY <1>2 DEF StatusInv, AnswersBehind
<1> HIDE DEF id, status
<1>4. ShownOnce'
  <2>1. \A d \in Call : Is(d, "submit", "answered")' => Is(d, "submit", "answered") /\ calls'[d] = calls[d]
    BY <1>1 DEF Is
  <2>2. QED BY <1>0, <2>1 DEF StatusInv, ShownOnce
<1>5. NeverAhead'
  BY <1>0, <1>2, <1>3 DEF StatusInv, NeverAhead
<1>6. AnswersBehind'
  BY <1>1, <1>2 DEF StatusInv, AnswersBehind, Is
<1>7. AnswersBring'
  <2> SUFFICES ASSUME NEW d \in Call, Is(d, "refresh", "answered")', ~calls'[d].late,
                      NEW k \in DOMAIN shown', shown'[k].id = calls'[d].id
               PROVE  Rank(shown'[k].status) <= Rank(calls'[d].status)
    BY DEF AnswersBring
  <2>1. d # c /\ calls'[d] = calls[d] /\ Is(d, "refresh", "answered") /\ calls[d].id # id
    BY <1>1 DEF Is
  <2>2. shown'[k].status = shown[k].status /\ shown[k].id = calls[d].id
    BY <1>0, <2>1
  <2>3. QED BY <1>0, <2>1, <2>2 DEF StatusInv, AnswersBring
<1>8. QED BY <1>4, <1>5, <1>6, <1>7 DEF StatusInv

LEMMA KindsOfSteps ==
    ASSUME TypeOK, [Next]_vars
    PROVE  \/ Quiet
           \/ \E c \in Call : ServeSubmit(c) \/ SubmitArrives(c) \/ GetFlareStatus(c) \/ RefreshArrives(c)
           \/ \E i \in DOMAIN flares : Advance(i)
BY QuietSteps DEF Next

LEMMA NextStatus == StatusInv /\ [Next]_vars => StatusInv'
<1> SUFFICES ASSUME StatusInv, [Next]_vars PROVE StatusInv'
  OBVIOUS
<1>1. TypeOK /\ TypeOK'
  BY NextType DEF StatusInv
<1>2. QED BY <1>1, KindsOfSteps, QuietStatus, StoredStatus, ShownStatus, AdvancedStatus,
             AnsweredStatus, ArrivedStatus

LEMMA InitStatus == Init => StatusInv
BY InitType DEF Init, StatusInv, ShownOnce, NeverAhead, AnswersBehind, AnswersBring, Is

\* The screen is never ahead of the table.
THEOREM ScreenBehindTable == Spec => []NeverAhead
<1>1. StatusInv => NeverAhead
  BY DEF StatusInv
<1>2. QED BY <1>1, InitStatus, NextStatus, PTL DEF Spec

\* What the screen says of a flare goes back only with an answer that another
\* has overtaken.
THEOREM BackOnlyByOvertaking == Spec => BackOnlyWhenOvertaken
<1> DEFINE Step == \A k \in DOMAIN shown, j \in DOMAIN shown' :
              shown[k].id = shown'[j].id /\ Rank(shown'[j].status) < Rank(shown[k].status) =>
                  \E c \in Call : Is(c, "refresh", "answered") /\ calls[c].late
<1>1. StatusInv /\ [Next]_vars => [Step]_vars
  <2> SUFFICES ASSUME StatusInv, [Next]_vars, NEW k \in DOMAIN shown, NEW j \in DOMAIN shown',
                      shown[k].id = shown'[j].id, Rank(shown'[j].status) < Rank(shown[k].status)
               PROVE  \E c \in Call : Is(c, "refresh", "answered") /\ calls[c].late
    OBVIOUS
  <2>t. TypeOK
    BY DEF StatusInv
  <2>r. \A s : Rank(s) \in Int /\ ~(Rank(s) < Rank(s))
    BY RankType
  <2>1. shown' # shown
    <3>1. SUFFICES ASSUME shown' = shown PROVE FALSE
      OBVIOUS
    <3>2. j = k
      BY <3>1 DEF StatusInv, ShownOnce
    <3>3. QED BY <2>r, <3>1, <3>2
  <2>2. CASE Quiet
    BY <2>1, <2>2 DEF Quiet
  <2>3. ASSUME NEW c \in Call, SubmitArrives(c) PROVE FALSE
    <3> DEFINE new == [id |-> calls[c].id, status |-> "queued"]
    <3>1. shown' = <<new>> \o shown /\ Is(c, "submit", "answered")
      BY <2>3, Zenon DEF SubmitArrives
    <3>2. new.id = calls[c].id
      OBVIOUS
    <3>3. shown \in Seq([id : Nat, status : Status])
      BY <2>t DEF TypeOK
    <3> HIDE DEF new
    <3>4. \/ j = 1 /\ shown'[j] = new
          \/ j - 1 \in DOMAIN shown /\ shown'[j] = shown[j - 1]
      <4>1. /\ Len(shown) \in Nat /\ DOMAIN shown = 1..Len(shown)
            /\ DOMAIN shown' = 1..(Len(shown) + 1) /\ shown'[1] = new
            /\ \A i \in 2..(Len(shown) + 1) : shown'[i] = shown[i - 1]
        BY <3>1, <3>3
      <4>2. QED BY <4>1
    <3>5. shown[k].id # calls[c].id
      BY <3>1 DEF StatusInv, ShownOnce
    <3>6. j - 1 \in DOMAIN shown /\ shown'[j] = shown[j - 1]
      BY <3>2, <3>4, <3>5
    <3>7. j - 1 = k
      BY <3>6 DEF StatusInv, ShownOnce
    <3>8. QED BY <2>r, <3>6, <3>7
  <2>4. ASSUME NEW c \in Call, RefreshArrives(c)
        PROVE  Is(c, "refresh", "answered") /\ calls[c].late
    <3>1. Is(c, "refresh", "answered")
      BY <2>4, Zenon DEF RefreshArrives
    <3>2. /\ DOMAIN shown' = DOMAIN shown
          /\ shown'[j].id = shown[j].id
          /\ shown'[j].status = IF shown[j].id = calls[c].id THEN calls[c].status ELSE shown[j].status
      BY <2>4, ArrivalShows, Zenon
    <3>3. j = k
      BY <3>2 DEF StatusInv, ShownOnce
    <3>4. shown[k].id = calls[c].id /\ shown'[j].status = calls[c].status
      BY <2>r, <3>2, <3>3
    <3>5. Rank(calls[c].status) < Rank(shown[k].status)
      BY <3>4
    <3>6. ~(Rank(shown[k].status) <= Rank(calls[c].status))
      BY <3>5, RankType
    <3>7. QED BY <3>1, <3>4, <3>6 DEF StatusInv, AnswersBring
  <2>5. ASSUME NEW c \in Call, ServeSubmit(c) \/ GetFlareStatus(c) PROVE FALSE
    BY <2>1, <2>5, Zenon DEF ServeSubmit, GetFlareStatus
  <2>6. ASSUME NEW i \in DOMAIN flares, Advance(i) PROVE FALSE
    BY <2>1, <2>6, Zenon DEF Advance
  <2>7. QED BY <2>t, <2>2, <2>3, <2>4, <2>5, <2>6, KindsOfSteps
<1>2. QED BY <1>1, InitStatus, NextStatus, PTL DEF Spec, BackOnlyWhenOvertaken
=============================================================================
