--------------------------- MODULE FlareSubmission --------------------------
(***************************************************************************)
(* From the SEND FLARE button to the row in table flares.                  *)
(*                                                                         *)
(* A member's app (flutter_app, FlareProvider.submitFlare) posts once per  *)
(* tap: it queues nothing, and nothing stops a second tap while the first  *)
(* is under way.  The backend (crates/backend_api, handlers/flare.rs) runs *)
(* submit_flare on one of the runtime's worker threads, which the handler  *)
(* does not leave before it is done, for pool.get() blocks.  submit_flare  *)
(* takes a connection from the pool and keeps it while find_nearest_branch *)
(* takes a second one.  A pool.get() that waits too long returns an error. *)
(***************************************************************************)
EXTENDS FiniteSets, Naturals

CONSTANTS
    Thread,   \* worker threads of the runtime
    Conn,     \* connections of the pool: max_size(10) in init_database
    Attempt,  \* taps on the button
    NoJob     \* what a thread runs that does not run submit_flare

ASSUME SubmissionAssumption ==
    /\ IsFiniteSet(Thread)
    /\ IsFiniteSet(Conn)
    /\ NoJob \notin Attempt

VARIABLES
    outcome,  \* outcome[a]: what the app knows of attempt a
    inbox,    \* attempts that reached the backend and no thread runs
    pc,       \* pc[t]: where thread t is in its handler
    job,      \* job[t]: the attempt t runs
    holds,    \* holds[t]: the connections t has taken
    flares    \* the attempts with a row in table flares

vars == <<outcome, inbox, pc, job, holds, flares>>

Free == Conn \ UNION {holds[t] : t \in Thread}

-----------------------------------------------------------------------------

Init ==
    /\ outcome = [a \in Attempt |-> "none"]
    /\ inbox = {}
    /\ pc = [t \in Thread |-> "idle"]
    /\ job = [t \in Thread |-> NoJob]
    /\ holds = [t \in Thread |-> {}]
    /\ flares = {}

\* The member taps: submitFlare posts.
Tap(a) ==
    /\ outcome[a] = "none"
    /\ outcome' = [outcome EXCEPT ![a] = "pending"]
    /\ inbox' = inbox \cup {a}
    /\ UNCHANGED <<pc, job, holds, flares>>

\* The request is lost on its way: the app gets an exception.
LoseRequest(a) ==
    /\ a \in inbox
    /\ inbox' = inbox \ {a}
    /\ outcome' = [outcome EXCEPT ![a] = "lost"]
    /\ UNCHANGED <<pc, job, holds, flares>>

\* The connection breaks, wherever the request is: the app gets an exception,
\* a request under way may still arrive, and a handler that runs goes on.
BreakConnection(a) ==
    /\ outcome[a] = "pending"
    /\ outcome' = [outcome EXCEPT ![a] = "lost"]
    /\ UNCHANGED <<inbox, pc, job, holds, flares>>

Accept(t, a) ==
    /\ pc[t] = "idle"
    /\ a \in inbox
    /\ inbox' = inbox \ {a}
    /\ pc' = [pc EXCEPT ![t] = "first"]
    /\ job' = [job EXCEPT ![t] = a]
    /\ UNCHANGED <<outcome, holds, flares>>

\* A request for any of the handlers that take one connection.
AcceptOther(t) ==
    /\ pc[t] = "idle"
    /\ pc' = [pc EXCEPT ![t] = "only"]
    /\ UNCHANGED <<outcome, inbox, job, holds, flares>>

\* The handler returns: its connections go back to the pool (drop), and the
\* app, if it still listens, learns whether the flare was sent.
Return(t, sent) ==
    /\ pc' = [pc EXCEPT ![t] = "idle"]
    /\ holds' = [holds EXCEPT ![t] = {}]
    /\ job' = [job EXCEPT ![t] = NoJob]
    /\ outcome' = [outcome EXCEPT ![job[t]] =
                       IF @ # "pending" THEN @ ELSE IF sent THEN "sent" ELSE "failed"]
    /\ UNCHANGED inbox

\* pool.get() succeeds: in submit_flare, then in find_nearest_branch.
TakeFirst(t) ==
    /\ pc[t] = "first"
    /\ \E c \in Free : holds' = [holds EXCEPT ![t] = {c}]
    /\ pc' = [pc EXCEPT ![t] = "second"]
    /\ UNCHANGED <<outcome, inbox, job, flares>>

TakeSecond(t) ==
    /\ pc[t] = "second"
    /\ \E c \in Free : holds' = [holds EXCEPT ![t] = @ \cup {c}]
    /\ pc' = [pc EXCEPT ![t] = "nearest"]
    /\ UNCHANGED <<outcome, inbox, job, flares>>

\* Faulty form: find_nearest_branch waits for its connection for ever.
TimeOutFirstOnly(t) ==
    /\ pc[t] = "first"
    /\ Return(t, FALSE)
    /\ UNCHANGED flares

\* pool.get() waited for connection_timeout: 500.
TimeOut(t) ==
    /\ pc[t] \in {"first", "second"}
    /\ Return(t, FALSE)
    /\ UNCHANGED flares

\* Faulty form: the handler shadows its connection and keeps both.
NearestKeepsBoth(t) ==
    /\ pc[t] = "nearest"
    /\ pc' = [pc EXCEPT ![t] = "insert"]
    /\ UNCHANGED <<outcome, inbox, job, holds, flares>>

\* find_nearest_branch returns a branch and drops its connection ...
NearestFound(t) ==
    /\ pc[t] = "nearest"
    /\ \E c \in holds[t] : holds' = [holds EXCEPT ![t] = {c}]
    /\ pc' = [pc EXCEPT ![t] = "insert"]
    /\ UNCHANGED <<outcome, inbox, job, flares>>

\* ... or there is none (404) or a statement fails (500).
NearestFails(t) ==
    /\ pc[t] = "nearest"
    /\ Return(t, FALSE)
    /\ UNCHANGED flares

\* Faulty form: the row is written and the handler answers 500.
InsertMayFailLate(t) ==
    /\ pc[t] = "insert"
    /\ flares' = flares \cup {job[t]}
    /\ Return(t, FALSE)

\* The INSERT succeeds, or fails.
InsertFlare(t) ==
    /\ pc[t] = "insert"
    /\ flares' = flares \cup {job[t]}
    /\ Return(t, TRUE)

InsertFails(t) ==
    /\ pc[t] = "insert"
    /\ Return(t, FALSE)
    /\ UNCHANGED flares

\* A handler with one connection takes it or gives up, then lets go of it.
TakeOnly(t) ==
    /\ pc[t] = "only"
    /\ \/ /\ \E c \in Free : holds' = [holds EXCEPT ![t] = {c}]
          /\ pc' = [pc EXCEPT ![t] = "other"]
       \/ /\ pc' = [pc EXCEPT ![t] = "idle"]
          /\ UNCHANGED holds
    /\ UNCHANGED <<outcome, inbox, job, flares>>

\* Faulty form: a handler leaks its connection.
ReturnOtherLeaks(t) ==
    /\ pc[t] = "other"
    /\ pc' = [pc EXCEPT ![t] = "idle"]
    /\ UNCHANGED <<outcome, inbox, job, holds, flares>>

ReturnOther(t) ==
    /\ pc[t] = "other"
    /\ pc' = [pc EXCEPT ![t] = "idle"]
    /\ holds' = [holds EXCEPT ![t] = {}]
    /\ UNCHANGED <<outcome, inbox, job, flares>>

Work(t) ==
    \/ TakeFirst(t)
    \/ TakeSecond(t)
    \/ TimeOut(t)
    \/ NearestFound(t)
    \/ NearestFails(t)
    \/ InsertFlare(t)
    \/ InsertFails(t)
    \/ TakeOnly(t)
    \/ ReturnOther(t)

Next ==
    \/ \E a \in Attempt : Tap(a) \/ LoseRequest(a) \/ BreakConnection(a)
    \/ \E t \in Thread, a \in Attempt : Accept(t, a)
    \/ \E t \in Thread : AcceptOther(t) \/ Work(t)

Spec == Init /\ [][Next]_vars

\* A thread goes on with its handler: it never waits longer than
\* connection_timeout in pool.get(), and statements end.
FairSpec == Spec /\ \A t \in Thread : WF_vars(Work(t))

-----------------------------------------------------------------------------
(* What is checked and proved *)

\* A thread runs and holds what its place in the handler says.
TypeOK ==
    /\ outcome \in [Attempt -> {"none", "pending", "sent", "failed", "lost"}]
    /\ inbox \subseteq Attempt
    /\ flares \subseteq Attempt
    /\ pc \in [Thread -> {"idle", "first", "second", "nearest", "insert", "only", "other"}]
    /\ job \in [Thread -> Attempt \cup {NoJob}]
    /\ holds \in [Thread -> SUBSET Conn]
    /\ \A t \in Thread :
          /\ pc[t] \in {"first", "second", "nearest", "insert"} <=> job[t] # NoJob
          /\ pc[t] \in {"idle", "first", "only"} => holds[t] = {}
          /\ pc[t] \in {"second", "insert", "other"} => \E c \in Conn : holds[t] = {c}

\* The threads inside pool.get() of find_nearest_branch, with one connection.
AwaitSecond == {t \in Thread : pc[t] = "second"}

\* The pool is wedged (no connection left, and no thread that will give one
\* back without waiting) only when submit_flare alone has used it up: as many
\* of its calls as there are connections wait for their second one.  A runtime
\* with fewer threads than connections can never wedge it.
WedgedOnlyByWaiters ==
    Free = {} /\ (\A t \in Thread : pc[t] \notin {"nearest", "insert", "other"}) =>
        Cardinality(AwaitSecond) >= Cardinality(Conn)

Running(a) == \E t \in Thread : job[t] = a

\* An answer tells the truth: a flare answered with success has its row, one
\* answered with an error has none and gets none later.  Only an attempt
\* without an answer is open, and its row may come at any time.  (submitFlare
\* turns an error and a broken connection into the same lastError, so what the
\* member sees does not tell the two apart.)
AnswersAreTrue ==
    \A a \in Attempt :
        /\ outcome[a] = "sent" => a \in flares
        /\ outcome[a] = "failed" => a \notin flares \cup inbox /\ ~Running(a)

\* What makes AnswersAreTrue inductive: an attempt is waiting or run by one
\* thread, and until then it has no row and no answer.
OneRun ==
    /\ \A t, u \in Thread : t # u /\ job[t] = job[u] => job[t] = NoJob
    /\ \A a \in Attempt :
          /\ Running(a) => a \notin inbox
          /\ a \in inbox \/ Running(a) => outcome[a] \in {"pending", "lost"} /\ a \notin flares
          /\ outcome[a] = "none" => a \notin flares

\* Every request a thread has taken comes to its end, also when all connections
\* are held by threads that wait for a second one (pool.get in submit_flare and
\* find_nearest_branch).
ThreadsComeBack == \A t \in Thread : pc[t] # "idle" ~> pc[t] = "idle"
=============================================================================
