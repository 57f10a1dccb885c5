---------------------------- MODULE SyncEndpoint ----------------------------
(***************************************************************************)
(* POST /api/v1/sync/push of the backend                                   *)
(* (crates/backend_api/src/handlers/sync.rs): the handler takes a list of  *)
(* operations, enqueues each in the backend's own outbox_queue and marks   *)
(* its row as synced.  Each of the two is a statement of its own on a      *)
(* connection of its own: between them other handlers run, and the process *)
(* may die.                                                                *)
(*                                                                         *)
(* The answer is left out.  Its ids are fresh UUIDs, so a caller learns    *)
(* how many operations were accepted and not which, and its vector clock   *)
(* is the caller's.                                                        *)
(***************************************************************************)
EXTENDS Integers, Sequences

CONSTANTS
    Handler,     \* requests served at the same time
    Operation,   \* what is posted
    MaxPosted,   \* bound: operations per request
    MaxTable     \* bound: rows of the backend's table

VARIABLES
    table,     \* the backend's outbox_queue, a row's id is its place
    at,        \* at[h]: the next step of h
    todo,      \* todo[h]: pending_ops, what h has not dealt with
    row        \* row[h]: the id enqueue_op returned to h last

EndpointInit ==
    /\ table = << >>
    /\ at = [h \in Handler |-> "free"]
    /\ todo = [h \in Handler |-> << >>]
    /\ row = [h \in Handler |-> 0]

\* syncPush of the app, or any other client, posts a list.
Post(h, ops) ==
    /\ at[h] = "free"
    /\ at' = [at EXCEPT ![h] = "next"]
    /\ todo' = [todo EXCEPT ![h] = ops]
    /\ UNCHANGED <<table, row>>

\* enqueue_op succeeds.  It does not look whether the table has the operation.
EnqueuePosted(h) ==
    /\ at[h] = "next" /\ todo[h] # << >>
    /\ Len(table) < MaxTable
    /\ table' = Append(table, [op |-> Head(todo[h]), synced |-> FALSE])
    /\ row' = [row EXCEPT ![h] = Len(table) + 1]
    /\ at' = [at EXCEPT ![h] = "mark"]
    /\ UNCHANGED todo

\* enqueue_op fails: the operation is a conflict, and h goes on.
Conflict(h) ==
    /\ at[h] = "next" /\ todo[h] # << >>
    /\ todo' = [todo EXCEPT ![h] = Tail(@)]
    /\ UNCHANGED <<table, at, row>>

\* mark_synced on h's row.  An error is ignored: the row stays pending though
\* the answer counts the operation as accepted.
MarkPosted(h) ==
    /\ at[h] = "mark"
    /\ \/ table' = [table EXCEPT ![row[h]].synced = TRUE]
       \/ UNCHANGED table
    /\ at' = [at EXCEPT ![h] = "next"]
    /\ todo' = [todo EXCEPT ![h] = Tail(@)]
    /\ UNCHANGED row

\* The list is done: the answer goes out.  It may get lost; nothing here
\* depends on it.
Answer(h) ==
    /\ at[h] = "next" /\ todo[h] = << >>
    /\ at' = [at EXCEPT ![h] = "free"]
    /\ UNCHANGED <<table, todo, row>>

\* The backend dies and starts again: its requests are gone.
EndpointCrash ==
    /\ \E h \in Handler : at[h] # "free"
    /\ at' = [h \in Handler |-> "free"]
    /\ todo' = [h \in Handler |-> << >>]
    /\ UNCHANGED <<table, row>>

\* What handlers do on their own, after somebody posted.
Serve ==
    \/ \E h \in Handler :
           EnqueuePosted(h) \/ Conflict(h) \/ MarkPosted(h) \/ Answer(h)
    \/ EndpointCrash

Posts == UNION {[1..n -> Operation] : n \in 0..MaxPosted}
=============================================================================
