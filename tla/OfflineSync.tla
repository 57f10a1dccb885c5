---------------------------- MODULE OfflineSync -----------------------------
(***************************************************************************)
(* The two ends of a push: the client's queue (OutboxQueue) and the        *)
(* backend's endpoint (SyncEndpoint).  In the code nothing joins them:     *)
(* push_changes of crates/sqlite_embedded marks its batch without a        *)
(* request, and the one function that posts to the endpoint, syncPush of   *)
(* the app, is handed its list by its caller.  Here that list may hold any *)
(* operations of the client.                                               *)
(***************************************************************************)
EXTENDS OutboxQueue

CONSTANTS Handler, MaxPosted, MaxTable

VARIABLES table, at, todo, row

Backend == INSTANCE SyncEndpoint WITH Operation <- 1..MaxRows

backendVars == <<table, at, todo, row>>

allVars == <<vars, backendVars>>

PushInit == Init /\ Backend!EndpointInit

PushNext ==
    \/ /\ Next
       /\ UNCHANGED backendVars
    \/ /\ \E h \in Handler, ops \in Backend!Posts :
             /\ \A i \in DOMAIN ops : ops[i] \in DOMAIN outbox
             /\ Backend!Post(h, ops)
       /\ UNCHANGED vars
    \/ /\ Backend!Serve
       /\ UNCHANGED vars

PushSpec == PushInit /\ [][PushNext]_allVars

\* "Push local changes to server" (push_changes): an operation the client has
\* marked as synced is one the backend has stored.
SyncedWasStored ==
    \A id \in DOMAIN outbox : outbox[id].synced =>
        \E r \in DOMAIN table : table[r].op = id
=============================================================================
