---------------------------- MODULE OutboxQueue -----------------------------
(***************************************************************************)
(* The offline queue of crates/sqlite_embedded (src/queue.rs) and the task *)
(* that empties it (push_changes of src/sync.rs).                          *)
(*                                                                         *)
(* A row's id is its place in outbox (AUTOINCREMENT, nothing is deleted).  *)
(* Its next_retry_at is kept as the seconds still to wait.  Every SQL      *)
(* statement is one step: between two of them any other task may run and   *)
(* the process may die.                                                    *)
(*                                                                         *)
(* push_changes reads a batch and marks its rows as synced one after the   *)
(* other; it sends nothing ("simulated success"; module OfflineSync says   *)
(* what that means for the backend).  mark_sync_failed is exported and     *)
(* only the tests call it: any task may, for any row.                      *)
(***************************************************************************)
EXTENDS Integers, Sequences

CONSTANTS
    Worker,      \* tasks that use the queue
    Lamport,     \* the stamps operations carry
    MaxBatch,    \* max_ops
    MaxBackoff,  \* 3600 in the code
    Width,       \* the bits of the backoff's integer: 32 in the code
    MaxRows,     \* bound: rows enqueued
    MaxRetries   \* bound: retry_count of a row that is marked as failed again

ASSUME OutboxAssumption ==
    /\ Lamport \subseteq Nat
    /\ MaxBatch \in Nat \ {0}
    /\ MaxBackoff \in Nat \ {0}
    /\ Width \in Nat \ {0}
    /\ \A n \in 0..(Width - 1) : 2^n \in Nat
    /\ \A n \in 1..(Width - 1) : 2^(n - 1) <= 2^n
    /\ MaxRows \in Nat

VARIABLES
    outbox,    \* the table outbox_queue
    pc,        \* pc[w]: what w does next
    batch,     \* batch[w]: ids w still has to deal with
    read,      \* read[w]: the retry_count w read in mark_sync_failed
    tried      \* the ids some push_changes has tried to mark (history)

vars == <<outbox, pc, batch, read, tried>>

-----------------------------------------------------------------------------
(* Rows and batches *)

Row(lamport, retry, wait, synced) ==
    [lamport |-> lamport, retry |-> retry, wait |-> wait, synced |-> synced]

Synced(row) == Row(row.lamport, row.retry, row.wait, TRUE)

Retried(row, retry, wait) == Row(row.lamport, retry, wait, row.synced)

\* Faulty form: process_queue forgets what mark_sync_failed asked for.
DueIgnoringRetry == {id \in DOMAIN outbox : ~outbox[id].synced}

Due == {id \in DOMAIN outbox : ~outbox[id].synced /\ outbox[id].wait = 0}

\* Faulty form: the SELECT without its ORDER BY.
IsBatchUnordered(b) ==
    /\ \A i, j \in DOMAIN b : i # j => b[i] # b[j]
    /\ \/ Len(b) = MaxBatch
       \/ \A id \in Due : \E i \in DOMAIN b : b[i] = id

\* b is what the SELECT may return: rows that are due, by stamp, no row left
\* out that comes before one taken, at most MaxBatch of them.  Rows with the
\* same stamp come in any order.
IsBatch(b) ==
    /\ \A i, j \in DOMAIN b :
          i < j => /\ b[i] # b[j]
                   /\ outbox[b[i]].lamport <= outbox[b[j]].lamport
    /\ \A id \in Due : \/ \E i \in DOMAIN b : b[i] = id
                       \/ /\ Len(b) = MaxBatch
                          /\ outbox[b[Len(b)]].lamport <= outbox[id].lamport

\* 2u32.pow(n).min(3600) in a release build, where pow wraps: the one bit of
\* 2^n is shifted out of the integer when n reaches its width.
Backoff(n) ==
    LET pow == IF n < Width THEN 2^n ELSE 0 IN
    IF pow < MaxBackoff THEN pow ELSE MaxBackoff

-----------------------------------------------------------------------------

Init ==
    /\ outbox = << >>
    /\ pc = [w \in Worker |-> "idle"]
    /\ batch = [w \in Worker |-> << >>]
    /\ read = [w \in Worker |-> 0]
    /\ tried = {}

\* enqueue_op: a new row, due at once.
Enqueue(lamport) ==
    /\ Len(outbox) < MaxRows
    /\ outbox' = Append(outbox, Row(lamport, 0, 0, FALSE))
    /\ UNCHANGED <<pc, batch, read, tried>>

\* push_changes starts with process_queue: one SELECT.  Nothing claims the
\* rows for w.  With no row due, or an error, push_changes returns.
ProcessQueue(w) ==
    /\ pc[w] = "idle"
    /\ Due # {}
    /\ \E n \in 1..MaxBatch : \E b \in [1..n -> Due] :
          /\ IsBatch(b)
          /\ batch' = [batch EXCEPT ![w] = b]
    /\ pc' = [pc EXCEPT ![w] = "mark"]
    /\ UNCHANGED <<outbox, read, tried>>

\* Faulty form: w goes on after the last row.
NextRowOnAndOn(w) ==
    /\ batch' = [batch EXCEPT ![w] = Tail(@)]
    /\ pc' = [pc EXCEPT ![w] = "mark"]

\* w is done with the first row of its batch.
NextRow(w) ==
    /\ batch' = [batch EXCEPT ![w] = Tail(@)]
    /\ pc' = [pc EXCEPT ![w] = IF Len(batch[w]) = 1 THEN "idle" ELSE "mark"]

\* mark_synced on the next row of the batch.  push_changes ignores an error:
\* the row stays pending, and w goes on.
MarkSynced(w) ==
    /\ pc[w] = "mark"
    /\ LET id == Head(batch[w]) IN
       /\ \/ outbox' = [outbox EXCEPT ![id] = Synced(outbox[id])]
          \/ UNCHANGED outbox
       /\ tried' = tried \cup {id}
    /\ NextRow(w)
    /\ UNCHANGED read

\* mark_sync_failed, the SELECT: w learns the row's retry_count.
ReadRetryCount(w, id) ==
    /\ pc[w] = "idle"
    /\ id \in DOMAIN outbox
    /\ outbox[id].retry < MaxRetries
    /\ batch' = [batch EXCEPT ![w] = <<id>>]
    /\ read' = [read EXCEPT ![w] = outbox[id].retry]
    /\ pc' = [pc EXCEPT ![w] = "retry"]
    /\ UNCHANGED <<outbox, tried>>

\* w returns from mark_sync_failed.
ReturnFromRetry(w) ==
    /\ batch' = [batch EXCEPT ![w] = << >>]
    /\ read' = [read EXCEPT ![w] = 0]
    /\ pc' = [pc EXCEPT ![w] = "idle"]

\* Faulty form: the UPDATE sets next_retry_at alone.
WriteRetryUncounted(w) ==
    /\ pc[w] = "retry"
    /\ LET id == Head(batch[w]) IN
       outbox' = [outbox EXCEPT
          ![id] = Retried(outbox[id], outbox[id].retry, Backoff(read[w] + 1))]
    /\ ReturnFromRetry(w)
    /\ UNCHANGED tried

\* mark_sync_failed, the UPDATE: it writes what it computed from the count it
\* read, whatever the row says now.
WriteRetry(w) ==
    /\ pc[w] = "retry"
    /\ LET id == Head(batch[w])
           n  == read[w] + 1 IN
       outbox' = [outbox EXCEPT ![id] = Retried(outbox[id], n, Backoff(n))]
    /\ ReturnFromRetry(w)
    /\ UNCHANGED tried

\* The UPDATE fails, and mark_sync_failed returns the error.
RetryNotWritten(w) ==
    /\ pc[w] = "retry"
    /\ ReturnFromRetry(w)
    /\ UNCHANGED <<outbox, tried>>

\* A second passes.
Tick ==
    /\ \E id \in DOMAIN outbox : outbox[id].wait > 0
    /\ outbox' = [id \in DOMAIN outbox |->
          LET row == outbox[id] IN
          Retried(row, row.retry, IF row.wait > 0 THEN row.wait - 1 ELSE 0)]
    /\ UNCHANGED <<pc, batch, read, tried>>

\* The process dies and starts again: what its tasks held is gone, the table
\* is not.
Crash ==
    /\ \E w \in Worker : pc[w] # "idle"
    /\ pc' = [w \in Worker |-> "idle"]
    /\ batch' = [w \in Worker |-> << >>]
    /\ read' = [w \in Worker |-> 0]
    /\ UNCHANGED <<outbox, tried>>

WorkerStep(w) ==
    \/ ProcessQueue(w)
    \/ MarkSynced(w)
    \/ \E id \in DOMAIN outbox : ReadRetryCount(w, id)
    \/ WriteRetry(w)
    \/ RetryNotWritten(w)

Next ==
    \/ \E lamport \in Lamport : Enqueue(lamport)
    \/ \E w \in Worker : WorkerStep(w)
    \/ Tick
    \/ Crash

Spec == Init /\ [][Next]_vars

-----------------------------------------------------------------------------
(* What is checked and proved *)

Rows == [lamport : Lamport, retry : Nat, wait : Nat, synced : BOOLEAN]

\* Rows, ids and tasks are well-formed: a task that is busy has a row to be
\* busy with, and every id names a row.
TypeOK ==
    /\ outbox \in Seq(Rows)
    /\ pc \in [Worker -> {"idle", "mark", "retry"}]
    /\ batch \in [Worker -> Seq(DOMAIN outbox)]
    /\ \A w \in Worker : pc[w] # "idle" => batch[w] # << >>
    /\ read \in [Worker -> Nat]
    /\ tried \subseteq DOMAIN outbox

\* In the table t, early was enqueued before late and has a smaller stamp.
Before(t, early, late) == early < late /\ t[early].lamport < t[late].lamport

\* push_changes takes operations in the order of their stamps (ORDER BY in
\* process_queue), however many run at once and wherever they die: it comes to
\* an operation before one that was enqueued earlier with a smaller stamp only
\* when mark_sync_failed has put the earlier one off.
OvertakenOnlyWhenPutOff ==
    \A early, late \in DOMAIN outbox :
        Before(outbox, early, late) /\ late \in tried
            => early \in tried \/ outbox[early].retry > 0

\* A row that push_changes has still to mark is due: it is not taken up again
\* after it was synced, nor before the backoff of its last failure is over
\* (process_queue against mark_sync_failed and mark_synced).
BatchIsDue ==
    \A w \in Worker : pc[w] = "mark" =>
        \A i \in DOMAIN batch[w] :
            LET row == outbox[batch[w][i]] IN ~row.synced /\ row.wait = 0

\* mark_sync_failed, run by w, has just put the row id off.
PutOff(w, id) ==
    /\ pc[w] = "retry" /\ pc'[w] = "idle" /\ Head(batch[w]) = id
    /\ \/ outbox'[id].retry # outbox[id].retry
       \/ outbox'[id].wait > outbox[id].wait

\* "update retry schedule with exponential backoff" (mark_sync_failed): every
\* failure of a row is counted, and until the count reaches the width of the
\* integer no failure brings a shorter wait than the one before.  Another task
\* may have written the count since w read it; then the later write wins.
BackoffGrows ==
    [][\A w \in Worker, id \in DOMAIN outbox :
          PutOff(w, id) /\ read[w] = outbox[id].retry =>
              /\ outbox'[id].retry > outbox[id].retry
              /\ outbox[id].retry > 0 /\ outbox'[id].retry < Width =>
                    outbox'[id].wait >= Backoff(outbox[id].retry)]_vars

\* The same of one task, without the limit: a failure never brings a shorter
\* wait than the one before.
BackoffNeverShrinks ==
    [][\A w \in Worker, id \in DOMAIN outbox :
          PutOff(w, id) /\ outbox[id].retry > 0 =>
              outbox'[id].wait >= Backoff(outbox[id].retry)]_vars

-----------------------------------------------------------------------------
(* The promise of module WorkQueue *)

Held(w) == IF pc[w] = "mark"
           THEN {batch[w][i] : i \in DOMAIN batch[w]}
           ELSE {}

Queue == INSTANCE WorkQueue WITH
            Id       <- 1..MaxRows,
            Taker    <- Worker,
            accepted <- DOMAIN outbox,
            pending  <- {id \in DOMAIN outbox : ~outbox[id].synced},
            waiting  <- {id \in DOMAIN outbox : outbox[id].wait > 0},
            held     <- [w \in Worker |-> Held(w)]

\* An operation leaves the queue only through a task that was handed it, one
\* at a time, is not handed out again after that, nor while mark_sync_failed
\* has put it off, and is not lost when a task dies - however tasks overlap,
\* also when mark_sync_failed writes to a row that is being settled.
ImplementsWorkQueue == Queue!Spec
=============================================================================
