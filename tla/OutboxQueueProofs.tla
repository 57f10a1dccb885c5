-------------------------- MODULE OutboxQueueProofs -------------------------
(***************************************************************************)
(* OutboxQueue for any number of tasks, rows and failures, any width of    *)
(* the backoff and any batch size.                                         *)
(***************************************************************************)
EXTENDS OutboxQueue, SequenceTheorems, TLAPS

\* 2u32.pow(n).min(3600) is a number of seconds between 0 and MaxBackoff.
LEMMA BackoffBounded ==
    ASSUME NEW n \in Nat
    PROVE  Backoff(n) \in 0..MaxBackoff
<1>1. CASE n < Width
  BY <1>1, OutboxAssumption DEF Backoff, OutboxAssumption
<1>2. CASE ~(n < Width)
  BY <1>2, OutboxAssumption DEF Backoff, OutboxAssumption
<1>3. QED BY <1>1, <1>2

\* Ids number the rows.
LEMMA Table ==
    ASSUME TypeOK
    PROVE  /\ DOMAIN outbox = 1..Len(outbox) /\ Len(outbox) \in Nat
           /\ \A id \in DOMAIN outbox : outbox[id] \in Rows
<1>1. outbox \in Seq(Rows)
  BY DEF TypeOK
<1>2. QED BY <1>1

\* The rows process_queue returns are rows of the table.
LEMMA DueAreRows == Due \subseteq DOMAIN outbox
BY DEF Due

\* A table keeps its ids when rows are replaced one by one.
LEMMA SameTable ==
    ASSUME NEW t \in Seq(Rows), NEW id \in DOMAIN t, NEW row \in Rows
    PROVE  /\ [t EXCEPT ![id] = row] \in Seq(Rows)
           /\ DOMAIN [t EXCEPT ![id] = row] = DOMAIN t
           /\ [t EXCEPT ![id] = row][id] = row
           /\ \A j \in DOMAIN t : j # id => [t EXCEPT ![id] = row][j] = t[j]
BY ExceptSeq

\* A step past a row of a batch leaves the task well-formed.
LEMMA NextRowType ==
    ASSUME TypeOK, NEW w \in Worker, pc[w] # "idle", NextRow(w)
    PROVE  /\ pc' \in [Worker -> {"idle", "mark", "retry"}]
           /\ batch' \in [Worker -> Seq(DOMAIN outbox)]
           /\ \A v \in Worker : pc'[v] # "idle" => batch'[v] # << >>
<1>1. batch[w] \in Seq(DOMAIN outbox) /\ batch[w] # << >>
  BY DEF TypeOK
<1>2. /\ Tail(batch[w]) \in Seq(DOMAIN outbox)
      /\ Len(batch[w]) # 1 => Tail(batch[w]) # << >>
  <2>1. Tail(batch[w]) \in Seq(DOMAIN outbox) /\ Len(Tail(batch[w])) = Len(batch[w]) - 1
    BY <1>1, HeadTailProperties
  <2>2. Len(batch[w]) \in Nat
    BY <1>1, LenProperties
  <2>3. Len(batch[w]) # 0
    BY <1>1, <2>2, EmptySeq
  <2>4. Len(batch[w]) # 1 => Len(Tail(batch[w])) # 0
    BY <2>1, <2>2
  <2>5. Len(<< >>) = 0
    BY EmptySeq
  <2>6. QED BY <2>1, <2>4, <2>5
<1>3. /\ batch' = [batch EXCEPT ![w] = Tail(batch[w])]
      /\ pc' = [pc EXCEPT ![w] = IF Len(batch[w]) = 1 THEN "idle" ELSE "mark"]
  BY DEF NextRow
<1>4. batch' \in [Worker -> Seq(DOMAIN outbox)]
  BY <1>2, <1>3 DEF TypeOK
<1>5. QED BY <1>2, <1>3, <1>4 DEF TypeOK

\* So does the return from mark_sync_failed.
LEMMA ReturnType ==
    ASSUME TypeOK, NEW w \in Worker, ReturnFromRetry(w)
    PROVE  /\ pc' \in [Worker -> {"idle", "mark", "retry"}]
           /\ batch' \in [Worker -> Seq(DOMAIN outbox)]
           /\ \A v \in Worker : pc'[v] # "idle" => batch'[v] # << >>
           /\ read' \in [Worker -> Nat]
<1>1. << >> \in Seq(DOMAIN outbox)
  BY EmptySeq
<1>2. QED BY <1>1 DEF TypeOK, ReturnFromRetry

-----------------------------------------------------------------------------
(* Types *)

LEMMA InitType == Init => TypeOK
<1>1. << >> \in Seq(Rows) /\ DOMAIN << >> = {}
  BY EmptySeq
<1> QED
  BY <1>1, EmptySeq DEF Init, TypeOK

LEMMA EnqueueType ==
    ASSUME TypeOK, NEW lamport \in Lamport, Enqueue(lamport)
    PROVE  TypeOK'
<1> DEFINE row == Row(lamport, 0, 0, FALSE)
<1>1. row \in Rows
  BY DEF Row, Rows
<1>2. /\ outbox' = Append(outbox, row)
      /\ outbox \in Seq(Rows)
  BY DEF Enqueue, TypeOK
<1> HIDE DEF row
<1>3. /\ outbox' \in Seq(Rows)
      /\ DOMAIN outbox = 1..Len(outbox) /\ Len(outbox) \in Nat
      /\ DOMAIN outbox' = 1..(Len(outbox) + 1)
  BY <1>1, <1>2, AppendProperties
<1>5. DOMAIN outbox \subseteq DOMAIN outbox'
  BY <1>3
<1>6. Seq(DOMAIN outbox) \subseteq Seq(DOMAIN outbox')
  BY <1>5, SeqMonotonic
<1>7. batch' \in [Worker -> Seq(DOMAIN outbox')] 
  BY <1>6 DEF Enqueue, TypeOK
<1>8. QED
  BY <1>3, <1>5, <1>7 DEF Enqueue, TypeOK

LEMMA ProcessQueueType ==
    ASSUME TypeOK, NEW w \in Worker, ProcessQueue(w)
    PROVE  TypeOK'
<1>0. PICK n \in 1..MaxBatch : \E b \in [1..n -> Due] :
          batch' = [batch EXCEPT ![w] = b]
  BY DEF ProcessQueue
<1>1. PICK b \in [1..n -> Due] :
          batch' = [batch EXCEPT ![w] = b]
  BY <1>0
<1>2. n \in Nat /\ 1 <= n
  BY OutboxAssumption DEF OutboxAssumption
<1>3. b \in [1..n -> DOMAIN outbox]
  BY DueAreRows
<1>4. b \in Seq(DOMAIN outbox) /\ b # << >>
  <2>1. b \in Seq(DOMAIN outbox) /\ Len(b) = n
    BY <1>2, <1>3
  <2>2. QED BY <1>2, <2>1, EmptySeq
<1>5. batch' \in [Worker -> Seq(DOMAIN outbox)]
  BY <1>1, <1>4 DEF TypeOK
<1>6. QED BY <1>1, <1>4, <1>5 DEF ProcessQueue, TypeOK

\* The two ways a row changes leave it a row.
LEMMA RowType ==
    ASSUME NEW row \in Rows, NEW n \in Nat, NEW wait \in Nat
    PROVE  /\ Retried(row, n, wait) \in Rows
           /\ Retried(row, n, wait).synced = row.synced
           /\ Synced(row) \in Rows
BY DEF Retried, Synced, Row, Rows

\* Head of a busy worker's batch is a row of the table.
LEMMA HeadIsRow ==
    ASSUME TypeOK, NEW w \in Worker, pc[w] # "idle"
    PROVE  /\ Head(batch[w]) \in DOMAIN outbox
           /\ outbox[Head(batch[w])] \in Rows
BY HeadTailProperties, ElementOfSeq, LenProperties DEF TypeOK

LEMMA ReplaceRowType ==
    ASSUME TypeOK, NEW id \in DOMAIN outbox, NEW row \in Rows,
           outbox' = [outbox EXCEPT ![id] = row]
    PROVE  outbox' \in Seq(Rows) /\ DOMAIN outbox' = DOMAIN outbox
<1>1. id \in 1..Len(outbox) /\ outbox \in Seq(Rows)
  BY LenProperties DEF TypeOK
<1>2. /\ outbox' \in Seq(Rows) /\ Len(outbox') = Len(outbox)
  BY <1>1, ExceptSeq
<1>3. QED BY <1>1, <1>2, LenProperties

LEMMA MarkType ==
    ASSUME TypeOK, NEW w \in Worker, MarkSynced(w)
    PROVE  TypeOK'
<1> DEFINE id == Head(batch[w])
<1>1. /\ pc[w] # "idle" /\ NextRow(w) /\ read' = read
      /\ tried' = tried \cup {id}
  BY DEF MarkSynced
<1>2. id \in DOMAIN outbox /\ outbox[id] \in Rows
  BY <1>1, HeadIsRow
<1>3. \/ outbox' = outbox
      \/ outbox' = [outbox EXCEPT ![id] = Synced(outbox[id])]
  BY Zenon DEF MarkSynced
<1>4. Synced(outbox[id]) \in Rows
  BY <1>2 DEF Synced, Row, Rows
<1> HIDE DEF id
<1>5. outbox' \in Seq(Rows) /\ DOMAIN outbox' = DOMAIN outbox
  BY <1>2, <1>3, <1>4, ReplaceRowType DEF TypeOK
<1>6. QED BY <1>1, <1>2, <1>5, NextRowType DEF TypeOK

LEMMA RetryType ==
    ASSUME TypeOK, NEW w \in Worker, WriteRetry(w)
    PROVE  TypeOK'
<1> DEFINE id == Head(batch[w])
           n == read[w] + 1
           row == Retried(outbox[id], n, Backoff(n))
<1>1. pc[w] # "idle" /\ ReturnFromRetry(w) /\ tried' = tried
  BY DEF WriteRetry
<1>2. id \in DOMAIN outbox /\ outbox[id] \in Rows
  BY <1>1, HeadIsRow
<1>3. n \in Nat /\ Backoff(n) \in Nat
  <2>1. n \in Nat
    BY DEF TypeOK
  <2>2. MaxBackoff \in Nat
    BY OutboxAssumption DEF OutboxAssumption
  <2>3. \A k \in Nat : Backoff(k) \in 0..MaxBackoff
    BY BackoffBounded
  <2> HIDE DEF n
  <2>4. QED BY <2>1, <2>2, <2>3
<1>4. row \in Rows
  BY <1>2, <1>3, RowType
<1>5. outbox' = [outbox EXCEPT ![id] = row]
  BY Zenon DEF WriteRetry
<1> HIDE DEF id, row
<1>6. outbox' \in Seq(Rows) /\ DOMAIN outbox' = DOMAIN outbox
  BY <1>2, <1>4, <1>5, ReplaceRowType
<1>7. QED BY <1>1, <1>6, ReturnType DEF TypeOK

LEMMA NotWrittenType ==
    ASSUME TypeOK, NEW w \in Worker, RetryNotWritten(w)
    PROVE  TypeOK'
BY ReturnType DEF RetryNotWritten, TypeOK

LEMMA ReadRetryType ==
    ASSUME TypeOK, NEW w \in Worker, NEW id \in DOMAIN outbox,
           ReadRetryCount(w, id)
    PROVE  TypeOK'
<1>1. outbox[id].retry \in Nat
  BY Table DEF Rows
<1>2. <<id>> \in Seq(DOMAIN outbox) /\ <<id>> # << >>
  OBVIOUS
<1>3. QED BY <1>1, <1>2 DEF TypeOK, ReadRetryCount

LEMMA TickType ==
    ASSUME TypeOK, Tick
    PROVE  TypeOK'
<1>1. outbox \in Seq(Rows) /\ DOMAIN outbox = 1..Len(outbox) /\ Len(outbox) \in Nat
  BY LenProperties DEF TypeOK
<1>2. \A id \in 1..Len(outbox) : outbox'[id] \in Rows
  <2> SUFFICES ASSUME NEW id \in 1..Len(outbox)
               PROVE  outbox'[id] \in Rows
    OBVIOUS
  <2>1. outbox[id] \in Rows
    BY <1>1, ElementOfSeq
  <2>2. QED BY <1>1, <2>1 DEF Tick, Retried, Row, Rows
<1>3. outbox' \in [1..Len(outbox) -> Rows]
  <2>1. DOMAIN outbox' = 1..Len(outbox) /\ outbox' = [id \in 1..Len(outbox) |-> outbox'[id]]
    BY <1>1 DEF Tick
  <2>2. QED BY <1>2, <2>1
<1>4. outbox' \in Seq(Rows) /\ Len(outbox') = Len(outbox) /\ DOMAIN outbox' = DOMAIN outbox
  BY <1>1, <1>3
<1>5. QED BY <1>4 DEF Tick, TypeOK

LEMMA CrashType ==
    ASSUME TypeOK, Crash
    PROVE  TypeOK'
<1>1. << >> \in Seq(DOMAIN outbox)
  BY EmptySeq
<1>2. QED BY <1>1 DEF TypeOK, Crash

LEMMA NextType == TypeOK /\ [Next]_vars => TypeOK'
<1> SUFFICES ASSUME TypeOK, [Next]_vars
             PROVE  TypeOK'
  OBVIOUS
<1>1. CASE UNCHANGED vars
  BY <1>1 DEF TypeOK, vars
<1>2. ASSUME NEW lamport \in Lamport, Enqueue(lamport)
      PROVE  TypeOK'
  BY <1>2, EnqueueType
<1>3. ASSUME NEW w \in Worker, WorkerStep(w)
      PROVE  TypeOK'
  BY <1>3, ProcessQueueType, MarkType, RetryType, NotWrittenType,
     ReadRetryType DEF WorkerStep
<1>4. QED BY <1>1, <1>2, <1>3, TickType, CrashType DEF Next

\* Rows, ids and tasks stay well-formed, however many tasks interleave and
\* wherever the process dies.
THEOREM TypeCorrect == Spec => []TypeOK
<1>1. QED BY InitType, NextType, PTL DEF Spec

-----------------------------------------------------------------------------
(* What a step does to a row and to a task *)

\* A row is new; or it waits a second less or is synced; or it is written by
\* mark_sync_failed.
LEMMA RowStep ==
    ASSUME TypeOK, [Next]_vars, NEW id \in DOMAIN outbox'
    PROVE  \/ /\ id = Len(outbox) + 1
              /\ \E lamport \in Lamport : outbox'[id] = Row(lamport, 0, 0, FALSE)
           \/ /\ id \in DOMAIN outbox
              /\ \/ outbox'[id] = outbox[id]
                 \/ /\ outbox[id].wait > 0
                    /\ outbox'[id] = Retried(outbox[id], outbox[id].retry, outbox[id].wait - 1)
                 \/ \E w \in Worker : /\ MarkSynced(w) /\ id = Head(batch[w])
                                      /\ outbox'[id] = Synced(outbox[id])
                 \/ \E w \in Worker : /\ WriteRetry(w) /\ id = Head(batch[w])
                                      /\ outbox'[id] = Retried(outbox[id], read[w] + 1,
                                                               Backoff(read[w] + 1))
<1>1. CASE UNCHANGED outbox
  BY <1>1
<1>2. ASSUME NEW lamport \in Lamport, Enqueue(lamport)
      PROVE  \/ id \in DOMAIN outbox /\ outbox'[id] = outbox[id]
             \/ /\ id = Len(outbox) + 1
                /\ outbox'[id] = Row(lamport, 0, 0, FALSE)
  <2> DEFINE row == Row(lamport, 0, 0, FALSE)
  <2>1. outbox' = Append(outbox, row)
    BY <1>2 DEF Enqueue
  <2> HIDE DEF row
  <2>2. outbox \in Seq(Rows) /\ Len(outbox) \in Nat
    BY DEF TypeOK
  <2>3. /\ DOMAIN outbox' = DOMAIN outbox \cup {Len(outbox) + 1}
        /\ outbox'[Len(outbox) + 1] = row
        /\ \A j \in DOMAIN outbox : outbox'[j] = outbox[j]
    BY <2>1, <2>2
  <2>4. QED BY <2>3 DEF row
<1>3. ASSUME NEW w \in Worker, pc[w] # "idle", NEW row,
             outbox' = [outbox EXCEPT ![Head(batch[w])] = row]
      PROVE  /\ id \in DOMAIN outbox
             /\ outbox'[id] = outbox[id] \/ (id = Head(batch[w]) /\ outbox'[id] = row)
  BY <1>3, HeadIsRow
<1>4. ASSUME NEW w \in Worker, MarkSynced(w)
      PROVE  /\ id \in DOMAIN outbox
             /\ \/ outbox'[id] = outbox[id]
                \/ id = Head(batch[w]) /\ outbox'[id] = Synced(outbox[id])
  <2>1. pc[w] # "idle"
    BY <1>4 DEF MarkSynced
  <2>2. \/ outbox' = outbox
        \/ outbox' = [outbox EXCEPT ![Head(batch[w])] = Synced(outbox[Head(batch[w])])]
    BY <1>4, Zenon DEF MarkSynced
  <2>3. QED BY <1>3, <2>1, <2>2
<1>5. ASSUME NEW w \in Worker, WriteRetry(w)
      PROVE  /\ id \in DOMAIN outbox
             /\ \/ outbox'[id] = outbox[id]
                \/ /\ id = Head(batch[w])
                   /\ outbox'[id] = Retried(outbox[id], read[w] + 1, Backoff(read[w] + 1))
  <2>1. pc[w] # "idle"
    BY <1>5 DEF WriteRetry
  <2>2. outbox' = [outbox EXCEPT ![Head(batch[w])] =
                      Retried(outbox[Head(batch[w])], read[w] + 1, Backoff(read[w] + 1))]
    BY <1>5, Zenon DEF WriteRetry
  <2>3. QED BY <1>3, <2>1, <2>2
<1>6. CASE Tick
  <2>1. /\ id \in DOMAIN outbox
        /\ outbox'[id] = Retried(outbox[id], outbox[id].retry,
                                 IF outbox[id].wait > 0 THEN outbox[id].wait - 1 ELSE 0)
    BY <1>6 DEF Tick
  <2>2. outbox[id] \in Rows
    BY <2>1, Table
  <2>3. ~(outbox[id].wait > 0) => Retried(outbox[id], outbox[id].retry, 0) = outbox[id]
    BY <2>2 DEF Retried, Row, Rows
  <2>4. QED BY <2>1, <2>3
<1>7. CASE \E lamport \in Lamport : Enqueue(lamport)
  BY <1>2, <1>7
<1>8. ASSUME NEW w \in Worker, WorkerStep(w)
      PROVE  UNCHANGED outbox \/ MarkSynced(w) \/ WriteRetry(w)
  BY <1>8 DEF WorkerStep, ProcessQueue, ReadRetryCount, RetryNotWritten
<1>9. QED
  BY <1>1, <1>4, <1>5, <1>6, <1>7, <1>8 DEF Next, Crash, vars

\* Where a task may go.
LEMMA WorkerAfter ==
    ASSUME TypeOK, [Next]_vars, NEW v \in Worker
    PROVE  \/ batch'[v] = batch[v] /\ pc'[v] = pc[v] /\ read'[v] = read[v]
           \/ ProcessQueue(v)
           \/ MarkSynced(v)
           \/ \E id \in DOMAIN outbox : ReadRetryCount(v, id)
           \/ batch'[v] = << >> /\ pc'[v] = "idle"
<1>1. /\ pc \in [Worker -> {"idle", "mark", "retry"}]
      /\ batch \in [Worker -> Seq(DOMAIN outbox)] /\ read \in [Worker -> Nat]
  BY DEF TypeOK
<1>2. CASE UNCHANGED <<pc, batch, read>>
  BY <1>2
<1>3. CASE Crash
  BY <1>1, <1>3 DEF Crash
<1>4. ASSUME NEW w \in Worker, WorkerStep(w), v # w
      PROVE  batch'[v] = batch[v] /\ pc'[v] = pc[v] /\ read'[v] = read[v]
  BY <1>1, <1>4 DEF WorkerStep, ProcessQueue, ReadRetryCount,
              RetryNotWritten, MarkSynced, WriteRetry, NextRow, ReturnFromRetry
<1>5. CASE WriteRetry(v) \/ RetryNotWritten(v)
  BY <1>1, <1>5 DEF WriteRetry, RetryNotWritten, ReturnFromRetry
<1>6. QED
  BY <1>2, <1>3, <1>4, <1>5 DEF Next, WorkerStep, Enqueue, Tick, vars

-----------------------------------------------------------------------------
(* The order in which operations are taken *)

\* What lets a later operation pass.
Excused(id) == id \in tried \/ outbox[id].retry > 0

WaitIsRetry == \A id \in DOMAIN outbox : outbox[id].wait > 0 => outbox[id].retry > 0

SyncedWasTried == \A id \in DOMAIN outbox : outbox[id].synced => id \in tried

\* An operation that a row of a batch should wait for was tried, was put off,
\* or comes first in the batch.
Waits(b, i) ==
    \A early \in DOMAIN outbox :
        Before(outbox, early, b[i]) => Excused(early) \/ \E j \in 1..(i - 1) : b[j] = early

BatchInOrder ==
    \A w \in Worker : pc[w] = "mark" => \A i \in DOMAIN batch[w] : Waits(batch[w], i)

OrderInv == TypeOK /\ WaitIsRetry /\ SyncedWasTried /\ BatchInOrder /\ OvertakenOnlyWhenPutOff

\* A row keeps its stamp, and rows come after those that are there.
LEMMA BeforeKept ==
    ASSUME TypeOK, [Next]_vars
    PROVE  /\ DOMAIN outbox \subseteq DOMAIN outbox'
           /\ \A early \in DOMAIN outbox', late \in DOMAIN outbox :
                 Before(outbox', early, late) => early \in DOMAIN outbox /\ Before(outbox, early, late)
<1>1. ASSUME NEW id \in DOMAIN outbox, id \in DOMAIN outbox'
      PROVE  outbox'[id].lamport = outbox[id].lamport
  BY <1>1, RowStep, Table DEF Synced, Retried, Row
<1>2. DOMAIN outbox \subseteq DOMAIN outbox'
  <2>1. CASE \E lamport \in Lamport : Enqueue(lamport)
    <3>1. PICK row \in Rows : outbox' = Append(outbox, row)
      BY <2>1 DEF Enqueue, Row, Rows
    <3>2. QED BY <3>1 DEF TypeOK
  <2>2. CASE ~\E lamport \in Lamport : Enqueue(lamport)
    BY <2>2, Table DEF Next, WorkerStep, ProcessQueue,
          MarkSynced, ReadRetryCount, WriteRetry, RetryNotWritten, Tick, Crash, vars
  <2>3. QED BY <2>1, <2>2
<1>3. ASSUME NEW early \in DOMAIN outbox', NEW late \in DOMAIN outbox, Before(outbox', early, late)
      PROVE  early \in DOMAIN outbox /\ Before(outbox, early, late)
  <2>1. early < late /\ outbox'[early].lamport < outbox'[late].lamport
    BY <1>3 DEF Before
  <2>2. early \in DOMAIN outbox
    <3>1. early = Len(outbox) + 1 \/ early \in DOMAIN outbox
      BY RowStep
    <3>2. late \in 1..Len(outbox) /\ Len(outbox) \in Nat
      BY Table
    <3>3. early # Len(outbox) + 1
      BY <2>1, <3>2
    <3>4. QED BY <3>1, <3>3
  <2>3. QED BY <1>1, <1>2, <2>1, <2>2 DEF Before
<1>4. QED BY <1>2, <1>3

\* What a step does to the count and the wait of a row.
LEMMA RetryKept ==
    ASSUME TypeOK, [Next]_vars, NEW id \in DOMAIN outbox
    PROVE  \/ /\ outbox'[id].retry = outbox[id].retry
              /\ outbox'[id].wait <= outbox[id].wait
           \/ \E w \in Worker : /\ WriteRetry(w) /\ id = Head(batch[w])
                                /\ outbox'[id].retry = read[w] + 1
                                /\ outbox'[id].wait = Backoff(read[w] + 1)
<1>1. id \in DOMAIN outbox' /\ id # Len(outbox) + 1
  BY BeforeKept, Table
<1>2. /\ \A n, wait : Retried(outbox[id], n, wait).retry = n /\ Retried(outbox[id], n, wait).wait = wait
      /\ Synced(outbox[id]).retry = outbox[id].retry
      /\ Synced(outbox[id]).wait = outbox[id].wait
  BY DEF Retried, Synced, Row
<1>3. \/ outbox'[id] = outbox[id]
      \/ outbox'[id] = Retried(outbox[id], outbox[id].retry, outbox[id].wait - 1)
      \/ outbox'[id] = Synced(outbox[id])
      \/ \E w \in Worker : /\ WriteRetry(w) /\ id = Head(batch[w])
                           /\ outbox'[id] = Retried(outbox[id], read[w] + 1, Backoff(read[w] + 1))
  BY <1>1, RowStep, Zenon
<1>4. ASSUME NEW w \in Worker, WriteRetry(w), id = Head(batch[w]),
             outbox'[id] = Retried(outbox[id], read[w] + 1, Backoff(read[w] + 1))
      PROVE  /\ WriteRetry(w) /\ id = Head(batch[w])
             /\ outbox'[id].retry = read[w] + 1
             /\ outbox'[id].wait = Backoff(read[w] + 1)
  <2> DEFINE n == read[w] + 1
             wait == Backoff(n)
  <2>1. outbox'[id] = Retried(outbox[id], n, wait)
    BY <1>4
  <2> HIDE DEF n, wait
  <2>2. outbox'[id].retry = n /\ outbox'[id].wait = wait
    BY <1>2, <2>1
  <2>3. QED BY <1>4, <2>2 DEF n, wait
<1>5. CASE \/ outbox'[id] = outbox[id]
           \/ outbox'[id] = Retried(outbox[id], outbox[id].retry, outbox[id].wait - 1)
           \/ outbox'[id] = Synced(outbox[id])
  <2>1. outbox[id].wait \in Nat
    BY Table DEF Rows
  <2>2. /\ outbox'[id].retry = outbox[id].retry
        /\ \/ outbox'[id].wait = outbox[id].wait
           \/ outbox'[id].wait = outbox[id].wait - 1
    <3>1. CASE outbox'[id] = outbox[id]
      BY <3>1
    <3>2. CASE outbox'[id] = Retried(outbox[id], outbox[id].retry, outbox[id].wait - 1)
      BY <3>2 DEF Retried, Row
    <3>3. CASE outbox'[id] = Synced(outbox[id])
      BY <1>2, <3>3, Zenon
    <3>4. QED BY <1>5, <3>1, <3>2, <3>3, Zenon
  <2>3. QED BY <2>1, <2>2
<1>6. QED BY <1>3, <1>4, <1>5, Zenon

LEMMA ExcusedKept ==
    ASSUME TypeOK, [Next]_vars, NEW id \in DOMAIN outbox, Excused(id)
    PROVE  Excused(id)'
<1>1. tried \subseteq tried'
  BY DEF Next, WorkerStep, Enqueue, ProcessQueue, MarkSynced, ReadRetryCount,
         WriteRetry, RetryNotWritten, Tick, Crash, vars
<1>2. ASSUME outbox[id].retry > 0
      PROVE  outbox'[id].retry > 0
  <2>1. \A w \in Worker : read[w] \in Nat
    BY DEF TypeOK
  <2>2. QED BY <1>2, <2>1, RetryKept
<1>3. QED BY <1>1, <1>2 DEF Excused

LEMMA Stamps ==
    ASSUME TypeOK, NEW id \in DOMAIN outbox
    PROVE  outbox[id].lamport \in Int
<1>1. outbox[id].lamport \in Lamport
  BY Table DEF Rows
<1>2. \A stamp \in Lamport : stamp \in Int
  BY OutboxAssumption DEF OutboxAssumption
<1>3. QED BY <1>1, <1>2, Zenon

\* Only mark_sync_failed makes a row wait, and it counts.
LEMMA WaitStep ==
    ASSUME TypeOK, WaitIsRetry, [Next]_vars
    PROVE  WaitIsRetry'
<1> SUFFICES ASSUME NEW id \in DOMAIN outbox', outbox'[id].wait > 0
             PROVE  outbox'[id].retry > 0
  BY DEF WaitIsRetry
<1>1. id \in DOMAIN outbox
  <2>1. \A lamport : Row(lamport, 0, 0, FALSE).wait = 0
    BY DEF Row
  <2>2. ~(0 > 0)
    OBVIOUS
  <2>3. QED BY <2>1, <2>2, RowStep, Zenon
<1>2. outbox[id].wait \in Nat /\ outbox[id].retry \in Nat /\ \A w \in Worker : read[w] \in Nat
  BY <1>1, Table DEF Rows, TypeOK
<1>3. CASE outbox'[id].retry = outbox[id].retry /\ outbox'[id].wait <= outbox[id].wait
  <2>1. outbox'[id].wait \in Nat
    <3>1. TypeOK'
      BY NextType
    <3>2. outbox' \in Seq(Rows) /\ id \in 1..Len(outbox')
      BY <3>1, LenProperties DEF TypeOK
    <3>3. outbox'[id] \in Rows
      BY <3>2, ElementOfSeq
    <3>4. QED BY <3>3 DEF Rows
  <2>2. outbox[id].wait > 0
    BY <1>2, <1>3, <2>1
  <2>3. QED BY <1>1, <1>3, <2>2 DEF WaitIsRetry
<1>4. QED BY <1>1, <1>2, <1>3, RetryKept

\* Only mark_synced of push_changes settles a row.
LEMMA SyncedStep ==
    ASSUME TypeOK, SyncedWasTried, [Next]_vars
    PROVE  SyncedWasTried'
<1> SUFFICES ASSUME NEW id \in DOMAIN outbox', outbox'[id].synced
             PROVE  id \in tried'
  BY DEF SyncedWasTried
<1>0. tried \subseteq tried'
  BY DEF Next, WorkerStep, Enqueue, ProcessQueue, MarkSynced, ReadRetryCount,
         WriteRetry, RetryNotWritten, Tick, Crash, vars
<1>1. /\ \A lamport : Row(lamport, 0, 0, FALSE).synced = FALSE
      /\ \A n, wait : Retried(outbox[id], n, wait).synced = outbox[id].synced
  BY DEF Row, Retried
<1>2. \/ id \in DOMAIN outbox /\ outbox[id].synced
      \/ \E w \in Worker : MarkSynced(w) /\ id = Head(batch[w])
  <2>1. \/ \E lamport \in Lamport : outbox'[id] = Row(lamport, 0, 0, FALSE)
        \/ /\ id \in DOMAIN outbox
           /\ \/ outbox'[id] = outbox[id]
              \/ \E n, wait : outbox'[id] = Retried(outbox[id], n, wait)
        \/ \E w \in Worker : MarkSynced(w) /\ id = Head(batch[w])
    BY RowStep, Zenon
  <2>2. QED BY <1>1, <2>1
<1>3. QED BY <1>0, <1>2 DEF SyncedWasTried, MarkSynced

\* The SELECT leaves no due row out that comes before one it takes.
LEMMA SelectInOrder ==
    ASSUME OrderInv, NEW n \in 1..MaxBatch, NEW b \in [1..n -> Due], IsBatch(b),
           NEW i \in 1..n
    PROVE  Waits(b, i)
<1> SUFFICES ASSUME NEW early \in DOMAIN outbox, Before(outbox, early, b[i]), ~Excused(early)
             PROVE  \E j \in 1..(i - 1) : b[j] = early
  BY DEF Waits
<1>t. TypeOK
  BY DEF OrderInv
<1>0. n \in Nat /\ i \in Nat /\ DOMAIN b = 1..n /\ Len(b) = n /\ n \in 1..n
  <2>1. n \in Nat /\ n \in 1..n
    BY OutboxAssumption DEF OutboxAssumption
  <2>2. b \in Seq(Due) /\ Len(b) = n
    BY <2>1, SeqDef
  <2>3. QED BY <2>1, <2>2
<1>1. early \in Due
  <2>1. ~outbox[early].synced
    BY DEF OrderInv, SyncedWasTried, Excused
  <2>2. outbox[early].wait = 0
    BY <1>t, Table DEF OrderInv, WaitIsRetry, Excused, Rows
  <2>3. QED BY <2>1, <2>2 DEF Due
<1>2. \A j \in 1..n : b[j] \in DOMAIN outbox /\ outbox[b[j]].lamport \in Int
  BY <1>t, Stamps, DueAreRows
<1>3. outbox[early].lamport < outbox[b[i]].lamport /\ outbox[early].lamport \in Int
  BY <1>t, Stamps DEF Before
<1>4. \A j, k \in 1..n : j < k => outbox[b[j]].lamport <= outbox[b[k]].lamport
  BY <1>0 DEF IsBatch
<1>5. CASE outbox[b[n]].lamport <= outbox[early].lamport
  <2>1. outbox[b[i]].lamport <= outbox[b[n]].lamport
    BY <1>0, <1>2, <1>4
  <2>2. QED BY <1>0, <1>2, <1>3, <1>5, <2>1
<1>6. ASSUME NEW j \in 1..n, b[j] = early PROVE j \in 1..(i - 1)
  <2>1. ~(outbox[b[i]].lamport <= outbox[b[j]].lamport)
    BY <1>2, <1>3, <1>6
  <2>2. ~(i < j) /\ i # j
    BY <1>2, <1>4, <2>1
  <2>3. QED BY <1>0, <2>2
<1>7. QED BY <1>0, <1>1, <1>5, <1>6 DEF IsBatch

\* A batch keeps its order while its rows are dealt with one by one.
LEMMA BatchStep ==
    ASSUME OrderInv, [Next]_vars
    PROVE  BatchInOrder'
<1> SUFFICES ASSUME NEW v \in Worker, pc'[v] = "mark", NEW i \in DOMAIN batch'[v], NEW early \in DOMAIN outbox',
                    Before(outbox', early, batch'[v][i])
             PROVE  Excused(early)' \/ \E j \in 1..(i - 1) : batch'[v][j] = early
  BY DEF BatchInOrder, Waits
<1>t. TypeOK
  BY DEF OrderInv
<1>s. batch[v] \in Seq(DOMAIN outbox)
  BY <1>t DEF TypeOK
<1>1. CASE batch'[v] = batch[v] /\ pc'[v] = pc[v]
  <2>1. batch[v][i] \in DOMAIN outbox
    BY <1>1, <1>s
  <2>2. early \in DOMAIN outbox /\ Before(outbox, early, batch[v][i])
    BY <1>t, <1>1, <2>1, BeforeKept
  <2>3. Excused(early) \/ \E j \in 1..(i - 1) : batch[v][j] = early
    BY <1>1, <2>2 DEF OrderInv, BatchInOrder, Waits
  <2>4. QED BY <1>t, <1>1, <2>2, <2>3, ExcusedKept
<1>2. CASE ProcessQueue(v)
  <2>1. PICK n \in 1..MaxBatch : \E b \in [1..n -> Due] :
                IsBatch(b) /\ batch' = [batch EXCEPT ![v] = b]
    BY <1>2, Zenon DEF ProcessQueue
  <2>2. PICK b \in [1..n -> Due] : IsBatch(b) /\ batch' = [batch EXCEPT ![v] = b]
    BY <2>1
  <2>3. batch'[v] = b
    BY <1>t, <2>2 DEF TypeOK
  <2>4. i \in 1..n /\ b[i] \in DOMAIN outbox
    BY <2>3, DueAreRows
  <2>5. early \in DOMAIN outbox /\ Before(outbox, early, b[i])
    BY <1>t, <2>3, <2>4, BeforeKept
  <2>6. Excused(early) \/ \E j \in 1..(i - 1) : b[j] = early
    BY <2>2, <2>4, <2>5, SelectInOrder DEF Waits
  <2>7. QED BY <1>t, <2>3, <2>5, <2>6, ExcusedKept
<1>3. CASE MarkSynced(v)
  <2> DEFINE b == batch[v]
  <2>1. b # << >> /\ b \in Seq(DOMAIN outbox) /\ pc[v] = "mark"
    BY <1>t, <1>3 DEF TypeOK, MarkSynced
  <2>2. Head(b) \in tried'
    BY <1>3 DEF MarkSynced
  <2> HIDE DEF b
  <2>3. /\ i \in 1..(Len(b) - 1) /\ Len(b) \in Nat /\ i + 1 \in DOMAIN b /\ b[i + 1] \in DOMAIN outbox
        /\ \A j \in 1..(Len(b) - 1) : batch'[v][j] = b[j + 1]
        /\ b[1] = Head(b)
    <3>1. /\ Tail(b) \in Seq(DOMAIN outbox) /\ Len(Tail(b)) = Len(b) - 1
          /\ \A j \in 1..(Len(b) - 1) : Tail(b)[j] = b[j + 1]
      BY <2>1
    <3>2. batch'[v] = Tail(b)
      BY <1>t, <1>3 DEF b, MarkSynced, NextRow, TypeOK
    <3>3. QED BY <2>1, <3>1, <3>2
  <2>4. early \in DOMAIN outbox /\ Before(outbox, early, b[i + 1])
    BY <1>t, <2>3, BeforeKept
  <2>5. Excused(early) \/ \E j \in 1..i : b[j] = early
    <3>1. Waits(b, i + 1)
      BY <2>1, <2>3 DEF OrderInv, BatchInOrder, b
    <3>2. (i + 1) - 1 = i
      BY <2>3
    <3>3. QED BY <2>4, <3>1, <3>2 DEF Waits
  <2>6. ASSUME NEW j \in 1..i, b[j] = early
        PROVE  Excused(early)' \/ \E k \in 1..(i - 1) : batch'[v][k] = early
    <3>1. CASE j = 1
      BY <2>2, <2>3, <2>6, <3>1 DEF Excused
    <3>2. CASE j # 1
      <4>1. j - 1 \in 1..(i - 1) /\ j - 1 \in 1..(Len(b) - 1) /\ (j - 1) + 1 = j
        BY <2>3, <3>2
      <4>2. batch'[v][j - 1] = early
        BY <2>3, <2>6, <4>1
      <4>3. QED BY <4>1, <4>2
    <3>3. QED BY <3>1, <3>2
  <2>7. QED BY <1>t, <2>4, <2>5, <2>6, ExcusedKept
<1>4. CASE \E id \in DOMAIN outbox : ReadRetryCount(v, id)
  BY <1>t, <1>4 DEF ReadRetryCount, TypeOK
<1>5. QED BY <1>t, <1>1, <1>2, <1>3, <1>4, WorkerAfter

\* push_changes comes to the first row of a batch.
LEMMA TriedStep ==
    ASSUME OrderInv, [Next]_vars
    PROVE  OvertakenOnlyWhenPutOff'
<1> SUFFICES ASSUME NEW early \in DOMAIN outbox', NEW late \in DOMAIN outbox',
                    Before(outbox', early, late), late \in tried'
             PROVE  Excused(early)'
  BY DEF OvertakenOnlyWhenPutOff, Excused
<1>t. TypeOK
  BY DEF OrderInv
<1>1. \/ late \in tried
      \/ \E w \in Worker : MarkSynced(w) /\ late = Head(batch[w])
  BY DEF Next, WorkerStep, Enqueue, ProcessQueue, MarkSynced, ReadRetryCount,
         WriteRetry, RetryNotWritten, Tick, Crash, vars
<1>2. CASE late \in tried
  <2>1. early \in DOMAIN outbox /\ late \in DOMAIN outbox /\ Before(outbox, early, late)
    BY <1>t, <1>2, BeforeKept DEF TypeOK
  <2>2. Excused(early)
    BY <1>2, <2>1 DEF OrderInv, OvertakenOnlyWhenPutOff, Excused
  <2>3. QED BY <1>t, <2>1, <2>2, ExcusedKept
<1>3. ASSUME NEW w \in Worker, MarkSynced(w), late = Head(batch[w])
      PROVE  Excused(early)'
  <2>1. pc[w] = "mark" /\ batch[w] \in Seq(DOMAIN outbox) /\ batch[w] # << >>
    BY <1>t, <1>3 DEF MarkSynced, TypeOK
  <2>2. 1 \in DOMAIN batch[w] /\ batch[w][1] = late /\ late \in DOMAIN outbox
    BY <1>3, <2>1
  <2>3. early \in DOMAIN outbox /\ Before(outbox, early, late)
    BY <1>t, <2>2, BeforeKept
  <2>4. Waits(batch[w], 1)
    BY <2>1, <2>2 DEF OrderInv, BatchInOrder
  <2>5. 1..(1 - 1) = {}
    OBVIOUS
  <2>6. Excused(early)
    BY <2>2, <2>3, <2>4, <2>5 DEF Waits
  <2>7. QED BY <1>t, <2>3, <2>6, ExcusedKept
<1>4. QED BY <1>1, <1>2, <1>3

\* push_changes comes to no operation before one enqueued earlier with a
\* smaller stamp, unless mark_sync_failed put that one off: with any number of
\* tasks on the same rows, marks that fail, and crashes.
THEOREM InOrder == Spec => []OvertakenOnlyWhenPutOff
<1>1. Init => OrderInv
  <2>1. Init => WaitIsRetry /\ SyncedWasTried /\ BatchInOrder /\ OvertakenOnlyWhenPutOff
    BY EmptySeq DEF Init, WaitIsRetry, SyncedWasTried, BatchInOrder, OvertakenOnlyWhenPutOff
  <2>2. QED BY <2>1, InitType DEF OrderInv
<1>2. OrderInv /\ [Next]_vars => OrderInv'
  BY NextType, WaitStep, SyncedStep, BatchStep, TriedStep DEF OrderInv
<1>3. OrderInv => OvertakenOnlyWhenPutOff
  BY DEF OrderInv
<1>4. QED BY <1>1, <1>2, <1>3, PTL DEF Spec

-----------------------------------------------------------------------------
(* Batches *)

\* A batch holds each of its ids once.
Once(b) == \A i, j \in DOMAIN b : i < j => b[i] # b[j]

BatchOnce == \A w \in Worker : pc[w] = "mark" => Once(batch[w])

LEMMA TailOnce ==
    ASSUME NEW S, NEW b \in Seq(S), b # << >>, Once(b)
    PROVE  /\ Once(Tail(b))
           /\ \A i \in DOMAIN Tail(b) :
                 i + 1 \in DOMAIN b /\ i + 1 > 1 /\ Tail(b)[i] = b[i + 1] /\ Tail(b)[i] # Head(b)
           /\ \A i \in DOMAIN b : b[i] = Head(b) \/ \E j \in DOMAIN Tail(b) : Tail(b)[j] = b[i]
<1>1. /\ DOMAIN Tail(b) = 1..(Len(b) - 1) /\ Len(b) \in Nat /\ DOMAIN b = 1..Len(b)
      /\ \A i \in 1..(Len(b) - 1) : i + 1 \in DOMAIN b /\ Tail(b)[i] = b[i + 1]
      /\ 1 \in DOMAIN b /\ Head(b) = b[1]
  OBVIOUS
<1>2. Once(Tail(b))
  BY <1>1 DEF Once
<1>3. \A i \in DOMAIN Tail(b) : i + 1 > 1 /\ Tail(b)[i] # Head(b)
  BY <1>1 DEF Once
<1>4. ASSUME NEW i \in DOMAIN b, i # 1
      PROVE  \E j \in DOMAIN Tail(b) : Tail(b)[j] = b[i]
  <2>1. i - 1 \in 1..(Len(b) - 1) /\ (i - 1) + 1 = i
    BY <1>1, <1>4
  <2>2. Tail(b)[i - 1] = b[i]
    BY <1>1, <2>1
  <2>3. QED BY <1>1, <2>1, <2>2
<1>5. QED BY <1>1, <1>2, <1>3, <1>4

LEMMA OnceStep ==
    ASSUME TypeOK, BatchOnce, [Next]_vars
    PROVE  BatchOnce'
<1> SUFFICES ASSUME NEW v \in Worker, pc'[v] = "mark"
             PROVE  Once(batch'[v])
  BY DEF BatchOnce, Once
<1>1. CASE batch'[v] = batch[v] /\ pc'[v] = pc[v]
  BY <1>1 DEF BatchOnce
<1>2. CASE ProcessQueue(v)
  <2>1. PICK n \in 1..MaxBatch : \E b \in [1..n -> Due] :
                IsBatch(b) /\ batch' = [batch EXCEPT ![v] = b]
    BY <1>2, Zenon DEF ProcessQueue
  <2>2. PICK b \in [1..n -> Due] : IsBatch(b) /\ batch' = [batch EXCEPT ![v] = b]
    BY <2>1
  <2>3. batch'[v] = b
    BY <2>2 DEF TypeOK
  <2>4. QED BY <2>2, <2>3 DEF IsBatch, Once
<1>3. CASE MarkSynced(v)
  <2>1. batch[v] \in Seq(DOMAIN outbox) /\ batch[v] # << >> /\ Once(batch[v])
    BY <1>3 DEF TypeOK, MarkSynced, BatchOnce
  <2>2. batch'[v] = Tail(batch[v])
    BY <1>3 DEF MarkSynced, NextRow, TypeOK
  <2>3. QED BY <2>1, <2>2, TailOnce
<1>4. CASE \E id \in DOMAIN outbox : ReadRetryCount(v, id)
  BY <1>4 DEF ReadRetryCount, TypeOK
<1>5. QED BY <1>1, <1>2, <1>3, <1>4, WorkerAfter

-----------------------------------------------------------------------------
(* One task *)

\* The queue is used by one task at a time.
Alone == \A v, w \in Worker : v = w

Fresh(row) == ~row.synced /\ row.wait = 0

\* The rows still to be marked are due.
BatchFresh ==
    \A w \in Worker : pc[w] = "mark" =>
        \A i \in DOMAIN batch[w] : Fresh(outbox[batch[w][i]])

LEMMA FreshKept ==
    ASSUME Alone, TypeOK, [Next]_vars, NEW v \in Worker, pc[v] = "mark",
           NEW id \in DOMAIN outbox, Fresh(outbox[id]),
           MarkSynced(v) => id # Head(batch[v])
    PROVE  Fresh(outbox'[id])
<1>1. id \in DOMAIN outbox' /\ id # Len(outbox) + 1
  BY BeforeKept, Table
<1>2. ~(outbox[id].wait > 0)
  BY DEF Fresh
<1>3. \A w \in Worker : ~WriteRetry(w) /\ (MarkSynced(w) => id # Head(batch[w]))
  BY DEF Alone, WriteRetry
<1>4. outbox'[id] = outbox[id]
  BY <1>1, <1>2, <1>3, RowStep, Zenon
<1>5. QED BY <1>4 DEF Fresh

LEMMA FreshStep ==
    ASSUME Alone, TypeOK, BatchOnce, BatchFresh, [Next]_vars
    PROVE  BatchFresh'
<1> SUFFICES ASSUME NEW v \in Worker, pc'[v] = "mark", NEW i \in DOMAIN batch'[v]
             PROVE  Fresh(outbox'[batch'[v][i]])
  BY DEF BatchFresh, Fresh
<1>s. batch[v] \in Seq(DOMAIN outbox)
  BY DEF TypeOK
<1>0. ASSUME pc[v] = "mark", NEW j \in DOMAIN batch[v],
             MarkSynced(v) => batch[v][j] # Head(batch[v])
      PROVE  Fresh(outbox'[batch[v][j]])
  <2>1. Fresh(outbox[batch[v][j]]) /\ batch[v][j] \in DOMAIN outbox
    BY <1>s, <1>0 DEF BatchFresh
  <2>2. QED BY <1>0, <2>1, FreshKept
<1>1. CASE batch'[v] = batch[v] /\ pc'[v] = pc[v]
  <2>1. CASE MarkSynced(v)
    <3>1. batch[v] # << >> /\ batch'[v] = Tail(batch[v])
      BY <2>1 DEF MarkSynced, NextRow, TypeOK
    <3>2. Len(Tail(batch[v])) = Len(batch[v]) - 1 /\ Len(batch[v]) \in Nat
      BY <1>s, <3>1
    <3>3. Tail(batch[v]) = batch[v]
      BY <1>1, <3>1
    <3>4. Len(batch[v]) = Len(batch[v]) - 1
      BY <3>2, <3>3, Zenon
    <3>5. QED BY <3>2, <3>4
  <2>2. CASE ~MarkSynced(v)
    BY <1>0, <1>1, <2>2
  <2>3. QED BY <2>1, <2>2
<1>2. CASE ProcessQueue(v)
  <2>1. PICK n \in 1..MaxBatch : \E b \in [1..n -> Due] :
                IsBatch(b) /\ batch' = [batch EXCEPT ![v] = b]
    BY <1>2, Zenon DEF ProcessQueue
  <2>2. PICK b \in [1..n -> Due] : IsBatch(b) /\ batch' = [batch EXCEPT ![v] = b]
    BY <2>1
  <2>3. batch'[v] = b /\ outbox' = outbox
    BY <1>2, <2>2 DEF TypeOK, ProcessQueue
  <2>4. QED BY <2>3 DEF Fresh, Due
<1>3. CASE MarkSynced(v)
  <2>1. batch[v] # << >> /\ pc[v] = "mark" /\ Once(batch[v]) /\ batch'[v] = Tail(batch[v])
    BY <1>3 DEF TypeOK, MarkSynced, NextRow, BatchOnce
  <2>2. i + 1 \in DOMAIN batch[v] /\ batch'[v][i] = batch[v][i + 1] /\ batch[v][i + 1] # Head(batch[v])
    BY <1>s, <2>1, TailOnce
  <2>3. QED BY <1>0, <2>1, <2>2
<1>4. CASE \E id \in DOMAIN outbox : ReadRetryCount(v, id)
  BY <1>4 DEF ReadRetryCount, TypeOK
<1>5. QED BY <1>1, <1>2, <1>3, <1>4, WorkerAfter

\* What one task has still to mark is due: not synced, and its wait over.
THEOREM NotTakenAgain == Alone /\ Spec => []BatchIsDue
<1> SUFFICES ASSUME Alone
             PROVE  Spec => []BatchIsDue
  OBVIOUS
<1>1. Init => TypeOK /\ BatchOnce /\ BatchFresh
  BY InitType DEF Init, BatchOnce, BatchFresh
<1>2. TypeOK /\ BatchOnce /\ BatchFresh /\ [Next]_vars => TypeOK' /\ BatchOnce' /\ BatchFresh'
  BY NextType, OnceStep, FreshStep
<1>3. BatchFresh => BatchIsDue
  BY DEF BatchFresh, BatchIsDue, Fresh
<1>4. QED BY <1>1, <1>2, <1>3, PTL DEF Spec

-----------------------------------------------------------------------------
(* The backoff *)

\* One more failure never brings a shorter wait, below the width of the integer.
LEMMA BackoffMonotone ==
    ASSUME NEW n \in Nat, n + 1 < Width
    PROVE  Backoff(n) <= Backoff(n + 1)
<1> DEFINE m == n + 1
<1>1. m \in 1..(Width - 1) /\ m - 1 = n /\ n \in 0..(Width - 1) /\ m \in 0..(Width - 1) /\ n < Width
  BY OutboxAssumption DEF OutboxAssumption
<1> HIDE DEF m
<1>2. 2^(m - 1) <= 2^m
  BY <1>1, OutboxAssumption DEF OutboxAssumption
<1>3. 2^n \in Nat /\ 2^m \in Nat /\ 2^n <= 2^m /\ MaxBackoff \in Nat
  BY <1>1, <1>2, OutboxAssumption DEF OutboxAssumption
<1>4. m < Width
  BY <1>1, OutboxAssumption DEF OutboxAssumption
<1>5. Backoff(n) <= Backoff(m)
  BY <1>1, <1>3, <1>4 DEF Backoff
<1>6. QED BY <1>5 DEF m

\* mark_sync_failed counts every failure of a row, and until the count reaches
\* the width of the integer it never asks for a shorter wait than the time
\* before, however many failures there are and tasks that report them, unless
\* another task has written the count since it was read.
THEOREM FailuresCounted == Spec => BackoffGrows
<1>1. TypeOK /\ [Next]_vars =>
         [\A w \in Worker, id \in DOMAIN outbox :
             PutOff(w, id) /\ read[w] = outbox[id].retry =>
                 /\ outbox'[id].retry > outbox[id].retry
                 /\ outbox[id].retry > 0 /\ outbox'[id].retry < Width =>
                       outbox'[id].wait >= Backoff(outbox[id].retry)]_vars
  <2> SUFFICES ASSUME TypeOK, [Next]_vars, NEW w \in Worker, NEW id \in DOMAIN outbox,
                      PutOff(w, id), read[w] = outbox[id].retry
               PROVE  /\ outbox'[id].retry > outbox[id].retry
                      /\ outbox'[id].retry < Width =>
                            outbox'[id].wait >= Backoff(outbox[id].retry)
    OBVIOUS
  <2> DEFINE n == outbox[id].retry
  <2>1. n \in Nat /\ outbox[id].wait \in Nat
    BY Table DEF Rows
  <2>2. PICK v \in Worker : /\ WriteRetry(v) /\ id = Head(batch[v])
                            /\ outbox'[id].retry = read[v] + 1
                            /\ outbox'[id].wait = Backoff(read[v] + 1)
    <3>1. ~(/\ outbox'[id].retry = outbox[id].retry
            /\ outbox'[id].wait <= outbox[id].wait)
      <4>1. id \in DOMAIN outbox' /\ TypeOK'
        BY BeforeKept, NextType
      <4>2. outbox' \in Seq(Rows) /\ id \in 1..Len(outbox')
        BY <4>1, LenProperties DEF TypeOK
      <4>3. outbox'[id] \in Rows
        BY <4>2, ElementOfSeq
      <4>4. outbox'[id].wait \in Nat
        BY <4>3 DEF Rows
      <4>5. QED BY <2>1, <4>4 DEF PutOff
    <3>2. QED BY <3>1, RetryKept
  <2>3. v = w
    BY <2>2 DEF WriteRetry, ReturnFromRetry, PutOff, TypeOK
  <2>4. read[v] = n
    BY <2>3
  <2> HIDE DEF n
  <2>5. ASSUME n + 1 < Width
        PROVE  Backoff(n) <= Backoff(n + 1) /\ Backoff(n) \in Int /\ Backoff(n + 1) \in Int
    <3>1. Backoff(n) \in 0..MaxBackoff /\ Backoff(n + 1) \in 0..MaxBackoff
      BY <2>1, BackoffBounded
    <3>2. MaxBackoff \in Int
      BY OutboxAssumption DEF OutboxAssumption
    <3>3. QED BY <2>1, <2>5, <3>1, <3>2, BackoffMonotone
  <2>6. /\ outbox'[id].retry > n
        /\ outbox'[id].retry < Width => outbox'[id].wait >= Backoff(n)
    BY <2>1, <2>2, <2>4, <2>5
  <2>7. QED BY <2>6 DEF n
<1>2. QED BY <1>1, TypeCorrect, PTL DEF Spec, BackoffGrows

-----------------------------------------------------------------------------
(* The queue implements WorkQueue *)

\* The mapping of Queue, named.
Accepted == DOMAIN outbox
Pending == {id \in DOMAIN outbox : ~outbox[id].synced}
Waiting == {id \in DOMAIN outbox : outbox[id].wait > 0}
Holding == [w \in Worker |-> Held(w)]

\* Every id is one of Queue.
RowsBounded == Len(outbox) <= MaxRows

LEMMA IdsBounded ==
    ASSUME TypeOK, RowsBounded, NEW id \in DOMAIN outbox
    PROVE  id \in 1..MaxRows
BY Table, OutboxAssumption DEF RowsBounded

\* A step that writes the table in place leaves the ids, and leaves the rest of
\* the table.
LEMMA WrittenInPlace ==
    ASSUME TypeOK, NEW id \in DOMAIN outbox, NEW row,
           outbox' = [outbox EXCEPT ![id] = row]
    PROVE  /\ Accepted' = Accepted
           /\ row.synced = outbox[id].synced => Pending' = Pending
           /\ row.synced /\ ~outbox[id].synced => Pending' = Pending \ {id}
           /\ row.wait = outbox[id].wait => Waiting' = Waiting
           /\ row.wait > 0 => Waiting' = Waiting \cup {id}
           /\ ~(row.wait > 0) => Waiting' = Waiting \ {id}
<1>1. DOMAIN outbox' = DOMAIN outbox
  OBVIOUS
<1>2. outbox'[id] = row /\ \A k \in DOMAIN outbox \ {id} : outbox'[k] = outbox[k]
  OBVIOUS
<1>3. row.synced = outbox[id].synced => Pending' = Pending
  <2> SUFFICES ASSUME row.synced = outbox[id].synced, NEW k \in DOMAIN outbox
               PROVE  outbox'[k].synced = outbox[k].synced
    BY <1>1, Zenon DEF Pending
  <2>1. CASE k = id
    BY <1>2, <2>1, Zenon
  <2>2. CASE k # id
    BY <1>2, <2>2, Zenon
  <2>3. QED BY <2>1, <2>2
<1>4. ASSUME row.synced, ~outbox[id].synced
      PROVE  Pending' = Pending \ {id}
  <2>1. ASSUME NEW k \in DOMAIN outbox
        PROVE  ~outbox'[k].synced <=> ~outbox[k].synced /\ k # id
    <3>1. CASE k = id
      BY <1>2, <1>4, <3>1, Zenon
    <3>2. CASE k # id
      BY <1>2, <3>2, Zenon
    <3>3. QED BY <3>1, <3>2
  <2>2. QED BY <1>1, <2>1, Zenon DEF Pending
<1>5. row.wait = outbox[id].wait => Waiting' = Waiting
  <2> SUFFICES ASSUME row.wait = outbox[id].wait, NEW k \in DOMAIN outbox
               PROVE  outbox'[k].wait = outbox[k].wait
    BY <1>1, Zenon DEF Waiting
  <2>1. CASE k = id
    BY <1>2, <2>1, Zenon
  <2>2. CASE k # id
    BY <1>2, <2>2, Zenon
  <2>3. QED BY <2>1, <2>2
<1>6. row.wait > 0 => Waiting' = Waiting \cup {id}
  BY <1>1, <1>2, Zenon DEF Waiting
<1>7. ~(row.wait > 0) => Waiting' = Waiting \ {id}
  BY <1>1, <1>2, Zenon DEF Waiting
<1>8. QED BY <1>1, <1>3, <1>4, <1>5, <1>6, <1>7, Zenon DEF Accepted

LEMMA EnqueueIsAccept ==
    ASSUME TypeOK, RowsBounded, NEW lamport \in Lamport, Enqueue(lamport)
    PROVE  Queue!Next /\ RowsBounded'
<1> DEFINE row == Row(lamport, 0, 0, FALSE)
<1> SUFFICES ASSUME NEW id, id = Len(outbox) + 1
             PROVE  Queue!Next /\ RowsBounded'
  OBVIOUS
<1>1. outbox' = Append(outbox, row) /\ row.synced = FALSE /\ row.wait = 0 /\ Holding' = Holding
  BY DEF Enqueue, Row, Holding, Held
<1>2. outbox \in Seq(Rows) /\ Len(outbox) \in Nat /\ Len(outbox) < MaxRows
  BY DEF TypeOK, Enqueue
<1> HIDE DEF row
<1>3. /\ DOMAIN outbox' = DOMAIN outbox \cup {id} /\ id \notin DOMAIN outbox
      /\ outbox'[id] = row
      /\ \A k \in DOMAIN outbox : outbox'[k] = outbox[k]
      /\ Len(outbox') = id
  BY <1>1, <1>2
<1>4. id \in 1..MaxRows /\ RowsBounded'
  BY <1>2, <1>3, OutboxAssumption DEF RowsBounded
<1>5. {k \in DOMAIN outbox' : ~outbox'[k].synced}
         = {k \in DOMAIN outbox : ~outbox[k].synced} \cup {id}
  BY <1>1, <1>3, Zenon
<1>6. {k \in DOMAIN outbox' : outbox'[k].wait > 0}
         = {k \in DOMAIN outbox : outbox[k].wait > 0}
  <2>1. ~(outbox'[id].wait > 0)
    BY <1>1, <1>3
  <2>2. QED BY <1>3, <2>1, Zenon
<1>7. Queue!Accept(id)
  BY <1>1, <1>3, <1>5, <1>6 DEF Queue!Accept, Holding
<1>8. QED BY <1>4, <1>7 DEF Queue!Next

\* What a batch holds.
LEMMA ProcessQueueIsHandOut ==
    ASSUME TypeOK, NEW w \in Worker, ProcessQueue(w)
    PROVE  Queue!Next /\ outbox' = outbox
<1>1. PICK n \in 1..MaxBatch : \E b \in [1..n -> Due] :
              IsBatch(b) /\ batch' = [batch EXCEPT ![w] = b]
  BY Zenon DEF ProcessQueue
<1>2. PICK b \in [1..n -> Due] : batch' = [batch EXCEPT ![w] = b]
  BY <1>1
<1> SUFFICES ASSUME NEW ids, ids = {b[i] : i \in DOMAIN b}
             PROVE  Queue!Next /\ outbox' = outbox
  OBVIOUS
<1>3. ids \subseteq Pending \ Waiting
  BY DEF Pending, Waiting, Due
<1>4. /\ pc[w] = "idle" /\ pc' = [pc EXCEPT ![w] = "mark"] /\ outbox' = outbox
      /\ pc \in [Worker -> {"idle", "mark", "retry"}]
      /\ batch \in [Worker -> Seq(DOMAIN outbox)]
  BY DEF ProcessQueue, TypeOK
<1>5. Held(w) = {} /\ Held(w)' = ids
  BY <1>2, <1>4 DEF Held
<1>6. \A v \in Worker \ {w} : Held(v)' = Held(v)
  BY <1>2, <1>4 DEF Held
<1>7. Holding' = [Holding EXCEPT ![w] = ids] /\ Holding[w] = {}
  BY <1>5, <1>6 DEF Holding
<1>8. Queue!HandOut(w, ids)
  BY <1>3, <1>4, <1>7 DEF Queue!HandOut, Pending, Waiting, Holding
<1>9. QED BY <1>3, <1>4, <1>8 DEF Queue!Next, Pending, Waiting

\* A mark, written or not, is the end of one hand-out.
LEMMA MarkIsDone ==
    ASSUME TypeOK, RowsBounded, BatchOnce, NEW w \in Worker, MarkSynced(w)
    PROVE  Queue!Next /\ DOMAIN outbox' = DOMAIN outbox
<1> SUFFICES ASSUME NEW id, id = Head(batch[w])
             PROVE  Queue!Next /\ DOMAIN outbox' = DOMAIN outbox
  OBVIOUS
<1> DEFINE b == batch[w]
<1>1. /\ pc[w] = "mark" /\ b \in Seq(DOMAIN outbox) /\ b # << >> /\ Once(b)
      /\ batch' = [batch EXCEPT ![w] = Tail(b)]
      /\ pc' = [pc EXCEPT ![w] = IF Len(b) = 1 THEN "idle" ELSE "mark"]
      /\ pc \in [Worker -> {"idle", "mark", "retry"}]
      /\ batch \in [Worker -> Seq(DOMAIN outbox)]
  BY DEF MarkSynced, NextRow, TypeOK, BatchOnce
<1>2. id \in DOMAIN outbox /\ id \in 1..MaxRows
  BY <1>1, HeadIsRow, IdsBounded
<1>3. /\ Accepted' = Accepted /\ Waiting' = Waiting
      /\ Pending' = Pending \/ Pending' = Pending \ {id}
  <2>1. outbox' = outbox \/ outbox' = [outbox EXCEPT ![id] = Synced(outbox[id])]
    BY Zenon DEF MarkSynced
  <2>2. CASE outbox' = outbox
    BY <2>2 DEF Accepted, Pending, Waiting
  <2>3. CASE outbox' = [outbox EXCEPT ![id] = Synced(outbox[id])]
    <3>1. Synced(outbox[id]).synced = TRUE /\ Synced(outbox[id]).wait = outbox[id].wait
      BY DEF Synced, Row
    <3>2. outbox[id].synced \in BOOLEAN
      BY <1>2, Table DEF Rows
    <3>3. CASE outbox[id].synced = TRUE
      BY <1>2, <2>3, <3>1, <3>3, WrittenInPlace
    <3>4. CASE outbox[id].synced = FALSE
      BY <1>2, <2>3, <3>1, <3>4, WrittenInPlace
    <3>5. QED BY <3>2, <3>3, <3>4
  <2>4. QED BY <2>1, <2>2, <2>3
<1>4. Held(w) = {b[i] : i \in DOMAIN b}
  BY <1>1 DEF Held
<1>5. Held(w)' = {Tail(b)[i] : i \in DOMAIN Tail(b)}
  <2>1. batch'[w] = Tail(b)
    BY <1>1
  <2>2. CASE Len(b) = 1
    <3>1. DOMAIN Tail(b) = {}
      BY <1>1, <2>2
    <3>2. pc'[w] = "idle"
      BY <1>1, <2>2
    <3>3. QED BY <3>1, <3>2 DEF Held
  <2>3. CASE Len(b) # 1
    <3>1. pc'[w] = "mark"
      BY <1>1, <2>3
    <3>2. QED BY <2>1, <3>1 DEF Held
  <2>4. QED BY <2>2, <2>3
<1>6. id \in Held(w) /\ Held(w)' = Held(w) \ {id}
  <2>1. 1 \in DOMAIN b /\ b[1] = id
    BY <1>1
  <2>2. /\ \A i \in DOMAIN Tail(b) : i + 1 \in DOMAIN b /\ Tail(b)[i] = b[i + 1] /\ Tail(b)[i] # id
        /\ \A i \in DOMAIN b : b[i] = id \/ \E j \in DOMAIN Tail(b) : Tail(b)[j] = b[i]
    BY <1>1, TailOnce
  <2> HIDE DEF b
  <2>3. QED BY <1>4, <1>5, <2>1, <2>2
<1>7. \A v \in Worker \ {w} : Held(v)' = Held(v)
  BY <1>1 DEF Held
<1>8. Holding' = [Holding EXCEPT ![w] = Holding[w] \ {id}] /\ id \in Holding[w]
  BY <1>6, <1>7 DEF Holding
<1>9. Queue!Done(w, id)
  BY <1>3, <1>8 DEF Queue!Done, Accepted, Pending, Waiting, Holding
<1>10. QED BY <1>2, <1>3, <1>9 DEF Queue!Next, Accepted

LEMMA ReleaseIsStep ==
    ASSUME NEW ids, ids \subseteq Waiting, Queue!Release(ids)
    PROVE  Queue!Next
<1>1. ids \in SUBSET {id \in DOMAIN outbox : outbox[id].wait > 0}
  BY DEF Waiting
<1>2. QED BY <1>1, Zenon DEF Queue!Next

\* mark_sync_failed leaves what is pending and who holds what.
LEMMA RetryIsPutOff ==
    ASSUME TypeOK, RowsBounded, NEW w \in Worker,
           \/ \E id \in DOMAIN outbox : ReadRetryCount(w, id)
           \/ WriteRetry(w) \/ RetryNotWritten(w)
    PROVE  (Queue!Next \/ UNCHANGED Queue!vars) /\ DOMAIN outbox' = DOMAIN outbox
<1>1. /\ pc[w] # "mark" /\ pc'[w] # "mark"
      /\ \A v \in Worker \ {w} : pc'[v] = pc[v] /\ batch'[v] = batch[v]
  BY DEF ReadRetryCount, WriteRetry, RetryNotWritten, ReturnFromRetry, TypeOK
<1>2. Holding' = Holding
  <2>1. \A v \in Worker : Held(v)' = Held(v)
    BY <1>1 DEF Held
  <2>2. QED BY <2>1 DEF Holding
<1>3. CASE outbox' = outbox
  BY <1>2, <1>3 DEF Queue!vars, Holding
<1>4. CASE WriteRetry(w)
  <2> SUFFICES ASSUME NEW id, id = Head(batch[w]),
                      NEW row, row = Retried(outbox[id], read[w] + 1, Backoff(read[w] + 1)),
                      NEW over, over = {id} \cap Waiting
               PROVE  Queue!Next /\ DOMAIN outbox' = DOMAIN outbox
    OBVIOUS
  <2>1. pc[w] # "idle" /\ outbox' = [outbox EXCEPT ![id] = row]
    BY <1>4, Zenon DEF WriteRetry
  <2>2. id \in DOMAIN outbox /\ id \in 1..MaxRows
    BY <2>1, HeadIsRow, IdsBounded
  <2>3. row.synced = outbox[id].synced
    BY DEF Retried, Row
  <2>4. Accepted' = Accepted /\ Pending' = Pending
    BY <2>1, <2>2, <2>3, WrittenInPlace
  <2>5. CASE row.wait > 0
    <3>1. Queue!PutOff(id)
      BY <1>2, <2>1, <2>2, <2>4, <2>5, WrittenInPlace DEF Queue!PutOff, Accepted, Pending, Waiting, Holding
    <3>2. QED BY <2>2, <2>4, <3>1 DEF Queue!Next, Accepted
  <2>6. CASE ~(row.wait > 0)
    <3>1. Waiting' = Waiting \ over
      BY <2>1, <2>2, <2>6, WrittenInPlace
    <3>2. Queue!Release(over)
      BY <1>2, <2>4, <3>1 DEF Queue!Release, Accepted, Pending, Waiting, Holding
    <3>3. QED BY <2>4, <3>2, ReleaseIsStep DEF Accepted
  <2>7. QED BY <2>5, <2>6
<1>5. QED BY <1>3, <1>4 DEF ReadRetryCount, RetryNotWritten

\* The clock releases the rows whose wait is over.
LEMMA TickIsRelease ==
    ASSUME TypeOK, Tick
    PROVE  Queue!Next
<1>1. DOMAIN outbox' = DOMAIN outbox
  BY DEF Tick
<1>2. \A k \in DOMAIN outbox : /\ outbox'[k].synced = outbox[k].synced
                               /\ outbox'[k].wait > 0 => outbox[k].wait > 0
  <2> SUFFICES ASSUME NEW k \in DOMAIN outbox
               PROVE  /\ outbox'[k].synced = outbox[k].synced
                      /\ outbox'[k].wait > 0 => outbox[k].wait > 0
    OBVIOUS
  <2>1. outbox'[k] = Retried(outbox[k], outbox[k].retry,
                             IF outbox[k].wait > 0 THEN outbox[k].wait - 1 ELSE 0)
    BY DEF Tick
  <2>2. QED BY <2>1 DEF Retried, Row
<1>3. Accepted' = Accepted /\ Pending' = Pending
  BY <1>1, <1>2, Zenon DEF Accepted, Pending
<1>4. Holding' = Holding
  BY DEF Tick, Holding, Held
<1> SUFFICES ASSUME NEW over, over = {k \in Waiting : ~(outbox'[k].wait > 0)}
             PROVE  Queue!Next
  OBVIOUS
<1>5. Waiting' = Waiting \ over
  BY <1>1, <1>2, Zenon DEF Waiting
<1>6. over \subseteq Waiting
  OBVIOUS
<1>7. Queue!Release(over)
  BY <1>3, <1>4, <1>5 DEF Queue!Release, Accepted, Pending, Waiting, Holding
<1>8. QED BY <1>6, <1>7, ReleaseIsStep

\* Every step is a step of the promise or none.
LEMMA StepKeepsPromise ==
    ASSUME TypeOK, BatchOnce, RowsBounded, [Next]_vars
    PROVE  [Queue!Next]_(Queue!vars) /\ RowsBounded'
<1>1. ASSUME DOMAIN outbox' = DOMAIN outbox
      PROVE  RowsBounded'
  <2>1. TypeOK'
    BY NextType
  <2>2. Len(outbox') = Len(outbox)
    BY <1>1, <2>1, LenProperties DEF TypeOK
  <2>3. QED BY <2>2 DEF RowsBounded
<1>2. ASSUME NEW lamport \in Lamport, Enqueue(lamport)
      PROVE  Queue!Next /\ RowsBounded'
  BY <1>2, EnqueueIsAccept
<1>3. ASSUME NEW w \in Worker, WorkerStep(w)
      PROVE  (Queue!Next \/ UNCHANGED Queue!vars) /\ RowsBounded'
  <2>1. CASE ProcessQueue(w)
    BY <1>1, <2>1, ProcessQueueIsHandOut
  <2>2. CASE MarkSynced(w)
    BY <1>1, <2>2, MarkIsDone
  <2>3. CASE \/ \E id \in DOMAIN outbox : ReadRetryCount(w, id)
             \/ WriteRetry(w) \/ RetryNotWritten(w)
    BY <1>1, <2>3, RetryIsPutOff
  <2>4. QED BY <1>3, <2>1, <2>2, <2>3 DEF WorkerStep
<1>4. CASE Tick
  <2>1. DOMAIN outbox' = DOMAIN outbox
    BY <1>4 DEF Tick
  <2>2. QED BY <1>1, <1>4, <2>1, TickIsRelease
<1>5. CASE Crash
  <2>1. \A w \in Worker : Held(w)' = {}
    BY <1>5 DEF Crash, Held
  <2>2. Queue!GiveAllBack
    BY <1>5, <2>1 DEF Queue!GiveAllBack, Crash
  <2>3. QED BY <1>1, <1>5, <2>2 DEF Queue!Next, Crash
<1>6. CASE UNCHANGED vars
  BY <1>1, <1>6 DEF vars, Queue!vars, Held
<1>7. QED BY <1>2, <1>3, <1>4, <1>5, <1>6 DEF Next

\* The queue keeps the promise of WorkQueue: with any number of tasks, marks
\* and statements that fail, and crashes.
THEOREM QueueImplementsWorkQueue == Spec => ImplementsWorkQueue
<1>1. Init => TypeOK /\ BatchOnce /\ RowsBounded /\ Queue!Init
  <2>1. Init => RowsBounded /\ BatchOnce
    BY OutboxAssumption DEF Init, RowsBounded, BatchOnce, OutboxAssumption
  <2>2. Init => Queue!Init
    BY DEF Init, Queue!Init, Held
  <2>3. QED BY <2>1, <2>2, InitType
<1>2. TypeOK /\ BatchOnce /\ [Next]_vars => TypeOK' /\ BatchOnce'
  BY NextType, OnceStep
<1>3. TypeOK /\ BatchOnce /\ RowsBounded /\ [Next]_vars
         => RowsBounded' /\ [Queue!Next]_(Queue!vars)
  BY StepKeepsPromise
<1>4. QED
  BY <1>1, <1>2, <1>3, PTL DEF Spec, ImplementsWorkQueue, Queue!Spec
=============================================================================
