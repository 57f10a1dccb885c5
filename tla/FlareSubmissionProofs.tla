----------------------- MODULE FlareSubmissionProofs ------------------------
(***************************************************************************)
(* FlareSubmission for any number of threads, connections and attempts.    *)
(***************************************************************************)
EXTENDS FlareSubmission, FiniteSetTheorems, TLAPS

InRun == {"first", "second", "nearest", "insert"}

\* The steps that end a run of submit_flare differ only in what they insert.
LEMMA ReturnSteps ==
    ASSUME NEW t \in Thread,
           TimeOut(t) \/ NearestFails(t) \/ InsertFlare(t) \/ InsertFails(t)
    PROVE  /\ pc[t] \in InRun
           /\ \/ Return(t, FALSE) /\ flares' = flares
              \/ Return(t, TRUE) /\ flares' = flares \cup {job[t]}
BY DEF TimeOut, NearestFails, InsertFlare, InsertFails, InRun

-----------------------------------------------------------------------------
(* Types *)

LEMMA InitType == Init => TypeOK
BY SubmissionAssumption DEF Init, TypeOK

LEMMA ReturnType ==
    ASSUME TypeOK, NEW t \in Thread,
           TimeOut(t) \/ NearestFails(t) \/ InsertFlare(t) \/ InsertFails(t)
    PROVE  TypeOK'
<1>1. pc[t] \in InRun /\ job[t] \in Attempt
  BY ReturnSteps DEF TypeOK, InRun
<1>2. /\ pc' = [pc EXCEPT ![t] = "idle"]
      /\ holds' = [holds EXCEPT ![t] = {}]
      /\ job' = [job EXCEPT ![t] = NoJob]
      /\ inbox' = inbox
      /\ \E seen \in {"none", "pending", "sent", "failed", "lost"} :
            outcome' = [outcome EXCEPT ![job[t]] = seen]
  BY <1>1, ReturnSteps DEF Return, TypeOK
<1>3. flares' \subseteq Attempt
  BY <1>1, ReturnSteps DEF TypeOK
<1>4. outcome' \in [Attempt -> {"none", "pending", "sent", "failed", "lost"}]
  BY <1>1, <1>2 DEF TypeOK
<1>5. QED BY <1>2, <1>3, <1>4 DEF TypeOK

LEMMA TakeType ==
    ASSUME TypeOK, NEW t \in Thread,
           TakeFirst(t) \/ TakeSecond(t) \/ NearestFound(t)
    PROVE  TypeOK'
<1>0. Free \subseteq Conn
  BY DEF Free
<1>1. CASE TakeFirst(t)
  <2>1. PICK c \in Conn : holds' = [holds EXCEPT ![t] = {c}]
    BY <1>0, <1>1 DEF TakeFirst
  <2>2. QED BY <1>1, <2>1 DEF TakeFirst, TypeOK
<1>2. CASE TakeSecond(t)
  <2>1. PICK c \in Conn : holds' = [holds EXCEPT ![t] = @ \cup {c}]
    BY <1>0, <1>2 DEF TakeSecond
  <2>2. QED BY <1>2, <2>1 DEF TakeSecond, TypeOK
<1>3. CASE NearestFound(t)
  <2>1. PICK c \in Conn : holds' = [holds EXCEPT ![t] = {c}]
    BY <1>3 DEF NearestFound, TypeOK
  <2>2. QED BY <1>3, <2>1 DEF NearestFound, TypeOK
<1>4. QED BY <1>1, <1>2, <1>3

LEMMA OtherType ==
    ASSUME TypeOK, NEW t \in Thread,
           AcceptOther(t) \/ TakeOnly(t) \/ ReturnOther(t)
    PROVE  TypeOK'
<1>1. CASE AcceptOther(t)
  BY <1>1 DEF AcceptOther, TypeOK
<1>2. CASE TakeOnly(t)
  <2>1. CASE \E c \in Free : holds' = [holds EXCEPT ![t] = {c}] /\ pc' = [pc EXCEPT ![t] = "other"]
    BY <1>2, <2>1 DEF TakeOnly, Free, TypeOK
  <2>2. CASE pc' = [pc EXCEPT ![t] = "idle"] /\ UNCHANGED holds
    BY <1>2, <2>2 DEF TakeOnly, TypeOK
  <2>3. QED BY <1>2, <2>1, <2>2 DEF TakeOnly
<1>3. CASE ReturnOther(t)
  BY <1>3 DEF ReturnOther, TypeOK
<1>4. QED BY <1>1, <1>2, <1>3

LEMMA AcceptType ==
    ASSUME TypeOK, NEW t \in Thread, NEW a \in Attempt, Accept(t, a)
    PROVE  TypeOK'
BY SubmissionAssumption DEF Accept, TypeOK

LEMMA AppType ==
    ASSUME TypeOK, NEW a \in Attempt, Tap(a) \/ LoseRequest(a) \/ BreakConnection(a)
    PROVE  TypeOK'
BY DEF Tap, LoseRequest, BreakConnection, TypeOK

LEMMA NextType == TypeOK /\ [Next]_vars => TypeOK'
<1> SUFFICES ASSUME TypeOK, [Next]_vars
             PROVE  TypeOK'
  OBVIOUS
<1>1. CASE UNCHANGED vars
  BY <1>1 DEF TypeOK, vars
<1>2. ASSUME NEW t \in Thread, AcceptOther(t) \/ Work(t)
      PROVE  TypeOK'
  BY <1>2, ReturnType, TakeType, OtherType DEF Work
<1>3. QED BY <1>1, <1>2, AcceptType, AppType DEF Next

\* Threads run and hold what their place in the handler says.
THEOREM TypeCorrect == Spec => []TypeOK
<1>1. QED BY InitType, NextType, PTL DEF Spec

-----------------------------------------------------------------------------
(* The pool *)

\* If no thread has all it needs and the pool is empty, every connection is
\* held by a waiting thread of its own: there are at least as many of them.
LEMMA WaitersHoldAll == TypeOK => WedgedOnlyByWaiters
<1> SUFFICES ASSUME TypeOK, Free = {},
                    \A t \in Thread : pc[t] \notin {"nearest", "insert", "other"}
             PROVE  Cardinality(AwaitSecond) >= Cardinality(Conn)
  BY DEF WedgedOnlyByWaiters
<1> DEFINE held == [t \in AwaitSecond |-> CHOOSE c \in Conn : holds[t] = {c}]
           image == {held[t] : t \in AwaitSecond}
<1>1. \A t \in Thread, c \in Conn : c \in holds[t] => t \in AwaitSecond /\ c = held[t]
  <2> SUFFICES ASSUME NEW t \in Thread, NEW c \in Conn, c \in holds[t]
               PROVE  t \in AwaitSecond /\ c = held[t]
    OBVIOUS
  <2>1. pc[t] = "second" /\ t \in AwaitSecond
    BY DEF TypeOK, AwaitSecond
  <2>2. \E d \in Conn : holds[t] = {d}
    BY <2>1 DEF TypeOK
  <2>3. holds[t] = {held[t]}
    BY <2>1, <2>2
  <2>4. QED BY <2>1, <2>3
<1>2. Conn \subseteq image
  <2> SUFFICES ASSUME NEW c \in Conn PROVE c \in image
    OBVIOUS
  <2>1. PICK t \in Thread : c \in holds[t]
    BY DEF Free
  <2>2. t \in AwaitSecond /\ c = held[t]
    BY <1>1, <2>1
  <2> HIDE DEF held
  <2>3. QED BY <2>2
<1>3. IsFiniteSet(AwaitSecond)
  BY SubmissionAssumption, FS_Subset DEF SubmissionAssumption, AwaitSecond
<1>4. IsFiniteSet(image) /\ Cardinality(image) <= Cardinality(AwaitSecond)
  <2>1. held \in Surjection(AwaitSecond, image)
    BY DEF Surjection
  <2> HIDE DEF held, image
  <2>2. QED BY <2>1, <1>3, FS_Surjection
<1>5. Cardinality(Conn) <= Cardinality(image)
  BY <1>2, <1>4, FS_Subset
<1>6. /\ Cardinality(Conn) \in Nat /\ Cardinality(image) \in Nat
      /\ Cardinality(AwaitSecond) \in Nat
  BY <1>3, <1>4, SubmissionAssumption, FS_CardinalityType
<1>7. QED BY <1>4, <1>5, <1>6

\* Only calls of submit_flare that wait for a second connection can wedge the
\* pool, and only as many as it has connections.
THEOREM PoolWedgedOnlyByWaiters == Spec => []WedgedOnlyByWaiters
<1>1. QED BY TypeCorrect, WaitersHoldAll, PTL

\* A pool with more connections than the runtime has threads is never wedged:
\* when it is empty, some thread has all it needs and will give them back.
THEOREM EnoughConnections ==
    Cardinality(Thread) < Cardinality(Conn) /\ Spec =>
        [](Free = {} => \E t \in Thread : pc[t] \in {"nearest", "insert", "other"})
<1> SUFFICES ASSUME Cardinality(Thread) < Cardinality(Conn)
             PROVE  Spec => [](Free = {} => \E t \in Thread : pc[t] \in {"nearest", "insert", "other"})
  OBVIOUS
<1>1. WedgedOnlyByWaiters =>
          (Free = {} => \E t \in Thread : pc[t] \in {"nearest", "insert", "other"})
  <2>1. Cardinality(AwaitSecond) <= Cardinality(Thread)
    BY SubmissionAssumption, FS_Subset DEF SubmissionAssumption, AwaitSecond
  <2>2. /\ Cardinality(Conn) \in Nat /\ Cardinality(Thread) \in Nat
        /\ Cardinality(AwaitSecond) \in Nat
    BY SubmissionAssumption, FS_Subset, FS_CardinalityType DEF SubmissionAssumption, AwaitSecond
  <2>3. QED BY <2>1, <2>2 DEF WedgedOnlyByWaiters
<1>2. QED BY PoolWedgedOnlyByWaiters, <1>1, PTL

-----------------------------------------------------------------------------
(* The truth of the answers *)

AnswerInv == TypeOK /\ OneRun /\ AnswersAreTrue

\* A run that ends gives its attempt the one answer it gets.
LEMMA ReturnAnswers ==
    ASSUME AnswerInv, NEW t \in Thread,
           TimeOut(t) \/ NearestFails(t) \/ InsertFlare(t) \/ InsertFails(t)
    PROVE  OneRun' /\ AnswersAreTrue'
<1> DEFINE a == job[t]
<1>1. TypeOK /\ OneRun /\ AnswersAreTrue
  BY DEF AnswerInv
<1>2. /\ a \in Attempt /\ a # NoJob
      /\ a \notin inbox /\ outcome[a] \in {"pending", "lost"} /\ a \notin flares
  <2>1. a \in Attempt /\ a # NoJob
    BY <1>1, ReturnSteps, SubmissionAssumption DEF TypeOK, InRun
  <2>2. Running(a)
    BY DEF Running
  <2>3. QED BY <1>1, <2>1, <2>2 DEF OneRun
<1>3. PICK seen \in {"sent", "failed", "lost"} :
         /\ flares' = flares \/ flares' = flares \cup {a}
         /\ seen = "sent" => flares' = flares \cup {a}
         /\ seen = "failed" => flares' = flares
         /\ outcome' = [outcome EXCEPT ![a] = seen]
         /\ job' = [job EXCEPT ![t] = NoJob]
         /\ inbox' = inbox
  BY <1>1, <1>2, ReturnSteps DEF Return, TypeOK
<1>4. \A b \in Attempt : Running(b)' => Running(b) /\ b # a
  <2> SUFFICES ASSUME NEW b \in Attempt, NEW u \in Thread, job'[u] = b
               PROVE  Running(b) /\ b # a
    BY DEF Running
  <2>1. u # t /\ job[u] = b
    BY <1>1, <1>3, SubmissionAssumption DEF TypeOK
  <2>2. QED BY <1>1, <1>2, <2>1 DEF Running, OneRun
<1> HIDE DEF a
<1>5. \A b \in Attempt : b # a => /\ outcome'[b] = outcome[b]
                                  /\ b \in flares' <=> b \in flares
  BY <1>3
<1>6. outcome'[a] = seen
  BY <1>1, <1>2, <1>3 DEF TypeOK
<1>7. OneRun'
  <2>1. \A u, v \in Thread : u # v /\ job'[u] = job'[v] => job'[u] = NoJob
    BY <1>1, <1>3 DEF TypeOK, OneRun
  <2>2. \A b \in Attempt : Running(b)' => b \notin inbox'
    BY <1>1, <1>3, <1>4 DEF OneRun
  <2>3. \A b \in Attempt : b \in inbox' \/ Running(b)' =>
            outcome'[b] \in {"pending", "lost"} /\ b \notin flares'
    BY <1>1, <1>2, <1>3, <1>4, <1>5 DEF OneRun
  <2>4. \A b \in Attempt : outcome'[b] = "none" => b \notin flares'
    BY <1>1, <1>3, <1>5, <1>6 DEF OneRun
  <2>5. QED BY <2>1, <2>2, <2>3, <2>4 DEF OneRun
<1>8. AnswersAreTrue'
  <2> SUFFICES ASSUME NEW b \in Attempt
               PROVE  /\ outcome'[b] = "sent" => b \in flares'
                      /\ outcome'[b] = "failed" => b \notin flares' \cup inbox' /\ ~Running(b)'
    BY DEF AnswersAreTrue
  <2>1. CASE b = a
    BY <1>2, <1>3, <1>4, <1>6, <2>1
  <2>2. CASE b # a
    BY <1>1, <1>3, <1>4, <1>5, <2>2 DEF AnswersAreTrue
  <2>3. QED BY <2>1, <2>2
<1>9. QED BY <1>7, <1>8

\* The other steps give no answer and write no row.
LEMMA OtherAnswers ==
    ASSUME AnswerInv, UNCHANGED <<outcome, inbox, job, flares>>
    PROVE  OneRun' /\ AnswersAreTrue'
BY DEF AnswerInv, OneRun, AnswersAreTrue, Running

LEMMA AcceptAnswers ==
    ASSUME AnswerInv, NEW t \in Thread, NEW a \in Attempt, Accept(t, a)
    PROVE  OneRun' /\ AnswersAreTrue'
<1>1. TypeOK /\ OneRun /\ AnswersAreTrue
  BY DEF AnswerInv
<1>2. /\ a \in inbox /\ inbox' = inbox \ {a}
      /\ job' = [job EXCEPT ![t] = a]
      /\ UNCHANGED <<outcome, flares>>
  BY DEF Accept
<1>3. ~Running(a) /\ outcome[a] \in {"pending", "lost"} /\ a \notin flares
  BY <1>1, <1>2 DEF OneRun
<1>4. \A b \in Attempt : Running(b)' => Running(b) \/ b = a
  BY <1>1, <1>2 DEF Running, TypeOK
<1>5. \A u, v \in Thread : u # v /\ job'[u] = job'[v] => job'[u] = NoJob
  BY <1>1, <1>2, <1>3 DEF Running, TypeOK, OneRun
<1>6. OneRun'
  BY <1>1, <1>2, <1>3, <1>4, <1>5 DEF OneRun
<1>7. AnswersAreTrue'
  BY <1>1, <1>2, <1>3, <1>4 DEF AnswersAreTrue
<1>8. QED BY <1>6, <1>7

LEMMA AppAnswers ==
    ASSUME AnswerInv, NEW a \in Attempt,
           Tap(a) \/ LoseRequest(a) \/ BreakConnection(a)
    PROVE  OneRun' /\ AnswersAreTrue'
<1>1. TypeOK /\ OneRun /\ AnswersAreTrue
  BY DEF AnswerInv
<1>2. /\ UNCHANGED <<job, flares>>
      /\ \A b \in Attempt : Running(b)' <=> Running(b)
      /\ \A b \in Attempt : b # a => /\ outcome'[b] = outcome[b]
                                     /\ b \in inbox' <=> b \in inbox
  BY <1>1 DEF Tap, LoseRequest, BreakConnection, Running, TypeOK
<1>3. /\ outcome'[a] \in {"pending", "lost"}
      /\ a \in inbox' => a \in inbox \/ outcome[a] = "none"
  BY <1>1 DEF Tap, LoseRequest, BreakConnection, TypeOK
<1>4. \A b \in Attempt : /\ Running(b)' => b \notin inbox'
                         /\ b \in inbox' \/ Running(b)' =>
                                outcome'[b] \in {"pending", "lost"} /\ b \notin flares'
                         /\ outcome'[b] = "none" => b \notin flares'
  <2> SUFFICES ASSUME NEW b \in Attempt
               PROVE  /\ Running(b)' => b \notin inbox'
                      /\ b \in inbox' \/ Running(b)' =>
                             outcome'[b] \in {"pending", "lost"} /\ b \notin flares'
                      /\ outcome'[b] = "none" => b \notin flares'
    OBVIOUS
  <2>1. CASE b = a
    BY <1>1, <1>2, <1>3, <2>1 DEF OneRun
  <2>2. CASE b # a
    BY <1>1, <1>2, <2>2 DEF OneRun
  <2>3. QED BY <2>1, <2>2
<1>5. OneRun'
  BY <1>1, <1>2, <1>4 DEF OneRun
<1>6. AnswersAreTrue'
  <2> SUFFICES ASSUME NEW b \in Attempt
               PROVE  /\ outcome'[b] = "sent" => b \in flares'
                      /\ outcome'[b] = "failed" => b \notin flares' \cup inbox' /\ ~Running(b)'
    BY DEF AnswersAreTrue
  <2>1. CASE b = a
    BY <1>3, <2>1
  <2>2. CASE b # a
    BY <1>1, <1>2, <2>2 DEF AnswersAreTrue
  <2>3. QED BY <2>1, <2>2
<1>7. QED BY <1>5, <1>6

\* An answer about a flare is true, whatever breaks on the way and whenever: a
\* row for every success, none now or later for an error.
THEOREM AnswersTold == Spec => []AnswersAreTrue
<1>1. Init => AnswerInv
  BY InitType, SubmissionAssumption DEF Init, AnswerInv, OneRun, AnswersAreTrue, Running
<1>2. AnswerInv /\ [Next]_vars => AnswerInv'
  <2> SUFFICES ASSUME AnswerInv, [Next]_vars
               PROVE  OneRun' /\ AnswersAreTrue'
    BY NextType DEF AnswerInv
  <2>1. CASE UNCHANGED vars
    BY <2>1, OtherAnswers DEF vars
  <2>2. ASSUME NEW t \in Thread, AcceptOther(t) \/ Work(t)
        PROVE  OneRun' /\ AnswersAreTrue'
    BY <2>2, ReturnAnswers, OtherAnswers
    DEF Work, AcceptOther, TakeFirst, TakeSecond, NearestFound, TakeOnly, ReturnOther
  <2>3. QED BY <2>1, <2>2, AcceptAnswers, AppAnswers DEF Next
<1>3. AnswerInv => AnswersAreTrue
  BY DEF AnswerInv
<1>4. QED BY <1>1, <1>2, <1>3, PTL DEF Spec
=============================================================================
