SPECIFICATION FairSpec
CONSTANTS
  Thread = {t1, t2, t3}
  Conn = {c1, c2}
  Attempt = {a1, a2, a3}
  NoJob = NoJob
INVARIANTS
  TypeOK
  WedgedOnlyByWaiters
  AnswersAreTrue
PROPERTY ThreadsComeBack
