SPECIFICATION Spec
CONSTANTS
  Request = {r1, r2, r3, r4}
  Email = {e1, e2}
  NoMember = NoMember
SYMMETRY SymAccounts
CHECK_DEADLOCK FALSE
INVARIANTS
  TypeOK
  OneMemberPerEmail
  TokenMeansVerified
  VerifiedByCode
  CodeLostOnlyByFailure
  UsedCodeIsGone
