SPECIFICATION Spec
CONSTANTS
  Request = {r1, r2, r3}
  Email = {admin, e1, e2}
  AdminEmail = admin
  Nobody = Nobody
SYMMETRY SymAccounts
CHECK_DEADLOCK FALSE
INVARIANTS
  TypeOK
  OneGlobalAdmin
  OneClergyPerEmail
  HierarchyHolds
