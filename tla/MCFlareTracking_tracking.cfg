SPECIFICATION FairSpec
CONSTANTS
  member = member
  Person <- MCPerson
  RoleOf <- MCRoleOf
  NoToken = NoToken
  NoUser = NoUser
  Call = {c1, c2}
  Idle = Idle
  MaxFlares = 2
  MaxLogins = 1
  MaxTime = 2
CHECK_DEADLOCK FALSE
INVARIANTS
  TypeOK
  SenderMayFollow
  NeverAhead
PROPERTIES
  BackOnlyWhenOvertaken
  ReachedSettles
