SPECIFICATION OpSpec
CONSTANTS
  Peer = {p1, p2}
  Server = p1
  Flare = {f1}
  Location = {l1}
  Clergy = {c1}
  Stamp = {1, 2, 3}
  Unknown = Unknown
  Nobody = Nobody
  UniqueStamps = TRUE
  CarefulIssuers = TRUE
  MaxOps = 3
  MaxApplies = 3
  MaxWire = 0

CHECK_DEADLOCK FALSE
INVARIANT SameOpsSameFlares
