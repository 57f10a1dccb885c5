SPECIFICATION Spec
CONSTANTS
  Peer = {p1, p2}
  Server = p1
  Flare = {f1}
  Location = {l1}
  Clergy = {c1}
  Stamp = {1, 2}
  Unknown = Unknown
  Nobody = Nobody
  UniqueStamps = FALSE
  CarefulIssuers = FALSE
  MaxOps = 2
  MaxApplies = 2
  MaxWire = 1
SYMMETRY SymPeers
CHECK_DEADLOCK FALSE
INVARIANTS
  TypeOK
  QueuedIsUnassigned
  Provenance
  UnconditionalOpsStick
PROPERTY ImplementsLatestWins
