SPECIFICATION StateSpec
CONSTANTS
  Peer = {p1, p2}
  Server = p1
  Flare = {f1, f2}
  Location = {l1}
  Clergy = {c1}
  Stamp = {1, 2}
  Unknown = Unknown
  Nobody = Nobody
  UniqueStamps = FALSE
  CarefulIssuers = FALSE
  MaxOps = 3
  MaxApplies = 3
  MaxWire = 2
SYMMETRY SymPeersFlares
CHECK_DEADLOCK FALSE
INVARIANTS
  StampIdentifiesVersion
  MergeConverges
  ClockReflectsKnowledge
