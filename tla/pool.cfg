CONSTANTS
  c1 = c1
  c2 = c2
  k1 = k1
  k2 = k2
  Free = Free
  Lost = Lost
  Calls = {c1, c2}
  Conns = {k1, k2}
  Handlers = {"send", "dismiss", "reject", "match"}
SPECIFICATION FairSpec
INVARIANTS
  TypeOK
  HoldsWhatItUses
  SendNeverWaitsHolding
PROPERTY EveryCallEnds
