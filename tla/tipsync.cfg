SPECIFICATION Spec
CONSTANTS
  p = p
  q = q
  drand = drand
  w1 = w1
  w2 = w2
  NoPeer = NoPeer
  Peer = {p, q, drand}
  Drand = {drand}
  Worker = {w1, w2}
  Threshold = 2
  MaxTip = 2
  Own = 1
  Setup <- MCSetup
INVARIANTS
  TypeOK
  TallyComplete
  StartsFresh
  
PROPERTIES
  EventuallyStarts
\* a node that has started asks no more
CHECK_DEADLOCK FALSE
