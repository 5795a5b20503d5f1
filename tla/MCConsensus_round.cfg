SPECIFICATION Spec
CONSTANTS
  n1 = n1
  n2 = n2
  n3 = n3
  b1 = b1
  b2 = b2
  Undef = Undef
  Empty = Empty
  Genesis = Genesis
  NodeList <- ThreeNodes
  Node = {n1, n2, n3}
  Cid = {b1}
  Beacon <- OneTick
  Signer = {n1, n2, n3}
  OnMsgKeys = {n1, n2, n3}
  SendBlockKeys = {n1, n2, n3}
  Expires <- BlockTimers
  Pending = {TRUE, FALSE}
  Verdict = {TRUE}
  Outcome = {TRUE, FALSE}
  MaxRound = 1
  MaxHeight = 1
SYMMETRY Validators
INVARIANTS TypeOK ProposerHasQuorum IInv
CHECK_DEADLOCK FALSE
