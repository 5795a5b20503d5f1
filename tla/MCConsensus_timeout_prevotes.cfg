SPECIFICATION Spec
CONSTANTS
  n1 = n1
  n2 = n2
  n3 = n3
  b1 = b1
  b2 = b2
  Undef = Undef
  Empty = Empty
  Genesis = Genesis
  NodeList <- TwoNodes
  Node = {n1, n2}
  Cid = {b1}
  Beacon <- OneTick
  Signer = {n1, n2}
  OnMsgKeys = {n1, n2}
  SendBlockKeys = {n1, n2}
  Expires <- AllTimers
  Pending = {TRUE}
  Verdict = {TRUE}
  Outcome = {TRUE}
  MaxRound = 2
  MaxHeight = 1
PROPERTIES TimeoutPrevotes
CHECK_DEADLOCK FALSE
