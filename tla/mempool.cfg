SPECIFICATION Spec
CONSTANTS
  a = a
  b = b
  c = c
  again = again
  watchProposer = watchProposer
  watchTimeouts = watchTimeouts
  NoTx = NoTx
  Tx <- MCTx
  Start <- MCStart
  Taker = {watchProposer, watchTimeouts}
  Ts <- MCTs
  Cid <- MCCid
  MaxBlockTxCount = 3
INVARIANTS
  TypeOK
  SerialOrder
  PanicNeedsOverlap
  BlocksReadBack
PROPERTIES
  Conserves
  MakeBlockEnds
\* the process may end, and a pool without goroutines is quiet
CHECK_DEADLOCK FALSE
