CONSTANTS
  Tx <- MCTx
  Block <- MCBlock
  Key <- MCKey
  Genesis = "g"
  Type <- MCType
  Action <- MCAction
  KeyOf <- MCKeyOf
  Txs <- MCTxs
  WellFormed <- MCWellFormed
  SelfSigned <- MCSelfSigned
  Undef = Undef
  NotFound = NotFound
SPECIFICATION Spec
INVARIANTS
  TypeOK
  LatestImpliesIndexed
  
  
  VerdictHasNoOrder
PROPERTIES
  BlocksAtomic
  HistoryGrows
