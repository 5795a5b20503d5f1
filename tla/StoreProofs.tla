---------------------------- MODULE StoreProofs -----------------------------
(***************************************************************************)
(* Proofs that the safety properties of BlockStore and NodeStore hold for  *)
(* every set of transactions and blocks, and that the IPFS store           *)
(* implements Ledger.                                                      *)
(***************************************************************************)
EXTENDS NodeStore, TLAPS

\* Most steps are first-order and go to Zenon; SMT is named where a step needs arithmetic,
\* sequences or records.
USE Zenon, SMTT(30)

-----------------------------------------------------------------------------
(* Indexing one transaction *)

\* An empty index is an index, and lists nothing.
LEMMA NoIndexType == NoIndex \in Index /\ Resolves(NoIndex)
BY DEF NoIndex, Index, Resolves, ResolvesAs

\* indexTxNode sets or clears the entry of the transaction's node.
LEMMA NodeFacts ==
  ASSUME NEW i \in Index, NEW t \in Tx, Type[t] = "node", Action[t] # "update"
  PROVE  /\ indexTxNode(i, t) \in Index
         /\ indexTxNode(i, t).txBlock = i.txBlock
         /\ indexTxNode(i, t).history = i.history
         /\ Resolves(i) => Resolves(indexTxNode(i, t))
<1>1. KeyOf[t] \in Key /\ Action[t] \in {"add", "update", "revoke"}
  BY StoreAssumption
<1> DEFINE j == indexTxNode(i, t)
<1>2. /\ j.txBlock = i.txBlock /\ j.history = i.history /\ j.did = i.did
      /\ j.node = Put(i.node, KeyOf[t], IF Action[t] = "add" THEN t ELSE NotFound)
      /\ j \in Index
  BY <1>1 DEF indexTxNode, Index, Put
<1> HIDE DEF j
<1>3. Resolves(i) => Resolves(j)
  BY <1>1, <1>2, SMTT(30) DEF Resolves, ResolvesAs, Put, Index
<1> QED BY <1>2, <1>3 DEF j

\* indexTxDID sets or clears the entry of the DID and adds to its history.
LEMMA DIDFacts ==
  ASSUME NEW i \in Index, NEW t \in Tx, Type[t] = "did"
  PROVE  /\ indexTxDID(i, t) \in Index
         /\ indexTxDID(i, t).txBlock = i.txBlock
         /\ i.history \subseteq indexTxDID(i, t).history
         /\ Resolves(i) => Resolves(indexTxDID(i, t))
<1>1. KeyOf[t] \in Key /\ Action[t] \in {"add", "update", "revoke"}
  BY StoreAssumption
<1> DEFINE j == indexTxDID(i, t)
<1>2. /\ j.txBlock = i.txBlock /\ j.history = i.history \cup {t} /\ j.node = i.node
      /\ j.did = Put(i.did, KeyOf[t], IF Action[t] = "revoke" THEN NotFound ELSE t)
      /\ j \in Index
  BY <1>1 DEF indexTxDID, Index, Put
<1> HIDE DEF j
<1>3. Resolves(i) => Resolves(j)
  BY <1>1, <1>2, SMTT(30) DEF Resolves, ResolvesAs, Put, Index
<1> QED BY <1>2, <1>3 DEF j

\* MemStore applies every transaction, and keeps revoked DIDs.
LEMMA MemFacts ==
  ASSUME NEW i \in Index, NEW t \in Tx, kind = "mem"
  PROVE  /\ memApplyTx(i, t) \in Index
         /\ memApplyTx(i, t).txBlock = i.txBlock
         /\ Resolves(i) => Resolves(memApplyTx(i, t))
<1>1. KeyOf[t] \in Key /\ Type[t] \in {"did", "vc", "node"}
  BY StoreAssumption
<1> DEFINE j == memApplyTx(i, t)
<1>2. CASE Type[t] = "did"
  <2>1. /\ j.txBlock = i.txBlock /\ j.node = i.node
        /\ j.did = Put(i.did, KeyOf[t], t)
        /\ j \in Index
    BY <1>1, <1>2 DEF memApplyTx, Index, Put
  <2> HIDE DEF j
  <2>2. Resolves(i) => Resolves(j)
    BY <1>1, <1>2, <2>1, SMTT(30) DEF Resolves, ResolvesAs, Put, Index
  <2> QED BY <2>1, <2>2 DEF j
<1>3. CASE Type[t] = "vc"
  BY <1>3 DEF memApplyTx
<1>4. CASE Type[t] = "node" /\ Action[t] = "update"
  BY <1>4 DEF memApplyTx
<1>5. CASE Type[t] = "node" /\ Action[t] # "update"
  <2>1. memApplyTx(i, t) = indexTxNode(i, t)
    BY <1>5 DEF memApplyTx
  <2> QED BY <1>5, <2>1, NodeFacts
<1> QED BY <1>1, <1>2, <1>3, <1>4, <1>5

\* Applying a transaction keeps the blocks of all transactions, loses no history
\* on the IPFS store, and leaves an index that can be read back.
LEMMA ApplyTxFacts ==
  ASSUME NEW i \in Index, NEW t \in Tx, kind \in {"ipfs", "mem"},
         kind = "ipfs" => Applicable(t)
  PROVE  /\ ApplyTx(i, t) \in Index
         /\ ApplyTx(i, t).txBlock = i.txBlock
         /\ kind = "ipfs" => i.history \subseteq ApplyTx(i, t).history
         /\ Resolves(i) => Resolves(ApplyTx(i, t))
<1>1. CASE kind = "mem"
  <2>1. ApplyTx(i, t) = memApplyTx(i, t)
    BY <1>1 DEF ApplyTx
  <2> QED BY <1>1, <2>1, MemFacts
<1>2. CASE kind = "ipfs" /\ Type[t] = "node"
  <2>1. ApplyTx(i, t) = indexTxNode(i, t) /\ Action[t] # "update"
    BY <1>2 DEF ApplyTx, Applicable
  <2> QED BY <1>2, <2>1, NodeFacts
<1>3. CASE kind = "ipfs" /\ Type[t] # "node"
  <2>1. ApplyTx(i, t) = indexTxDID(i, t) /\ Type[t] = "did"
    BY <1>3 DEF ApplyTx, Applicable
  <2> QED BY <1>3, <2>1, DIDFacts
<1> QED BY <1>1, <1>2, <1>3

\* IndexUnder also records the transaction's block.
LEMMA IndexUnderFacts ==
  ASSUME NEW i \in Index, NEW t \in Tx, NEW b \in Block \cup {Undef},
         kind \in {"ipfs", "mem"}, kind = "ipfs" => Applicable(t)
  PROVE  /\ IndexUnder(i, t, b) \in Index
         /\ IndexUnder(i, t, b).txBlock = [i.txBlock EXCEPT ![t] = b]
         /\ kind = "ipfs" => i.history \subseteq IndexUnder(i, t, b).history
         /\ Resolves(i) => Resolves(IndexUnder(i, t, b))
<1> DEFINE j == [i EXCEPT !.txBlock = Put(i.txBlock, t, b)]
<1>1. /\ j \in Index /\ j.txBlock = [i.txBlock EXCEPT ![t] = b]
      /\ j.history = i.history /\ j.did = i.did /\ j.node = i.node
  BY DEF Index, Put
<1>2. IndexUnder(i, t, b) = ApplyTx(j, t)
  BY DEF IndexUnder
<1> HIDE DEF j
<1>3. Resolves(i) => Resolves(j)
  BY <1>1, SMTT(30) DEF Resolves, ResolvesAs
<1> QED BY <1>1, <1>2, <1>3, ApplyTxFacts, SMTT(30)
-----------------------------------------------------------------------------
(* The invariant of the store *)

\* A call that only marks a block changes neither the index nor what is on disk.
LEMMA MarkInv ==
  ASSUME StoreInv, NEW b \in Block \cup {Undef}, NEW s \in BlockState,
         MarkBlock(b, s), b = Undef => s # "validated"
  PROVE  StoreInv'
<1> USE DEF StoreInv, StoreTypeOK
<1>1. /\ job.op = "idle" /\ kind' = kind /\ index' = index /\ synced' = synced
      /\ latest' = latest /\ genesis' = genesis
      /\ bState' \in [Block \cup {Undef} -> BlockState]
      /\ bState'[Undef] # "validated"
      /\ Indexes(b, s) => b \in Block
  BY DEF MarkBlock, JobInv, Indexes
<1>2. CASE Indexes(b, s)
  <2>1. job' = [op |-> "index", block |-> b, todo |-> Txs[b]] /\ batch' = index
    BY <1>2 DEF MarkBlock
  <2>2. Txs[b] \subseteq Tx /\ b \in Block
    BY <1>1, <1>2, StoreAssumption
  <2>3. StoreTypeOK'
    BY <1>1, <2>1, <2>2 DEF Job
  <2>4. batch'.txBlock = Placed(index, {}, b)
    BY <2>1 DEF Placed, Index
  <2>5. JobInv'
    BY <1>1, <2>1, <2>4 DEF JobInv, Placed
  <2>6. Resolves(batch)' /\ IndexResolves' /\ LatestImpliesIndexed'
    BY <1>1, <2>1 DEF IndexResolves, Resolves, LatestImpliesIndexed
  <2> QED BY <2>3, <2>5, <2>6
<1>3. CASE ~Indexes(b, s)
  <2>1. job' = job /\ batch' = batch
    BY <1>3 DEF MarkBlock
  <2> QED BY <1>1, <2>1 DEF JobInv, Placed, IndexResolves, Resolves, LatestImpliesIndexed
<1> QED BY <1>2, <1>3

\* Both stores index one transaction more; only MemStore's index shows it.
LEMMA IndexTxInv ==
  ASSUME StoreInv, NEW t \in Tx, IndexTx(t)
  PROVE  StoreInv'
<1> USE DEF StoreInv, StoreTypeOK
<1>1. /\ job.op = "index" /\ t \in job.todo /\ kind' = kind /\ synced' = synced
      /\ latest' = latest /\ genesis' = genesis /\ bState' = bState
      /\ job' = [op |-> "index", block |-> job.block, todo |-> job.todo \ {t}]
  BY DEF IndexTx, Rest
<1>2. job.block \in Block /\ job.todo \subseteq Tx /\ job.todo \subseteq Txs[job.block]
  BY <1>1 DEF JobInv, Job
<1>3. job' \in Job
  BY <1>1, <1>2 DEF Job
<1>4. CASE kind = "ipfs"
  <2>1. Applicable(t) /\ batch' = IndexUnder(batch, t, job.block) /\ index' = index
    BY <1>4 DEF IndexTx
  <2>2. /\ batch' \in Index /\ Resolves(batch')
        /\ batch'.txBlock = [batch.txBlock EXCEPT ![t] = job.block]
        /\ batch.history \subseteq batch'.history
    BY <1>2, <1>4, <2>1, IndexUnderFacts
  <2>3. batch'.txBlock = Placed(index, Txs[job.block] \ (job.todo \ {t}), job.block)
    <3>1. batch.txBlock = Placed(index, Txs[job.block] \ job.todo, job.block)
      BY <1>1, <1>4 DEF JobInv
    <3> QED BY <1>1, <1>2, <2>2, <3>1, SMTT(30) DEF Placed
  <2>4. JobInv'
    BY <1>1, <1>2, <1>4, <2>1, <2>2, <2>3 DEF JobInv, Placed
  <2>5. Resolves(batch)'
    BY <1>1, <2>2 DEF Resolves
  <2>6. IndexResolves' /\ LatestImpliesIndexed'
    BY <1>1, <2>1 DEF IndexResolves, Resolves, LatestImpliesIndexed
  <2> QED BY <1>1, <1>3, <2>1, <2>2, <2>4, <2>5, <2>6
<1>5. CASE kind = "mem"
  <2>1. index' = IndexUnder(index, t, job.block) /\ batch' = batch
    BY <1>5 DEF IndexTx
  <2>2. index' \in Index /\ Resolves(index')
    BY <1>2, <1>5, <2>1, IndexUnderFacts DEF IndexResolves
  <2>3. JobInv'
    BY <1>1, <1>2, <1>5 DEF JobInv
  <2>4. IndexResolves' /\ Resolves(batch)'
    BY <1>1, <2>1, <2>2 DEF IndexResolves, Resolves
  <2>5. LatestImpliesIndexed'
    BY <1>1, <1>5 DEF LatestImpliesIndexed
  <2> QED BY <1>1, <1>3, <2>1, <2>2, <2>3, <2>4, <2>5
<1> QED BY <1>4, <1>5

\* Dropping a batch leaves the store as it was before the call.
LEMMA DropInv ==
  ASSUME StoreInv, Done, UNCHANGED <<kind, bState, index, synced, latest, genesis>>,
         job.op # "latest"
  PROVE  StoreInv'
<1> USE DEF StoreInv, StoreTypeOK
<1>1. job' \in Job /\ job'.op = "idle" /\ batch' \in Index /\ Resolves(batch')
  BY StoreAssumption, NoIndexType DEF Done, Idle, Job
<1>2. JobInv'
  BY <1>1 DEF JobInv
<1>3. Resolves(batch)'
  BY <1>1 DEF Resolves
<1>4. IndexResolves' /\ LatestImpliesIndexed'
  BY DEF IndexResolves, Resolves, LatestImpliesIndexed
<1> QED BY <1>1, <1>2, <1>3, <1>4

\* A committed batch is the whole block.
LEMMA IndexCommitInv ==
  ASSUME StoreInv, IndexCommit
  PROVE  StoreInv'
<1> USE DEF StoreInv, StoreTypeOK
<1>1. /\ job.op = "index" /\ job.todo = {} /\ UNCHANGED <<kind, bState, synced, latest, genesis>>
  BY DEF IndexCommit
<1>2. CASE kind = "ipfs"
  <2>1. /\ index' = batch /\ batch' = batch
        /\ job' = [op |-> "latest", block |-> job.block, todo |-> {}]
    BY <1>2 DEF IndexCommit
  <2>2. job' \in Job
    BY <2>1 DEF Job
  <2>3. /\ index'.txBlock = Placed(synced, Txs[job.block], job.block)
        /\ synced.history \subseteq index'.history
    BY <1>1, <1>2, <2>1 DEF JobInv, Placed
  <2>4. JobInv'
    BY <1>1, <1>2, <2>1, <2>3 DEF JobInv, Placed
  <2>5. Resolves(batch)' /\ IndexResolves' /\ LatestImpliesIndexed'
    BY <1>1, <2>1 DEF IndexResolves, Resolves, LatestImpliesIndexed
  <2> QED BY <1>1, <2>1, <2>2, <2>4, <2>5
<1>3. CASE kind = "mem"
  BY <1>1, <1>3, DropInv DEF IndexCommit
<1> QED BY <1>2, <1>3

\* Recording the block puts its index on disk.
LEMMA SetLatestInv ==
  ASSUME StoreInv, SetLatest
  PROVE  StoreInv'
<1> USE DEF StoreInv, StoreTypeOK
<1>1. /\ job.op = "latest" /\ kind = "ipfs" /\ UNCHANGED <<kind, bState, index, genesis>>
      /\ latest' = [id |-> job.block, as |-> "bytes"] /\ synced' = index
  BY DEF SetLatest, JobInv
<1>2. job' \in Job /\ job'.op = "idle" /\ batch' \in Index /\ Resolves(batch')
  BY StoreAssumption, NoIndexType DEF SetLatest, Done, Idle, Job
<1>3. job.block \in Block /\ latest' \in LastRef /\ latest'.id = job.block
  BY <1>1 DEF Job, LastRef
<1>4. \A t \in Txs[job.block] : index.txBlock[t] # NotFound
  <2>1. index.txBlock = Placed(synced, Txs[job.block], job.block)
    BY <1>1 DEF JobInv
  <2> QED BY <1>3, <2>1, StoreAssumption, SMTT(30) DEF Placed
<1>5. JobInv'
  BY <1>1, <1>2 DEF JobInv
<1>6. LatestImpliesIndexed'
  BY <1>1, <1>3, <1>4 DEF LatestImpliesIndexed
<1>7. Resolves(batch)' /\ IndexResolves'
  BY <1>1, <1>2 DEF IndexResolves, Resolves
<1> QED BY <1>1, <1>2, <1>3, <1>5, <1>6, <1>7

\* The text of an id says nothing about the index.
LEMMA UpdateInv ==
  ASSUME StoreInv, NEW b \in Block \cup {Undef}, UpdateLastApplied(b)
  PROVE  StoreInv'
<1> USE DEF StoreInv, StoreTypeOK
<1>1. /\ job.op = "idle" /\ UNCHANGED <<kind, bState, index, genesis, job, batch>>
      /\ synced' \in {index, synced}
      /\ kind = "ipfs" => synced' = index
      /\ latest' = [id |-> b, as |-> LastAs]
  BY DEF UpdateLastApplied
<1>2. latest' \in LastRef /\ latest'.as = LastAs
  BY <1>1 DEF LastRef, LastAs
<1>3. JobInv'
  BY <1>1 DEF JobInv
<1>4. LatestImpliesIndexed'
  BY <1>1, <1>2 DEF LatestImpliesIndexed, LastAs
<1>5. Resolves(batch)' /\ IndexResolves'
  BY <1>1 DEF IndexResolves, Resolves
<1> QED BY <1>1, <1>2, <1>3, <1>4, <1>5

\* The genesis starts from the index as it is.
LEMMA ApplyGenesisInv ==
  ASSUME StoreInv, ApplyGenesis
  PROVE  StoreInv'
<1> USE DEF StoreInv, StoreTypeOK
<1>1. /\ job.op = "idle" /\ UNCHANGED <<kind, bState, index, synced, latest>>
      /\ job' = [op |-> "genesis", block |-> Genesis, todo |-> Txs[Genesis]]
      /\ batch' = index /\ genesis' \in BOOLEAN
  BY DEF ApplyGenesis
<1>2. job' \in Job
  BY <1>1, StoreAssumption DEF Job
<1>3. JobInv'
  BY <1>1 DEF JobInv
<1>4. Resolves(batch)' /\ IndexResolves' /\ LatestImpliesIndexed'
  BY <1>1 DEF IndexResolves, Resolves, LatestImpliesIndexed
<1> QED BY <1>1, <1>2, <1>3, <1>4

\* Every genesis transaction can be applied, and none is placed in a block.
LEMMA GenesisTxInv ==
  ASSUME StoreInv, NEW t \in Tx, GenesisTx(t)
  PROVE  StoreInv'
<1> USE DEF StoreInv, StoreTypeOK
<1>1. /\ job.op = "genesis" /\ t \in job.todo
      /\ UNCHANGED <<kind, bState, synced, latest, genesis>>
      /\ job' = [op |-> "genesis", block |-> job.block, todo |-> job.todo \ {t}]
  BY DEF GenesisTx, Rest
<1>2. job.block = Genesis /\ job.todo \subseteq Txs[Genesis] /\ job.todo \subseteq Tx
  BY <1>1 DEF JobInv, Job
<1>3. job' \in Job
  BY <1>1, <1>2, StoreAssumption DEF Job
<1>4. Applicable(t)
  BY <1>1, <1>2, StoreAssumption, GenesisAssumption DEF Applicable
<1>5. CASE kind = "ipfs"
  <2>1. batch' = ApplyTx(batch, t) /\ index' = index
    BY <1>5 DEF GenesisTx
  <2>2. /\ batch' \in Index /\ Resolves(batch') /\ batch'.txBlock = batch.txBlock
        /\ batch.history \subseteq batch'.history
    BY <1>4, <1>5, <2>1, ApplyTxFacts
  <2>3. JobInv'
    BY <1>1, <1>2, <1>5, <2>1, <2>2 DEF JobInv
  <2>4. Resolves(batch)'
    BY <1>1, <2>2 DEF Resolves
  <2>5. IndexResolves' /\ LatestImpliesIndexed'
    BY <1>1, <2>1 DEF IndexResolves, Resolves, LatestImpliesIndexed
  <2> QED BY <1>1, <1>3, <2>1, <2>2, <2>3, <2>4, <2>5
<1>6. CASE kind = "mem"
  <2>1. index' = IndexUnder(index, t, Undef) /\ batch' = batch
    BY <1>6 DEF GenesisTx
  <2>2. index' \in Index /\ Resolves(index')
    BY <1>6, <2>1, IndexUnderFacts DEF IndexResolves
  <2>3. JobInv'
    BY <1>1, <1>2, <1>6 DEF JobInv
  <2>4. IndexResolves' /\ Resolves(batch)'
    BY <1>1, <2>1, <2>2 DEF IndexResolves, Resolves
  <2>5. LatestImpliesIndexed'
    BY <1>1, <1>6 DEF LatestImpliesIndexed
  <2> QED BY <1>1, <1>3, <2>1, <2>2, <2>3, <2>4, <2>5
<1> QED BY <1>5, <1>6

\* The genesis batch is synced when it is committed.
LEMMA GenesisCommitInv ==
  ASSUME StoreInv, GenesisCommit
  PROVE  StoreInv'
<1> USE DEF StoreInv, StoreTypeOK
<1>1. job.op = "genesis" /\ UNCHANGED <<kind, bState>> /\ Done
  BY DEF GenesisCommit
<1>2. job' \in Job /\ job'.op = "idle" /\ batch' \in Index /\ Resolves(batch')
  BY <1>1, StoreAssumption, NoIndexType DEF Done, Idle, Job
<1>3. CASE kind = "ipfs"
  <2>1. /\ index' = batch /\ synced' = batch /\ genesis' = TRUE
        /\ latest' = [id |-> Genesis, as |-> "bytes"]
    BY <1>3 DEF GenesisCommit
  <2>2. latest' \in LastRef /\ latest'.id = Genesis /\ Genesis \in Block
    BY <2>1, StoreAssumption DEF LastRef
  <2>3. JobInv' /\ LatestImpliesIndexed'
    BY <1>1, <1>2, <2>1, <2>2 DEF JobInv, LatestImpliesIndexed
  <2>4. Resolves(batch)' /\ IndexResolves'
    BY <1>1, <1>2, <2>1 DEF IndexResolves, Resolves
  <2> QED BY <1>1, <1>2, <2>1, <2>2, <2>3, <2>4
<1>4. CASE kind = "mem"
  BY <1>1, <1>4, DropInv DEF GenesisCommit
<1> QED BY <1>3, <1>4

\* After a crash what is left of the index is on disk.
LEMMA CrashInv ==
  ASSUME StoreInv, Crash
  PROVE  StoreInv'
<1> USE DEF StoreInv, StoreTypeOK
<1>1. kind' = kind
  BY DEF Crash
<1>2. job' \in Job /\ job'.op = "idle" /\ batch' \in Index /\ Resolves(batch')
  BY StoreAssumption, NoIndexType DEF Crash, Done, Idle, Job
<1>3. CASE kind = "ipfs"
  <2>1. index' \in {index, synced} /\ synced' = index' /\ UNCHANGED <<bState, latest, genesis>>
    BY <1>3 DEF Crash
  <2>2. JobInv'
    BY <1>1, <1>2, <2>1 DEF JobInv
  <2>3. \A t \in Tx : synced.txBlock[t] # NotFound => synced'.txBlock[t] # NotFound
    BY <1>3, <2>1, StoreAssumption, SMTT(30) DEF JobInv, Placed, Job
  <2>4. LatestImpliesIndexed'
    BY <1>1, <1>3, <2>1, <2>3, StoreAssumption DEF LatestImpliesIndexed
  <2>5. Resolves(batch)' /\ IndexResolves'
    BY <1>1, <1>2, <2>1 DEF IndexResolves, Resolves
  <2> QED BY <1>1, <1>2, <2>1, <2>2, <2>4, <2>5
<1>4. CASE kind = "mem"
  <2>1. /\ bState' \in [Block \cup {Undef} -> BlockState]
        /\ bState'[Undef] # "validated"
        /\ index' = NoIndex /\ synced' = synced /\ latest' = NotFound /\ genesis' = FALSE
    BY <1>4 DEF Crash, BlockState
  <2>2. JobInv' /\ LatestImpliesIndexed'
    BY <1>1, <1>2, <1>4, <2>1 DEF JobInv, LatestImpliesIndexed
  <2>3. Resolves(batch)' /\ IndexResolves'
    BY <1>1, <1>2, <2>1, NoIndexType DEF IndexResolves, Resolves
  <2> QED BY <1>1, <1>2, <2>1, <2>2, <2>3, NoIndexType DEF LastRef
<1> QED BY <1>3, <1>4

-----------------------------------------------------------------------------
(* The composition: every step of NodeStore is a step of the store's own        *)
(* specification, or leaves the store alone.                                     *)

\* A crash of the store is what a stopped process leaves behind.
LEMMA StopIsCrash == Stop => StoreNext
BY DEF Stop, StoreNext

\* The node calls the store as any client may.
LEMMA NodeIsClient == ASSUME TypeOK, NodeStep PROVE StoreNext \/ UNCHANGED svars
<1>1. CASE Boot
  BY <1>1 DEF Boot, StoreNext, Call
<1>2. CASE Restore
  BY <1>2 DEF Restore
<1>3. CASE StartConsensus
  BY <1>3 DEF StartConsensus
<1>4. ASSUME NEW b \in Block \ {Genesis}, ApplyFromTip(b) PROVE StoreNext \/ UNCHANGED svars
  BY <1>4, StopIsCrash DEF ApplyFromTip, vars
<1>5. ASSUME NEW b \in Block \ {Genesis}, Validate(b) PROVE StoreNext
  <2>1. MarkBlock(GetBlock(b).ID, "unvalidated") /\ "unvalidated" \in BlockState
    BY <1>5 DEF Validate, BlockState
  <2> QED BY <2>1 DEF StoreNext, Call, Mark, GetBlock
<1>6. CASE ValidateFails \/ CompleteValid
  BY <1>6 DEF ValidateFails, CompleteValid
<1>7. CASE CompletePanics
  BY <1>7, StopIsCrash DEF CompletePanics
<1>8. ASSUME NEW t \in Tx, CheckTx(t) PROVE UNCHANGED svars
  BY <1>8 DEF CheckTx
<1>9. ASSUME NEW b \in (Block \ {Genesis}) \cup {Undef}, MarkAccepted(b)
      PROVE  StoreNext \/ UNCHANGED svars
  <2>1. "accepted" \in BlockState
    BY DEF BlockState
  <2> QED BY <1>9, <2>1 DEF MarkAccepted, StoreNext, Call, Mark
<1>10. CASE RecordAccepted
  BY <1>10 DEF TypeOK, RecordAccepted, StoreNext, Call
<1>11. CASE NodeWork \/ Stop
  BY <1>11, StopIsCrash DEF NodeWork, StoreNext
<1> QED BY <1>1, <1>2, <1>3, <1>4, <1>5, <1>6, <1>7, <1>8, <1>9, <1>10, <1>11 DEF NodeStep

\* Every step of the store keeps its invariant.
LEMMA StoreStepInv == ASSUME StoreInv, StoreNext PROVE StoreInv'
<1>1. ASSUME NEW b \in Block, NEW s \in BlockState, MarkBlock(b, s) PROVE StoreInv'
  BY <1>1, MarkInv, StoreAssumption
<1>2. ASSUME NEW s \in {"unvalidated", "accepted"}, MarkBlock(Undef, s) PROVE StoreInv'
  <2>1. s \in BlockState
    BY DEF BlockState
  <2> QED BY <1>2, <2>1, MarkInv
<1>3. CASE ApplyGenesis
  BY <1>3, ApplyGenesisInv
<1>4. ASSUME NEW b \in Block \cup {Undef}, UpdateLastApplied(b) PROVE StoreInv'
  BY <1>4, UpdateInv
<1>5. ASSUME NEW t \in Tx, IndexTx(t) \/ GenesisTx(t) PROVE StoreInv'
  BY <1>5, IndexTxInv, GenesisTxInv
<1>6. CASE IndexFails \/ GenesisFails
  BY <1>6, DropInv DEF IndexFails, GenesisFails
<1>7. CASE IndexCommit \/ SetLatest \/ GenesisCommit \/ Crash
  BY <1>7, IndexCommitInv, SetLatestInv, GenesisCommitInv, CrashInv
<1> QED BY <1>1, <1>2, <1>3, <1>4, <1>5, <1>6, <1>7 DEF StoreNext, Call, Mark, Work

\* Leaving the store alone keeps its invariant.
LEMMA StoreStutter == ASSUME StoreInv, UNCHANGED svars PROVE StoreInv'
<1>1. StoreTypeOK'
  BY DEF StoreInv, svars, StoreTypeOK
<1>2. IndexResolves' /\ Resolves(batch)'
  BY DEF StoreInv, svars, IndexResolves, Resolves
<1>3. JobInv'
  BY DEF StoreInv, svars, JobInv, Placed
<1>4. LatestImpliesIndexed'
  BY DEF StoreInv, svars, LatestImpliesIndexed
<1> QED BY <1>1, <1>2, <1>3, <1>4 DEF StoreInv

\* The empty store satisfies the invariant.
LEMMA StoreInitInv == ASSUME StoreInit PROVE StoreInv
<1>1. job \in Job /\ job.op = "idle"
  BY StoreAssumption DEF StoreInit, Idle, Job
<1>2. StoreTypeOK
  BY <1>1, NoIndexType DEF StoreInit, StoreTypeOK, LastRef, BlockState
<1>3. JobInv /\ LatestImpliesIndexed
  BY <1>1 DEF StoreInit, JobInv, LatestImpliesIndexed
<1>4. IndexResolves /\ Resolves(batch)
  BY NoIndexType DEF StoreInit, IndexResolves
<1> QED BY <1>2, <1>3, <1>4 DEF StoreInv

-----------------------------------------------------------------------------
(* The node *)

\* The node's variables keep their types.
LEMMA NodeType == ASSUME TypeOK, StoreTypeOK', [Next]_vars PROVE TypeOK'
<1> USE DEF TypeOK
<1>1. NoCheck \in Check
  BY StoreAssumption, NoIndexType DEF NoCheck, Check
<1>2. ASSUME Forgotten, mode' = "down", driver' = driver PROVE TypeOK'
  BY <1>1, <1>2 DEF Forgotten, Mode
<1>3. CASE Boot \/ Restore \/ StartConsensus
  BY <1>3 DEF Boot, Restore, StartConsensus, Mode, GetLastApplied, LastRef, StoreTypeOK
<1>4. ASSUME NEW b \in Block \ {Genesis}, ApplyFromTip(b) PROVE TypeOK'
  BY <1>2, <1>4 DEF ApplyFromTip, vars, nvars, Stop
<1>5. ASSUME NEW b \in Block \ {Genesis}, Validate(b) PROVE TypeOK'
  BY <1>5, StoreAssumption DEF Validate, StartTest, Check, StoreTypeOK
<1>6. CASE ValidateFails
  BY <1>1, <1>6 DEF ValidateFails
<1>7. CASE CompleteValid
  BY <1>7 DEF CompleteValid, Check
<1>8. CASE CompletePanics \/ Stop
  BY <1>2, <1>8 DEF CompletePanics, Stop
<1>9. ASSUME NEW t \in Tx, CheckTx(t) PROVE TypeOK'
  <2>1. ApplyTx(check.view, t) \in Index
    BY <1>9, ApplyTxFacts DEF CheckTx, Check, StoreTypeOK
  <2> QED BY <1>9, <2>1, ZenonT(60) DEF CheckTx, Check
<1>10. ASSUME NEW b \in (Block \ {Genesis}) \cup {Undef}, MarkAccepted(b) PROVE TypeOK'
  BY <1>10 DEF MarkAccepted
<1>11. CASE RecordAccepted
  BY <1>11 DEF RecordAccepted
<1>12. CASE NodeWork \/ Client \/ UNCHANGED vars
  BY <1>12 DEF NodeWork, Client, vars, nvars
<1> QED
  BY <1>3, <1>4, <1>5, <1>6, <1>7, <1>8, <1>9, <1>10, <1>11, <1>12 DEF Next, NodeStep

\* One transaction more adds its key, and no other.
LEMMA AddedStep ==
  ASSUME NEW S, S \subseteq Txs[Genesis], NEW t \in Txs[Genesis], NEW ty
  PROVE  Added(S \cup {t}, ty) =
           IF Type[t] = ty THEN Put(Added(S, ty), KeyOf[t], t) ELSE Added(S, ty)
<1>1. /\ t \in Tx /\ Txs[Genesis] \subseteq Tx /\ KeyOf[t] \in Key
  BY StoreAssumption
<1>2. ASSUME NEW k \in Key, ~(Type[t] = ty /\ KeyOf[t] = k)
      PROVE  Adds(S \cup {t}, ty, k) = Adds(S, ty, k)
  BY <1>2 DEF Adds
<1>3. ASSUME Type[t] = ty
      PROVE  Adds(S \cup {t}, ty, KeyOf[t]) = {t}
  BY <1>3, GenesisAssumption DEF Adds
<1>4. ASSUME NEW k \in Key PROVE Adds(S \cup {t}, ty, k) = IF Type[t] = ty /\ KeyOf[t] = k
                                   THEN {t} ELSE Adds(S, ty, k)
  BY <1>2, <1>3
<1>5. One({t}) = t
  BY DEF One
<1>6. ASSUME NEW k \in Key
      PROVE  Added(S \cup {t}, ty)[k] = IF Type[t] = ty /\ KeyOf[t] = k THEN t ELSE Added(S, ty)[k]
  BY <1>4, <1>5 DEF Added
<1>7. /\ Added(S \cup {t}, ty) = [k \in Key |-> Added(S \cup {t}, ty)[k]]
      /\ Added(S, ty) = [k \in Key |-> Added(S, ty)[k]]
  BY DEF Added
<1> HIDE DEF Added
<1> QED BY <1>1, <1>6, <1>7 DEF Put

\* Applying a genesis transaction after those of S leaves the index of S and it.
LEMMA GenesisIndexStep ==
  ASSUME kind \in {"ipfs", "mem"},
         NEW S, S \subseteq Txs[Genesis], NEW t \in Txs[Genesis]
  PROVE  /\ kind = "ipfs" => ApplyTx(GenesisIndex(kind, S), t) = GenesisIndex(kind, S \cup {t})
         /\ kind = "mem" => IndexUnder(GenesisIndex(kind, S), t, Undef) = GenesisIndex(kind, S \cup {t})
<1>1. /\ t \in Tx /\ KeyOf[t] \in Key /\ Type[t] \in {"did", "node"} /\ Action[t] = "add"
  BY StoreAssumption, GenesisAssumption
<1> DEFINE g == GenesisIndex(kind, S)
           h == GenesisIndex(kind, S \cup {t})
<1>2. /\ g = [txBlock |-> g.txBlock, did |-> g.did, node |-> g.node, history |-> g.history]
      /\ g.did = Added(S, "did") /\ g.node = Added(S, "node")
  BY DEF GenesisIndex
<1>3. /\ h = [txBlock |-> h.txBlock, did |-> h.did, node |-> h.node, history |-> h.history]
      /\ h.did = IF Type[t] = "did" THEN Put(g.did, KeyOf[t], t) ELSE g.did
      /\ h.node = IF Type[t] = "node" THEN Put(g.node, KeyOf[t], t) ELSE g.node
  <2>1. /\ h = [txBlock |-> h.txBlock, did |-> h.did, node |-> h.node, history |-> h.history]
        /\ h.did = Added(S \cup {t}, "did") /\ h.node = Added(S \cup {t}, "node")
    BY DEF GenesisIndex
  <2> HIDE DEF g, h
  <2>2. Added(S \cup {t}, "did") =
          IF Type[t] = "did" THEN Put(Added(S, "did"), KeyOf[t], t) ELSE Added(S, "did")
    BY AddedStep
  <2>3. Added(S \cup {t}, "node") =
          IF Type[t] = "node" THEN Put(Added(S, "node"), KeyOf[t], t) ELSE Added(S, "node")
    BY AddedStep
  <2> QED BY <1>2, <2>1, <2>2, <2>3
<1>4. CASE kind = "ipfs"
  <2>1. /\ h.txBlock = g.txBlock
        /\ h.history = IF Type[t] = "did" THEN g.history \cup {t} ELSE g.history
    BY <1>4 DEF GenesisIndex
  <2> HIDE DEF g, h
  <2>2. CASE Type[t] = "did"
    <3>1. ApplyTx(g, t) = indexTxDID(g, t)
      BY <1>4, <2>2 DEF ApplyTx
    <3>2. indexTxDID(g, t) = [txBlock |-> g.txBlock, did |-> Put(g.did, KeyOf[t], t),
                              node |-> g.node, history |-> g.history \cup {t}]
      BY <1>1, <1>2 DEF indexTxDID
    <3> QED BY <1>3, <1>4, <2>1, <2>2, <3>1, <3>2 DEF g, h
  <2>3. CASE Type[t] = "node"
    <3>1. ApplyTx(g, t) = indexTxNode(g, t)
      BY <1>4, <2>3 DEF ApplyTx
    <3>2. indexTxNode(g, t) = [txBlock |-> g.txBlock, did |-> g.did,
                               node |-> Put(g.node, KeyOf[t], t), history |-> g.history]
      BY <1>1, <1>2, SMTT(30) DEF indexTxNode
    <3> QED BY <1>3, <1>4, <2>1, <2>3, <3>1, <3>2 DEF g, h
  <2> QED BY <1>1, <2>2, <2>3
<1>5. CASE kind = "mem"
  <2> DEFINE i == [txBlock |-> Put(g.txBlock, t, Undef), did |-> g.did, node |-> g.node,
                   history |-> g.history]
  <2>1. h.txBlock = Put(g.txBlock, t, Undef) /\ h.history = g.history
    BY <1>1, <1>5 DEF GenesisIndex, Put
  <2>2. IndexUnder(g, t, Undef) = memApplyTx(i, t)
    <3> HIDE DEF g
    <3>1. [g EXCEPT !.txBlock = Put(g.txBlock, t, Undef)] = i
      BY <1>2, SMTT(30)
    <3> QED BY <1>5, <3>1 DEF IndexUnder, ApplyTx
  <2>3. CASE Type[t] = "did"
    <3>1. memApplyTx(i, t) = [i EXCEPT !.did = Put(i.did, KeyOf[t], t)]
      BY <2>3 DEF memApplyTx
    <3> HIDE DEF g, h
    <3>2. memApplyTx(i, t) = [txBlock |-> Put(g.txBlock, t, Undef),
            did |-> Put(g.did, KeyOf[t], t), node |-> g.node, history |-> g.history]
      BY <3>1
    <3> QED BY <1>3, <1>5, <2>1, <2>2, <2>3, <3>2 DEF g, h
  <2>4. CASE Type[t] = "node"
    <3>1. memApplyTx(i, t) = indexTxNode(i, t)
      BY <1>1, <2>4 DEF memApplyTx
    <3> HIDE DEF g, h
    <3>2. indexTxNode(i, t) = [txBlock |-> Put(g.txBlock, t, Undef), did |-> g.did,
            node |-> Put(g.node, KeyOf[t], t), history |-> g.history]
      BY <1>1, SMTT(30) DEF indexTxNode
    <3> QED BY <1>3, <1>5, <2>1, <2>2, <2>4, <3>1, <3>2 DEF g, h
  <2> QED BY <1>1, <2>3, <2>4
<1> QED BY <1>4, <1>5

\* GenesisIndex of no transaction is the empty index.
LEMMA GenesisIndexEmpty == GenesisIndex(kind, {}) = NoIndex
BY DEF GenesisIndex, NoIndex, Added, Adds

\* A call that marks a block other than validated starts no indexing.
LEMMA MarkNodeInv ==
  ASSUME StoreTypeOK, NodeInv, driver = "node", driver' = driver,
         NEW b \in Block \cup {Undef}, NEW s \in {"unvalidated", "accepted"}, MarkBlock(b, s)
  PROVE  NodeInv'
<1>1. ~Indexes(b, s)
  BY DEF NodeInv, Indexes
<1>2. /\ UNCHANGED <<kind, index, synced, latest, genesis, job, batch>>
      /\ bState' = [bState EXCEPT ![b] = s]
  BY <1>1 DEF MarkBlock
<1>3. \A c \in Block \cup {Undef} : bState'[c] # "validated"
  BY <1>2 DEF NodeInv, StoreTypeOK
<1> QED BY <1>2, <1>3 DEF NodeInv, OnlyGenesisIndexed

\* The steps of a call in progress build the index of the genesis.
LEMMA WorkNodeInv ==
  ASSUME StoreInv, NodeInv, driver = "node", driver' = driver, Work
  PROVE  NodeInv'
<1> USE DEF StoreInv, StoreTypeOK
<1>1. job.op \in {"idle", "genesis"}
  BY DEF NodeInv
<1>2. ASSUME NEW t \in Tx, GenesisTx(t) PROVE NodeInv'
  <2>1. /\ job.op = "genesis" /\ t \in job.todo
        /\ UNCHANGED <<kind, bState, synced, latest, genesis>>
        /\ job' = [op |-> "genesis", block |-> job.block, todo |-> job.todo \ {t}]
    BY <1>2 DEF GenesisTx, Rest
  <2>2. job.todo \subseteq Txs[Genesis]
    BY <2>1 DEF JobInv
  <2> DEFINE S == Txs[Genesis] \ job.todo
  <2>3. S \cup {t} = Txs[Genesis] \ job'.todo /\ t \in Txs[Genesis]
    BY <2>1, <2>2
  <2>5. CASE kind = "ipfs"
    <3>1. batch = GenesisIndex(kind, S) /\ index = NoIndex /\ ~genesis
      BY <2>1, <2>5 DEF NodeInv
    <3>2. batch' = GenesisIndex(kind, S \cup {t}) /\ index' = index
      BY <1>2, <2>3, <2>5, <3>1, GenesisIndexStep DEF GenesisTx
    <3> QED BY <2>1, <2>3, <2>5, <3>1, <3>2 DEF NodeInv, OnlyGenesisIndexed
  <2>6. CASE kind = "mem"
    <3>1. index = GenesisIndex(kind, S) /\ genesis
      BY <2>1, <2>6 DEF NodeInv
    <3>2. index' = GenesisIndex(kind, S \cup {t})
      BY <1>2, <2>3, <2>6, <3>1, GenesisIndexStep DEF GenesisTx
    <3> QED BY <2>1, <2>3, <2>6, <3>1, <3>2 DEF NodeInv, OnlyGenesisIndexed
  <2> QED BY <2>5, <2>6
<1>3. CASE GenesisFails
  <2>1. /\ job.op = "genesis" /\ kind = "ipfs" /\ job'.op = "idle"
        /\ UNCHANGED <<kind, bState, index, genesis>>
    BY <1>3 DEF GenesisFails, Done, Idle
  <2> QED BY <2>1 DEF NodeInv, OnlyGenesisIndexed
<1>4. CASE GenesisCommit
  <2>1. job.op = "genesis" /\ job.todo = {} /\ job'.op = "idle" /\ UNCHANGED <<kind, bState>>
    BY <1>4 DEF GenesisCommit, Done, Idle
  <2>2. GenesisIndex(kind, Txs[Genesis] \ {}) = GenesisIndex(kind, Txs[Genesis])
    OBVIOUS
  <2>3. index' = GenesisIndex(kind, Txs[Genesis]) /\ genesis'
    BY <1>4, <2>1, <2>2, SMTT(30) DEF GenesisCommit, NodeInv
  <2> QED BY <2>1, <2>3 DEF NodeInv, OnlyGenesisIndexed
<1>5. ASSUME NEW t \in Tx, IndexTx(t) PROVE FALSE
  BY <1>1, <1>5 DEF IndexTx
<1>6. ~IndexFails /\ ~IndexCommit /\ ~SetLatest
  BY <1>1 DEF IndexFails, IndexCommit, SetLatest
<1> QED BY <1>2, <1>3, <1>4, <1>5, <1>6 DEF Work

\* A crash finds nothing that is not on disk, and MemStore's genesis is undone.
LEMMA CrashNodeInv ==
  ASSUME StoreInv, NodeInv, driver = "node", driver' = driver, Crash
  PROVE  NodeInv'
<1> USE DEF StoreInv, StoreTypeOK
<1>1. job'.op = "idle" /\ kind' = kind
  BY DEF Crash, Done, Idle
<1>2. CASE kind = "ipfs"
  <2>1. index' \in {index, synced} /\ UNCHANGED <<bState, genesis>>
    BY <1>2 DEF Crash
  <2>2. index' = index
    BY <1>2, <2>1 DEF JobInv, NodeInv
  <2> QED BY <1>1, <1>2, <2>1, <2>2 DEF NodeInv, OnlyGenesisIndexed
<1>3. CASE kind = "mem"
  BY <1>1, <1>3 DEF Crash, NodeInv, OnlyGenesisIndexed
<1> QED BY <1>2, <1>3

\* Every step of the node keeps the store at its genesis.
LEMMA NodeStepInv == ASSUME StoreInv, TypeOK, NodeInv, [Next]_vars PROVE NodeInv'
<1> USE DEF StoreInv
<1>1. ASSUME UNCHANGED svars, driver' = driver PROVE NodeInv'
  BY <1>1 DEF NodeInv, OnlyGenesisIndexed, svars
<1>2. CASE driver # "node"
  <2>1. driver' = driver
    BY <1>2 DEF Next, Client, vars, nvars
  <2> QED BY <1>2, <2>1 DEF NodeInv
<1>3. CASE driver = "node" /\ NodeStep
  <2>1. CASE Boot
    <3>1. CASE genesis
      BY <1>1, <2>1, <3>1 DEF Boot
    <3>2. CASE ~genesis
      <4>1. /\ job.op = "idle" /\ UNCHANGED <<kind, bState, index>> /\ batch' = index
            /\ job' = [op |-> "genesis", block |-> Genesis, todo |-> Txs[Genesis]]
            /\ genesis' = (kind = "mem") /\ driver' = driver
        BY <2>1, <3>2 DEF Boot, ApplyGenesis
      <4>2. index = NoIndex
        BY <1>3, <3>2, <4>1 DEF NodeInv, OnlyGenesisIndexed
      <4>3. GenesisIndex(kind, Txs[Genesis] \ job'.todo) = NoIndex
        <5>1. Txs[Genesis] \ job'.todo = {}
          BY <4>1
        <5> QED BY <5>1, GenesisIndexEmpty
      <4> QED BY <4>1, <4>2, <4>3 DEF NodeInv, OnlyGenesisIndexed, TypeOK, StoreTypeOK
    <3> QED BY <3>1, <3>2
  <2>2. CASE Restore \/ StartConsensus \/ ValidateFails \/ CompleteValid
    BY <1>1, <2>2 DEF Restore, StartConsensus, ValidateFails, CompleteValid
  <2>3. CASE CompletePanics \/ Stop
    BY <1>3, <2>3, CrashNodeInv DEF CompletePanics, Stop
  <2>4. ASSUME NEW b \in Block \ {Genesis}, ApplyFromTip(b) PROVE NodeInv'
    BY <1>1, <1>3, <2>4, CrashNodeInv DEF ApplyFromTip, Stop, vars, nvars
  <2>5. ASSUME NEW b \in Block \ {Genesis}, Validate(b) PROVE NodeInv'
    BY <1>3, <2>5, MarkNodeInv DEF Validate, GetBlock, TypeOK
  <2>6. ASSUME NEW t \in Tx, CheckTx(t) PROVE NodeInv'
    BY <1>1, <2>6 DEF CheckTx
  <2>7. ASSUME NEW b \in (Block \ {Genesis}) \cup {Undef}, MarkAccepted(b) PROVE NodeInv'
    BY <1>1, <1>3, <2>7, MarkNodeInv DEF MarkAccepted, TypeOK
  <2>8. CASE RecordAccepted
    <3>1. UNCHANGED <<kind, bState, index, genesis, job, batch, driver>>
      BY <2>8 DEF RecordAccepted, UpdateLastApplied
    <3> QED BY <3>1 DEF NodeInv, OnlyGenesisIndexed
  <2>9. CASE NodeWork
    BY <1>3, <2>9, WorkNodeInv DEF NodeWork, nvars
  <2> QED BY <1>3, <2>1, <2>2, <2>3, <2>4, <2>5, <2>6, <2>7, <2>8, <2>9 DEF NodeStep
<1>4. CASE UNCHANGED vars
  BY <1>1, <1>4 DEF vars, nvars
<1> QED BY <1>2, <1>3, <1>4 DEF Next

\* One more transaction that is valid on the copy is valid on the index itself,
\* and is about a DID of its own.
LEMMA CheckValid ==
  ASSUME TypeOK, CheckInv, check.op = "run", kind = "mem", kind' = kind, NEW t \in check.todo,
         IsTxValid(check.view, t), IsNewTx(check.view, t),
         check' = [check EXCEPT !.todo = @ \ {t}, !.view = ApplyTx(check.view, t)]
  PROVE  CheckInv'
<1> DEFINE b == check.block
<1>1. /\ b \in Block /\ check.view \in Index /\ check.base \in Index
      /\ check.todo \subseteq Txs[b] /\ Txs[b] \subseteq Tx /\ t \in Tx
      /\ KeyOf[t] \in Key /\ Type[t] \in {"did", "vc"}
  BY StoreAssumption DEF CheckInv, TypeOK, Check, IsTxValid, isNodeTxValid
<1>2. /\ check'.op = "run" /\ check'.block = b /\ check'.base = check.base
      /\ check'.todo = check.todo \ {t}
      /\ check'.view = memApplyTx(check.view, t)
  BY DEF TypeOK, Check, ApplyTx
<1>3. /\ check'.view.txBlock = check.view.txBlock
      /\ check'.view.did = IF Type[t] = "did" THEN Put(check.view.did, KeyOf[t], t)
                                              ELSE check.view.did
  BY <1>1, <1>2, SMTT(30) DEF memApplyTx, Index
<1>4. Checked' = Checked \cup {t} /\ t \notin Checked /\ Checked \subseteq Tx
  BY <1>1, <1>2 DEF Checked
<1>5. IsTxValid(check.base, t) /\ IsNewTx(check.base, t)
  BY <1>1 DEF CheckInv, IsTxValid, isDIDTxValid, memLookupDID, IsNewTx, GetTxBlock
<1>6. Type[t] = "did" => Adds(Checked, "did", KeyOf[t]) = {}
  BY <1>1 DEF CheckInv, IsTxValid, isDIDTxValid, memLookupDID
<1>7. \A u, w \in Checked \cup {t} :
        Type[u] = "did" /\ Type[w] = "did" /\ KeyOf[u] = KeyOf[w] => u = w
  BY <1>6 DEF CheckInv, Adds
<1>8. ASSUME NEW k \in Key
      PROVE  check'.view.did[k] = NotFound <=>
               check.base.did[k] = NotFound /\ Adds(Checked \cup {t}, "did", k) = {}
  <2>1. check.view.did[k] = NotFound <=>
          check.base.did[k] = NotFound /\ Adds(Checked, "did", k) = {}
    BY DEF CheckInv
  <2>2. CASE Type[t] = "did" /\ KeyOf[t] = k
    <3>1. check'.view.did[k] = t /\ t # NotFound
      BY <1>1, <1>3, <2>2, StoreAssumption, SMTT(30) DEF Put, Index
    <3>2. t \in Adds(Checked \cup {t}, "did", k)
      BY <2>2 DEF Adds
    <3> QED BY <3>1, <3>2
  <2>3. CASE ~(Type[t] = "did" /\ KeyOf[t] = k)
    <3>1. check'.view.did[k] = check.view.did[k]
      BY <1>1, <1>3, <2>3, SMTT(30) DEF Put, Index
    <3>2. Adds(Checked \cup {t}, "did", k) = Adds(Checked, "did", k)
      BY <2>3 DEF Adds
    <3> QED BY <2>1, <3>1, <3>2
  <2> QED BY <2>2, <2>3
<1>9. \A u \in Checked \cup {t} : IsTxValid(check.base, u) /\ IsNewTx(check.base, u)
  BY <1>5 DEF CheckInv
<1>10. check'.todo \subseteq Txs[check'.block] /\ check'.view.txBlock = check'.base.txBlock
  BY <1>1, <1>2, <1>3 DEF CheckInv
<1> HIDE DEF b
<1> QED BY <1>2, <1>4, <1>7, <1>8, <1>9, <1>10, ZenonT(60) DEF CheckInv

\* A transaction that fails on the copy fails on the index itself, or shares its
\* DID with one that was applied before it.
LEMMA CheckInvalid ==
  ASSUME TypeOK, CheckInv, check.op = "run", kind = "mem", NEW t \in check.todo,
         ~(IsTxValid(check.view, t) /\ IsNewTx(check.view, t))
  PROVE  ~ValidBlock(check.base, check.block)
<1>1. /\ check.todo \subseteq Txs[check.block] /\ t \in Txs[check.block] /\ KeyOf[t] \in Key
      /\ t \notin Checked
  BY StoreAssumption DEF CheckInv, TypeOK, Check, Checked
<1>2. CASE ~(IsTxValid(check.base, t) /\ IsNewTx(check.base, t))
  BY <1>1, <1>2 DEF ValidBlock
<1>3. CASE IsTxValid(check.base, t) /\ IsNewTx(check.base, t)
  <2>1. IsNewTx(check.view, t)
    BY <1>3 DEF CheckInv, IsNewTx, GetTxBlock
  <2>2. /\ Type[t] = "did" /\ check.base.did[KeyOf[t]] = NotFound
        /\ check.view.did[KeyOf[t]] # NotFound
    BY <1>3, <2>1 DEF IsTxValid, isDIDTxValid, memLookupDID
  <2>3. PICK u \in Checked : Type[u] = "did" /\ KeyOf[u] = KeyOf[t]
    BY <1>1, <2>2 DEF CheckInv, Adds
  <2> QED BY <1>1, <2>2, <2>3 DEF ValidBlock, Checked
<1> QED BY <1>2, <1>3

\* Every step keeps what is known of the block under validation.
LEMMA CheckStepInv ==
  ASSUME TypeOK, CheckInv, VerdictHasNoOrder, [Next]_vars
  PROVE  CheckInv' /\ VerdictHasNoOrder'
<1>1. ASSUME check' = check, kind' = kind PROVE CheckInv' /\ VerdictHasNoOrder'
  BY <1>1 DEF CheckInv, Checked, VerdictHasNoOrder
<1>2. ASSUME check' = NoCheck PROVE CheckInv' /\ VerdictHasNoOrder'
  <2>1. check'.op = "none"
    BY <1>2 DEF NoCheck
  <2> QED BY <2>1 DEF CheckInv, VerdictHasNoOrder
<1>3. kind' = kind
  BY DEF Next, NodeStep, Client, StoreNext, Call, Mark, Work, MarkBlock, ApplyGenesis,
         UpdateLastApplied, IndexTx, GenesisTx, IndexFails, IndexCommit, SetLatest,
         GenesisFails, GenesisCommit, Crash, Boot, Restore, StartConsensus, ApplyFromTip,
         Validate, ValidateFails, CompleteValid, CompletePanics, CheckTx, MarkAccepted,
         RecordAccepted, NodeWork, Stop, vars, svars
<1>4. ASSUME NEW b \in Block \ {Genesis}, Validate(b) PROVE CheckInv' /\ VerdictHasNoOrder'
  <2>1. /\ check' = [op |-> "run", block |-> b, todo |-> Txs[b], view |-> index, base |-> index]
    BY <1>4 DEF Validate, StartTest
  <2>2. Checked' = {}
    BY <2>1 DEF Checked
  <2> QED BY <2>1, <2>2 DEF CheckInv, VerdictHasNoOrder, Adds
<1>5. CASE CompleteValid
  <2>1. /\ check.op = "run" /\ kind = "mem" /\ check.todo = {}
        /\ check'.op = "valid" /\ check'.block = check.block /\ check'.base = check.base
    BY <1>5 DEF CompleteValid, TypeOK, Check
  <2>2. Checked = Txs[check.block]
    BY <2>1 DEF Checked
  <2>3. ValidBlock(check.base, check.block)
    BY <2>1, <2>2 DEF CheckInv, ValidBlock
  <2> QED BY <2>1, <2>3 DEF CheckInv, VerdictHasNoOrder
<1>6. ASSUME NEW t \in Tx, CheckTx(t) PROVE CheckInv' /\ VerdictHasNoOrder'
  <2>1. check.op = "run" /\ kind = "mem" /\ t \in check.todo
    BY <1>6 DEF CheckTx
  <2>2. CASE IsTxValid(check.view, t) /\ IsNewTx(check.view, t)
    <3>1. check' = [check EXCEPT !.todo = @ \ {t}, !.view = ApplyTx(check.view, t)]
      BY <1>6, <2>2 DEF CheckTx
    <3>2. CheckInv'
      BY <1>3, <2>1, <2>2, <3>1, CheckValid
    <3>3. check'.op = "run"
      BY <2>1, <3>1 DEF TypeOK, Check
    <3> QED BY <3>2, <3>3 DEF VerdictHasNoOrder
  <2>3. CASE ~(IsTxValid(check.view, t) /\ IsNewTx(check.view, t))
    <3>1. check' = [check EXCEPT !.op = "invalid", !.todo = {}]
      BY <1>6, <2>3 DEF CheckTx
    <3>2. check'.op = "invalid" /\ check'.block = check.block /\ check'.base = check.base
      BY <2>1, <3>1 DEF TypeOK, Check
    <3>3. ~ValidBlock(check.base, check.block)
      BY <2>1, <2>3, CheckInvalid
    <3> QED BY <3>2, <3>3 DEF CheckInv, VerdictHasNoOrder
  <2> QED BY <2>2, <2>3
<1>7. CASE ValidateFails \/ CompletePanics \/ Stop
  BY <1>2, <1>7 DEF ValidateFails, CompletePanics, Stop, Forgotten
<1>8. ASSUME NEW b \in Block \ {Genesis}, ApplyFromTip(b) PROVE CheckInv' /\ VerdictHasNoOrder'
  BY <1>1, <1>2, <1>3, <1>8 DEF ApplyFromTip, Stop, Forgotten, vars, nvars
<1>9. CASE Boot \/ Restore \/ StartConsensus \/ RecordAccepted \/ NodeWork \/ Client
           \/ (\E b \in (Block \ {Genesis}) \cup {Undef} : MarkAccepted(b)) \/ UNCHANGED vars
  BY <1>1, <1>3, <1>9 DEF Boot, Restore, StartConsensus, RecordAccepted, NodeWork, Client,
                          MarkAccepted, vars, nvars
<1> QED BY <1>4, <1>5, <1>6, <1>7, <1>8, <1>9 DEF Next, NodeStep

-----------------------------------------------------------------------------
(* The refinement *)

\* Every step of the store is a step of the ledger, or none.
LEMMA LedgerStep ==
  ASSUME StoreInv, StoreNext
  PROVE  [L!Next]_<<IF kind = "ipfs" THEN index.txBlock ELSE NoIndex.txBlock,
                    IF kind = "ipfs" THEN synced.txBlock ELSE NoIndex.txBlock>>
<1> DEFINE place == IF kind = "ipfs" THEN index.txBlock ELSE NoIndex.txBlock
           durable == IF kind = "ipfs" THEN synced.txBlock ELSE NoIndex.txBlock
<1> USE DEF StoreInv, StoreTypeOK
<1>1. kind' = kind
  BY DEF StoreNext, Call, Mark, Work, MarkBlock, ApplyGenesis, UpdateLastApplied, IndexTx,
         GenesisTx, IndexFails, IndexCommit, SetLatest, GenesisFails, GenesisCommit, Crash
<1>2. CASE kind = "mem"
  BY <1>1, <1>2
<1>3. CASE kind = "ipfs"
  <2>1. ASSUME UNCHANGED <<index, synced>> PROVE UNCHANGED <<place, durable>>
    BY <1>1, <2>1
  <2>2. CASE Mark \/ ApplyGenesis \/ IndexFails \/ GenesisFails
    BY <2>1, <2>2 DEF Mark, MarkBlock, ApplyGenesis, IndexFails, GenesisFails
  <2>3. ASSUME NEW b \in Block \cup {Undef}, UpdateLastApplied(b)
        PROVE  UNCHANGED <<place, durable>>
    BY <1>3, <2>1, <2>3 DEF UpdateLastApplied, JobInv
  <2>4. ASSUME NEW t \in Tx, IndexTx(t) \/ GenesisTx(t) PROVE UNCHANGED <<place, durable>>
    BY <1>3, <2>1, <2>4 DEF IndexTx, GenesisTx
  <2>5. CASE IndexCommit
    <3>1. /\ job.op = "index" /\ job.todo = {} /\ index' = batch /\ synced' = synced
      BY <1>3, <2>5 DEF IndexCommit
    <3>2. /\ index = synced /\ job.block \in Block
          /\ batch.txBlock = Placed(index, Txs[job.block] \ {}, job.block)
      BY <1>3, <3>1 DEF JobInv, Job
    <3>3. L!Apply(job.block)
      BY <1>1, <1>3, <3>1, <3>2 DEF L!Apply, Placed
    <3> QED BY <3>2, <3>3 DEF L!Next
  <2>6. CASE SetLatest
    <3>1. L!Settle
      BY <1>1, <1>3, <2>6 DEF SetLatest, L!Settle
    <3> QED BY <3>1 DEF L!Next
  <2>7. CASE GenesisCommit
    <3>1. /\ index' = batch /\ synced' = batch /\ batch.txBlock = index.txBlock /\ index = synced
      BY <1>3, <2>7 DEF GenesisCommit, JobInv
    <3> QED BY <1>1, <1>3, <3>1
  <2>8. CASE Crash
    <3>1. index' \in {index, synced} /\ synced' = index'
      BY <1>3, <2>8 DEF Crash
    <3>2. CASE index' = index
      <4>1. L!Settle
        BY <1>1, <1>3, <3>1, <3>2 DEF L!Settle
      <4> QED BY <4>1 DEF L!Next
    <3>3. CASE index' = synced
      <4>1. L!Crash
        BY <1>1, <1>3, <3>1, <3>3 DEF L!Crash
      <4> QED BY <4>1 DEF L!Next
    <3> QED BY <3>1, <3>2, <3>3
  <2> QED
    BY <2>2, <2>3, <2>4, <2>5, <2>6, <2>7, <2>8 DEF StoreNext, Call, Work
<1> QED BY <1>2, <1>3

\* What is on disk in the history stays there.
LEMMA HistoryStep ==
  ASSUME StoreInv, StoreNext, kind = "ipfs"
  PROVE  synced.history \subseteq synced'.history
<1> USE DEF StoreInv, JobInv
<1>1. CASE Mark \/ ApplyGenesis \/ IndexFails \/ GenesisFails \/ IndexCommit
  BY <1>1 DEF Mark, MarkBlock, ApplyGenesis, IndexFails, GenesisFails, IndexCommit
<1>2. ASSUME NEW b \in Block \cup {Undef}, UpdateLastApplied(b)
      PROVE  synced.history \subseteq synced'.history
  BY <1>2 DEF UpdateLastApplied
<1>3. ASSUME NEW t \in Tx, IndexTx(t) \/ GenesisTx(t)
      PROVE  synced.history \subseteq synced'.history
  BY <1>3 DEF IndexTx, GenesisTx
<1>4. CASE SetLatest \/ GenesisCommit \/ Crash
  BY <1>4 DEF SetLatest, GenesisCommit, Crash
<1> QED BY <1>1, <1>2, <1>3, <1>4 DEF StoreNext, Call, Work

-----------------------------------------------------------------------------
(* Theorems *)

\* The invariant holds at the start.
LEMMA InitInv == Init => NodeStoreInv
<1> SUFFICES ASSUME Init PROVE NodeStoreInv
  OBVIOUS
<1>1. StoreInv
  BY StoreInitInv DEF Init
<1>2. check.op = "none" /\ check \in Check
  BY StoreAssumption, NoIndexType DEF Init, NoCheck, Check
<1>3. TypeOK
  BY <1>1, <1>2 DEF Init, TypeOK, StoreInv, Mode
<1>4. NodeInv
  BY DEF Init, StoreInit, NodeInv, OnlyGenesisIndexed, Idle
<1>5. CheckInv /\ VerdictHasNoOrder
  BY <1>2 DEF CheckInv, VerdictHasNoOrder
<1> QED BY <1>1, <1>3, <1>4, <1>5 DEF NodeStoreInv

\* A step of the node or of a client is a step of the store, or leaves it alone.
LEMMA NextIsStore == ASSUME TypeOK, [Next]_vars PROVE StoreNext \/ UNCHANGED svars
BY NodeIsClient DEF Next, Client, vars

\* Every step keeps the invariant.
LEMMA NextInv == NodeStoreInv /\ [Next]_vars => NodeStoreInv'
<1> SUFFICES ASSUME NodeStoreInv, [Next]_vars PROVE NodeStoreInv'
  OBVIOUS
<1> USE DEF NodeStoreInv
<1>1. StoreInv'
  BY NextIsStore, StoreStepInv, StoreStutter
<1>2. TypeOK'
  BY <1>1, NodeType DEF StoreInv
<1>3. NodeInv' /\ CheckInv' /\ VerdictHasNoOrder'
  BY NodeStepInv, CheckStepInv
<1> QED BY <1>1, <1>2, <1>3

\* The inductive invariant of the store and the node that uses it: what a call in
\* progress has done, what the disk holds, what a validation knows.
THEOREM StoreInductive == Spec => []NodeStoreInv
BY InitInv, NextInv, PTL DEF Spec

\* Every state of the store and of the node is well typed.
THEOREM StoreTyped == Spec => []TypeOK
<1>1. NodeStoreInv => TypeOK
  BY DEF NodeStoreInv
<1> QED BY <1>1, StoreInductive, PTL

\* The last block MarkBlock recorded is indexed on disk.
THEOREM LatestIndexed == Spec => []LatestImpliesIndexed
<1>1. NodeStoreInv => LatestImpliesIndexed
  BY DEF NodeStoreInv, StoreInv
<1> QED BY <1>1, StoreInductive, PTL

\* What the store lists can be read back: Nodes by Node, and a DID by LookupDID
\* and DIDHistory (ReadsBack).
THEOREM ReadBack == Spec => []ReadsBack
<1>1. ASSUME NodeStoreInv PROVE ReadsBack
  <2> SUFFICES ASSUME NEW i \in {index, synced}, NEW k \in Key
               PROVE  /\ k \in Nodes(i) => Node(i, k) # NotFound /\ KeyOf[Node(i, k)] = k
                      /\ LookupDID(i, k) # NotFound =>
                           /\ KeyOf[LookupDID(i, k)] = k
                           /\ kind = "ipfs" => /\ Action[LookupDID(i, k)] # "revoke"
                                               /\ LookupDID(i, k) \in DIDHistory(i, k)
    BY DEF ReadsBack
  <2>1. Resolves(i)
    BY <1>1 DEF NodeStoreInv, StoreInv, IndexResolves
  <2>2. k \in Nodes(i) => Node(i, k) # NotFound /\ KeyOf[Node(i, k)] = k
    BY <2>1 DEF Resolves, ResolvesAs, Nodes, Node, memNode
  <2>3. LookupDID(i, k) # NotFound => LookupDID(i, k) = i.did[k] /\ i.did[k] # NotFound
    BY DEF LookupDID, memLookupDID
  <2>4. i.did[k] # NotFound =>
          /\ KeyOf[i.did[k]] = k
          /\ kind = "ipfs" => Action[i.did[k]] # "revoke" /\ i.did[k] \in DIDHistory(i, k)
    BY <2>1 DEF Resolves, ResolvesAs, DIDHistory
  <2> QED BY <2>2, <2>3, <2>4
<1> QED BY <1>1, StoreInductive, PTL

\* A node indexes its genesis and nothing else.
THEOREM GenesisOnly == Spec => []OnlyGenesisIndexed
<1>1. NodeStoreInv => OnlyGenesisIndexed
  BY DEF NodeStoreInv, NodeInv, OnlyGenesisIndexed
<1> QED BY <1>1, StoreInductive, PTL

\* The verdict on a block does not depend on the order of its transactions.
THEOREM VerdictUnordered == Spec => []VerdictHasNoOrder
<1>1. NodeStoreInv => VerdictHasNoOrder
  BY DEF NodeStoreInv
<1> QED BY <1>1, StoreInductive, PTL

\* The node's use of the store is a use any client of the store may make.
THEOREM Composes == Spec => StoreSpec
<1>1. Init => StoreInit
  BY DEF Init
<1>2. NodeStoreInv /\ [Next]_vars => [StoreNext]_svars
  BY NextIsStore DEF NodeStoreInv
<1> QED BY <1>1, <1>2, StoreInductive, PTL DEF Spec, StoreSpec

\* The store implements the ledger: it indexes whole blocks and loses at most the
\* last one, whatever fails and wherever it stops.
THEOREM Implements == Spec => BlocksAtomic
<1>1. Init => L!Init
  BY SMTT(30) DEF Init, StoreInit, NoIndex, L!Init
<1>2. NodeStoreInv /\ [Next]_vars =>
        [L!Next]_<<IF kind = "ipfs" THEN index.txBlock ELSE NoIndex.txBlock,
                   IF kind = "ipfs" THEN synced.txBlock ELSE NoIndex.txBlock>>
  BY NextIsStore, LedgerStep DEF NodeStoreInv, svars
<1> QED BY <1>1, <1>2, StoreInductive, PTL DEF Spec, BlocksAtomic, L!Spec

\* The history on disk only grows.
THEOREM HistoryKept == Spec => HistoryGrows
<1>1. NodeStoreInv /\ [Next]_vars =>
        [kind = "ipfs" => synced.history \subseteq synced'.history]_svars
  BY NextIsStore, HistoryStep DEF NodeStoreInv
<1> QED BY <1>1, StoreInductive, PTL DEF Spec, HistoryGrows
=============================================================================
