----------------------------- MODULE BlockStore -----------------------------
(***************************************************************************)
(* The two implementations of storage.Store: IPFSStorage                   *)
(* (internal/storage/ipfs.go), whose metadata lives in a pebble database,  *)
(* and MemStore (pkg/storage/memstore.go), which a restart empties.        *)
(*                                                                         *)
(* Objects (blocks, transaction sets, transactions) are content-addressed  *)
(* and immutable, so they are constants; what changes is the metadata.     *)
(* One step is one durable write: MarkBlock writes the block's state, then *)
(* commits the index of its transactions as one batch, then writes the     *)
(* last block, and the process may stop between any two of them.           *)
(***************************************************************************)
EXTENDS Naturals, FiniteSets

CONSTANTS
  Tx, Block, Key,  \* ids of transactions and blocks; ids of DIDs and nodes
  Genesis,         \* the genesis block
  Type, Action,    \* a transaction's type and action,
  KeyOf,           \* and the DID or node it is about
  Txs,             \* AllTx: the transactions under a block's TxRoot
  Undef,           \* cid.Undef
  NotFound         \* no entry under a key

ASSUME StoreAssumption ==
  /\ Genesis \in Block
  /\ Undef \notin Block /\ NotFound \notin Block \cup Tx \cup {Undef}
  /\ Type \in [Tx -> {"did", "vc", "node"}]
  /\ Action \in [Tx -> {"add", "update", "revoke"}]
  /\ KeyOf \in [Tx -> Key]
  /\ Txs \in [Block -> SUBSET Tx]
  \* NewTxSet has no root for an empty list
  /\ \A b \in Block : Txs[b] # {}

\* the genesis generator writes two transactions for every node of the chain,
\* one that adds its DID and one that adds the node
ASSUME GenesisAssumption ==
  /\ \A t \in Txs[Genesis] : Type[t] # "vc" /\ Action[t] = "add"
  /\ \A t, u \in Txs[Genesis] : Type[t] = Type[u] /\ KeyOf[t] = KeyOf[u] => t = u

VARIABLES
  kind,      \* the implementation in use
  bState,    \* state of a block (blockStateTPrefix, bState)
  index,     \* the index of transactions, DIDs and nodes
  synced,    \* the part of index that is on disk
  latest,    \* the last block (latestBlockTPrefix, lastBlock)
  genesis,   \* the genesis has been applied
  job,       \* the store operation in progress
  batch      \* the pebble batch of that operation

svars == <<kind, bState, index, synced, latest, genesis, job, batch>>

-----------------------------------------------------------------------------
BlockState == {"unvalidated", "validated", "accepted"}

Index == [txBlock : [Tx -> Block \cup {Undef, NotFound}],
          did : [Key -> Tx \cup {NotFound}],
          node : [Key -> Tx \cup {NotFound}],
          history : SUBSET Tx]

NoIndex == [txBlock |-> [t \in Tx |-> NotFound], did |-> [k \in Key |-> NotFound],
            node |-> [k \in Key |-> NotFound], history |-> {}]

\* UpdateLastApplied stores the text of a block id, MarkBlock and ApplyGenesis
\* its bytes
LastRef == [id : Block \cup {Undef}, as : {"bytes", "text"}] \cup {NotFound}

\* the call in progress, and the transactions it still has to apply
Job == [op : {"idle", "index", "latest", "genesis"}, block : Block, todo : SUBSET Tx]

Idle == [op |-> "idle", block |-> Genesis, todo |-> {}]

StoreInit ==
  /\ kind \in {"ipfs", "mem"}
  /\ bState = [b \in Block \cup {Undef} |-> "unvalidated"]
  /\ index = NoIndex
  /\ synced = NoIndex
  /\ latest = NotFound
  /\ genesis = FALSE
  /\ job = Idle
  /\ batch = NoIndex

-----------------------------------------------------------------------------
(* Indexing one transaction *)

Put(f, k, v) == [f EXCEPT ![k] = v]

\* mutant: a revoked node stays listed, under the transaction that revokes it
indexTxNodeKeeps(i, t) == [i EXCEPT !.node = Put(i.node, KeyOf[t], t)]

indexTxNode(i, t) ==
  [i EXCEPT !.node = Put(i.node, KeyOf[t], IF Action[t] = "add" THEN t ELSE NotFound)]

\* mutant: a revocation clears the history of its DID
indexTxDIDForgets(i, t) ==
  [i EXCEPT !.did = Put(i.did, KeyOf[t], IF Action[t] = "revoke" THEN NotFound ELSE t),
            !.history = IF Action[t] = "revoke" THEN {h \in i.history : KeyOf[h] # KeyOf[t]}
                                                ELSE i.history \cup {t}]

indexTxDID(i, t) ==
  [txBlock |-> i.txBlock, node |-> i.node, history |-> i.history \cup {t},
   did |-> Put(i.did, KeyOf[t], IF Action[t] = "revoke" THEN NotFound ELSE t)]

\* IPFSStorage.ApplyTx refuses a claim ("not implemented") and the update of a node
Applicable(t) == Type[t] = "did" \/ (Type[t] = "node" /\ Action[t] # "update")

\* MemStore.ApplyTx: a revoked DID stays, a claim is ignored
memApplyTx(i, t) ==
  CASE Type[t] = "did" -> [i EXCEPT !.did = Put(i.did, KeyOf[t], t)]
    [] Type[t] = "vc" -> i
    [] Type[t] = "node" ->
         IF Action[t] = "update" THEN i ELSE indexTxNode(i, t)

ApplyTx(i, t) ==
  CASE kind = "mem" -> memApplyTx(i, t)
    [] kind = "ipfs" -> IF Type[t] = "node" THEN indexTxNode(i, t) ELSE indexTxDID(i, t)

\* the transaction's block, then the transaction itself
IndexUnder(i, t, b) == ApplyTx([i EXCEPT !.txBlock = Put(i.txBlock, t, b)], t)

-----------------------------------------------------------------------------
(* Reading the index i *)

Nodes(i) == {k \in Key : i.node[k] # NotFound}

\* the transaction behind a node
memNode(i, k) == i.node[k]

Node(i, k) ==
  IF kind = "mem" THEN memNode(i, k)
  ELSE IF k \in Nodes(i) /\ Type[i.node[k]] = "node" /\ Action[i.node[k]] # "revoke"
    THEN i.node[k] ELSE NotFound

\* the transaction whose document is returned; MemStore decodes none of it
memLookupDID(i, k) == i.did[k]

LookupDID(i, k) ==
  IF kind = "mem" THEN memLookupDID(i, k)
  ELSE IF i.did[k] # NotFound /\ Type[i.did[k]] = "did" THEN i.did[k] ELSE NotFound

\* The iterator runs over the histories of all DIDs, whichever is asked for.
\* MemStore has none.
DIDHistory(i, k) == IF kind = "ipfs" THEN i.history ELSE {}

\* MemStore indexes a genesis transaction under cid.Undef, which is no block
GetTxBlock(i, t) == IF i.txBlock[t] \in Block THEN i.txBlock[t] ELSE NotFound

-----------------------------------------------------------------------------
(* MarkBlock *)

\* Only a block that goes from validated to accepted is indexed.
Indexes(b, s) == bState[b] = "validated" /\ s = "accepted"

MarkBlock(b, s) ==
  /\ job.op = "idle"
  /\ bState' = [bState EXCEPT ![b] = s]
  /\ IF Indexes(b, s)
       THEN /\ job' = [op |-> "index", block |-> b, todo |-> Txs[b]]
            /\ batch' = index
       ELSE UNCHANGED <<job, batch>>
  /\ UNCHANGED <<kind, index, synced, latest, genesis>>

\* the call in progress without transaction t
Rest(t) == [op |-> job.op, block |-> job.block, todo |-> job.todo \ {t}]

Done == job' = Idle /\ batch' = NoIndex

\* mutant: the IPFS store writes each transaction to the database
IndexTxUnbatched(t) ==
  /\ job.op = "index" /\ t \in job.todo
  /\ kind = "mem" \/ Applicable(t)
  /\ job' = Rest(t)
  /\ index' = IndexUnder(index, t, job.block)
  /\ batch' = IF kind = "ipfs" THEN index' ELSE batch
  /\ UNCHANGED <<kind, bState, synced, latest, genesis>>

\* indexBlock, indexBlockTx: one transaction, in the order of a Go map.  The
\* IPFS store writes to a batch, the memory store to the index itself.
IndexTx(t) ==
  /\ job.op = "index" /\ t \in job.todo
  /\ job' = Rest(t)
  /\ \/ /\ kind = "ipfs" /\ Applicable(t)
        /\ batch' = IndexUnder(batch, t, job.block)
        /\ UNCHANGED index
     \/ /\ kind = "mem"
        /\ index' = IndexUnder(index, t, job.block)
        /\ UNCHANGED batch
  /\ UNCHANGED <<kind, bState, synced, latest, genesis>>

\* mutant: the last block is recorded although indexing has failed
IndexFailsRecords ==
  /\ job.op = "index" /\ kind = "ipfs"
  /\ latest' = [id |-> job.block, as |-> "bytes"]
  /\ Done
  /\ UNCHANGED <<kind, bState, index, synced, genesis>>

\* An object cannot be fetched or pinned, or a transaction cannot be applied:
\* MarkBlock returns the error with the block's state already written.
IndexFails ==
  /\ job.op = "index" /\ kind = "ipfs"
  /\ Done
  /\ UNCHANGED <<kind, bState, index, synced, latest, genesis>>

\* batch.Commit without Sync; MemStore has nothing left to do
IndexCommit ==
  /\ job.op = "index" /\ job.todo = {}
  /\ \/ /\ kind = "ipfs"
        /\ index' = batch
        /\ job' = [op |-> "latest", block |-> job.block, todo |-> {}]
        /\ UNCHANGED batch
     \/ kind = "mem" /\ Done /\ UNCHANGED index
  /\ UNCHANGED <<kind, bState, synced, latest, genesis>>

\* a synced write also puts the batch before it on disk
SetLatest ==
  /\ job.op = "latest"
  /\ latest' = [id |-> job.block, as |-> "bytes"]
  /\ synced' = index
  /\ Done
  /\ UNCHANGED <<kind, bState, index, genesis>>

-----------------------------------------------------------------------------
(* The last applied block *)

LastAs == IF kind = "ipfs" THEN "text" ELSE "bytes"

UpdateLastApplied(b) ==
  /\ job.op = "idle"
  /\ latest' = [id |-> b, as |-> LastAs]
  /\ synced' = IF kind = "ipfs" THEN index ELSE synced
  /\ UNCHANGED <<kind, bState, index, genesis, job, batch>>

\* mutant: a missing entry is not turned into cid.Undef
GetLastAppliedMissing ==
  IF latest = NotFound
    THEN [block |-> NotFound, err |-> FALSE]
    ELSE IF latest.as = "bytes" THEN [block |-> latest.id, err |-> FALSE]
                                ELSE [block |-> Undef, err |-> TRUE]

\* cid.Cast reads the bytes of an id, not its text
GetLastApplied ==
  IF latest = NotFound
    THEN [block |-> Undef, err |-> FALSE]
    ELSE IF latest.as = "bytes" THEN [block |-> latest.id, err |-> FALSE]
                                ELSE [block |-> Undef, err |-> TRUE]

-----------------------------------------------------------------------------
(* The genesis *)

ApplyGenesis ==
  /\ job.op = "idle" /\ ~genesis
  /\ job' = [op |-> "genesis", block |-> Genesis, todo |-> Txs[Genesis]]
  /\ batch' = index
  /\ genesis' = (kind = "mem")
  /\ UNCHANGED <<kind, bState, index, synced, latest>>

\* The IPFS store does not index the block of a genesis transaction, the
\* memory store indexes it under cid.Undef.
GenesisTx(t) ==
  /\ job.op = "genesis" /\ t \in job.todo
  /\ job' = Rest(t)
  /\ \/ kind = "ipfs" /\ batch' = ApplyTx(batch, t) /\ UNCHANGED index
     \/ kind = "mem" /\ index' = IndexUnder(index, t, Undef) /\ UNCHANGED batch
  /\ UNCHANGED <<kind, bState, synced, latest, genesis>>

\* a transaction cannot be stored, or the set differs from the block's TxRoot
GenesisFails ==
  /\ job.op = "genesis" /\ kind = "ipfs"
  /\ Done
  /\ UNCHANGED <<kind, bState, index, synced, latest, genesis>>

\* one synced batch holds the index, the last block and the genesis mark
GenesisCommit ==
  /\ job.op = "genesis" /\ job.todo = {}
  /\ Done
  /\ \/ /\ kind = "ipfs"
        /\ index' = batch /\ synced' = batch
        /\ latest' = [id |-> Genesis, as |-> "bytes"]
        /\ genesis' = TRUE
     \/ kind = "mem" /\ UNCHANGED <<index, synced, latest, genesis>>
  /\ UNCHANGED <<kind, bState>>

\* The process or the machine stops.  Only a machine that stops can lose the
\* writes that were not synced; MemStore loses everything.
Crash ==
  /\ Done
  /\ \/ /\ kind = "ipfs"
        /\ index' \in {index, synced}
        /\ synced' = index'
        /\ UNCHANGED <<bState, latest, genesis>>
     \/ /\ kind = "mem"
        /\ bState' = [b \in Block \cup {Undef} |-> "unvalidated"]
        /\ index' = NoIndex /\ latest' = NotFound /\ genesis' = FALSE
        /\ UNCHANGED synced
  /\ UNCHANGED kind

-----------------------------------------------------------------------------
(* The store under a client that makes one call after the other, in any order *)

\* a block that MemStore decodes has no id: GetBlock does not set it
Mark ==
  \/ \E b \in Block, s \in BlockState : MarkBlock(b, s)
  \/ \E s \in {"unvalidated", "accepted"} : kind = "mem" /\ MarkBlock(Undef, s)

Call == Mark \/ ApplyGenesis \/ \E b \in Block \cup {Undef} : UpdateLastApplied(b)

\* the steps of the call in progress
Work ==
  \/ \E t \in Tx : IndexTx(t) \/ GenesisTx(t)
  \/ IndexFails \/ IndexCommit \/ SetLatest \/ GenesisFails \/ GenesisCommit

StoreNext == Call \/ Work \/ Crash

StoreSpec == StoreInit /\ [][StoreNext]_svars

-----------------------------------------------------------------------------
(* Properties *)

StoreTypeOK ==
  /\ kind \in {"ipfs", "mem"}
  /\ bState \in [Block \cup {Undef} -> BlockState]
  /\ index \in Index /\ synced \in Index /\ batch \in Index
  /\ latest \in LastRef
  /\ genesis \in BOOLEAN
  /\ job \in Job

\* The last block that MarkBlock recorded is indexed on disk, whatever call
\* failed and wherever the process stopped: the index is committed before the
\* record, and the record's sync makes it durable.
LatestImpliesIndexed ==
  kind = "ipfs" /\ latest # NotFound =>
    (latest.as = "bytes" =>
       /\ latest.id \in Block
       /\ latest.id # Genesis => \A t \in Txs[latest.id] : synced.txBlock[t] # NotFound)

\* What the store lists can be read back, in its memory and after a crash: Node
\* returns every node of Nodes, as proposer and onMsg expect; LookupDID returns a
\* transaction about that DID, and on the IPFS store never one that revokes it
\* and never one that DIDHistory leaves out.
ReadsBack ==
  \A i \in {index, synced}, k \in Key :
    /\ k \in Nodes(i) => Node(i, k) # NotFound /\ KeyOf[Node(i, k)] = k
    /\ LookupDID(i, k) # NotFound =>
         /\ KeyOf[LookupDID(i, k)] = k
         /\ kind = "ipfs" => /\ Action[LookupDID(i, k)] # "revoke"
                             /\ LookupDID(i, k) \in DIDHistory(i, k)

\* DIDHistory reads every transaction a DID ever had: nothing that is on disk
\* leaves it again, neither with a revocation nor with a crash.
HistoryGrows == [][kind = "ipfs" => synced.history \subseteq synced'.history]_svars

\* The IPFS store indexes a block as a whole, although it applies its
\* transactions one by one, may fail at any of them and may lose what it
\* has not synced: seen from outside, it is the ledger of Ledger.tla.
L == INSTANCE Ledger WITH
  place <- IF kind = "ipfs" THEN index.txBlock ELSE NoIndex.txBlock,
  durable <- IF kind = "ipfs" THEN synced.txBlock ELSE NoIndex.txBlock

BlocksAtomic == L!Spec

-----------------------------------------------------------------------------
(* The inductive invariant *)

\* A node is listed under a transaction that adds it, a DID under one about it,
\* and on the IPFS store under one of its history that does not revoke it.
ResolvesAs(impl, i) ==
  /\ \A k \in Key : i.node[k] # NotFound =>
       Type[i.node[k]] = "node" /\ Action[i.node[k]] = "add" /\ KeyOf[i.node[k]] = k
  /\ \A k \in Key : i.did[k] # NotFound =>
       /\ Type[i.did[k]] = "did" /\ KeyOf[i.did[k]] = k
       /\ impl = "ipfs" => Action[i.did[k]] # "revoke" /\ i.did[k] \in i.history

Resolves(i) == ResolvesAs(kind, i)

IndexResolves == Resolves(index) /\ Resolves(synced)

\* index i with the transactions S indexed under block b
Placed(i, S, b) == [t \in Tx |-> IF t \in S THEN b ELSE i.txBlock[t]]

\* What a call in progress has done so far: the batch is the index plus the
\* transactions that are no longer to do, and only a committed batch whose
\* block is not yet recorded is not on disk.
JobInv ==
  /\ bState[Undef] # "validated"
  /\ job.op # "idle" => job.todo \subseteq Txs[job.block]
  /\ job.op = "genesis" => job.block = Genesis
  /\ job.op = "latest" => kind = "ipfs" /\ job.todo = {}
  /\ kind = "ipfs" =>
       /\ job.op # "latest" => index = synced
       /\ job.op = "latest" => index.txBlock = Placed(synced, Txs[job.block], job.block)
       /\ job.op = "index" => batch.txBlock = Placed(index, Txs[job.block] \ job.todo, job.block)
       /\ job.op = "genesis" => batch.txBlock = index.txBlock
       /\ job.op \in {"index", "genesis"} => index.history \subseteq batch.history
       /\ synced.history \subseteq index.history

StoreInv ==
  /\ StoreTypeOK /\ IndexResolves /\ Resolves(batch)
  /\ JobInv /\ LatestImpliesIndexed
=============================================================================
