----------------------------- MODULE NodeStore ------------------------------
(***************************************************************************)
(* The store as a node uses it: NewConsensus restores the last state from  *)
(* it (pkg/did/consensus/consensus.go), Handler.Start brings it up to the  *)
(* tip of a peer (ApplyFromTip), TxValidator validates proposed blocks     *)
(* against a throw-away copy (pkg/storage/validator.go), onBlock records   *)
(* the accepted ones.  The variable driver says who makes the calls: the   *)
(* node, or a client of the Store interface as in the store's own tests.   *)
(***************************************************************************)
EXTENDS BlockStore

CONSTANTS
  WellFormed,   \* transactions that pass IsTxValid's and Document.IsValid's checks
  SelfSigned    \* transactions signed by a key of the document they carry

ASSUME NodeAssumption == WellFormed \subseteq Tx /\ SelfSigned \subseteq Tx

VARIABLES
  driver,     \* "client" or "node"
  mode,       \* where the node's process is
  head,       \* State.Block, in memory
  accepting,  \* the block onBlock has marked but not yet recorded, if any
  check       \* the block under validation and the copy of the index it is tried on

nvars == <<driver, mode, head, accepting, check>>
vars == <<svars, nvars>>

-----------------------------------------------------------------------------
Mode == {"down", "boot", "ready", "up", "failed"}

Check == [op : {"none", "run", "valid", "invalid"}, block : Block, todo : SUBSET Tx,
          view : Index, base : Index]

NoCheck == [op |-> "none", block |-> Genesis, todo |-> {}, view |-> NoIndex, base |-> NoIndex]

Init ==
  /\ StoreInit
  /\ driver \in {"client", "node"}
  /\ mode = "down"
  /\ head = Undef
  /\ accepting = NotFound
  /\ check = NoCheck

\* what a stopped process leaves in memory
Forgotten == head' = Undef /\ accepting' = NotFound /\ check' = NoCheck

-----------------------------------------------------------------------------
(* NewConsensus *)

Boot ==
  /\ mode = "down" /\ mode' = "boot"
  /\ IF genesis THEN UNCHANGED svars ELSE ApplyGenesis
  /\ UNCHANGED <<driver, head, accepting, check>>

\* the error of ApplyGenesis or of GetLastApplied ends the process
Restore ==
  /\ mode = "boot" /\ job.op = "idle"
  /\ IF ~genesis \/ GetLastApplied.err
       THEN mode' = "failed" /\ UNCHANGED head
       ELSE mode' = "ready" /\ head' = GetLastApplied.block
  /\ UNCHANGED <<svars, driver, accepting, check>>

Stop ==
  /\ mode # "down"
  /\ Crash
  /\ mode' = "down" /\ Forgotten
  /\ UNCHANGED driver

-----------------------------------------------------------------------------
(* Handler.Start *)

\* the peers' tip is the node's own block
StartConsensus ==
  /\ mode = "ready" /\ mode' = "up"
  /\ UNCHANGED <<svars, driver, head, accepting, check>>

\* What a stored block decodes to: BlockID hides the cid in an unexported field, so
\* the Parent is lost, and so is the ID, which only the IPFS store sets again.
GetBlock(b) == [ID |-> IF kind = "mem" THEN Undef ELSE b, Parent |-> Undef]

\* ApplyFromTip of a block other than the node's own never imports it.  It
\* returns an error that Start's caller retries: a block cannot be fetched, which
\* on the IPFS store includes the parent of the tip.
\* MemStore has no last block after a genesis: the walk dereferences nil.
ApplyFromTip(b) ==
  /\ mode = "ready" /\ b # head
  /\ \/ GetBlock(b).Parent = Undef /\ UNCHANGED vars
     \/ GetLastApplied.block = Undef /\ Stop

-----------------------------------------------------------------------------
(* IsBlockValid *)

\* the validator's store from here on is a copy
StartTest(b) == [op |-> "run", block |-> b, todo |-> Txs[b], view |-> index, base |-> index]

\* validate, IsBlockValid up to StartTest
Validate(b) ==
  /\ mode = "up" /\ check.op # "run"
  /\ MarkBlock(GetBlock(b).ID, "unvalidated")
  /\ check' = StartTest(b)
  /\ UNCHANGED <<driver, mode, head, accepting>>

\* AllTx cannot read the set or one of its transactions
ValidateFails ==
  /\ check.op = "run" /\ check.todo = Txs[check.block]
  /\ check' = NoCheck
  /\ UNCHANGED <<svars, driver, mode, head, accepting>>

\* A document that MemStore returns is empty (it decodes the transaction's bytes
\* as a document), so no signature matches it; an update or a revocation of an
\* unknown DID wraps a nil error and passes.
isDIDTxValid(i, t) ==
  /\ memLookupDID(i, KeyOf[t]) = NotFound
  /\ Action[t] = "add" => t \in SelfSigned

\* a credential is not looked at
isVCTxValid(t) == TRUE

\* no action on a node is supported
isNodeTxValid(t) == FALSE

IsTxValid(i, t) ==
  /\ t \in WellFormed
  /\ \/ Type[t] = "did" /\ isDIDTxValid(i, t)
     \/ Type[t] = "vc" /\ isVCTxValid(t)
     \/ Type[t] = "node" /\ isNodeTxValid(t)

IsNewTx(i, t) == GetTxBlock(i, t) = NotFound

\* mutant: transactions are validated but not applied to the copy
CheckTxAlone(t) ==
  /\ check.op = "run" /\ kind = "mem" /\ t \in check.todo
  /\ IF IsTxValid(check.view, t) /\ IsNewTx(check.view, t)
       THEN check' = [check EXCEPT !.todo = @ \ {t}]
       ELSE check' = [check EXCEPT !.op = "invalid", !.todo = {}]
  /\ UNCHANGED <<svars, driver, mode, head, accepting>>

\* one transaction, in the order of a Go map
CheckTx(t) ==
  /\ check.op = "run" /\ kind = "mem" /\ t \in check.todo
  /\ IF IsTxValid(check.view, t) /\ IsNewTx(check.view, t)
       THEN check' = [check EXCEPT !.todo = @ \ {t}, !.view = ApplyTx(check.view, t)]
       ELSE check' = [check EXCEPT !.op = "invalid", !.todo = {}]
  /\ UNCHANGED <<svars, driver, mode, head, accepting>>

\* mutant: the verdict is written to the store itself
CompleteOnStore ==
  /\ check.op = "run" /\ kind = "mem" /\ check.todo = {}
  /\ check' = [check EXCEPT !.op = "valid"]
  /\ MarkBlock(check.block, "validated")
  /\ UNCHANGED <<driver, mode, head, accepting>>

\* the block is marked validated in the copy, which is dropped
CompleteValid ==
  /\ check.op = "run" /\ kind = "mem" /\ check.todo = {}
  /\ check' = [check EXCEPT !.op = "valid"]
  /\ UNCHANGED <<svars, driver, mode, head, accepting>>

\* CompleteTest runs on the store the test was started from, whose pfTipApply is
\* nil: on the IPFS store, closing that batch panics whatever the verdict.
CompletePanics ==
  /\ check.op = "run" /\ kind = "ipfs"
  /\ Stop

-----------------------------------------------------------------------------
(* onBlock *)

\* The proposer's onBlock runs on a timer's goroutine, so it may come in the
\* middle of a validation.  A round may also agree on no block.
MarkAccepted(b) ==
  /\ mode = "up" /\ accepting = NotFound
  /\ accepting' = b
  /\ IF b = Undef THEN job.op = "idle" /\ UNCHANGED svars ELSE MarkBlock(b, "accepted")
  /\ UNCHANGED <<driver, mode, head, check>>

\* an error of MarkBlock is only logged
RecordAccepted ==
  /\ mode = "up" /\ accepting # NotFound
  /\ UpdateLastApplied(accepting)
  /\ head' = accepting /\ accepting' = NotFound
  /\ UNCHANGED <<driver, mode, check>>

-----------------------------------------------------------------------------
NodeWork == Work /\ UNCHANGED nvars

NodeStep ==
  \/ Boot \/ Restore \/ StartConsensus
  \/ \E b \in Block \ {Genesis} : ApplyFromTip(b) \/ Validate(b)
  \/ ValidateFails \/ CompleteValid \/ CompletePanics
  \/ \E t \in Tx : CheckTx(t)
  \/ \E b \in (Block \ {Genesis}) \cup {Undef} : MarkAccepted(b)
  \/ RecordAccepted \/ NodeWork \/ Stop

Client == StoreNext /\ UNCHANGED nvars

Next == (driver = "node" /\ NodeStep) \/ (driver = "client" /\ Client)

Spec == Init /\ [][Next]_vars

-----------------------------------------------------------------------------
(* Properties *)

\* Every variable holds a value of its kind; in particular what GetLastApplied
\* restores into State.Block is a block or cid.Undef.
TypeOK ==
  /\ StoreTypeOK
  /\ driver \in {"client", "node"} /\ mode \in Mode
  /\ head \in Block \cup {Undef}
  /\ accepting \in Block \cup {Undef, NotFound}
  /\ check \in Check

\* the transaction among S that adds key k
Adds(S, ty, k) == {t \in S : Type[t] = ty /\ KeyOf[t] = k}

One(S) == CHOOSE t \in S : TRUE

Added(S, ty) == [k \in Key |-> IF Adds(S, ty, k) = {} THEN NotFound ELSE One(Adds(S, ty, k))]

\* the index that genesis transactions S leave, whatever their order
GenesisIndex(impl, S) ==
  [txBlock |-> [t \in Tx |-> IF impl = "mem" /\ t \in S THEN Undef ELSE NotFound],
   did |-> Added(S, "did"), node |-> Added(S, "node"),
   history |-> IF impl = "ipfs" THEN {t \in S : Type[t] = "did"} ELSE {}]

\* Block states are reset on the store and set to validated on its copy only, so
\* no block that a node accepts is ever indexed: what it serves is its genesis.
OnlyGenesisIndexed ==
  driver = "node" /\ job.op = "idle" =>
    index = IF genesis THEN GenesisIndex(kind, Txs[Genesis]) ELSE NoIndex

\* Validity of a block without an order: every transaction is valid on its own
\* and no two are about one DID.
ValidBlock(i, b) ==
  /\ \A t \in Txs[b] : IsTxValid(i, t) /\ IsNewTx(i, t)
  /\ \A t, u \in Txs[b] :
       Type[t] = "did" /\ Type[u] = "did" /\ KeyOf[t] = KeyOf[u] => t = u

\* Validators agree on a block although each checks its transactions in an order
\* of its own, and applies each one before it checks the next.
VerdictHasNoOrder ==
  /\ check.op = "valid" => ValidBlock(check.base, check.block)
  /\ check.op = "invalid" => ~ValidBlock(check.base, check.block)

\* A node whose genesis is applied restores its state at every restart.
RestoresState == ~(genesis /\ mode = "failed")

-----------------------------------------------------------------------------
(* The inductive invariant *)

\* Seen from the node, the store holds the genesis or is about to.
NodeInv ==
  driver = "node" =>
    /\ \A b \in Block \cup {Undef} : bState[b] # "validated"
    /\ job.op \in {"idle", "genesis"}
    /\ OnlyGenesisIndexed
    /\ job.op = "genesis" =>
         LET done == GenesisIndex(kind, Txs[Genesis] \ job.todo)
         IN  \/ kind = "ipfs" /\ ~genesis /\ index = NoIndex /\ batch = done
             \/ kind = "mem" /\ genesis /\ index = done

\* The transactions checked so far, and what the copy of the index knows of them.
Checked == Txs[check.block] \ check.todo

CheckInv ==
  check.op = "run" /\ kind = "mem" =>
    /\ check.todo \subseteq Txs[check.block]
    /\ check.view.txBlock = check.base.txBlock
    /\ \A k \in Key :
         check.view.did[k] = NotFound <=>
           check.base.did[k] = NotFound /\ Adds(Checked, "did", k) = {}
    /\ \A t \in Checked : IsTxValid(check.base, t) /\ IsNewTx(check.base, t)
    /\ \A t, u \in Checked :
         Type[t] = "did" /\ Type[u] = "did" /\ KeyOf[t] = KeyOf[u] => t = u

NodeStoreInv == TypeOK /\ StoreInv /\ NodeInv /\ CheckInv /\ VerdictHasNoOrder
=============================================================================
