------------------------------- MODULE Ledger -------------------------------
(***************************************************************************)
(* What the metadata store promises about its index of transactions        *)
(* (pkg/storage/metadata.go: "indexes and metadata for TXs that have been  *)
(* successfully validates and applied in the block chain"): it changes by  *)
(* whole blocks, a block is settled before the next one is applied, and a  *)
(* crash loses at most the block that is not settled.  BlockStore is shown *)
(* to implement it.                                                        *)
(***************************************************************************)
CONSTANTS Tx, Block, Txs, NotFound

VARIABLES
  place,      \* the block each transaction is indexed under
  durable     \* the index a crash cannot take back

Init ==
  /\ place = [t \in Tx |-> NotFound]
  /\ durable = place

\* every transaction of the block is indexed, in one step
Apply(b) ==
  /\ place = durable
  /\ place' = [t \in Tx |-> IF t \in Txs[b] THEN b ELSE place[t]]
  /\ UNCHANGED durable

Settle == durable' = place /\ UNCHANGED place

Crash == place' = durable /\ UNCHANGED durable

Next == Settle \/ Crash \/ \E b \in Block : Apply(b)

Spec == Init /\ [][Next]_<<place, durable>>
=============================================================================
