------------------------------ MODULE MCStore -------------------------------
(* Instances of NodeStore: a genesis of one node and its DID, and blocks that  *)
(* add, update and revoke a DID, revoke the node, and carry a claim.           *)
EXTENDS NodeStore

MCTx == {"gNode", "gDID", "add", "again", "revoke", "leave", "claim"}
MCBlock == {"g", "b1", "b2", "b3"}
MCKey == {"k1", "k2"}

MCType == [t \in MCTx |-> CASE t \in {"gNode", "leave"} -> "node"
                              [] t = "claim" -> "vc"
                              [] OTHER -> "did"]
MCAction == [t \in MCTx |-> CASE t \in {"revoke", "leave"} -> "revoke"
                                [] t = "again" -> "update"
                                [] OTHER -> "add"]
MCKeyOf == [t \in MCTx |-> IF t \in {"gNode", "gDID", "leave"} THEN "k1" ELSE "k2"]
MCTxs == [b \in MCBlock |-> CASE b = "g" -> {"gNode", "gDID"}
                               [] b = "b1" -> {"add", "leave"}
                               [] b = "b2" -> {"again", "revoke"}
                               [] b = "b3" -> {"claim"}]
MCWellFormed == MCTx
MCSelfSigned == {"gDID", "add", "again"}
=============================================================================
