------------------------------- MODULE TxSet --------------------------------
(***************************************************************************)
(* The Merkle tree of a block's transactions (pkg/storage/chain.go) and    *)
(* the walk that reads it back (AllTx in memstore.go and ipfs.go).  A set  *)
(* is stored under the hash of its content, so here it is its own id: two  *)
(* sets with one content are one set.                                      *)
(***************************************************************************)
EXTENDS Integers, Sequences, Functions

CONSTANT NoTx     \* a TxSet without a Tx

Leaf(c) == [tx |-> c, children |-> <<>>]

Parent(l, r) == [tx |-> NoTx, children |-> <<l, r>>]

\* mutant: an odd node at the end has no partner and is left out
PadDrops(nodes) ==
  IF Len(nodes) % 2 = 1 THEN SubSeq(nodes, 1, Len(nodes) - 1) ELSE nodes

\* an odd node at the end is paired with itself
Pad(nodes) == IF Len(nodes) % 2 = 1 THEN Append(nodes, nodes[Len(nodes)]) ELSE nodes

Pairs(nodes) == [k \in 1 .. Len(nodes) \div 2 |-> Parent(nodes[2 * k - 1], nodes[2 * k])]

\* sort.Sort(cidList(txs))
Sorted(txs) ==
  LET p == CHOOSE p \in Bijection(DOMAIN txs, DOMAIN txs) :
             \A i, j \in DOMAIN txs : i < j => txs[p[i]] <= txs[p[j]]
  IN  [i \in DOMAIN txs |-> txs[p[i]]]

\* The nodes after k turns of the loop over them.  A level halves until one node
\* is left, which takes fewer turns than there are leaves.
Levels(leaves) ==
  LET level[k \in 0 .. Len(leaves)] ==
        IF k = 0 THEN leaves
        ELSE IF Len(level[k - 1]) > 1 THEN Pairs(Pad(level[k - 1]))
        ELSE level[k - 1]
  IN  level

\* the root over transactions txs, at least one
NewTxSet(txs) ==
  LET sorted == Sorted(txs)
      leaves == [i \in DOMAIN txs |-> Leaf(sorted[i])]
  IN  Levels(leaves)[Len(txs)][1]

\* the sets that a walk of d levels from root visits, each of them once
Visited(root, d) ==
  LET visited[k \in 0 .. d] ==
        IF k = 0 THEN {root}
        ELSE visited[k - 1] \cup UNION {Range(s.children) : s \in visited[k - 1]}
  IN  visited[d]

\* the transactions in the tree under root, which is at most d levels deep
AllTx(root, d) == {s.tx : s \in Visited(root, d)} \ {NoTx}
=============================================================================
