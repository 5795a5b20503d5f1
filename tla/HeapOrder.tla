------------------------------ MODULE HeapOrder -----------------------------
(***************************************************************************)
(* The heap of the memory pool: a sequence of transactions in which index  *)
(* i, from 0, has the children 2i + 1 and 2i + 2, and no transaction is    *)
(* earlier than its parent (container/heap over TxMemPool.Less).           *)
(***************************************************************************)
EXTENDS Integers, Sequences, Functions

CONSTANTS
  Tx,     \* the transactions that arrive, each in a message of its own
  Ts      \* a transaction's timestamp

ASSUME TsAssumption == Ts \in [Tx -> Nat]

\* the parent of index j > 0
Up(j) == (j - 1) \div 2

Distinct(s) == \A i, j \in 1 .. Len(s) : s[i] = s[j] => i = j

\* the timestamp at index i
V(s, i) == Ts[s[i + 1]]

\* of the first n, all but those of S are no earlier than their parents
HeapBut(s, n, S) == \A j \in 1 .. n - 1 : j \notin S => V(s, Up(j)) <= V(s, j)

\* of the first n, the children of i are no earlier than i's parent
Bridged(s, n, i) == i > 0 => \A j \in 1 .. n - 1 : Up(j) = i => V(s, Up(i)) <= V(s, j)

Children(i) == {2 * i + 1, 2 * i + 2}
=============================================================================
