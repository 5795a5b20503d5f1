------------------------------- MODULE TxBag --------------------------------
(***************************************************************************)
(* What the memory pool promises whoever calls it, and in whatever order   *)
(* its goroutines run: a transaction that was added is in the pool until   *)
(* it is taken, and it is taken once.  MemPool is shown to implement it.   *)
(***************************************************************************)
CONSTANT Tx

VARIABLES
  pool,    \* transactions waiting for a block
  out      \* transactions taken for one

Init == pool \subseteq Tx /\ out \subseteq Tx /\ pool \cap out = {}

Add(t) ==
  /\ t \notin pool \cup out
  /\ pool' = pool \cup {t}
  /\ UNCHANGED out

Take(t) ==
  /\ t \in pool
  /\ pool' = pool \ {t}
  /\ out' = out \cup {t}

Next == \E t \in Tx : Add(t) \/ Take(t)

Spec == Init /\ [][Next]_<<pool, out>>
=============================================================================
