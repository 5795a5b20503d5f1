----------------------------- MODULE MCConsensus -----------------------------
(***************************************************************************)
(* Small instances of Consensus for TLC: three nodes (or two), one or two  *)
(* block ids, one or two beacon values and the timers that may expire.     *)
(***************************************************************************)
EXTENDS Consensus, TLC

CONSTANTS n1, n2, n3, b1, b2

\* the results of the beacon, of which round 11 is no tick; n1 is selected by 0, 6
\* and n2 by 4
Drand(r, v) == [round |-> r, value |-> v]

OneTick == <<Drand(10, 6)>>
TwoTicks == <<Drand(10, 6), Drand(11, 2), Drand(20, 4)>>
SameTwice == <<Drand(10, 6), Drand(20, 0)>>

ThreeNodes == <<n1, n2, n3>>
TwoNodes == <<n1, n2>>

\* the timers that may expire
NoTimer == {}
AllTimers == Node \X Step
BlockTimers == {n2, n3} \X {"block"}
RetryTimers == ({n2} \X Step) \cup {<<n1, "precommit">>}

\* n1 proposes first; the other nodes, and the block ids, are interchangeable
Validators == Permutations({n2, n3})
BlockIds == Permutations({b1, b2})
ValidatorsAndBlockIds == Permutations({n2, n3}) \cup Permutations({b1, b2})

\* When no timer may expire, no step depends on the timers, nor ever on the verdicts:
\* states that differ in nothing else are one for properties that mention neither.
WithoutTimers == <<state, propsalState, tick, pc, validating, grace, selfBlock, blocks, msgs>>
=============================================================================
