------------------------------ MODULE MCMemPool -----------------------------
(***************************************************************************)
(* Four transactions, the last a rebroadcast of the first under its own    *)
(* message, and the two goroutines that start rounds.                      *)
(***************************************************************************)
EXTENDS MemPool, TLC

CONSTANTS a, b, c, again, watchProposer, watchTimeouts

MCTx == {a, b, c, again}
MCStart == {[pooled |-> <<b, a, c>>, coming |-> {again}, takers |-> Taker],
            [pooled |-> <<b, a>>, coming |-> {c, again}, takers |-> {watchProposer}]}
MCTs == a :> 2 @@ b :> 1 @@ c :> 3 @@ again :> 2
MCCid == a :> 7 @@ b :> 9 @@ c :> 8 @@ again :> 7
=============================================================================
