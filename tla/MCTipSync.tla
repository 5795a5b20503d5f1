------------------------------ MODULE MCTipSync -----------------------------
(***************************************************************************)
(* Two peers of the chain and a drand peer.  On the test chain one peer is *)
(* asked, on the other two are; a peer may be behind, ahead, or on another *)
(* chain.                                                                  *)
(***************************************************************************)
EXTENDS TipSync, TLC

CONSTANTS p, q, drand, w1, w2

Tips(m, n) == p :> m @@ q :> n @@ drand :> 0

MCSetup ==
  {[required |-> 1, near |-> Peer, foreign |-> {}, first |-> Tips(0, 1), last |-> Tips(1, 2)],
   [required |-> 1, near |-> Peer, foreign |-> {q}, first |-> Tips(1, 1), last |-> Tips(1, 1)],
   [required |-> Threshold, near |-> {p, drand}, foreign |-> {},
    first |-> Tips(1, 1), last |-> Tips(2, 1)]}
=============================================================================
