----------------------------- MODULE BeaconProofs -----------------------------
(***************************************************************************)
(* Proofs of what a node owes to the beacon values it has handled: the     *)
(* threshold of a proposer, one block per beacon value and a quorum behind *)
(* every block that is applied, for every set of nodes, every beacon and   *)
(* every number of rounds. BeaconInv is inductive relative to IInv, and    *)
(* DecisionInv relative to both.                                           *)
(***************************************************************************)
EXTENDS ConsensusProofs, FiniteSetTheorems

\* Most steps are first-order and go to Zenon; SMT is named where a step needs arithmetic,
\* sequences or records.
USE Zenon, SMTT(30)

\* The beacon has finitely many results.
LEMMA BeaconLength == Len(Beacon) \in Nat
<1> DEFINE R == [round : Nat, value : Nat]
<1>1. Beacon \in Seq(R)
  BY BeaconAssumption
<1> HIDE DEF R
<1> QED BY <1>1, SMTT(30)

\* A position in the beacon is a natural number, and no step moves it back.
LEMMA TicksGrow ==
  ASSUME TypeOK, TypeOK', Grows, NEW n \in Node
  PROVE  /\ tick[n] \in Nat /\ tick'[n] \in Nat
         /\ 1..tick[n] \subseteq 1..tick'[n]
<1>1. tick[n] \in 0..Len(Beacon) /\ tick'[n] \in 0..Len(Beacon)
  BY Zenon DEF TypeOK
<1>2. tick[n] <= tick'[n]
  BY Zenon DEF Grows
<1> QED BY <1>1, <1>2, BeaconLength, SMTT(30)

\* A node that has heard of nobody but itself had not before either.
LEMMA OnlySelfBefore ==
  ASSUME TypeOK, TypeOK', Grows, NEW n \in Node, OnlySelf(n)'
  PROVE  OnlySelf(n)
BY Zenon, TicksGrow DEF OnlySelf

\* No handover has happened before a state in which none has.
LEMMA BeforeHandoverBefore ==
  ASSUME TypeOK, TypeOK', Grows, BeforeHandover'
  PROVE  BeforeHandover
BY Zenon, TicksGrow DEF BeforeHandover

\* The proposer of a node that has heard of nobody but itself is that node, or none.
LEMMA SelfProposer ==
  ASSUME TypeOK, FollowsBeacon, NEW n \in Node, OnlySelf(n)
  PROVE  /\ state[n].Proposer \in {n, Empty}
         /\ tick[n] > 0 => state[n].Proposer = n
<1>1. tick[n] \in 0..Len(Beacon)
  BY Zenon DEF TypeOK
<1>2. tick[n] = 0 \/ (tick[n] > 0 /\ tick[n] \in 1..tick[n])
  BY <1>1, BeaconLength, SMTT(30)
<1>3. CASE tick[n] = 0
  BY <1>3, SMTT(30) DEF FollowsBeacon
<1>4. CASE tick[n] > 0 /\ tick[n] \in 1..tick[n]
  BY Zenon, <1>4 DEF FollowsBeacon, OnlySelf
<1> QED BY <1>2, <1>3, <1>4

\* Such a node takes no message for one of its proposer.
LEMMA NoForeignProposer ==
  ASSUME TypeOK, FollowsBeacon, NEW n \in Node, OnlySelf(n),
         NEW m \in msgs, NEW t, onMsg(n, m, t), m.from = state[n].Proposer
  PROVE  FALSE
<1>1. m.from \in Node /\ m.from # n
  BY DEF TypeOK, Message, onMsg, Msgs
<1> QED BY <1>1, SelfProposer, ConsensusAssumption

\* Before a handover a named node has heard of nobody but itself.
LEMMA NamedIsOnlySelf ==
  ASSUME BeforeHandover, NEW n \in Node, Named(n)
  PROVE  OnlySelf(n)
BY Zenon DEF BeforeHandover, Named, OnlySelf

\* Before a handover one node at most has been named.
LEMMA OneNamed ==
  ASSUME TypeOK, BeforeHandover, NEW n \in Node, NEW o \in Node, Named(n), Named(o)
  PROVE  n = o
<1>1. PICK i \in 1..tick[n] : RandomSource(i) /\ proposer(i) = n
  BY DEF Named
<1>2. PICK j \in 1..tick[o] : RandomSource(j) /\ proposer(j) = o
  BY DEF Named
<1>3. tick[n] \in 0..Len(Beacon) /\ tick[o] \in 0..Len(Beacon)
  BY Zenon DEF TypeOK
<1>4. (i \in 1..tick[o]) \/ (j \in 1..tick[n])
  BY <1>3, BeaconLength, SMTT(30)
<1>5. i = j
  BY Zenon, <1>1, <1>2, <1>4 DEF BeforeHandover
<1> QED BY <1>1, <1>2, <1>5

-----------------------------------------------------------------------------
\* What one step leaves alone

\* the rest of a node other than n is unchanged too
OthersRest(n) ==
  \A p \in Node \ {n} :
    /\ tick'[p] = tick[p]
    /\ timers'[p] = timers[p]
    /\ validated'[p] = validated[p]

\* Each action touches the ticks, timers and verdicts of one node.
LEMMA RestFrame ==
  ASSUME TypeOK, NEW n \in Node, NodeNext(n)
  PROVE  OthersRest(n)
<1>t. ASSUME \E S : timers' = [timers EXCEPT ![n] = S]
      PROVE  \A p \in Node \ {n} : timers'[p] = timers[p]
  BY <1>t DEF TypeOK
<1>1. CASE UNCHANGED <<tick, timers, validated>>
  BY Zenon, <1>1 DEF OthersRest
<1>2. CASE UNCHANGED <<tick, validated>> /\ \E S : timers' = [timers EXCEPT ![n] = S]
  BY Zenon, <1>2, <1>t DEF OthersRest
<1>3. CASE watchProposer(n)
  <2>1. \E j : tick' = [tick EXCEPT ![n] = j]
    BY Zenon, <1>3 DEF watchProposer
  <2>2. \A p \in Node \ {n} : tick'[p] = tick[p]
    BY <2>1 DEF TypeOK
  <2>3. \A p \in Node \ {n} : timers'[p] = timers[p]
    BY Zenon, <1>3, <1>t DEF watchProposer, startRound
  <2>4. UNCHANGED validated
    BY Zenon, <1>3 DEF watchProposer
  <2> QED BY Zenon, <2>2, <2>3, <2>4 DEF OthersRest
<1>4. ASSUME NEW m \in validating[n], onProposalVote(n, m) PROVE OthersRest(n)
  <2>1. UNCHANGED validated \/ \E S : validated' = [validated EXCEPT ![n] = S]
    BY Zenon, <1>4 DEF onProposalVote, validate
  <2>2. \A p \in Node \ {n} : validated'[p] = validated[p]
    BY <2>1 DEF TypeOK
  <2>3. UNCHANGED timers \/ \E S : timers' = [timers EXCEPT ![n] = S]
    BY Zenon, <1>4 DEF onProposalVote
  <2>4. \A p \in Node \ {n} : timers'[p] = timers[p]
    BY Zenon, <2>3, <1>t
  <2>5. UNCHANGED tick
    BY Zenon, <1>4 DEF onProposalVote
  <2> QED BY Zenon, <2>2, <2>4, <2>5 DEF OthersRest
<1>5. ASSUME NEW g \in Goroutine, announceRound(n, g) \/ proposeBlock(n, g)
      PROVE  OthersRest(n)
  BY Zenon, <1>1, <1>2, <1>5 DEF announceRound, proposeBlock
<1>6. CASE Receive(n)
  BY Zenon, <1>1, <1>2, <1>6
  DEF Receive, onNewRound, onProposal, onPreVote, onPreCommit, onBlock, applyBlock
<1>7. CASE sendBlock(n)
  BY Zenon, <1>1, <1>7 DEF sendBlock
<1>8. ASSUME NEW m \in selfBlock[n], onOwnBlock(n, m) PROVE OthersRest(n)
  BY Zenon, <1>1, <1>2, <1>8 DEF onOwnBlock, applyBlock
<1>9. CASE watchTimeouts(n)
  BY Zenon, <1>1, <1>2, <1>9
  DEF watchTimeouts, timerTick, onTimeoutProposal, onTimeoutPrevote,
      onTimeoutPrecommit, onTimeoutBlock, startRound
<1> QED
  BY Zenon, <1>3, <1>4, <1>5, <1>6, <1>7, <1>8, <1>9 DEF NodeNext

\* Only watchProposer moves a node along the beacon and gives it a proposer.
LEMMA ProposerStep ==
  ASSUME TypeOK, NEW n \in Node, NodeNext(n), ~watchProposer(n)
  PROVE  UNCHANGED tick /\ state'[n].Proposer = state[n].Proposer
<1>1. state[n] \in State
  BY DEF TypeOK
<1>2. CASE UNCHANGED <<tick, state>>
  BY <1>2
<1>3. CASE UNCHANGED tick /\ applyBlock(n)
  BY <1>1, <1>3 DEF applyBlock, TypeOK, State
<1> QED
  BY Zenon, <1>2, <1>3
  DEF NodeNext, Receive, watchTimeouts, announceRound, proposeBlock, onNewRound,
      onProposal, onProposalVote, onPreVote, onPreCommit, sendBlock, onBlock,
      onOwnBlock, timerTick, onTimeoutProposal, onTimeoutPrevote,
      onTimeoutPrecommit, onTimeoutBlock

\* startRound leaves the threshold, and a round that is repeated keeps its block.
LEMMA StartRoundFields ==
  ASSUME TypeOK, NEW n \in Node, NEW g \in Goroutine, NEW inc \in BOOLEAN,
         NEW leader, startRound(n, g, inc, leader)
  PROVE  /\ propsalState'[n].f = propsalState[n].f
         /\ inc => propsalState'[n].Block = propsalState[n].Block
         /\ propsalState'[n].Height = state[n].Height + 1
         /\ propsalState'[n].Step \in {"propose", "prevote"}
         /\ ~inc => propsalState'[n].Step = "propose"
<1>1. propsalState[n] \in ProposalState
  BY ProposalStateOf
<1> QED BY <1>1 DEF startRound, ClearRound, TypeOK, ProposalState

\* Where f and the block of the round in progress come from: f from announceRound;
\* a block, once there, is only replaced by a new beacon value or a validation.
LEMMA FieldStep ==
  ASSUME TypeOK, NEW n \in Node, NodeNext(n)
  PROVE  /\ \/ \E g \in Goroutine : announceRound(n, g)
            \/ propsalState'[n].f = propsalState[n].f
         /\ \/ watchProposer(n)
            \/ validating[n] # {}
            \/ propsalState[n].Block = Undef
            \/ propsalState'[n].Block = propsalState[n].Block
<1> DEFINE ps == propsalState[n]
           Same == propsalState'[n].f = ps.f /\ propsalState'[n].Block = ps.Block
<1>1. ps \in ProposalState
  BY ProposalStateOf
<1>2. CASE UNCHANGED propsalState
  BY <1>2
<1>3. CASE watchProposer(n)
  BY Zenon, <1>3, StartRoundFields DEF watchProposer, Goroutine
<1>4. ASSUME NEW g \in Goroutine, announceRound(n, g)
      PROVE  propsalState'[n].Block = ps.Block
  BY <1>1, <1>4, SMTT(30) DEF announceRound, TypeOK, ProposalState
<1>5. ASSUME NEW g \in Goroutine, proposeBlock(n, g)
      PROVE  /\ propsalState'[n].f = ps.f
             /\ ps.Block = Undef \/ propsalState'[n].Block = ps.Block
  <2>1. \/ UNCHANGED propsalState
        \/ \E b, step : /\ ps.Block = Undef \/ b = ps.Block
                        /\ propsalState' = [propsalState EXCEPT ![n] =
                             [@ EXCEPT !.Block = b, !.Step = step]]
    BY Zenon, <1>5 DEF proposeBlock
  <2> QED BY <1>1, <2>1, ZenonT(60) DEF TypeOK, ProposalState
<1>6. ASSUME NEW m \in msgs, onNewRound(n, m) PROVE Same
  BY <1>1, <1>6 DEF onNewRound, ClearRound, TypeOK, ProposalState
<1>7. ASSUME NEW m \in validating[n], onProposalVote(n, m)
      PROVE  propsalState'[n].f = ps.f
  <2>1. \/ UNCHANGED propsalState
        \/ \E b, step : propsalState' = [propsalState EXCEPT ![n] =
                           [@ EXCEPT !.pvOnce = TRUE, !.Block = b, !.Step = step]]
    BY Zenon, <1>7 DEF onProposalVote
  <2> QED BY <1>1, <2>1, ZenonT(60) DEF TypeOK, ProposalState
<1>8. ASSUME NEW m \in msgs, onPreVote(n, m) PROVE Same
  <2> DEFINE votes == ps.PreVotes \cup {m.from}
  <2>1. CASE propsalState' = [propsalState EXCEPT ![n].PreVotes = votes]
    BY <1>1, <2>1 DEF TypeOK, ProposalState
  <2>2. CASE propsalState' = [propsalState EXCEPT ![n] =
               [@ EXCEPT !.PreVotes = votes, !.pcOnce = TRUE, !.Step = "precommit",
                         !.lockedValue = ps.Block, !.lockedRound = ps.Round]]
    BY <1>1, <2>2 DEF TypeOK, ProposalState
  <2> QED BY <1>8, <2>1, <2>2 DEF onPreVote
<1>9. ASSUME NEW m \in msgs, onPreCommit(n, m) PROVE Same
  <2>1. \E votes, once, step : propsalState' = [propsalState EXCEPT ![n] =
          [@ EXCEPT !.PreCommits = votes, !.sbOnce = once, !.Step = step]]
    BY Zenon, <1>9 DEF onPreCommit
  <2> QED BY <1>1, <2>1, SMTT(30) DEF TypeOK, ProposalState
<1>10. CASE onTimeoutProposal(n)
  <2>1. \/ UNCHANGED propsalState
        \/ propsalState' = [propsalState EXCEPT ![n] =
             [@ EXCEPT !.Step = "prevote", !.pvOnce = TRUE]]
    BY Zenon, <1>10 DEF onTimeoutProposal
  <2>2. Same
    <3>1. CASE UNCHANGED propsalState
      BY <3>1
    <3>2. CASE propsalState' = [propsalState EXCEPT ![n] = [@ EXCEPT !.Step = "prevote", !.pvOnce = TRUE]]
      BY <1>1, <3>2 DEF TypeOK, ProposalState
    <3> QED BY <2>1, <3>1, <3>2
  <2> QED BY Zenon, <2>2
<1>11. CASE onTimeoutPrevote(n)
  <2>1. \/ UNCHANGED propsalState
        \/ propsalState' = [propsalState EXCEPT ![n] =
             [@ EXCEPT !.Step = "precommit", !.pcOnce = TRUE]]
    BY Zenon, <1>11 DEF onTimeoutPrevote
  <2>2. Same
    <3>1. CASE UNCHANGED propsalState
      BY <3>1
    <3>2. CASE propsalState' = [propsalState EXCEPT ![n] = [@ EXCEPT !.Step = "precommit", !.pcOnce = TRUE]]
      BY <1>1, <3>2 DEF TypeOK, ProposalState
    <3> QED BY <2>1, <3>1, <3>2
  <2> QED BY Zenon, <2>2
<1>12. CASE onTimeoutPrecommit(n)
  BY Zenon, <1>12, StartRoundFields DEF onTimeoutPrecommit, Goroutine
<1> QED
  BY Zenon, <1>2, <1>3, <1>4, <1>5, <1>6, <1>7, <1>8, <1>9, <1>10, <1>11, <1>12
  DEF NodeNext, Receive, watchTimeouts, onProposal, onBlock, sendBlock, onOwnBlock,
      timerTick, onTimeoutBlock

-----------------------------------------------------------------------------
\* FollowsBeacon and OneBlockMade

\* state.Proposer keeps being the selection of the last beacon value handled, and f
\* stays 0 at a node that has handled none.
LEMMA SelectionStep ==
  ASSUME TypeOK, TypeOK', ProposerIsNamed, FollowsBeacon, NEW n \in Node, NodeNext(n)
  PROVE  \A p \in Node :
           /\ tick'[p] = 0 => state'[p].Proposer = Empty /\ propsalState'[p].f = 0
           /\ tick'[p] > 0 => RandomSource(tick'[p]) /\ state'[p].Proposer = proposer(tick'[p])
<1> DEFINE Sel(t, q, f) == /\ t = 0 => q = Empty /\ f = 0
                           /\ t > 0 => RandomSource(t) /\ q = proposer(t)
<1>1. \A p \in Node : Sel(tick[p], state[p].Proposer, propsalState[p].f)
  BY DEF FollowsBeacon
<1>2. SUFFICES ASSUME NEW p \in Node
               PROVE  Sel(tick'[p], state'[p].Proposer, propsalState'[p].f)
  BY Zenon
<1>3. CASE p # n
  <2>1. tick'[p] = tick[p] /\ state'[p] = state[p] /\ propsalState'[p] = propsalState[p]
    BY Zenon, <1>3, StepFrame, RestFrame DEF Others, OthersRest
  <2> HIDE DEF Sel
  <2> QED BY <1>1, <2>1
<1>4. CASE p = n /\ watchProposer(n)
  <2>1. PICK j \in (tick[n] + 1)..Len(Beacon) :
          /\ RandomSource(j)
          /\ tick' = [tick EXCEPT ![n] = j]
          /\ state' = [state EXCEPT ![n].Proposer = proposer(j)]
    BY Zenon, <1>4 DEF watchProposer
  <2>2. tick[n] \in 0..Len(Beacon) /\ state[n] \in State
    BY DEF TypeOK
  <2>3. j > 0
    BY <2>1, <2>2, BeaconLength, SMTT(30)
  <2>4. tick'[n] = j /\ state'[n].Proposer = proposer(j)
    BY <2>1, <2>2 DEF TypeOK, State
  <2> QED BY <1>4, <2>1, <2>3, <2>4, SMTT(30)
<1>5. CASE p = n /\ ~watchProposer(n)
  <2>1. tick'[n] = tick[n] /\ state'[n].Proposer = state[n].Proposer
    BY <1>5, ProposerStep
  <2>2. CASE propsalState'[n].f = propsalState[n].f
    <3> HIDE DEF Sel
    <3> QED BY <1>1, <1>5, <2>1, <2>2
  <2>3. CASE \E g \in Goroutine : announceRound(n, g)
    <3>1. Named(n)
      BY Zenon, <2>3 DEF announceRound, ProposerIsNamed
    <3>2. tick[n] # 0
      BY <3>1, SMTT(30) DEF Named
    <3> QED BY <1>1, <1>5, <2>1, <3>2
  <2> QED BY <2>2, <2>3, FieldStep
<1> QED BY <1>3, <1>4, <1>5

\* What a node validates was published, and what it has validated was made.
LEMMA ValidationStep ==
  ASSUME TypeOK, VotesAreHeld, FollowsBeacon, NEW n \in Node, NodeNext(n)
  PROVE  \A p \in Node : /\ validating'[p] \subseteq msgs'
                         /\ validated'[p] \subseteq {h.id : h \in blocks'}
<1>1. Grows
  BY StepFrame
<1>2. {h.id : h \in blocks} \subseteq {h.id : h \in blocks'} /\ msgs \subseteq msgs'
  BY <1>1 DEF Grows
<1>3. \A p \in Node : validating[p] \subseteq msgs /\ validated[p] \subseteq {h.id : h \in blocks}
  BY DEF FollowsBeacon
<1>4. ASSUME NEW p \in Node \ {n}
      PROVE  /\ validating'[p] \subseteq msgs'
             /\ validated'[p] \subseteq {h.id : h \in blocks'}
  <2>1. validating'[p] = validating[p] /\ validated'[p] = validated[p]
    BY Zenon, StepFrame, RestFrame DEF Others, OthersRest
  <2> QED BY Zenon, <1>2, <1>3, <2>1
<1> DEFINE Goal == /\ validating'[n] \subseteq msgs'
                   /\ validated'[n] \subseteq {h.id : h \in blocks'}
<1>5. CASE UNCHANGED <<validating, validated>>
  BY Zenon, <1>2, <1>3, <1>5
<1>6. ASSUME NEW m \in msgs, onProposal(n, m) PROVE Goal
  <2>1. validating'[n] = {m} /\ UNCHANGED validated
    BY <1>6 DEF onProposal, TypeOK
  <2> QED BY Zenon, <1>2, <1>3, <2>1
<1>7. ASSUME NEW m \in validating[n], onProposalVote(n, m) PROVE Goal
  <2>1. validating'[n] = {}
    BY <1>7 DEF onProposalVote, TypeOK
  <2>2. \/ UNCHANGED validated
        \/ m.block \in Cid /\ validated' = [validated EXCEPT ![n] = @ \cup {m.block}]
    BY Zenon, <1>7 DEF onProposalVote, validate
  <2>3. CASE UNCHANGED validated
    BY Zenon, <1>2, <1>3, <2>1, <2>3
  <2>4. CASE m.block \in Cid /\ validated' = [validated EXCEPT ![n] = @ \cup {m.block}]
    <3>1. m \in msgs /\ m.from \in Node
      BY <1>3, <1>7, SMTT(30) DEF TypeOK, Message
    <3>2. m.block \in Held(m.from)
      BY <2>4, <3>1 DEF VotesAreHeld
    <3>3. m.block \in {h.id : h \in blocks}
      <4>1. CASE m.block \in validated[m.from]
        BY Zenon, <1>3, <3>1, <4>1
      <4>2. CASE m.block \notin validated[m.from]
        BY <3>2, <4>2 DEF Held
      <4> QED BY <4>1, <4>2
    <3>4. validated'[n] = validated[n] \cup {m.block}
      BY <2>4 DEF TypeOK
    <3> QED BY Zenon, <1>2, <1>3, <2>1, <3>3, <3>4
  <2> QED BY <2>2, <2>3, <2>4
<1>8. Goal
  BY Zenon, <1>5, <1>6, <1>7
  DEF NodeNext, Receive, watchTimeouts, watchProposer, announceRound, proposeBlock,
      onNewRound, onPreVote, onPreCommit, sendBlock, onBlock, onOwnBlock, timerTick,
      onTimeoutProposal, onTimeoutPrevote, onTimeoutPrecommit, onTimeoutBlock
<1> QED BY Zenon, <1>4, <1>8

\* A node that has heard of nobody but itself validates nothing.
LEMMA ValidatesNothingStep ==
  ASSUME TypeOK, TypeOK', FollowsBeacon, OneBlockMade, NEW n \in Node, NodeNext(n)
  PROVE  \A p \in Node : OnlySelf(p)' => validating'[p] = {}
<1> SUFFICES ASSUME NEW p \in Node, OnlySelf(p)' PROVE validating'[p] = {}
  OBVIOUS
<1>1. OnlySelf(p) /\ validating[p] = {}
  BY StepFrame, OnlySelfBefore DEF OneBlockMade
<1>2. CASE p # n
  BY <1>1, <1>2, StepFrame DEF Others
<1>3. CASE p = n
  <2>1. CASE UNCHANGED validating
    BY <1>1, <2>1
  <2>2. ASSUME NEW m \in msgs, onProposal(n, m) PROVE FALSE
    BY Zenon, <1>1, <1>3, <2>2, NoForeignProposer DEF onProposal
  <2>3. ~ \E m \in validating[n] : onProposalVote(n, m)
    BY <1>1, <1>3
  <2> QED
    BY Zenon, <2>1, <2>2, <2>3
    DEF NodeNext, Receive, watchTimeouts, watchProposer, announceRound, proposeBlock,
        onNewRound, onPreVote, onPreCommit, sendBlock, onBlock, onOwnBlock, timerTick,
        onTimeoutProposal, onTimeoutPrevote, onTimeoutPrecommit, onTimeoutBlock
<1> QED BY <1>2, <1>3

\* A step adds at most one block, made by the acting node as its proposal.
LEMMA MakeStep ==
  ASSUME TypeOK, NEW n \in Node, NodeNext(n), NEW h \in blocks' \ blocks
  PROVE  h.Proposer = n /\ propsalState'[n].Block = h.id
<1>1. CASE UNCHANGED blocks
  BY Zenon, <1>1
<1>2. ASSUME NEW g \in Goroutine, proposeBlock(n, g)
      PROVE  h.Proposer = n /\ propsalState'[n].Block = h.id
  <2>1. PICK b, step :
          /\ makeBlock(n, b)
          /\ propsalState' = [propsalState EXCEPT ![n] = [@ EXCEPT !.Block = b, !.Step = step]]
    BY Zenon, <1>1, <1>2 DEF proposeBlock
  <2>2. h = [id |-> b, Height |-> propsalState[n].Height,
             Parent |-> state[n].Block, Proposer |-> n]
    BY Zenon, <2>1 DEF makeBlock
  <2>3. h.id = b /\ h.Proposer = n
    BY <2>2
  <2>4. propsalState[n] \in ProposalState
    BY ProposalStateOf
  <2>5. propsalState'[n].Block = b
    BY <2>1, <2>4 DEF TypeOK, ProposalState
  <2> QED BY <2>3, <2>5
<1> QED
  BY Zenon, <1>1, <1>2
  DEF NodeNext, Receive, watchTimeouts, watchProposer, announceRound, onNewRound,
      onProposal, onProposalVote, onPreVote, onPreCommit, sendBlock, onBlock,
      onOwnBlock, timerTick, onTimeoutProposal, onTimeoutPrevote,
      onTimeoutPrecommit, onTimeoutBlock

\* A named node that handles another beacon value hands over.
LEMMA SecondTick ==
  ASSUME TypeOK, NEW n \in Node, Named(n), watchProposer(n)
  PROVE  ~BeforeHandover'
<1>1. PICK i \in 1..tick[n] : RandomSource(i)
  BY Zenon DEF Named
<1>2. PICK j \in (tick[n] + 1)..Len(Beacon) :
        RandomSource(j) /\ tick' = [tick EXCEPT ![n] = j]
  BY Zenon DEF watchProposer
<1>3. tick[n] \in 0..Len(Beacon) /\ tick'[n] = j
  BY <1>2 DEF TypeOK
<1>4. i \in 1..tick'[n] /\ j \in 1..tick'[n] /\ i # j
  BY <1>3, BeaconLength, SMTT(30)
<1> QED BY Zenon, <1>1, <1>2, <1>4 DEF BeforeHandover

\* Before a handover the maker of a block keeps it as its proposal, in every round.
LEMMA OneBlockStep ==
  ASSUME TypeOK, TypeOK', OnlyProposersPropose, OneBlockMade,
         NEW n \in Node, NodeNext(n), BeforeHandover', NEW h \in blocks'
  PROVE  propsalState'[h.Proposer].Block = h.id
<1>1. CASE h \notin blocks
  BY <1>1, MakeStep, SMTT(30)
<1>2. CASE h \in blocks
  <2>1. h.id \in Cid /\ h.Proposer \in Node /\ Named(h.Proposer)
    BY <1>2 DEF TypeOK, Header, OnlyProposersPropose
  <2>2. BeforeHandover
    BY StepFrame, BeforeHandoverBefore
  <2>3. propsalState[h.Proposer].Block = h.id
    BY Zenon, <1>2, <2>2 DEF OneBlockMade
  <2>4. CASE h.Proposer # n
    BY Zenon, <2>1, <2>3, <2>4, StepFrame DEF Others
  <2>5. CASE h.Proposer = n
    <3>1. validating[n] = {}
      BY Zenon, <2>1, <2>2, <2>5, NamedIsOnlySelf DEF OneBlockMade
    <3>2. ~watchProposer(n)
      BY Zenon, <2>1, <2>5, SecondTick
    <3>3. propsalState[n].Block # Undef
      BY <2>1, <2>3, <2>5, ConsensusAssumption
    <3> QED BY Zenon, <2>3, <2>5, <3>1, <3>2, <3>3, FieldStep
  <2> QED BY <2>4, <2>5
<1> QED BY <1>1, <1>2

-----------------------------------------------------------------------------
\* The threshold of a proposer

\* the body of ThresholdAt, of a proposal state, a height, running timers and the
\* locations of watchProposer and watchTimeouts
Waits(ps, h, tm, wp, wt) ==
  /\ ps.Step = "propose"
  /\ "precommit" \notin tm
  /\ wt \notin {"precommit", "sleep", "make"}
  /\ wp # "make"
  /\ \/ ps.Height # h
     \/ "prevote" \notin tm /\ wt # "prevote" /\ wp # "sleep"

Counts(ps, h, tm, wp, wt) ==
  /\ "propose" \notin tm /\ wt # "propose"
  /\ ps.f = RequiredVotes \/ Waits(ps, h, tm, wp, wt)
  /\ ps.Step = "block" => Cardinality(ps.PreCommits) > RequiredVotes

CountsAt(n) == Counts(propsalState[n], state[n].Height, timers[n],
                      pc[n]["watchProposer"], pc[n]["watchTimeouts"])

LEMMA CountsIsThreshold ==
  ASSUME NEW n \in Node
  PROVE  /\ ThresholdAt(n) <=> (OnlySelf(n) => CountsAt(n))
         /\ ThresholdAt(n)' <=> (OnlySelf(n)' => CountsAt(n)')
BY Zenon DEF ThresholdAt, Unset, CountsAt, Counts, Waits

\* Timers other than "propose" and locations that startRound, publishing and voting
\* do not use may change freely once the threshold is set.
LEMMA CountsWhenSet ==
  ASSUME NEW n \in Node, CountsAt(n), propsalState[n].f = RequiredVotes,
         propsalState'[n].f = RequiredVotes,
         "propose" \in timers'[n] => "propose" \in timers[n],
         pc'[n]["watchTimeouts"] = "propose" => pc[n]["watchTimeouts"] = "propose",
         \/ propsalState'[n].Step # "block"
         \/ /\ propsalState[n].Step = "block"
            /\ propsalState'[n].PreCommits = propsalState[n].PreCommits
  PROVE  CountsAt(n)'
BY DEF CountsAt, Counts

\* Starting a round as proposer.
LEMMA StartRoundCounts ==
  ASSUME TypeOK, NEW n \in Node, NEW g \in Goroutine, NEW inc \in BOOLEAN,
         startRound(n, g, inc, n),
         state'[n].Height = state[n].Height, CountsAt(n),
         inc => propsalState[n].f = RequiredVotes,
         g = IF inc THEN "watchTimeouts" ELSE "watchProposer"
  PROVE  CountsAt(n)'
<1>1. timers'[n] = timers[n]
  BY DEF startRound, TypeOK
<1>2. /\ pc'[n][g] = "sleep"
      /\ \A k \in Goroutine \ {g} : pc'[n][k] = pc[n][k]
  BY DEF startRound, TypeOK
<1>3. /\ propsalState'[n].f = propsalState[n].f
      /\ propsalState'[n].Height = state[n].Height + 1
      /\ propsalState'[n].Step \in {"propose", "prevote"}
      /\ ~inc => propsalState'[n].Step = "propose"
  BY Zenon, StartRoundFields
<1>4. state[n].Height \in Nat
  BY DEF TypeOK, State
<1>5. state[n].Height + 1 # state[n].Height
  BY <1>4, SMTT(30)
<1>6. CASE inc
  <2>1. g = "watchTimeouts" /\ pc'[n]["watchTimeouts"] = "sleep"
    BY <1>2, <1>6
  <2> QED BY <1>1, <1>3, <1>6, <2>1 DEF CountsAt, Counts
<1>7. CASE ~inc
  <2>1. /\ pc'[n]["watchProposer"] = "sleep"
        /\ pc'[n]["watchTimeouts"] = pc[n]["watchTimeouts"]
    BY <1>2, <1>7 DEF Goroutine
  <2>2. propsalState'[n].Step = "propose" /\ propsalState'[n].Height # state'[n].Height
    BY <1>3, <1>5, <1>7
  <2> QED BY <1>1, <1>3, <2>1, <2>2 DEF CountsAt, Counts, Waits
<1> QED BY <1>6, <1>7

\* Announcing a round.
LEMMA AnnounceCounts ==
  ASSUME TypeOK, NEW n \in Node, NEW g \in Goroutine, announceRound(n, g), CountsAt(n)
  PROVE  CountsAt(n)'
<1> DEFINE ps == propsalState[n]
<1>1. ps \in ProposalState
  BY ProposalStateOf
<1>2. PICK done \in BOOLEAN :
        /\ propsalState' = [propsalState EXCEPT ![n].f = IF done THEN RequiredVotes ELSE @]
        /\ pc' = [pc EXCEPT ![n][g] = IF done THEN "make" ELSE "idle"]
  BY Zenon DEF announceRound
<1>3. timers'[n] = timers[n] \cup {"prevote"} /\ UNCHANGED state /\ pc[n][g] = "sleep"
  BY DEF announceRound, TypeOK
<1>4. /\ propsalState'[n].Step = ps.Step /\ propsalState'[n].Height = ps.Height
      /\ propsalState'[n].PreCommits = ps.PreCommits
      /\ propsalState'[n].f = IF done THEN RequiredVotes ELSE ps.f
  BY <1>1, <1>2 DEF TypeOK, ProposalState
<1>5. /\ pc'[n][g] = IF done THEN "make" ELSE "idle"
      /\ \A k \in Goroutine \ {g} : pc'[n][k] = pc[n][k]
  BY <1>2 DEF TypeOK
<1>6. pc'[n]["watchTimeouts"] # "propose"
  BY <1>5 DEF CountsAt, Counts, Goroutine
<1>7. CASE propsalState'[n].f = RequiredVotes
  BY <1>3, <1>4, <1>6, <1>7 DEF CountsAt, Counts
<1>8. CASE propsalState'[n].f # RequiredVotes
  <2>1. ~done /\ ps.f # RequiredVotes
    BY <1>4, <1>8
  <2>2. Waits(ps, state[n].Height, timers[n], pc[n]["watchProposer"], pc[n]["watchTimeouts"])
    BY <2>1 DEF CountsAt, Counts
  <2>3. g = "watchProposer" /\ ps.Height # state[n].Height
    BY <1>3, <2>2 DEF Waits, Goroutine
  <2>4. pc'[n]["watchProposer"] = "idle" /\ pc'[n]["watchTimeouts"] = pc[n]["watchTimeouts"]
    BY <1>5, <2>1, <2>3 DEF Goroutine
  <2>5. Waits(ps, state[n].Height, timers[n], pc[n]["watchProposer"], pc[n]["watchTimeouts"])'
    BY <1>3, <1>4, <2>2, <2>3, <2>4 DEF Waits
  <2> QED BY <1>3, <1>4, <1>6, <2>5 DEF CountsAt, Counts
<1> QED BY <1>7, <1>8

\* Proposing needs the threshold, and leaves it.
LEMMA ProposeCounts ==
  ASSUME TypeOK, NEW n \in Node, NEW g \in Goroutine, proposeBlock(n, g), CountsAt(n)
  PROVE  CountsAt(n)'
<1> DEFINE ps == propsalState[n]
<1>1. ps \in ProposalState
  BY ProposalStateOf
<1>2. pc[n][g] = "make" /\ pc' = [pc EXCEPT ![n][g] = "idle"] /\ UNCHANGED timers
  BY Zenon DEF proposeBlock
<1>3. ps.f = RequiredVotes
  BY <1>2 DEF CountsAt, Counts, Waits, Goroutine
<1>4. pc'[n]["watchTimeouts"] \in {"idle", pc[n]["watchTimeouts"]}
  BY <1>2 DEF TypeOK, Goroutine
<1>5. \/ UNCHANGED propsalState
      \/ \E b, step : /\ step \in {"prevote", ps.Step}
                      /\ propsalState' = [propsalState EXCEPT ![n] =
                           [@ EXCEPT !.Block = b, !.Step = step]]
  BY Zenon DEF proposeBlock
<1>6. /\ propsalState'[n].f = ps.f /\ propsalState'[n].PreCommits = ps.PreCommits
      /\ propsalState'[n].Step \in {"prevote", ps.Step}
  <2>1. CASE UNCHANGED propsalState
    BY <2>1
  <2>2. ASSUME NEW b, NEW step \in {"prevote", ps.Step},
               propsalState' = [propsalState EXCEPT ![n] = [@ EXCEPT !.Block = b, !.Step = step]]
        PROVE  /\ propsalState'[n].f = ps.f /\ propsalState'[n].PreCommits = ps.PreCommits
               /\ propsalState'[n].Step \in {"prevote", ps.Step}
    BY <1>1, <2>2 DEF TypeOK, ProposalState
  <2> QED BY Zenon, <1>5, <2>1, <2>2
<1> QED BY <1>2, <1>3, <1>4, <1>6, CountsWhenSet

\* A prevote is counted, and a precommit sent, only once the threshold is set.
LEMMA PreVoteCounts ==
  ASSUME TypeOK, NEW n \in Node, NEW m \in msgs, onPreVote(n, m), CountsAt(n)
  PROVE  CountsAt(n)'
<1> DEFINE ps == propsalState[n]
           votes == ps.PreVotes \cup {m.from}
<1>1. ps \in ProposalState
  BY ProposalStateOf
<1>2. ps.Step = "prevote" /\ UNCHANGED pc
  BY DEF onPreVote
<1>3. ps.f = RequiredVotes
  BY <1>2 DEF CountsAt, Counts, Waits
<1>4. \E S : /\ timers' = [timers EXCEPT ![n] = S]
             /\ "propose" \in S => "propose" \in timers[n]
  BY SMTT(30) DEF onPreVote, voteTimers
<1>5. "propose" \in timers'[n] => "propose" \in timers[n]
  BY <1>4 DEF TypeOK
<1>6. propsalState'[n].f = ps.f /\ propsalState'[n].Step \in {"prevote", "precommit"}
  <2>1. CASE propsalState' = [propsalState EXCEPT ![n].PreVotes = votes]
    BY <1>1, <1>2, <2>1 DEF TypeOK, ProposalState
  <2>2. CASE propsalState' = [propsalState EXCEPT ![n] =
               [@ EXCEPT !.PreVotes = votes, !.pcOnce = TRUE, !.Step = "precommit",
                         !.lockedValue = ps.Block, !.lockedRound = ps.Round]]
    BY <1>1, <2>2 DEF TypeOK, ProposalState
  <2> QED BY <2>1, <2>2 DEF onPreVote
<1> QED BY <1>2, <1>3, <1>5, <1>6, CountsWhenSet

\* The precommit that completes the vote completes it against the threshold.
LEMMA PreCommitCounts ==
  ASSUME TypeOK, NEW n \in Node, NEW m \in msgs, onPreCommit(n, m), CountsAt(n)
  PROVE  CountsAt(n)'
<1> DEFINE ps == propsalState[n]
           votes == ps.PreCommits \cup {m.from}
           quorum == Enough(votes, ps.f) /\ ~ps.sbOnce
<1>1. ps \in ProposalState
  BY ProposalStateOf
<1>2. ps.Step = "precommit" /\ UNCHANGED pc
  BY DEF onPreCommit
<1>3. ps.f = RequiredVotes
  BY <1>2 DEF CountsAt, Counts, Waits
<1>4. \E S : /\ timers' = [timers EXCEPT ![n] = S]
             /\ "propose" \in S => "propose" \in timers[n]
  BY DEF onPreCommit, voteTimers
<1>5. "propose" \in timers'[n] => "propose" \in timers[n]
  BY <1>4 DEF TypeOK
<1>6. propsalState' = [propsalState EXCEPT ![n] =
        [@ EXCEPT !.PreCommits = votes, !.sbOnce = ps.sbOnce \/ quorum,
                  !.Step = IF quorum THEN "block" ELSE ps.Step]]
  BY Zenon DEF onPreCommit
<1>7. quorum => Cardinality(votes) > RequiredVotes
  BY <1>3 DEF Enough
<1> HIDE DEF votes, quorum
<1>8. /\ propsalState'[n].f = ps.f /\ propsalState'[n].PreCommits = votes
      /\ propsalState'[n].Step = IF quorum THEN "block" ELSE ps.Step
  BY <1>1, <1>6 DEF TypeOK, ProposalState
<1> QED BY <1>2, <1>3, <1>5, <1>7, <1>8 DEF CountsAt, Counts

\* A tick of a timer that runs while the threshold is not set is a stale one.
LEMMA TickCounts ==
  ASSUME TypeOK, NEW n \in Node, NEW t \in timers[n], timerTick(n, t), CountsAt(n)
  PROVE  CountsAt(n)'
<1>1. timers'[n] = timers[n] \ {t} /\ UNCHANGED <<propsalState, state>>
  BY DEF timerTick, TypeOK
<1>2. pc'[n]["watchTimeouts"] = t /\ pc'[n]["watchProposer"] = pc[n]["watchProposer"]
  BY DEF timerTick, TypeOK, Goroutine
<1>3. t \in {"propose", "prevote", "precommit", "block"}
  BY DEF TypeOK, Step
<1>4. t # "propose"
  BY DEF CountsAt, Counts
<1> QED BY <1>1, <1>2, <1>3, <1>4 DEF CountsAt, Counts, Waits

\* A prevote timeout before the threshold is set finds another height and step.
LEMMA PrevoteTimeoutCounts ==
  ASSUME TypeOK, NEW n \in Node, onTimeoutPrevote(n), CountsAt(n)
  PROVE  CountsAt(n)'
<1> DEFINE ps == propsalState[n]
<1>1. ps \in ProposalState
  BY ProposalStateOf
<1>2. /\ pc[n]["watchTimeouts"] = "prevote" /\ UNCHANGED state
      /\ pc' = [pc EXCEPT ![n]["watchTimeouts"] = "idle"]
  BY Zenon DEF onTimeoutPrevote
<1>3. pc'[n]["watchTimeouts"] = "idle" /\ pc'[n]["watchProposer"] = pc[n]["watchProposer"]
  BY <1>2 DEF TypeOK, Goroutine
<1>4. CASE Stale(n, "prevote")
  <2>1. UNCHANGED <<propsalState, timers>>
    BY Zenon, <1>4 DEF onTimeoutPrevote
  <2>2. ps.Height # state[n].Height
    BY <1>4 DEF Stale
  <2> QED BY <1>2, <1>3, <2>1, <2>2 DEF CountsAt, Counts, Waits
<1>5. CASE ~Stale(n, "prevote")
  <2>1. ps.f = RequiredVotes
    BY <1>2, <1>5 DEF CountsAt, Counts, Waits, Stale
  <2>2. propsalState' = [propsalState EXCEPT ![n] =
                           [@ EXCEPT !.Step = "precommit", !.pcOnce = TRUE]]
    BY Zenon, <1>5 DEF onTimeoutPrevote
  <2>3. propsalState'[n].f = ps.f /\ propsalState'[n].Step = "precommit"
    BY <1>1, <2>2 DEF TypeOK, ProposalState
  <2>4. UNCHANGED timers \/ timers' = [timers EXCEPT ![n] = @ \cup {"precommit"}]
    BY Zenon, <1>5 DEF onTimeoutPrevote
  <2>5. "propose" \in timers'[n] => "propose" \in timers[n]
    BY <2>4, SMTT(30) DEF TypeOK
  <2> QED BY <1>3, <2>1, <2>3, <2>5, CountsWhenSet
<1> QED BY <1>4, <1>5

\* The acting node keeps its threshold, action by action.
LEMMA CountsStep ==
  ASSUME TypeOK, TypeOK', ProposerIsNamed, FollowsBeacon, OneBlockMade,
         NEW n \in Node, NodeNext(n), CountsAt(n), OnlySelf(n), OnlySelf(n)'
  PROVE  CountsAt(n)'
<1>1. CASE watchProposer(n)
  <2>1. PICK j \in (tick[n] + 1)..Len(Beacon) :
          /\ RandomSource(j)
          /\ tick' = [tick EXCEPT ![n] = j]
          /\ state' = [state EXCEPT ![n].Proposer = proposer(j)]
          /\ startRound(n, "watchProposer", FALSE, proposer(j))
    BY Zenon, <1>1 DEF watchProposer
  <2>2. tick[n] \in 0..Len(Beacon) /\ tick'[n] = j /\ state[n] \in State
    BY <2>1 DEF TypeOK
  <2>3. j \in 1..tick'[n]
    BY <2>2, BeaconLength, SMTT(30)
  <2>4. proposer(j) = n
    BY Zenon, <2>1, <2>3 DEF OnlySelf
  <2>5. state'[n].Height = state[n].Height
    BY <2>1, <2>2 DEF TypeOK, State
  <2> QED BY Zenon, <2>1, <2>4, <2>5, StartRoundCounts DEF Goroutine
<1>2. ASSUME NEW g \in Goroutine, announceRound(n, g) PROVE CountsAt(n)'
  BY Zenon, <1>2, AnnounceCounts
<1>3. ASSUME NEW g \in Goroutine, proposeBlock(n, g) PROVE CountsAt(n)'
  BY Zenon, <1>3, ProposeCounts
<1>4. ASSUME NEW m \in msgs, onNewRound(n, m) \/ onProposal(n, m) \/ onBlock(n, m)
      PROVE  CountsAt(n)'
  BY Zenon, <1>4, NoForeignProposer DEF onNewRound, onProposal, onBlock, Applies
<1>5. ASSUME NEW m \in msgs, onPreVote(n, m) PROVE CountsAt(n)'
  BY Zenon, <1>5, PreVoteCounts
<1>6. ASSUME NEW m \in msgs, onPreCommit(n, m) PROVE CountsAt(n)'
  BY Zenon, <1>6, PreCommitCounts
<1>7. ASSUME NEW m \in validating[n], onProposalVote(n, m) PROVE CountsAt(n)'
  BY DEF OneBlockMade
<1>8. CASE UNCHANGED <<propsalState, state, timers, pc>>
  BY Zenon, <1>8 DEF CountsAt
<1>9. ASSUME NEW m \in selfBlock[n], onOwnBlock(n, m) PROVE CountsAt(n)'
  <2>1. UNCHANGED <<propsalState, pc>>
    BY Zenon, <1>9 DEF onOwnBlock
  <2>2. CASE ~Applies(n, m)
    BY Zenon, <1>8, <1>9, <2>1, <2>2 DEF onOwnBlock
  <2>3. CASE Applies(n, m)
    <3>1. propsalState[n].Step = "block"
      BY Zenon, <2>3 DEF Applies
    <3>2. propsalState[n].f = RequiredVotes
      BY <3>1 DEF CountsAt, Counts, Waits
    <3>3. timers' = [timers EXCEPT ![n] = @ \ {"block"}]
      BY Zenon, <1>9, <2>3 DEF onOwnBlock, applyBlock
    <3>4. "propose" \in timers'[n] => "propose" \in timers[n]
      BY <3>3 DEF TypeOK
    <3> QED BY <2>1, <3>1, <3>2, <3>4, CountsWhenSet
  <2> QED BY <2>2, <2>3
<1>10. ASSUME NEW t \in timers[n], timerTick(n, t) PROVE CountsAt(n)'
  BY Zenon, <1>10, TickCounts
<1>11. CASE onTimeoutProposal(n)
  BY Zenon, <1>11 DEF onTimeoutProposal, CountsAt, Counts
<1>12. CASE onTimeoutPrevote(n)
  BY Zenon, <1>12, PrevoteTimeoutCounts
<1>13. CASE onTimeoutPrecommit(n)
  <2>1. /\ pc[n]["watchTimeouts"] = "precommit" /\ UNCHANGED state
        /\ startRound(n, "watchTimeouts", TRUE, state[n].Proposer)
    BY Zenon, <1>13 DEF onTimeoutPrecommit
  <2>2. propsalState[n].f = RequiredVotes
    BY <2>1 DEF CountsAt, Counts, Waits
  <2>3. RequiredVotes # 0
    <3>1. Cardinality(Node) \in Nat /\ Cardinality(Node) # 0
      BY ConsensusAssumption, FS_CardinalityType, FS_EmptySet
    <3> QED BY <3>1, SMTT(30) DEF RequiredVotes
  <2>4. tick[n] # 0
    BY <2>2, <2>3 DEF FollowsBeacon
  <2>5. tick[n] \in 0..Len(Beacon)
    BY DEF TypeOK
  <2>6. state[n].Proposer = n
    BY <2>4, <2>5, BeaconLength, SelfProposer, SMTT(30)
  <2> QED BY Zenon, <2>1, <2>2, <2>6, StartRoundCounts DEF Goroutine
<1>14. CASE onTimeoutBlock(n)
  <2>1. /\ pc[n]["watchTimeouts"] = "block" /\ UNCHANGED <<propsalState, state, timers>>
        /\ pc' = [pc EXCEPT ![n]["watchTimeouts"] = "idle"]
    BY Zenon, <1>14 DEF onTimeoutBlock
  <2>2. pc'[n]["watchTimeouts"] = "idle" /\ pc'[n]["watchProposer"] = pc[n]["watchProposer"]
    BY <2>1 DEF TypeOK, Goroutine
  <2> QED BY <2>1, <2>2 DEF CountsAt, Counts, Waits
<1>15. CASE sendBlock(n)
  BY Zenon, <1>8, <1>15 DEF sendBlock
<1> QED
  BY Zenon, <1>1, <1>2, <1>3, <1>4, <1>5, <1>6, <1>7, <1>9, <1>10, <1>11, <1>12,
     <1>13, <1>14, <1>15 DEF NodeNext, Receive, watchTimeouts

\* Every node keeps its threshold.
LEMMA ThresholdStep ==
  ASSUME TypeOK, TypeOK', ProposerIsNamed, BeaconInv, NEW n \in Node, NodeNext(n),
         NEW p \in Node
  PROVE  ThresholdAt(p)'
<1> SUFFICES ASSUME OnlySelf(p)' PROVE CountsAt(p)'
  BY Zenon, CountsIsThreshold
<1>1. OnlySelf(p)
  BY StepFrame, OnlySelfBefore
<1>2. CountsAt(p)
  BY Zenon, <1>1, CountsIsThreshold DEF BeaconInv
<1>3. CASE p = n
  BY Zenon, <1>1, <1>2, <1>3, CountsStep DEF BeaconInv
<1>4. CASE p # n
  <2>1. /\ propsalState'[p] = propsalState[p] /\ state'[p] = state[p]
        /\ timers'[p] = timers[p] /\ pc'[p] = pc[p]
    BY Zenon, <1>4, StepFrame, RestFrame DEF Others, OthersRest
  <2> QED BY Zenon, <1>2, <2>1 DEF CountsAt
<1> QED BY <1>3, <1>4

-----------------------------------------------------------------------------
\* The inductive invariant and what follows from it

LEMMA InitBeaconInv == Init => BeaconInv
<1> SUFFICES ASSUME Init PROVE BeaconInv
  OBVIOUS
<1>1. FollowsBeacon
  BY SMTT(30) DEF Init, FollowsBeacon
<1>2. OneBlockMade
  BY Zenon DEF Init, OneBlockMade
<1>3. ASSUME NEW n \in Node PROVE ThresholdAt(n)
  <2>1. /\ propsalState[n].Step = "propose" /\ timers[n] = {}
        /\ pc[n]["watchTimeouts"] = "idle" /\ pc[n]["watchProposer"] = "idle"
    BY DEF Init, Goroutine
  <2> QED BY <2>1 DEF ThresholdAt, Unset
<1> QED BY Zenon, <1>1, <1>2, <1>3 DEF BeaconInv

\* Every step of every node preserves BeaconInv, given IInv.
LEMMA NextBeaconInv == IInv /\ IInv' /\ BeaconInv /\ [Next]_vars => BeaconInv'
<1> SUFFICES ASSUME IInv, IInv', BeaconInv, [Next]_vars PROVE BeaconInv'
  OBVIOUS
<1>a. TypeOK /\ TypeOK' /\ ProposerIsNamed /\ VotesAreHeld /\ OnlyProposersPropose
  BY Zenon DEF IInv
<1>b. FollowsBeacon /\ OneBlockMade
  BY Zenon DEF BeaconInv
<1>1. CASE UNCHANGED vars
  <2> USE <1>1 DEF vars
  <2>1. FollowsBeacon'
    BY Zenon, <1>b DEF FollowsBeacon
  <2>2. OneBlockMade'
    BY Zenon, <1>b DEF OneBlockMade, OnlySelf, BeforeHandover
  <2>3. \A n \in Node : ThresholdAt(n)'
    BY Zenon DEF BeaconInv, ThresholdAt, Unset, OnlySelf
  <2> QED BY Zenon, <2>1, <2>2, <2>3 DEF BeaconInv
<1>2. ASSUME NEW n \in Node, NodeNext(n) PROVE BeaconInv'
  <2>1. FollowsBeacon'
    BY Zenon, <1>a, <1>b, <1>2, SelectionStep, ValidationStep DEF FollowsBeacon
  <2>2. OneBlockMade'
    BY Zenon, <1>a, <1>b, <1>2, ValidatesNothingStep, OneBlockStep DEF OneBlockMade
  <2>3. \A p \in Node : ThresholdAt(p)'
    BY Zenon, <1>a, <1>2, ThresholdStep
  <2> QED BY Zenon, <2>1, <2>2, <2>3 DEF BeaconInv
<1> QED BY Zenon, <1>1, <1>2 DEF Next

\* Both inductive invariants hold in every reachable state.
THEOREM BeaconInductive == Spec => [](IInv /\ BeaconInv)
BY InitIInv, NextIInv, InitBeaconInv, NextBeaconInv, PTL DEF Spec

\* For every set of nodes, every beacon and every failure of a publish or a read: a
\* proposer that has not been a validator enters the vote grace period with more
\* precommits than the threshold of the node list.
THEOREM QuorumKept == Spec => []ProposerHasQuorum
<1>1. BeaconInv => ProposerHasQuorum
  BY Zenon DEF BeaconInv, ThresholdAt, ProposerHasQuorum
<1> QED BY BeaconInductive, <1>1, PTL

-----------------------------------------------------------------------------
\* One block

\* Before a handover any two blocks that nodes may stand for are the same.
LEMMA OneHeld ==
  ASSUME IInv, BeaconInv, BeforeHandover, NEW n \in Node, NEW o \in Node,
         NEW b \in Held(n), NEW c \in Held(o)
  PROVE  b = c
<1>1. ASSUME NEW h \in blocks, NEW k \in blocks PROVE h.id = k.id
  <2>1. h.Proposer \in Node /\ k.Proposer \in Node
    BY DEF IInv, TypeOK, Header
  <2>2. h.Proposer = k.Proposer
    BY Zenon, <2>1, OneNamed DEF IInv, OnlyProposersPropose
  <2> QED BY Zenon, <2>2 DEF BeaconInv, OneBlockMade
<1>2. ASSUME NEW p \in Node, NEW d \in Held(p) PROVE \E h \in blocks : d = h.id
  <2>1. CASE d \in validated[p]
    BY Zenon, <2>1 DEF BeaconInv, FollowsBeacon
  <2>2. CASE d \notin validated[p]
    BY Zenon, <1>2, <2>2 DEF Held
  <2> QED BY <2>1, <2>2
<1>3. PICK h \in blocks : b = h.id
  BY Zenon, <1>2
<1>4. PICK k \in blocks : c = k.id
  BY Zenon, <1>2
<1> QED BY Zenon, <1>1, <1>3, <1>4

\* What a node has applied or named in a message is a block it may stand for.
LEMMA Stands ==
  ASSUME IInv
  PROVE  /\ \A n \in Node : state[n].Block \in Cid => state[n].Block \in Held(n)
         /\ \A m \in msgs : /\ m.from \in Node
                            /\ m.block \in Cid => m.block \in Held(m.from)
<1>1. \A n \in Node : state[n].Block \in Cid => state[n].Block \in Held(n)
  BY Zenon DEF IInv, AppliedIsBacked
<1>2. \A m \in msgs : m.from \in Node
  <2>1. msgs \subseteq Message
    BY Zenon DEF IInv, TypeOK
  <2> QED BY <2>1 DEF Message
<1>3. \A m \in msgs : m.block \in Cid => m.block \in Held(m.from)
  BY Zenon DEF IInv, VotesAreHeld
<1> QED BY <1>1, <1>2, <1>3

\* For every set of nodes and every number of rounds: until the beacon names a
\* proposer again, all proposals, votes and applied blocks are of one block.
THEOREM OneBlock == Spec => []OneBlockPerTick
<1>1. IInv /\ BeaconInv => OneBlockPerTick
  <2> SUFFICES ASSUME IInv, BeaconInv, BeforeHandover
               PROVE  /\ Agreement
                      /\ \A m, o \in msgs :
                           {m.block, o.block} \subseteq Cid => m.block = o.block
    BY DEF OneBlockPerTick
  <2>1. Agreement
    BY OneHeld, Stands, SMTT(30) DEF Agreement
  <2>2. \A m, o \in msgs : {m.block, o.block} \subseteq Cid => m.block = o.block
    BY OneHeld, Stands
  <2> QED BY <2>1, <2>2
<1> QED BY BeaconInductive, <1>1, PTL

-----------------------------------------------------------------------------
\* A quorum behind every block that is applied

\* Precommits that stand behind a decision are never taken back.
LEMMA QuorumStays ==
  ASSUME Grows, NEW p \in Node, QuorumBeside(p)
  PROVE  QuorumBeside(p)'
<1>1. PICK w \in msgs :
        Cardinality({v \in Node \ {p} : SentVote(v, "PreCommit", w.height, w.round)}) >
          RequiredVotes
  BY Zenon DEF QuorumBeside
<1> DEFINE Q == {v \in Node \ {p} : SentVote(v, "PreCommit", w.height, w.round)}
           R == {v \in Node \ {p} : SentVote(v, "PreCommit", w.height, w.round)'}
<1>2. Q \subseteq R
  BY SentVoteGrows
<1>3. IsFiniteSet(R)
  <2>1. R \subseteq Node
    OBVIOUS
  <2> QED BY Zenon, <2>1, FS_Subset, ConsensusAssumption
<1>4. Cardinality(Q) <= Cardinality(R) /\ Cardinality(Q) \in Nat /\ Cardinality(R) \in Nat
  BY Zenon, <1>2, <1>3, FS_Subset, FS_CardinalityType
<1>5. Cardinality(R) > RequiredVotes
  BY <1>1, <1>4, RequiredVotesType, SMTT(30)
<1>6. w \in msgs'
  BY Zenon DEF Grows
<1> QED BY Zenon, <1>5, <1>6 DEF QuorumBeside, RequiredVotes

\* The precommit that opens the grace period of a proposer completes a quorum.
LEMMA GraceHasQuorum ==
  ASSUME IInv, IInv', BeaconInv', BeforeHandover, NEW n \in Node, NEW m \in msgs,
         onPreCommit(n, m), grace'[n] # grace[n]
  PROVE  Named(n)' /\ QuorumBeside(n)'
<1> DEFINE ps == propsalState[n]
           votes == ps.PreCommits \cup {m.from}
           quorum == Enough(votes, ps.f) /\ ~ps.sbOnce
           Q == {v \in Node \ {n} : SentVote(v, "PreCommit", m.height, m.round)'}
<1>a. TypeOK /\ TypeOK' /\ ps \in ProposalState
  BY ProposalStateOf DEF IInv
<1>1. quorum /\ ps.AmProposer
  <2>1. grace' = [grace EXCEPT ![n] = IF quorum /\ ps.AmProposer THEN @ + 1 ELSE @]
    BY Zenon DEF onPreCommit
  <2> HIDE DEF quorum
  <2> QED BY <1>a, <2>1 DEF TypeOK
<1>2. UNCHANGED tick
  BY Zenon DEF onPreCommit
<1>3. Named(n)
  BY Zenon, <1>1 DEF IInv, ProposerIsNamed
<1>4. OnlySelf(n)' /\ Named(n)'
  <2>1. OnlySelf(n)
    BY Zenon, <1>3, NamedIsOnlySelf
  <2> QED BY Zenon, <1>2, <1>3, <2>1 DEF OnlySelf, Named
<1>5. /\ propsalState'[n].Step = "block"
      /\ propsalState'[n].Height = m.height /\ propsalState'[n].Round = m.round
  <2>1. /\ m.height = ps.Height /\ m.round = ps.Round
        /\ \E once : propsalState' = [propsalState EXCEPT ![n] =
             [@ EXCEPT !.PreCommits = votes, !.sbOnce = once, !.Step = "block"]]
    <3> HIDE DEF votes
    <3> QED BY Zenon, <1>1 DEF onPreCommit, onVote, votes
  <2> HIDE DEF votes
  <2> QED BY <1>a, <2>1, SMTT(30) DEF TypeOK, ProposalState
<1>6. Cardinality(propsalState'[n].PreCommits) > RequiredVotes
  <2>1. ThresholdAt(n)'
    BY Zenon DEF BeaconInv
  <2> QED BY Zenon, <1>4, <1>5, <2>1 DEF ThresholdAt, RequiredVotes
<1>7. propsalState'[n].PreCommits \subseteq Q
  <2>1. CountedAt(n)'
    BY Zenon DEF IInv, CountedVotesAreCurrent
  <2>2. propsalState'[n].PreCommits \subseteq Node
    BY <1>a DEF TypeOK, ProposalState
  <2> QED BY Zenon, <1>5, <2>1, <2>2 DEF CountedAt
<1>8. Cardinality(Q) > RequiredVotes
  <2>1. IsFiniteSet(Q)
    <3>1. Q \subseteq Node
      OBVIOUS
    <3> QED BY Zenon, <3>1, FS_Subset, ConsensusAssumption
  <2>2. /\ Cardinality(propsalState'[n].PreCommits) <= Cardinality(Q)
        /\ Cardinality(propsalState'[n].PreCommits) \in Nat /\ Cardinality(Q) \in Nat
    BY Zenon, <1>7, <2>1, FS_Subset, FS_CardinalityType
  <2> QED BY <1>6, <2>2, RequiredVotesType, SMTT(30)
<1>9. m \in msgs'
  BY Zenon DEF onPreCommit
<1> QED BY Zenon, <1>4, <1>8, <1>9 DEF QuorumBeside, RequiredVotes

\* Only a precommit that completes the quorum of a proposer begins a decision.
LEMMA UndecidedStep ==
  ASSUME IInv, IInv', BeaconInv', BeforeHandover, Undecided, NEW n \in Node, NodeNext(n)
  PROVE  Undecided' \/ (Named(n)' /\ QuorumBeside(n)')
<1>a. TypeOK /\ state[n] \in State
  BY DEF IInv, TypeOK
<1>b. grace[n] = 0 /\ selfBlock[n] = {} /\ \A m \in msgs : m.type # "Block"
  BY Zenon DEF Undecided
<1> DEFINE NoBlockSent == \A m \in msgs' \ msgs : m.type # "Block"
           Quiet == UNCHANGED <<grace, selfBlock, state>> /\ NoBlockSent
<1>1. Quiet => Undecided'
  BY Zenon DEF Undecided
<1>2. UNCHANGED msgs => NoBlockSent
  OBVIOUS
<1>3. ASSUME NEW t \in MsgType \ {"Block"}, NEW h, NEW r, NEW b, NEW ok,
             sendMsg(n, Msg(t, n, h, r, b), ok)
      PROVE  NoBlockSent
  <2>1. \A m \in msgs' \ msgs : m = Msg(t, n, h, r, b)
    BY <1>3 DEF sendMsg
  <2> QED BY <2>1, SMTT(30) DEF Msg
<1>4. ASSUME NEW t \in {"PreVote", "PreCommit"}, NEW b, NEW ok, sendVote(n, t, b, ok)
      PROVE  NoBlockSent
  <2>1. t \in MsgType \ {"Block"}
    BY DEF MsgType
  <2> QED BY Zenon, <1>3, <1>4, <2>1 DEF sendVote
<1>5. ASSUME NEW ok, sendNewRound(n, ok) PROVE NoBlockSent
  <2>1. "NewRound" \in MsgType \ {"Block"}
    BY DEF MsgType
  <2> QED BY Zenon, <1>3, <1>5, <2>1 DEF sendNewRound
<1>6. ASSUME NEW b, NEW ok, sendProposal(n, b, ok) PROVE NoBlockSent
  <2>1. "Proposal" \in MsgType \ {"Block"}
    BY DEF MsgType
  <2> QED BY Zenon, <1>3, <1>6, <2>1 DEF sendProposal
<1> HIDE DEF NoBlockSent
<1>7. CASE watchProposer(n)
  <2>1. \A p \in Node : state'[p].Block = state[p].Block
    BY <1>7, <1>a, SMTT(30) DEF watchProposer, TypeOK, State
  <2>2. UNCHANGED <<grace, selfBlock, msgs>>
    BY Zenon, <1>7 DEF watchProposer
  <2> QED BY Zenon, <2>1, <2>2 DEF Undecided
<1>8. ASSUME NEW g \in Goroutine, announceRound(n, g) \/ proposeBlock(n, g) PROVE Quiet
  BY Zenon, <1>2, <1>5, <1>6, <1>8 DEF announceRound, proposeBlock
<1>9. ASSUME NEW m \in msgs, onNewRound(n, m) \/ onProposal(n, m) PROVE Quiet
  BY Zenon, <1>2, <1>9 DEF onNewRound, onProposal
<1>10. ASSUME NEW m \in msgs, onPreVote(n, m) PROVE Quiet
  BY Zenon, <1>2, <1>4, <1>10 DEF onPreVote
<1>11. ASSUME NEW m \in msgs, onPreCommit(n, m)
       PROVE  Undecided' \/ (Named(n)' /\ QuorumBeside(n)')
  <2>1. CASE grace'[n] # grace[n]
    BY Zenon, <1>11, <2>1, GraceHasQuorum
  <2>2. CASE grace'[n] = grace[n]
    <3>1. \A p \in Node : grace'[p] = grace[p]
      BY <2>2, <1>a, StepFrame DEF Others
    <3>2. UNCHANGED <<selfBlock, state, msgs>>
      BY Zenon, <1>11 DEF onPreCommit
    <3> QED BY Zenon, <3>1, <3>2 DEF Undecided
  <2> QED BY <2>1, <2>2
<1>12. ASSUME NEW m \in msgs, onBlock(n, m) PROVE FALSE
  BY Zenon, <1>b, <1>12 DEF onBlock, onMsg
<1>13. ASSUME NEW m \in validating[n], onProposalVote(n, m) PROVE Quiet
  BY Zenon, <1>2, <1>4, <1>13 DEF onProposalVote
<1>14. ~sendBlock(n)
  <2>1. ~(grace[n] > 0)
    BY <1>b, SMTT(30)
  <2> QED BY Zenon, <2>1 DEF sendBlock
<1>15. CASE watchTimeouts(n)
  BY Zenon, <1>1, <1>2, <1>4, <1>15
  DEF watchTimeouts, timerTick, onTimeoutProposal, onTimeoutPrevote, onTimeoutPrecommit,
      onTimeoutBlock
<1> HIDE DEF Quiet
<1> QED
  BY Zenon, <1>b, <1>1, <1>7, <1>8, <1>9, <1>10, <1>11, <1>12, <1>13, <1>14, <1>15
  DEF NodeNext, Receive

\* Every step preserves DecisionInv, given the other two invariants.
LEMMA NextDecisionInv ==
  ASSUME IInv, IInv', BeaconInv, BeaconInv', DecisionInv, [Next]_vars
  PROVE  DecisionInv'
<1>1. CASE UNCHANGED vars
  <2>1. (BeforeHandover' <=> BeforeHandover) /\ (Undecided' <=> Undecided)
    BY Zenon, <1>1 DEF vars, BeforeHandover, Undecided
  <2>2. \A p \in Node : Named(p) /\ QuorumBeside(p) => Named(p)' /\ QuorumBeside(p)'
    BY Zenon, <1>1 DEF vars, Named, QuorumBeside, SentVote, SentVoteFor
  <2> QED BY Zenon, <2>1, <2>2 DEF DecisionInv
<1>2. ASSUME NEW n \in Node, NodeNext(n) PROVE DecisionInv'
  <2> SUFFICES ASSUME BeforeHandover'
               PROVE  Undecided' \/ \E p \in Node : Named(p)' /\ QuorumBeside(p)'
    BY Zenon DEF DecisionInv
  <2>1. TypeOK /\ TypeOK' /\ Grows
    BY <1>2, StepFrame DEF IInv
  <2>2. BeforeHandover
    BY <2>1, BeforeHandoverBefore
  <2>3. CASE Undecided
    BY Zenon, <1>2, <2>2, <2>3, UndecidedStep
  <2>4. ASSUME NEW p \in Node, Named(p), QuorumBeside(p)
        PROVE  Named(p)' /\ QuorumBeside(p)'
    BY <2>1, <2>4, NamedGrows, QuorumStays
  <2> QED BY Zenon, <2>2, <2>3, <2>4 DEF DecisionInv
<1> QED BY Zenon, <1>1, <1>2 DEF Next

\* All three inductive invariants hold in every reachable state.
THEOREM DecisionInductive == Spec => [](IInv /\ BeaconInv /\ DecisionInv)
<1>1. Init => DecisionInv
  BY SMTT(30) DEF Init, DecisionInv, Undecided
<1> QED
  BY <1>1, InitIInv, NextIInv, InitBeaconInv, NextBeaconInv, NextDecisionInv, PTL DEF Spec

\* For every set of nodes, every failure and every number of rounds: until the beacon
\* names a proposer again, no node applies a block that more than RequiredVotes nodes
\* beside the proposer have not precommitted in one round.
THEOREM QuorumApplies == Spec => []AppliedHasQuorum
<1>1. IInv /\ BeaconInv /\ DecisionInv => AppliedHasQuorum
  <2> SUFFICES ASSUME IInv, BeaconInv, DecisionInv, BeforeHandover,
                      NEW n \in Node, state[n].Block \in Cid
               PROVE  \E p \in Node, w \in msgs :
                        /\ Named(p)
                        /\ Cardinality(Precommitted(p, w.height, w.round, state[n].Block))
                             > RequiredVotes
    BY Zenon DEF AppliedHasQuorum
  <2>1. ~Undecided
    BY ConsensusAssumption DEF Undecided
  <2>2. PICK p \in Node : Named(p) /\ QuorumBeside(p)
    BY Zenon, <2>1 DEF DecisionInv
  <2>3. PICK w \in msgs :
          Cardinality({v \in Node \ {p} : SentVote(v, "PreCommit", w.height, w.round)}) >
            RequiredVotes
    BY Zenon, <2>2 DEF QuorumBeside
  <2>4. ASSUME NEW v \in Node, NEW b \in Cid,
               SentVoteFor(v, "PreCommit", w.height, w.round, b)
        PROVE  b = state[n].Block
    <3> DEFINE m == Msg("PreCommit", v, w.height, w.round, b)
    <3>1. m \in msgs
      BY Zenon, <2>4 DEF SentVoteFor
    <3>2. m.from = v /\ m.block = b
      BY DEF Msg
    <3> HIDE DEF m
    <3>3. b \in Held(v)
      BY Zenon, <3>1, <3>2, Stands
    <3>4. state[n].Block \in Held(n)
      BY Zenon, Stands
    <3> QED BY <3>3, <3>4, OneHeld
  <2>5. {v \in Node \ {p} : SentVote(v, "PreCommit", w.height, w.round)} =
          Precommitted(p, w.height, w.round, state[n].Block)
    BY <2>4 DEF Precommitted, SentVote, Value
  <2> QED BY Zenon, <2>2, <2>3, <2>5
<1> QED BY DecisionInductive, <1>1, PTL

\* The nodes beside a proposer outnumber its threshold unless there are 1, 2 or 4 nodes.
LEMMA OthersSuffice ==
  RequiredVotes < Cardinality(Node) - 1 <=> Cardinality(Node) \notin {1, 2, 4}
<1>1. Cardinality(Node) \in Nat /\ Cardinality(Node) # 0
  BY Zenon, FS_CardinalityType, FS_EmptySet, ConsensusAssumption
<1> DEFINE N == Cardinality(Node)
<1> HIDE DEF N
<1>2. N \in Nat /\ N # 0 /\ RequiredVotes = (((N - 1) \div 3) * 2) + 1
  BY <1>1 DEF N, RequiredVotes
<1>3. RequiredVotes < N - 1 <=> N \notin {1, 2, 4}
  BY <1>2, SMTT(30)
<1> QED BY <1>3 DEF N

\* A network of 1, 2 or 4 nodes decides nothing under the proposer that the beacon
\* names first: startRound asks for more precommits than there are other nodes, so no
\* node applies a block, whatever the messages, failures and timeouts. For every other
\* number of nodes the others can be enough (OthersSuffice).
THEOREM TooFewNodes ==
  Cardinality(Node) \in {1, 2, 4} =>
    (Spec => [](BeforeHandover => \A n \in Node : state[n].Block = Genesis))
<1> SUFFICES ASSUME Cardinality(Node) \in {1, 2, 4}
             PROVE  Spec => [](BeforeHandover => \A n \in Node : state[n].Block = Genesis)
  OBVIOUS
<1>1. ASSUME NEW p \in Node PROVE ~QuorumBeside(p)
  <2>1. ASSUME NEW S \in SUBSET (Node \ {p}) PROVE ~(Cardinality(S) > RequiredVotes)
    <3>1. IsFiniteSet(Node \ {p}) /\ Cardinality(Node \ {p}) = Cardinality(Node) - 1
      BY FS_RemoveElement, ConsensusAssumption
    <3>2. Cardinality(S) <= Cardinality(Node \ {p}) /\ Cardinality(S) \in Nat
      BY Zenon, <3>1, FS_Subset, FS_CardinalityType
    <3>3. ~(RequiredVotes < Cardinality(Node) - 1)
      BY Zenon, OthersSuffice
    <3> QED BY <3>1, <3>2, <3>3, RequiredVotesType, SMTT(30)
  <2>2. \A w \in msgs :
          {v \in Node \ {p} : SentVote(v, "PreCommit", w.height, w.round)}
            \in SUBSET (Node \ {p})
    OBVIOUS
  <2> QED BY Zenon, <2>1, <2>2 DEF QuorumBeside
<1>2. DecisionInv => (BeforeHandover => \A n \in Node : state[n].Block = Genesis)
  BY Zenon, <1>1 DEF DecisionInv, Undecided
<1> QED BY DecisionInductive, <1>2, PTL

=============================================================================
