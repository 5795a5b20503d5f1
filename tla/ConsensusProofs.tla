--------------------------- MODULE ConsensusProofs ---------------------------
(***************************************************************************)
(* Proofs that the safety properties of Consensus hold for every set of    *)
(* nodes, every beacon and every bound, along the inductive invariant IInv.*)
(***************************************************************************)
EXTENDS Consensus, FiniteSetTheorems, TLAPS

\* Most steps are first-order and go to Zenon; SMT is named where a step needs arithmetic,
\* sequences or records.
USE Zenon, SMTT(30)

\* The threshold that startRound computes from the node list is a natural number.
LEMMA RequiredVotesType == RequiredVotes \in Nat
<1>1. Cardinality(Node) \in Nat /\ Cardinality(Node) # 0
  BY ConsensusAssumption, FS_CardinalityType, FS_EmptySet
<1> QED BY <1>1, SMTT(30) DEF RequiredVotes

\* Every beacon value selects a node: its remainder is an index of the list.
LEMMA ProposerType ==
  ASSUME NEW j \in 1..Len(Beacon)
  PROVE  proposer(j) \in Node
<1>1. Cardinality(Node) \in Nat /\ Cardinality(Node) # 0
  BY ConsensusAssumption, FS_CardinalityType, FS_EmptySet
<1>2. Beacon[j] \in [round : Nat, value : Nat]
  <2> DEFINE R == [round : Nat, value : Nat]
  <2>1. Beacon \in Seq(R)
    BY BeaconAssumption
  <2> HIDE DEF R
  <2>2. Beacon[j] \in R
    BY <2>1, SMTT(30)
  <2> QED BY <2>2 DEF R
<1>3. Beacon[j].value \in Nat
  BY <1>2
<1>4. (Beacon[j].value % Cardinality(Node)) + 1 \in 1..Cardinality(Node)
  BY <1>1, <1>3, SMTT(30)
<1> QED BY <1>4, BeaconAssumption DEF proposer

\* The proposal state of a node is a record of the declared type.
LEMMA ProposalStateOf ==
  ASSUME TypeOK, NEW n \in Node
  PROVE  propsalState[n] \in ProposalState
BY DEF TypeOK

\* Assigning a proposal state to one node keeps the type of propsalState.
LEMMA SetProposalState ==
  ASSUME TypeOK, NEW n \in Node, NEW ps \in ProposalState,
         propsalState' = [propsalState EXCEPT ![n] = ps]
  PROVE  propsalState' \in [Node -> ProposalState]
BY DEF TypeOK

\* Clearing the votes, locks and onces of a round yields a proposal state.
LEMMA ClearRoundType ==
  ASSUME NEW ps \in ProposalState
  PROVE  ClearRound(ps) \in ProposalState
BY Zenon DEF ClearRound, ProposalState, Value

\* The part of startRound before the Sleep keeps the types of what it assigns.
LEMMA StartRoundType ==
  ASSUME TypeOK, NEW n \in Node, NEW g \in Goroutine, NEW inc \in BOOLEAN,
         NEW leader \in Node \cup {Empty}, startRound(n, g, inc, leader)
  PROVE  /\ propsalState' \in [Node -> ProposalState]
         /\ pc' \in [Node -> [Goroutine -> Location]]
         /\ timers' \in [Node -> SUBSET Step]
<1>1. propsalState[n] \in ProposalState /\ state[n] \in State
  BY DEF TypeOK
<1>2. ClearRound(propsalState[n]) \in ProposalState
  BY <1>1, ClearRoundType
<1>3. propsalState' \in [Node -> ProposalState]
  <2> DEFINE b == IF inc THEN propsalState[n].Block ELSE Undef
             round == IF inc THEN propsalState[n].Round + 1 ELSE 1
             step == propsalState'[n].Step
             ps == [ClearRound(propsalState[n]) EXCEPT
                      !.AmProposer = (leader = n), !.Height = state[n].Height + 1,
                      !.Round = round, !.Block = b, !.Step = step]
  <2>1. propsalState' = [propsalState EXCEPT ![n] = ps]
    BY <1>2 DEF TypeOK, startRound, ProposalState
  <2>2. b \in Value /\ round \in Nat /\ state[n].Height + 1 \in Nat
    BY <1>1, SMTT(30) DEF ProposalState, State, Value
  <2>3. step \in Step
    BY <1>2 DEF TypeOK, startRound, ProposalState, Step
  <2> HIDE DEF b, round, step
  <2>4. ps \in ProposalState
    BY Zenon, <1>2, <2>2, <2>3 DEF ProposalState
  <2> QED BY <2>1, <2>4 DEF TypeOK
<1>4. pc' \in [Node -> [Goroutine -> Location]]
  BY DEF TypeOK, startRound, Location
<1>5. timers' \in [Node -> SUBSET Step]
  BY DEF TypeOK, startRound, Step
<1> QED BY <1>3, <1>4, <1>5

\* What a node publishes through sendMsg is a message.
LEMMA SendMsgType ==
  ASSUME TypeOK, NEW n \in Node, NEW m \in Message, NEW ok, sendMsg(n, m, ok)
  PROVE  msgs' \subseteq Message
BY DEF TypeOK, sendMsg

LEMMA SendVoteType ==
  ASSUME TypeOK, NEW n \in Node, NEW t \in {"PreVote", "PreCommit"},
         NEW b \in Value \cup {Empty}, NEW ok, sendVote(n, t, b, ok)
  PROVE  msgs' \subseteq Message
BY Zenon, SendMsgType DEF TypeOK, sendVote, Msg, Message, MsgType, ProposalState

\* NewConsensus and Start set up values of the declared types.
LEMMA InitType == Init => TypeOK
<1> SUFFICES ASSUME Init PROVE TypeOK
  OBVIOUS
<1>1. state \in [Node -> State]
  BY ConsensusAssumption DEF Init, State, Value
<1>2. propsalState \in [Node -> ProposalState]
  BY ConsensusAssumption DEF Init, ProposalState, Step, Value
<1>3. tick \in [Node -> 0..Len(Beacon)]
  BY BeaconAssumption, SMTT(30) DEF Init
<1>4. pc \in [Node -> [Goroutine -> Location]]
  BY DEF Init, Location
<1> QED BY Zenon, <1>1, <1>2, <1>3, <1>4 DEF Init, TypeOK

\* Every action keeps the types of the Consensus struct.
LEMMA TypeStep == TypeOK /\ [Next]_vars => TypeOK'
<1> SUFFICES ASSUME TypeOK, [Next]_vars PROVE TypeOK'
  OBVIOUS
<1>0. CASE UNCHANGED vars
  BY <1>0 DEF vars, TypeOK
<1>1. ASSUME NEW n \in Node, watchProposer(n) PROVE TypeOK'
  <2>1. PICK j \in (tick[n] + 1)..Len(Beacon) :
          /\ RandomSource(j)
          /\ tick' = [tick EXCEPT ![n] = j]
          /\ state' = [state EXCEPT ![n].Proposer = proposer(j)]
          /\ startRound(n, "watchProposer", FALSE, proposer(j))
    BY Zenon, <1>1 DEF watchProposer
  <2>2. j \in 1..Len(Beacon) /\ proposer(j) \in Node
    BY BeaconAssumption, ProposerType, SMTT(30) DEF TypeOK
  <2>3. state' \in [Node -> State]
    BY ZenonT(60), <2>1, <2>2 DEF TypeOK, State
  <2>4. tick' \in [Node -> 0..Len(Beacon)]
    BY <2>1, <2>2, SMTT(30) DEF TypeOK
  <2>5. /\ propsalState' \in [Node -> ProposalState]
        /\ pc' \in [Node -> [Goroutine -> Location]]
        /\ timers' \in [Node -> SUBSET Step]
    BY Zenon, <2>1, <2>2, StartRoundType DEF Goroutine
  <2> QED BY <1>1, <2>3, <2>4, <2>5 DEF watchProposer, TypeOK
<1>2. ASSUME NEW n \in Node, NEW g \in Goroutine, announceRound(n, g) PROVE TypeOK'
  <2>1. PICK ok, read \in Outcome :
          /\ sendMsg(n, Msg("NewRound", n, propsalState[n].Height,
                            propsalState[n].Round, Undef), ok)
          /\ propsalState' = [propsalState EXCEPT ![n].f =
                               IF Sent(n, ok) /\ read THEN RequiredVotes ELSE @]
          /\ pc' = [pc EXCEPT ![n][g] =
                      IF Sent(n, ok) /\ read THEN "make" ELSE "idle"]
    BY Zenon, <1>2 DEF announceRound, sendNewRound
  <2>2. Msg("NewRound", n, propsalState[n].Height, propsalState[n].Round, Undef) \in Message
    BY DEF Msg, Message, MsgType, TypeOK, ProposalState, Value
  <2>3. msgs' \subseteq Message
    BY <2>1, <2>2, SendMsgType
  <2>4. [propsalState[n] EXCEPT !.f = IF Sent(n, ok) /\ read THEN RequiredVotes ELSE @]
           \in ProposalState
    BY RequiredVotesType, ProposalStateOf, SMTT(30) DEF ProposalState
  <2>5. propsalState' \in [Node -> ProposalState]
    BY <2>1, <2>4 DEF TypeOK
  <2>6. pc' \in [Node -> [Goroutine -> Location]]
    BY <2>1 DEF TypeOK, Location
  <2>7. timers' \in [Node -> SUBSET Step]
    BY <1>2 DEF announceRound, TypeOK, Step
  <2> QED BY <1>2, <2>3, <2>5, <2>6, <2>7 DEF announceRound, TypeOK
<1>3. ASSUME NEW n \in Node, NEW g \in Goroutine, proposeBlock(n, g) PROVE TypeOK'
  <2>1. pc' \in [Node -> [Goroutine -> Location]]
    BY Zenon, <1>3 DEF proposeBlock, TypeOK, Location
  <2>2. CASE UNCHANGED <<propsalState, blocks, msgs>>
    BY Zenon, <1>3, <2>1, <2>2 DEF proposeBlock, TypeOK
  <2>3. ASSUME NEW b \in Value, NEW ok \in Outcome,
               IF propsalState[n].Block = Undef
                 THEN makeBlock(n, b)
                 ELSE b = propsalState[n].Block /\ UNCHANGED blocks,
               sendMsg(n, Msg("Proposal", n, propsalState[n].Height,
                              propsalState[n].Round, b), ok),
               propsalState' = [propsalState EXCEPT ![n] =
                  [@ EXCEPT !.Block = b,
                            !.Step = IF Sent(n, ok) THEN "prevote" ELSE propsalState[n].Step]]
        PROVE  TypeOK'
    <3>1. Msg("Proposal", n, propsalState[n].Height, propsalState[n].Round, b) \in Message
      BY DEF Msg, Message, MsgType, TypeOK, ProposalState
    <3>2. msgs' \subseteq Message
      BY <2>3, <3>1, SendMsgType
    <3>3. propsalState[n] \in ProposalState
      BY ProposalStateOf
    <3>4. propsalState' \in [Node -> ProposalState]
      <4> DEFINE ps == [propsalState[n] EXCEPT
                          !.Block = b, !.Step = IF Sent(n, ok) THEN "prevote" ELSE propsalState[n].Step]
      <4>1. ps \in ProposalState
        BY Zenon, <3>3 DEF ProposalState, Step
      <4>2. propsalState' = [propsalState EXCEPT ![n] = ps]
        BY <2>3
      <4> HIDE DEF ps
      <4> QED BY Zenon, <4>1, <4>2, SetProposalState
    <3>5. blocks' \subseteq Header
      <4>1. CASE UNCHANGED blocks
        BY <4>1 DEF TypeOK
      <4>2. CASE /\ b \in Cid
                 /\ blocks' = blocks \cup
                      {[id |-> b, Height |-> propsalState[n].Height,
                        Parent |-> state[n].Block, Proposer |-> n]}
        <5>1. propsalState[n].Height \in Nat /\ state[n].Block \in Value \cup {Genesis}
          BY DEF TypeOK, ProposalState, State
        <5> QED BY <4>2, <5>1, SMTT(30) DEF TypeOK, Header
      <4> QED BY Zenon, <2>3, <4>1, <4>2 DEF makeBlock
    <3> QED BY Zenon, <1>3, <2>1, <3>2, <3>4, <3>5 DEF proposeBlock, TypeOK
  <2> QED BY Zenon, <1>3, <2>2, <2>3 DEF proposeBlock, sendProposal
<1>4. ASSUME NEW n \in Node, NEW m \in msgs, onNewRound(n, m) PROVE TypeOK'
  <2>1. ClearRound(propsalState[n]) \in ProposalState
    BY ClearRoundType DEF TypeOK
  <2>2. propsalState' \in [Node -> ProposalState]
    BY ZenonT(30), <1>4, <2>1 DEF onNewRound, TypeOK, ProposalState, Message, Step
  <2>3. timers' \in [Node -> SUBSET Step]
    BY <1>4 DEF onNewRound, TypeOK, Step
  <2> QED BY <1>4, <2>2, <2>3 DEF onNewRound, TypeOK
<1>5. ASSUME NEW n \in Node, NEW m \in msgs, onProposal(n, m) PROVE TypeOK'
  BY <1>5 DEF onProposal, TypeOK
<1>6. ASSUME NEW n \in Node, NEW m \in validating[n], onProposalVote(n, m) PROVE TypeOK'
  <2>1. PICK bc \in Value, ok \in Outcome :
          /\ validate(n, m, bc)
          /\ IF propsalState[n].pvOnce
             THEN UNCHANGED <<propsalState, timers, msgs>>
             ELSE /\ sendVote(n, "PreVote", bc, ok)
                  /\ propsalState' = [propsalState EXCEPT ![n] =
                       [@ EXCEPT !.pvOnce = TRUE, !.Block = bc,
                                 !.Step = IF Sent(n, ok) THEN "prevote" ELSE propsalState[n].Step]]
                  /\ timers' = [timers EXCEPT ![n] =
                       (@ \ {"propose"}) \cup
                         (IF Sent(n, ok) THEN {"prevote"} ELSE {})]
    BY Zenon, <1>6 DEF onProposalVote
  <2>2. validated' \in [Node -> SUBSET Cid]
    <3>1. CASE UNCHANGED validated
      BY <3>1 DEF TypeOK
    <3>2. CASE bc \in Cid /\ validated' = [validated EXCEPT ![n] = @ \cup {bc}]
      BY <3>2 DEF TypeOK
    <3> QED BY Zenon, <2>1, <3>1, <3>2 DEF validate
  <2>3. CASE UNCHANGED <<propsalState, timers, msgs>>
    BY Zenon, <1>6, <2>2, <2>3 DEF onProposalVote, TypeOK
  <2>4. CASE ~propsalState[n].pvOnce
    <3>1. /\ sendVote(n, "PreVote", bc, ok)
          /\ propsalState' = [propsalState EXCEPT ![n] =
               [@ EXCEPT !.pvOnce = TRUE, !.Block = bc,
                         !.Step = IF Sent(n, ok) THEN "prevote" ELSE propsalState[n].Step]]
          /\ timers' = [timers EXCEPT ![n] =
               (@ \ {"propose"}) \cup (IF Sent(n, ok) THEN {"prevote"} ELSE {})]
      BY <2>1, <2>4
    <3>2. msgs' \subseteq Message
      BY <3>1, SendVoteType
    <3>3. propsalState[n] \in ProposalState
      BY ProposalStateOf
    <3>4. propsalState' \in [Node -> ProposalState]
      <4> DEFINE ps == [propsalState[n] EXCEPT !.pvOnce = TRUE, !.Block = bc,
                          !.Step = IF Sent(n, ok) THEN "prevote" ELSE propsalState[n].Step]
      <4>1. ps \in ProposalState
        BY Zenon, <3>3 DEF ProposalState, Step
      <4>2. propsalState' = [propsalState EXCEPT ![n] = ps]
        BY <3>1
      <4> HIDE DEF ps
      <4> QED BY Zenon, <4>1, <4>2, SetProposalState
    <3>5. timers' \in [Node -> SUBSET Step]
      BY <3>1 DEF TypeOK, Step
    <3> QED BY Zenon, <1>6, <2>2, <3>2, <3>4, <3>5 DEF onProposalVote, TypeOK
  <2> QED BY <2>1, <2>3, <2>4
<1>7. ASSUME NEW n \in Node, NEW m \in msgs, onPreVote(n, m) PROVE TypeOK'
  <2> DEFINE votes == propsalState[n].PreVotes \cup {m.from}
  <2>1. propsalState[n] \in ProposalState /\ m.from \in Node
    BY ProposalStateOf DEF TypeOK, Message
  <2>2. voteTimers(n) \subseteq Step
    BY DEF voteTimers, TypeOK, Step
  <2>3. votes \subseteq Node
    BY <2>1 DEF ProposalState
  <2>4. ASSUME NEW ok \in Outcome,
               sendVote(n, "PreCommit", propsalState[n].Block, ok),
               propsalState' = [propsalState EXCEPT ![n] =
                 [@ EXCEPT !.PreVotes = votes, !.pcOnce = TRUE, !.Step = "precommit",
                           !.lockedValue = propsalState[n].Block,
                           !.lockedRound = propsalState[n].Round]],
               timers' = [timers EXCEPT ![n] = (voteTimers(n) \ {"prevote"}) \cup
                            (IF Sent(n, ok) THEN {"precommit"} ELSE {})]
        PROVE  TypeOK'
    <3> DEFINE ps == [propsalState[n] EXCEPT
                        !.PreVotes = votes, !.pcOnce = TRUE, !.Step = "precommit",
                        !.lockedValue = propsalState[n].Block,
                        !.lockedRound = propsalState[n].Round]
    <3>1. ps \in ProposalState
      BY Zenon, <2>1, <2>3 DEF ProposalState, Step
    <3>2. propsalState' = [propsalState EXCEPT ![n] = ps]
      BY <2>4
    <3> HIDE DEF ps
    <3>3. propsalState' \in [Node -> ProposalState]
      BY Zenon, <3>1, <3>2, SetProposalState
    <3>4. timers' \in [Node -> SUBSET Step]
      BY <2>2, <2>4 DEF TypeOK, Step
    <3>5. propsalState[n].Block \in Value \cup {Empty}
      BY <2>1 DEF ProposalState
    <3>6. msgs' \subseteq Message
      BY <2>4, <3>5, SendVoteType
    <3> QED BY <1>7, <3>3, <3>4, <3>6 DEF onPreVote, TypeOK
  <2>5. ASSUME propsalState' = [propsalState EXCEPT ![n].PreVotes = votes],
               timers' = [timers EXCEPT ![n] = voteTimers(n)], UNCHANGED msgs
        PROVE  TypeOK'
    <3>1. [propsalState[n] EXCEPT !.PreVotes = votes] \in ProposalState
      BY <2>1, <2>3 DEF ProposalState
    <3>2. propsalState' \in [Node -> ProposalState]
      BY <2>5, <3>1 DEF TypeOK
    <3>3. timers' \in [Node -> SUBSET Step]
      BY <2>2, <2>5 DEF TypeOK
    <3> QED BY <1>7, <2>5, <3>2, <3>3 DEF onPreVote, TypeOK
  <2> QED BY <1>7, <2>4, <2>5 DEF onPreVote
<1>8. ASSUME NEW n \in Node, NEW m \in msgs, onPreCommit(n, m) PROVE TypeOK'
  <2> DEFINE votes == propsalState[n].PreCommits \cup {m.from}
             quorum == Enough(votes, propsalState[n].f) /\ ~propsalState[n].sbOnce
             ps == [propsalState[n] EXCEPT !.PreCommits = votes,
                      !.sbOnce = propsalState[n].sbOnce \/ quorum,
                      !.Step = IF quorum THEN "block" ELSE propsalState[n].Step]
  <2>1. propsalState[n] \in ProposalState /\ m.from \in Node
    BY ProposalStateOf DEF TypeOK, Message
  <2>2. voteTimers(n) \subseteq Step
    BY DEF voteTimers, TypeOK, Step
  <2>3. votes \subseteq Node /\ quorum \in BOOLEAN
    BY <2>1 DEF ProposalState
  <2>4. /\ propsalState' = [propsalState EXCEPT ![n] = ps]
        /\ timers' = [timers EXCEPT ![n] =
             IF ~quorum THEN voteTimers(n)
             ELSE (voteTimers(n) \ {"precommit"}) \cup
                    (IF propsalState[n].AmProposer THEN {} ELSE {"block"})]
        /\ grace' = [grace EXCEPT ![n] =
             IF quorum /\ propsalState[n].AmProposer THEN @ + 1 ELSE @]
    BY <1>8 DEF onPreCommit
  <2> HIDE DEF votes, quorum
  <2>5. ps \in ProposalState
    BY Zenon, <2>1, <2>3 DEF ProposalState, Step
  <2> HIDE DEF ps
  <2>6. propsalState' \in [Node -> ProposalState]
    BY Zenon, <2>4, <2>5, SetProposalState
  <2>7. timers' \in [Node -> SUBSET Step]
    BY <2>2, <2>4 DEF TypeOK, Step
  <2>8. grace' \in [Node -> Nat]
    BY <2>4, SMTT(30) DEF TypeOK
  <2> QED BY <1>8, <2>6, <2>7, <2>8 DEF onPreCommit, TypeOK
<1>9. ASSUME NEW n \in Node, sendBlock(n) PROVE TypeOK'
  <2> DEFINE m == Msg("Block", n, propsalState[n].Height, propsalState[n].lockedRound,
                      propsalState[n].lockedValue)
  <2>1. propsalState[n] \in ProposalState
    BY ProposalStateOf
  <2>2. m \in Message
    BY <2>1 DEF Msg, Message, MsgType, ProposalState
  <2>3. grace' \in [Node -> Nat]
    BY <1>9, SMTT(30) DEF sendBlock, TypeOK
  <2>4. PICK ok, read \in Outcome :
          IF read /\ propsalState[n].PreCommits \subseteq SendBlockKeys /\ Sent(n, ok)
          THEN /\ sendMsg(n, m, ok)
               /\ selfBlock' = [selfBlock EXCEPT ![n] = @ \cup {m}]
          ELSE UNCHANGED <<msgs, selfBlock>>
    BY <1>9 DEF sendBlock
  <2> HIDE DEF m
  <2>5. CASE UNCHANGED <<msgs, selfBlock>>
    BY <1>9, <2>3, <2>5 DEF sendBlock, TypeOK
  <2>6. CASE sendMsg(n, m, ok) /\ selfBlock' = [selfBlock EXCEPT ![n] = @ \cup {m}]
    <3>1. selfBlock' \in [Node -> SUBSET Message]
      BY <2>2, <2>6 DEF TypeOK
    <3>2. msgs' \subseteq Message
      BY <2>2, <2>6, SendMsgType
    <3> QED BY <1>9, <2>3, <3>1, <3>2 DEF sendBlock, TypeOK
  <2> QED BY <2>4, <2>5, <2>6
<1>10. ASSUME NEW n \in Node, applyBlock(n)
       PROVE  state' \in [Node -> State] /\ timers' \in [Node -> SUBSET Step]
  <2>1. propsalState[n] \in ProposalState /\ state[n] \in State
    BY DEF TypeOK
  <2>2. [state[n] EXCEPT !.Height = propsalState[n].Height,
                         !.ParentBlock = state[n].Block,
                         !.Block = propsalState[n].lockedValue] \in State
    BY Zenon, <2>1 DEF State, ProposalState
  <2> QED BY <1>10, <2>2 DEF applyBlock, TypeOK
<1>11. ASSUME NEW n \in Node, NEW m \in msgs, onBlock(n, m) PROVE TypeOK'
  BY <1>10, <1>11 DEF onBlock, TypeOK
<1>12. ASSUME NEW n \in Node, NEW m \in selfBlock[n], onOwnBlock(n, m) PROVE TypeOK'
  BY <1>10, <1>12 DEF onOwnBlock, TypeOK
<1>13. ASSUME NEW n \in Node, NEW t \in timers[n], timerTick(n, t) PROVE TypeOK'
  BY Zenon, <1>13 DEF timerTick, TypeOK, Location
<1>14. ASSUME NEW n \in Node, onTimeoutProposal(n) PROVE TypeOK'
  <2>1. propsalState[n] \in ProposalState
    BY ProposalStateOf
  <2>2. pc' \in [Node -> [Goroutine -> Location]]
    BY Zenon, <1>14 DEF onTimeoutProposal, TypeOK, Location
  <2>3. CASE Stale(n, "propose")
    BY <1>14, <2>2, <2>3 DEF onTimeoutProposal, TypeOK
  <2>4. CASE ~Stale(n, "propose")
    <3> DEFINE ps == [propsalState[n] EXCEPT !.Step = "prevote", !.pvOnce = TRUE]
    <3>1. ps \in ProposalState
      BY Zenon, <2>1 DEF ProposalState, Step
    <3>2. propsalState' = [propsalState EXCEPT ![n] = ps]
      BY <1>14, <2>4 DEF onTimeoutProposal
    <3> HIDE DEF ps
    <3>3. propsalState' \in [Node -> ProposalState]
      BY Zenon, <3>1, <3>2, SetProposalState
    <3>4. CASE UNCHANGED <<timers, msgs>>
      BY <1>14, <2>2, <3>3, <3>4 DEF onTimeoutProposal, TypeOK
    <3>5. ASSUME NEW ok \in Outcome, sendVote(n, "PreVote", Empty, ok),
                 timers' = [timers EXCEPT ![n] = @ \cup {"prevote"}]
          PROVE  TypeOK'
      <4>1. msgs' \subseteq Message
        BY <3>5, SendVoteType
      <4>2. timers' \in [Node -> SUBSET Step]
        BY <3>5 DEF TypeOK, Step
      <4> QED BY <1>14, <2>2, <3>3, <4>1, <4>2 DEF onTimeoutProposal, TypeOK
    <3> QED BY <1>14, <2>4, <3>4, <3>5 DEF onTimeoutProposal
  <2> QED BY <2>3, <2>4
<1>15. ASSUME NEW n \in Node, onTimeoutPrevote(n) PROVE TypeOK'
  <2>1. propsalState[n] \in ProposalState
    BY ProposalStateOf
  <2>2. pc' \in [Node -> [Goroutine -> Location]]
    BY Zenon, <1>15 DEF onTimeoutPrevote, TypeOK, Location
  <2>3. CASE Stale(n, "prevote")
    BY <1>15, <2>2, <2>3 DEF onTimeoutPrevote, TypeOK
  <2>4. CASE ~Stale(n, "prevote")
    <3> DEFINE ps == [propsalState[n] EXCEPT !.Step = "precommit", !.pcOnce = TRUE]
    <3>1. ps \in ProposalState
      BY Zenon, <2>1 DEF ProposalState, Step
    <3>2. propsalState' = [propsalState EXCEPT ![n] = ps]
      BY <1>15, <2>4 DEF onTimeoutPrevote
    <3> HIDE DEF ps
    <3>3. propsalState' \in [Node -> ProposalState]
      BY Zenon, <3>1, <3>2, SetProposalState
    <3>4. CASE UNCHANGED <<timers, msgs>>
      BY <1>15, <2>2, <3>3, <3>4 DEF onTimeoutPrevote, TypeOK
    <3>5. ASSUME NEW ok \in Outcome, sendVote(n, "PreCommit", Empty, ok),
                 timers' = [timers EXCEPT ![n] = @ \cup {"precommit"}]
          PROVE  TypeOK'
      <4>1. msgs' \subseteq Message
        BY <3>5, SendVoteType
      <4>2. timers' \in [Node -> SUBSET Step]
        BY <3>5 DEF TypeOK, Step
      <4> QED BY <1>15, <2>2, <3>3, <4>1, <4>2 DEF onTimeoutPrevote, TypeOK
    <3> QED BY <1>15, <2>4, <3>4, <3>5 DEF onTimeoutPrevote
  <2> QED BY <2>3, <2>4
<1>16. ASSUME NEW n \in Node, onTimeoutPrecommit(n) PROVE TypeOK'
  <2>1. state[n].Proposer \in Node \cup {Empty}
    BY DEF TypeOK, State
  <2> QED BY Zenon, <1>16, <2>1, StartRoundType DEF onTimeoutPrecommit, TypeOK, Goroutine
<1>17. ASSUME NEW n \in Node, onTimeoutBlock(n) PROVE TypeOK'
  BY Zenon, <1>17 DEF onTimeoutBlock, TypeOK, Location
<1> QED
  BY <1>0, <1>1, <1>2, <1>3, <1>4, <1>5, <1>6, <1>7, <1>8, <1>9, <1>11, <1>12,
     <1>13, <1>14, <1>15, <1>16, <1>17 DEF Next, NodeNext, Receive, watchTimeouts

\* The variables of the Consensus struct keep their declared types, whatever the
\* interleaving of the node's goroutines and the order in which messages arrive.
THEOREM TypeCorrect == Spec => []TypeOK
<1>1. Init => TypeOK
  BY InitType
<1> QED BY <1>1, TypeStep, PTL DEF Spec

-----------------------------------------------------------------------------
\* The kinds of step the invariants tell apart

\* nothing of a node other than n changes
Others(n) ==
  \A p \in Node \ {n} :
    /\ propsalState'[p] = propsalState[p]
    /\ state'[p] = state[p]
    /\ validating'[p] = validating[p]
    /\ grace'[p] = grace[p]
    /\ pc'[p] = pc[p]

\* messages, blocks and verdicts are never taken back, the beacon only advances
Grows ==
  /\ msgs \subseteq msgs'
  /\ blocks \subseteq blocks'
  /\ \A p \in Node : validated[p] \subseteq validated'[p] /\ tick[p] <= tick'[p]

\* n starts a round with no votes and no lock
Clears(n) ==
  LET ps == propsalState[n]
  IN /\ propsalState'[n].lockedValue = Undef
     /\ propsalState'[n].PreVotes = {} /\ propsalState'[n].PreCommits = {}
     /\ propsalState'[n].sbOnce = FALSE
     /\ propsalState'[n].Step \in {"propose", "prevote"}
     /\ propsalState'[n].Block \in {ps.Block, Undef}

\* n stays in its round, with its votes and its lock; the block may change only
\* when none is locked
Keeps(n) ==
  LET ps == propsalState[n]
  IN /\ propsalState'[n].Height = ps.Height /\ propsalState'[n].Round = ps.Round
     /\ propsalState'[n].lockedValue = ps.lockedValue
     /\ propsalState'[n].lockedRound = ps.lockedRound
     /\ propsalState'[n].PreVotes = ps.PreVotes
     /\ propsalState'[n].PreCommits = ps.PreCommits
     /\ propsalState'[n].sbOnce = ps.sbOnce
     /\ propsalState'[n].Step \in {"propose", "block"} => propsalState'[n].Step = ps.Step
     /\ ps.pcOnce => propsalState'[n].pcOnce
     /\ propsalState'[n].Step = "precommit" /\ ps.Step # "precommit" =>
          propsalState'[n].pcOnce
     /\ \/ propsalState'[n].Block = ps.Block
        \/ /\ ps.lockedValue \notin Cid
           /\ propsalState'[n].Block \in Cid => propsalState'[n].Block \in Held(n)'
     /\ validating'[n] # {} => validating[n] # {} \/ ps.Step = "propose"

\* the invariants about the round a node is in
RoundAt(n) == DisciplineAt(n) /\ LockBackedAt(n) /\ BlockHeldAt(n) /\ CountedAt(n)

\* Blocks a node may stand for are never taken from it.
LEMMA HeldGrows ==
  ASSUME Grows, NEW p \in Node
  PROVE  Held(p) \subseteq Held(p)'
BY DEF Grows, Held

\* A step that at most publishes takes nothing back.
LEMMA PublishGrows ==
  ASSUME TypeOK, msgs \subseteq msgs', UNCHANGED <<blocks, validated, tick>>
  PROVE  Grows
BY SMTT(30) DEF Grows, TypeOK

\* A vote that was sent stays sent.
LEMMA SentVoteGrows ==
  ASSUME Grows
  PROVE  \A v, t, h, r : SentVote(v, t, h, r) => SentVote(v, t, h, r)'
BY DEF Grows, SentVote, SentVoteFor

\* A node that takes no part in a step keeps its round invariants.
LEMMA OthersKeepRound ==
  ASSUME Grows, NEW n \in Node, Others(n), NEW p \in Node \ {n}, RoundAt(p)
  PROVE  RoundAt(p)'
<1>1. propsalState'[p] = propsalState[p] /\ validating'[p] = validating[p]
  BY DEF Others
<1>2. DisciplineAt(p)'
  BY <1>1 DEF RoundAt, DisciplineAt, SentVoteFor, Grows
<1>3. LockBackedAt(p)'
  BY <1>1 DEF RoundAt, LockBackedAt, SentVoteFor, Grows
<1>4. BlockHeldAt(p)'
  BY <1>1, HeldGrows DEF RoundAt, BlockHeldAt
<1>5. CountedAt(p)'
  BY <1>1, SentVoteGrows DEF RoundAt, CountedAt
<1> QED BY <1>2, <1>3, <1>4, <1>5 DEF RoundAt

\* A node that clears its round has nothing left to justify but its block.
LEMMA ClearsKeepsRound ==
  ASSUME Grows, NEW n \in Node, RoundAt(n), Clears(n)
  PROVE  RoundAt(n)'
<1>1. DisciplineAt(n)'
  BY ConsensusAssumption DEF DisciplineAt, Clears
<1>2. LockBackedAt(n)'
  BY ConsensusAssumption DEF LockBackedAt, Clears
<1>3. BlockHeldAt(n)'
  BY ConsensusAssumption, HeldGrows DEF RoundAt, BlockHeldAt, Clears
<1>4. CountedAt(n)'
  BY DEF CountedAt, Clears
<1> QED BY <1>1, <1>2, <1>3, <1>4 DEF RoundAt

\* A node that stays in its round keeps what stands behind its votes and its lock.
LEMMA KeepsKeepsRound ==
  ASSUME Grows, NEW n \in Node, RoundAt(n), Keeps(n)
  PROVE  RoundAt(n)'
<1>1. DisciplineAt(n)'
  BY DEF RoundAt, DisciplineAt, Keeps, SentVoteFor, Grows
<1>2. LockBackedAt(n)'
  BY ZenonT(30) DEF RoundAt, LockBackedAt, Keeps, SentVoteFor, Grows
<1>3. BlockHeldAt(n)'
  BY HeldGrows DEF RoundAt, BlockHeldAt, Keeps
<1>4. CountedAt(n)'
  <2>1. /\ propsalState'[n].PreVotes = propsalState[n].PreVotes
        /\ propsalState'[n].PreCommits = propsalState[n].PreCommits
        /\ propsalState'[n].Height = propsalState[n].Height
        /\ propsalState'[n].Round = propsalState[n].Round
    BY Zenon DEF Keeps
  <2> QED BY <2>1, SentVoteGrows DEF RoundAt, CountedAt
<1> QED BY <1>1, <1>2, <1>3, <1>4 DEF RoundAt

\* Each action touches the state of one node and only adds to what is shared.
LEMMA StepFrame ==
  ASSUME TypeOK, NEW n \in Node, NodeNext(n)
  PROVE  Others(n) /\ Grows
<1>1. ASSUME watchProposer(n) PROVE Others(n) /\ Grows
  BY <1>1, SMTT(30) DEF watchProposer, startRound, Others, Grows, TypeOK
<1>2. ASSUME NEW g \in Goroutine, announceRound(n, g) PROVE Others(n) /\ Grows
  <2>1. Others(n)
    BY <1>2 DEF announceRound, Others, TypeOK
  <2>2. msgs \subseteq msgs' /\ UNCHANGED <<blocks, validated, tick>>
    BY <1>2 DEF announceRound, sendNewRound, sendMsg
  <2> QED BY <2>1, <2>2, PublishGrows
<1>3. ASSUME NEW g \in Goroutine, proposeBlock(n, g) PROVE Others(n) /\ Grows
  <2>1. Others(n)
    BY Zenon, <1>3 DEF proposeBlock, Others, TypeOK
  <2>2. msgs \subseteq msgs' /\ blocks \subseteq blocks'
    BY Zenon, <1>3 DEF proposeBlock, makeBlock, sendProposal, sendMsg
  <2>3. \A p \in Node : validated[p] \subseteq validated'[p] /\ tick[p] <= tick'[p]
    <3>1. UNCHANGED <<validated, tick>>
      BY Zenon, <1>3 DEF proposeBlock
    <3> QED BY <3>1, SMTT(30) DEF TypeOK
  <2> QED BY <2>1, <2>2, <2>3 DEF Grows
<1>4. ASSUME NEW m \in msgs, onNewRound(n, m) PROVE Others(n) /\ Grows
  <2>1. Others(n)
    BY <1>4 DEF onNewRound, Others, TypeOK
  <2>2. msgs \subseteq msgs' /\ UNCHANGED <<blocks, validated, tick>>
    BY <1>4 DEF onNewRound
  <2> QED BY <2>1, <2>2, PublishGrows
<1>5. ASSUME NEW m \in msgs, onProposal(n, m) PROVE Others(n) /\ Grows
  <2>1. Others(n)
    BY <1>5 DEF onProposal, Others, TypeOK
  <2>2. msgs \subseteq msgs' /\ UNCHANGED <<blocks, validated, tick>>
    BY <1>5 DEF onProposal
  <2> QED BY <2>1, <2>2, PublishGrows
<1>6. ASSUME NEW m \in validating[n], onProposalVote(n, m) PROVE Others(n) /\ Grows
  <2>1. Others(n)
    BY <1>6 DEF onProposalVote, Others, TypeOK
  <2>2. msgs \subseteq msgs' /\ blocks \subseteq blocks'
    BY <1>6 DEF onProposalVote, validate, sendVote, sendMsg
  <2>3. \A p \in Node : validated[p] \subseteq validated'[p] /\ tick[p] <= tick'[p]
    <3>1. UNCHANGED tick
      BY <1>6 DEF onProposalVote
    <3>2. \/ UNCHANGED validated
          \/ \E bc \in Cid : validated' = [validated EXCEPT ![n] = @ \cup {bc}]
      BY Zenon, <1>6 DEF onProposalVote, validate
    <3>3. \A p \in Node : tick[p] <= tick'[p]
      BY <3>1, SMTT(30) DEF TypeOK
    <3>4. \A p \in Node : validated[p] \subseteq validated'[p]
      BY Zenon, <3>2 DEF TypeOK
    <3> QED BY <3>3, <3>4
  <2> QED BY <2>1, <2>2, <2>3 DEF Grows
<1>7. ASSUME NEW m \in msgs, onPreVote(n, m) PROVE Others(n) /\ Grows
  <2>1. Others(n)
    BY <1>7 DEF onPreVote, Others, TypeOK
  <2>2. msgs \subseteq msgs' /\ UNCHANGED <<blocks, validated, tick>>
    BY <1>7 DEF onPreVote, sendVote, sendMsg
  <2> QED BY <2>1, <2>2, PublishGrows
<1>8. ASSUME NEW m \in msgs, onPreCommit(n, m) PROVE Others(n) /\ Grows
  <2>1. Others(n)
    BY <1>8 DEF onPreCommit, Others, TypeOK
  <2>2. msgs \subseteq msgs' /\ UNCHANGED <<blocks, validated, tick>>
    BY <1>8 DEF onPreCommit
  <2> QED BY <2>1, <2>2, PublishGrows
<1>9. ASSUME sendBlock(n) PROVE Others(n) /\ Grows
  <2>1. Others(n)
    BY <1>9 DEF sendBlock, Others, TypeOK
  <2>2. msgs \subseteq msgs' /\ UNCHANGED <<blocks, validated, tick>>
    BY <1>9 DEF sendBlock, sendMsg
  <2> QED BY <2>1, <2>2, PublishGrows
<1>10. ASSUME NEW m \in msgs, onBlock(n, m) PROVE Others(n) /\ Grows
  <2>1. Others(n)
    BY <1>10 DEF onBlock, applyBlock, Others, TypeOK
  <2>2. msgs \subseteq msgs' /\ UNCHANGED <<blocks, validated, tick>>
    BY <1>10 DEF onBlock, applyBlock
  <2> QED BY <2>1, <2>2, PublishGrows
<1>11. ASSUME NEW m \in selfBlock[n], onOwnBlock(n, m) PROVE Others(n) /\ Grows
  <2>1. Others(n)
    BY <1>11 DEF onOwnBlock, applyBlock, Others, TypeOK
  <2>2. msgs \subseteq msgs' /\ UNCHANGED <<blocks, validated, tick>>
    BY <1>11 DEF onOwnBlock, applyBlock
  <2> QED BY <2>1, <2>2, PublishGrows
<1>12. ASSUME NEW t \in timers[n], timerTick(n, t) PROVE Others(n) /\ Grows
  <2>1. Others(n)
    BY <1>12 DEF timerTick, Others, TypeOK
  <2>2. msgs \subseteq msgs' /\ UNCHANGED <<blocks, validated, tick>>
    BY <1>12 DEF timerTick
  <2> QED BY <2>1, <2>2, PublishGrows
<1>13. ASSUME onTimeoutProposal(n) PROVE Others(n) /\ Grows
  <2>1. Others(n)
    BY <1>13 DEF onTimeoutProposal, Others, TypeOK
  <2>2. msgs \subseteq msgs' /\ UNCHANGED <<blocks, validated, tick>>
    BY <1>13 DEF onTimeoutProposal, sendVote, sendMsg
  <2> QED BY <2>1, <2>2, PublishGrows
<1>14. ASSUME onTimeoutPrevote(n) PROVE Others(n) /\ Grows
  <2>1. Others(n)
    BY <1>14 DEF onTimeoutPrevote, Others, TypeOK
  <2>2. msgs \subseteq msgs' /\ UNCHANGED <<blocks, validated, tick>>
    BY <1>14 DEF onTimeoutPrevote, sendVote, sendMsg
  <2> QED BY <2>1, <2>2, PublishGrows
<1>15. ASSUME onTimeoutPrecommit(n) PROVE Others(n) /\ Grows
  <2>1. Others(n)
    BY <1>15 DEF onTimeoutPrecommit, startRound, Others, TypeOK
  <2>2. msgs \subseteq msgs' /\ UNCHANGED <<blocks, validated, tick>>
    BY <1>15 DEF onTimeoutPrecommit, startRound
  <2> QED BY <2>1, <2>2, PublishGrows
<1>16. ASSUME onTimeoutBlock(n) PROVE Others(n) /\ Grows
  <2>1. Others(n)
    BY <1>16 DEF onTimeoutBlock, Others, TypeOK
  <2>2. msgs \subseteq msgs' /\ UNCHANGED <<blocks, validated, tick>>
    BY <1>16 DEF onTimeoutBlock
  <2> QED BY <2>1, <2>2, PublishGrows
<1> QED BY <1>1, <1>2, <1>3, <1>4, <1>5, <1>6, <1>7, <1>8, <1>9,
  <1>10, <1>11, <1>12, <1>13, <1>14, <1>15, <1>16
  DEF NodeNext, Receive, watchTimeouts

\* startRound leaves no vote and no lock behind.
LEMMA StartRoundClears ==
  ASSUME TypeOK, NEW n \in Node, NEW g \in Goroutine, NEW inc \in BOOLEAN,
         NEW leader, startRound(n, g, inc, leader)
  PROVE  Clears(n)
<1>1. propsalState[n] \in ProposalState
  BY ProposalStateOf
<1> QED BY <1>1 DEF startRound, ClearRound, Clears, TypeOK, ProposalState

\* A prevote that is counted was cast for this round; the one that completes the
\* threshold stands behind the lock.
LEMMA PreVoteKeepsRound ==
  ASSUME TypeOK, Grows, NEW n \in Node, RoundAt(n), NEW m \in msgs, onPreVote(n, m)
  PROVE  RoundAt(n)'
<1> DEFINE ps == propsalState[n]
           votes == ps.PreVotes \cup {m.from}
<1>1. ps \in ProposalState /\ m \in Message
  BY ProposalStateOf DEF TypeOK
<1>2. /\ m.type = "PreVote" /\ m.from # n /\ validating[n] = {}
      /\ m.height = ps.Height /\ m.round = ps.Round /\ m.block = ps.Block
      /\ ps.Step = "prevote" /\ UNCHANGED validating
  BY DEF onPreVote, onVote, onMsg, Msgs
<1>3. m.from \in Node /\ SentVoteFor(m.from, "PreVote", ps.Height, ps.Round, ps.Block)
  BY <1>1, <1>2 DEF Message, SentVoteFor, Msg
<1>4. ASSUME NEW st \in ProposalState, propsalState'[n] = st,
             st.Height = ps.Height, st.Round = ps.Round, st.PreVotes = votes,
             st.PreCommits = ps.PreCommits
      PROVE  CountedAt(n)'
  <2>1. SentVote(m.from, "PreVote", ps.Height, ps.Round)
    BY <1>1, <1>3 DEF SentVote, ProposalState
  <2>2. \A v \in votes : v # n /\ SentVote(v, "PreVote", ps.Height, ps.Round)
    BY <1>2, <2>1 DEF CountedAt, RoundAt
  <2>3. \A v \in ps.PreCommits : v # n /\ SentVote(v, "PreCommit", ps.Height, ps.Round)
    BY DEF CountedAt, RoundAt
  <2> QED BY <1>4, <2>2, <2>3, SentVoteGrows DEF CountedAt
<1>5. ASSUME NEW st \in ProposalState, propsalState'[n] = st, st.Block = ps.Block
      PROVE  BlockHeldAt(n)'
  BY <1>5, HeldGrows DEF BlockHeldAt, RoundAt
<1>6. CASE Enough(votes, ps.f) /\ ~ps.pcOnce
  <2> DEFINE st == [ps EXCEPT !.PreVotes = votes, !.pcOnce = TRUE,
                              !.Step = "precommit",
                              !.lockedValue = ps.Block, !.lockedRound = ps.Round]
  <2>1. propsalState' = [propsalState EXCEPT ![n] = st]
    BY <1>6 DEF onPreVote
  <2>2. propsalState'[n] = st
    BY <2>1 DEF TypeOK
  <2>3. /\ st.Height = ps.Height /\ st.Round = ps.Round /\ st.Block = ps.Block
        /\ st.PreVotes = votes /\ st.PreCommits = ps.PreCommits
        /\ st.Step = "precommit" /\ st.pcOnce = TRUE /\ st.sbOnce = ps.sbOnce
        /\ st.lockedValue = ps.Block /\ st.lockedRound = ps.Round
        /\ st \in ProposalState
    BY ZenonT(30), <1>1, <1>3 DEF ProposalState, Step
  <2> HIDE DEF st
  <2>4. ps.sbOnce = FALSE
    BY <1>1, <1>6 DEF RoundAt, DisciplineAt, ProposalState
  <2>5. DisciplineAt(n)'
    BY <1>2, <2>2, <2>3, <2>4 DEF DisciplineAt
  <2>6. LockBackedAt(n)'
    BY <1>2, <1>3, <2>2, <2>3 DEF LockBackedAt, SentVoteFor, Grows
  <2> QED BY <1>4, <1>5, <2>2, <2>3, <2>5, <2>6 DEF RoundAt
<1>7. CASE ~(Enough(votes, ps.f) /\ ~ps.pcOnce)
  <2> DEFINE st == [ps EXCEPT !.PreVotes = votes]
  <2>1. propsalState' = [propsalState EXCEPT ![n] = st]
    BY <1>7 DEF onPreVote
  <2>2. propsalState'[n] = st
    BY <2>1 DEF TypeOK
  <2>3. /\ st.Height = ps.Height /\ st.Round = ps.Round /\ st.Block = ps.Block
        /\ st.PreVotes = votes /\ st.PreCommits = ps.PreCommits
        /\ st.Step = ps.Step /\ st.pcOnce = ps.pcOnce /\ st.sbOnce = ps.sbOnce
        /\ st.lockedValue = ps.lockedValue /\ st.lockedRound = ps.lockedRound
        /\ st \in ProposalState
    BY <1>1, <1>3 DEF ProposalState, Step
  <2> HIDE DEF st
  <2>4. DisciplineAt(n)'
    BY <1>2, <2>2, <2>3 DEF RoundAt, DisciplineAt, SentVoteFor, Grows
  <2>5. LockBackedAt(n)'
    BY <2>2, <2>3 DEF RoundAt, LockBackedAt, SentVoteFor, Grows
  <2> QED BY <1>4, <1>5, <2>2, <2>3, <2>4, <2>5 DEF RoundAt
<1> QED BY <1>6, <1>7

\* A precommit that is counted was cast for this round; the one that completes the
\* threshold stands behind the block that is going to be applied.
LEMMA PreCommitKeepsRound ==
  ASSUME TypeOK, Grows, NEW n \in Node, RoundAt(n), NEW m \in msgs, onPreCommit(n, m)
  PROVE  RoundAt(n)'
<1> DEFINE ps == propsalState[n]
           votes == ps.PreCommits \cup {m.from}
           quorum == Enough(votes, ps.f) /\ ~ps.sbOnce
           st == [ps EXCEPT !.PreCommits = votes, !.sbOnce = ps.sbOnce \/ quorum,
                            !.Step = IF quorum THEN "block" ELSE ps.Step]
<1>1. ps \in ProposalState /\ m \in Message
  BY ProposalStateOf DEF TypeOK
<1>2. /\ m.type = "PreCommit" /\ m.from # n /\ validating[n] = {}
      /\ m.height = ps.Height /\ m.round = ps.Round /\ m.block = ps.Block
      /\ ps.Step = "precommit" /\ UNCHANGED validating
      /\ propsalState' = [propsalState EXCEPT ![n] = st]
  BY DEF onPreCommit, onVote, onMsg, Msgs
<1>3. m.from \in Node /\ SentVoteFor(m.from, "PreCommit", ps.Height, ps.Round, ps.Block)
  BY <1>1, <1>2 DEF Message, SentVoteFor, Msg
<1>4. propsalState'[n] = st
  BY <1>2 DEF TypeOK
<1>5. quorum \in BOOLEAN
  OBVIOUS
<1> HIDE DEF quorum
<1>6. /\ st.Height = ps.Height /\ st.Round = ps.Round /\ st.Block = ps.Block
      /\ st.PreVotes = ps.PreVotes /\ st.PreCommits = votes
      /\ st.pcOnce = ps.pcOnce
      /\ st.lockedValue = ps.lockedValue /\ st.lockedRound = ps.lockedRound
      /\ st.sbOnce = (ps.sbOnce \/ quorum)
      /\ st.Step = IF quorum THEN "block" ELSE ps.Step
  BY <1>1 DEF ProposalState
<1> HIDE DEF st
<1>7. ps.pcOnce /\ (ps.lockedValue \in Cid => ps.Block = ps.lockedValue)
  BY <1>2 DEF RoundAt, DisciplineAt, LockBackedAt
<1>8. DisciplineAt(n)'
  <2>1. CASE quorum
    BY Zenon, <1>2, <1>3, <1>4, <1>6, <1>7, <2>1 DEF DisciplineAt, SentVoteFor, Grows
  <2>2. CASE ~quorum
    BY ZenonT(30), <1>2, <1>4, <1>5, <1>6, <2>2 DEF RoundAt, DisciplineAt, SentVoteFor, Grows
  <2> QED BY <2>1, <2>2
<1>9. LockBackedAt(n)'
  BY ZenonT(30), <1>4, <1>6 DEF RoundAt, LockBackedAt, SentVoteFor, Grows
<1>10. BlockHeldAt(n)'
  BY <1>4, <1>6, HeldGrows DEF RoundAt, BlockHeldAt
<1>11. CountedAt(n)'
  <2>1. SentVote(m.from, "PreCommit", ps.Height, ps.Round)
    BY <1>1, <1>3 DEF SentVote, ProposalState
  <2>2. \A v \in votes : v # n /\ SentVote(v, "PreCommit", ps.Height, ps.Round)
    BY <1>2, <2>1 DEF CountedAt, RoundAt
  <2>3. \A v \in ps.PreVotes : v # n /\ SentVote(v, "PreVote", ps.Height, ps.Round)
    BY DEF CountedAt, RoundAt
  <2> QED BY <1>4, <1>6, <2>2, <2>3, SentVoteGrows DEF CountedAt
<1> QED BY <1>8, <1>9, <1>10, <1>11 DEF RoundAt

\* The acting node keeps its round invariants, action by action.
LEMMA RoundStep ==
  ASSUME TypeOK, NEW n \in Node, NodeNext(n), RoundAt(n)
  PROVE  RoundAt(n)'
<1> USE ClearsKeepsRound, KeepsKeepsRound
<1>0. Grows
  BY StepFrame
<1>a. propsalState[n] \in ProposalState
  BY ProposalStateOf
<1>1. CASE watchProposer(n)
  <2>1. Clears(n)
    BY Zenon, <1>1, StartRoundClears DEF watchProposer, Goroutine
  <2> QED BY <1>0, <2>1
<1>2. ASSUME NEW g \in Goroutine, announceRound(n, g) PROVE RoundAt(n)'
  <2>1. Keeps(n)
    BY <1>2, <1>a, SMTT(30) DEF announceRound, Keeps, TypeOK, ProposalState
  <2> QED BY <1>0, <2>1
<1>3. ASSUME NEW g \in Goroutine, proposeBlock(n, g) PROVE RoundAt(n)'
  <2>1. Keeps(n)
    <3>1. CASE UNCHANGED propsalState
      BY Zenon, <1>3, <3>1 DEF proposeBlock, Keeps
    <3>2. ASSUME NEW b \in Value, NEW step \in {"prevote", propsalState[n].Step},
                 IF propsalState[n].Block = Undef
                   THEN makeBlock(n, b) ELSE b = propsalState[n].Block,
                 propsalState' = [propsalState EXCEPT ![n] =
                                    [@ EXCEPT !.Block = b, !.Step = step]]
          PROVE  Keeps(n)
      <4>1. propsalState[n].Block = Undef => propsalState[n].lockedValue \notin Cid
        BY ZenonT(30), ConsensusAssumption DEF RoundAt, LockBackedAt
      <4>2. propsalState[n].Block = Undef /\ b \in Cid => b \in Held(n)'
        <5> DEFINE h == [id |-> b, Height |-> propsalState[n].Height,
                         Parent |-> state[n].Block, Proposer |-> n]
        <5> SUFFICES ASSUME propsalState[n].Block = Undef, b \in Cid PROVE b \in Held(n)'
          OBVIOUS
        <5>1. h \in blocks'
          BY Zenon, <3>2, ConsensusAssumption DEF makeBlock
        <5>2. h.id = b /\ h.Proposer = n
          OBVIOUS
        <5> HIDE DEF h
        <5> QED BY <5>1, <5>2 DEF Held
      <4>3. UNCHANGED validating
        BY Zenon, <1>3 DEF proposeBlock
      <4> QED BY <1>a, <3>2, <4>1, <4>2, <4>3 DEF Keeps, TypeOK, ProposalState
    <3> QED BY Zenon, <1>3, <3>1, <3>2 DEF proposeBlock
  <2> QED BY <1>0, <2>1
<1>4. ASSUME NEW m \in msgs, onNewRound(n, m) PROVE RoundAt(n)'
  <2>1. Clears(n)
    BY <1>4, <1>a DEF onNewRound, ClearRound, Clears, TypeOK, ProposalState
  <2> QED BY <1>0, <2>1
<1>5. ASSUME NEW m \in msgs, onProposal(n, m) PROVE RoundAt(n)'
  <2>1. Keeps(n)
    BY ZenonT(30), <1>5 DEF onProposal, Keeps
  <2> QED BY <1>0, <2>1
<1>6. ASSUME NEW m \in validating[n], onProposalVote(n, m) PROVE RoundAt(n)'
  <2>1. Keeps(n)
    <3>1. CASE UNCHANGED propsalState
      BY <1>6, <3>1 DEF onProposalVote, Keeps, TypeOK
    <3>2. ASSUME NEW bc \in Value, NEW step \in {"prevote", propsalState[n].Step},
                 validate(n, m, bc),
                 propsalState' = [propsalState EXCEPT ![n] =
                    [@ EXCEPT !.pvOnce = TRUE, !.Block = bc, !.Step = step]]
          PROVE  Keeps(n)
      <4>1. propsalState[n].lockedValue \notin Cid
        BY ZenonT(30), ConsensusAssumption DEF RoundAt, DisciplineAt
      <4>2. bc \in Cid => bc \in Held(n)'
        <5> SUFFICES ASSUME bc \in Cid PROVE bc \in Held(n)'
          OBVIOUS
        <5>1. validated' = [validated EXCEPT ![n] = @ \cup {bc}]
          BY Zenon, <3>2, ConsensusAssumption DEF validate
        <5>2. bc \in validated'[n]
          BY <5>1 DEF TypeOK
        <5> QED BY <5>2 DEF Held
      <4>3. validating'[n] = {}
        BY <1>6 DEF onProposalVote, TypeOK
      <4> QED BY <1>a, <3>2, <4>1, <4>2, <4>3 DEF Keeps, TypeOK, ProposalState
    <3> QED BY Zenon, <1>6, <3>1, <3>2 DEF onProposalVote
  <2> QED BY <1>0, <2>1
<1>7. ASSUME NEW m \in msgs, onPreVote(n, m) PROVE RoundAt(n)'
  BY <1>0, <1>7, PreVoteKeepsRound
<1>8. ASSUME NEW m \in msgs, onPreCommit(n, m) PROVE RoundAt(n)'
  BY <1>0, <1>8, PreCommitKeepsRound
<1>9. CASE UNCHANGED <<propsalState, validating>>
  BY <1>0, <1>9 DEF Keeps
<1>10. CASE onTimeoutProposal(n)
  <2>1. Keeps(n)
    <3>1. CASE UNCHANGED propsalState
      BY <1>10, <3>1 DEF onTimeoutProposal, Keeps
    <3>2. CASE propsalState' = [propsalState EXCEPT ![n] =
                 [@ EXCEPT !.Step = "prevote", !.pvOnce = TRUE]]
      <4>1. UNCHANGED validating
        BY <1>10 DEF onTimeoutProposal
      <4> QED BY <1>a, <3>2, <4>1 DEF Keeps, TypeOK, ProposalState
    <3> QED BY <1>10, <3>1, <3>2 DEF onTimeoutProposal
  <2> QED BY <1>0, <2>1
<1>11. CASE onTimeoutPrevote(n)
  <2>1. Keeps(n)
    <3>1. CASE UNCHANGED propsalState
      BY <1>11, <3>1 DEF onTimeoutPrevote, Keeps
    <3>2. CASE propsalState' = [propsalState EXCEPT ![n] =
                 [@ EXCEPT !.Step = "precommit", !.pcOnce = TRUE]]
      <4>1. UNCHANGED validating
        BY <1>11 DEF onTimeoutPrevote
      <4> QED BY <1>a, <3>2, <4>1 DEF Keeps, TypeOK, ProposalState
    <3> QED BY <1>11, <3>1, <3>2 DEF onTimeoutPrevote
  <2> QED BY <1>0, <2>1
<1>12. CASE onTimeoutPrecommit(n)
  <2>1. Clears(n)
    BY Zenon, <1>12, StartRoundClears DEF onTimeoutPrecommit, Goroutine
  <2> QED BY <1>0, <2>1
<1> QED
  BY Zenon, <1>1, <1>2, <1>3, <1>4, <1>5, <1>6, <1>7, <1>8, <1>9, <1>10, <1>11, <1>12
  DEF NodeNext, Receive, watchTimeouts, onBlock, sendBlock, onOwnBlock, timerTick,
      onTimeoutBlock

-----------------------------------------------------------------------------
\* Messages, proposers and applied blocks

\* A node that was named by the beacon stays named.
LEMMA NamedGrows ==
  ASSUME TypeOK, TypeOK', Grows, NEW p \in Node, Named(p)
  PROVE  Named(p)'
<1>1. tick[p] <= tick'[p] /\ tick[p] \in Int /\ tick'[p] \in Int
  BY BeaconAssumption, SMTT(30) DEF Grows, TypeOK
<1> QED BY <1>1, SMTT(30) DEF Named

\* What one action publishes, if anything: a message of the acting node, about
\* nothing or about a block it holds, and a proposer's message only if it was named.
LEMMA SentStep ==
  ASSUME TypeOK, ProposerIsNamed, NEW n \in Node, NodeNext(n), RoundAt(n),
         NEW m \in msgs' \ msgs
  PROVE  /\ m.from = n
         /\ m.block \in Cid => m.block \in Held(n)'
         /\ m.type \in {"NewRound", "Proposal", "Block"} => Named(n)
<1>0. Grows /\ Held(n) \subseteq Held(n)'
  BY StepFrame, HeldGrows
<1>a. propsalState[n] \in ProposalState
  BY ProposalStateOf
<1>b. BlockHeldAt(n) /\ LockBackedAt(n)
  BY DEF RoundAt
<1>c. ASSUME NEW t, NEW h, NEW r, NEW b, m = Msg(t, n, h, r, b)
      PROVE  m.type = t /\ m.from = n /\ m.block = b
  BY <1>c DEF Msg
<1> DEFINE Goal == /\ m.from = n
                   /\ m.block \in Cid => m.block \in Held(n)'
                   /\ m.type \in {"NewRound", "Proposal", "Block"} => Named(n)
<1>1. CASE UNCHANGED msgs
  BY <1>1
<1>2. ASSUME NEW g \in Goroutine, announceRound(n, g) PROVE Goal
  <2>1. m = Msg("NewRound", n, propsalState[n].Height, propsalState[n].Round, Undef)
    BY <1>2 DEF announceRound, sendNewRound, sendMsg
  <2>2. m.from = n /\ m.block = Undef
    BY <2>1, <1>c
  <2>3. Named(n)
    BY <1>2 DEF announceRound, ProposerIsNamed
  <2> QED BY <2>2, <2>3, ConsensusAssumption
<1>3. ASSUME NEW g \in Goroutine, proposeBlock(n, g) PROVE Goal
  <2>1. PICK b \in Value :
          /\ m = Msg("Proposal", n, propsalState[n].Height, propsalState[n].Round, b)
          /\ \E step : propsalState' = [propsalState EXCEPT ![n] =
                          [@ EXCEPT !.Block = b, !.Step = step]]
    BY Zenon, <1>3 DEF proposeBlock, sendProposal, sendMsg
  <2>2. propsalState'[n].Block = b
    BY <1>a, <2>1, SMTT(30) DEF TypeOK, ProposalState
  <2>3. b \in Cid => b \in Held(n)'
    BY <2>2, RoundStep DEF RoundAt, BlockHeldAt
  <2>4. m.from = n /\ m.block = b
    BY <2>1, <1>c
  <2>5. Named(n)
    BY Zenon, <1>3 DEF proposeBlock, ProposerIsNamed
  <2> QED BY <2>3, <2>4, <2>5
<1>4. ASSUME NEW p \in validating[n], onProposalVote(n, p) PROVE Goal
  <2>1. PICK bc \in Value :
          /\ m = Msg("PreVote", n, propsalState[n].Height, propsalState[n].Round, bc)
          /\ \E step : propsalState' = [propsalState EXCEPT ![n] =
                          [@ EXCEPT !.pvOnce = TRUE, !.Block = bc, !.Step = step]]
    BY Zenon, <1>4 DEF onProposalVote, sendVote, sendMsg
  <2>2. propsalState'[n].Block = bc
    BY <1>a, <2>1, SMTT(30) DEF TypeOK, ProposalState
  <2>3. bc \in Cid => bc \in Held(n)'
    BY <2>2, RoundStep DEF RoundAt, BlockHeldAt
  <2>4. m.from = n /\ m.block = bc /\ m.type = "PreVote"
    BY <2>1, <1>c, SMTT(30)
  <2> QED BY <2>3, <2>4
<1>5. ASSUME NEW v \in msgs, onPreVote(n, v) PROVE Goal
  <2>1. m = Msg("PreCommit", n, propsalState[n].Height, propsalState[n].Round,
                propsalState[n].Block)
    BY <1>5 DEF onPreVote, sendVote, sendMsg
  <2>2. m.from = n /\ m.block = propsalState[n].Block /\ m.type = "PreCommit"
    BY <2>1, <1>c
  <2> QED BY <1>0, <1>b, <2>2 DEF BlockHeldAt
<1>6. CASE sendBlock(n)
  <2>1. m = Msg("Block", n, propsalState[n].Height, propsalState[n].lockedRound,
                propsalState[n].lockedValue)
    BY <1>6 DEF sendBlock, sendMsg
  <2>2. m.from = n /\ m.block = propsalState[n].lockedValue
    BY <2>1, <1>c
  <2>3. grace[n] # 0
    <3>1. grace[n] > 0
      BY <1>6 DEF sendBlock
    <3>2. grace[n] \in Nat
      BY DEF TypeOK
    <3> QED BY <3>1, <3>2, SMTT(30)
  <2>4. Named(n)
    BY <2>3 DEF ProposerIsNamed
  <2> QED BY <1>0, <1>b, <2>2, <2>4 DEF BlockHeldAt, LockBackedAt
<1>7. ASSUME NEW t \in {"PreVote", "PreCommit"}, NEW ok, sendVote(n, t, Empty, ok)
      PROVE  Goal
  <2>1. m = Msg(t, n, propsalState[n].Height, propsalState[n].Round, Empty)
    BY <1>7 DEF sendVote, sendMsg
  <2>2. m.from = n /\ m.block = Empty /\ m.type = t
    BY <2>1, <1>c
  <2> QED BY <2>2, ConsensusAssumption
<1>8. CASE onTimeoutProposal(n)
  BY <1>1, <1>7, <1>8 DEF onTimeoutProposal
<1>9. CASE onTimeoutPrevote(n)
  BY <1>1, <1>7, <1>9 DEF onTimeoutPrevote
<1> QED
  BY Zenon, <1>1, <1>2, <1>3, <1>4, <1>5, <1>6, <1>8, <1>9
  DEF NodeNext, Receive, watchTimeouts, watchProposer, onNewRound, onProposal,
      onPreCommit, onBlock, onOwnBlock, timerTick, onTimeoutPrecommit, onTimeoutBlock

\* startRound makes a node sleep as proposer only when it is the given proposer.
LEMMA StartRoundProposer ==
  ASSUME TypeOK, NEW n \in Node, NEW g \in Goroutine, NEW inc \in BOOLEAN,
         NEW leader, startRound(n, g, inc, leader), leader # n
  PROVE  /\ ~propsalState'[n].AmProposer
         /\ \A h \in Goroutine : pc'[n][h] \in {pc[n][h], "idle"}
<1>1. propsalState[n] \in ProposalState
  BY ProposalStateOf
<1> QED BY Zenon, <1>1 DEF startRound, ClearRound, TypeOK, ProposalState

\* A node that was not named does not become a proposer.
LEMMA NamedStep ==
  ASSUME TypeOK, ProposerIsNamed, NEW n \in Node, NodeNext(n), ~Named(n)', Grows, TypeOK'
  PROVE  /\ ~propsalState'[n].AmProposer /\ state'[n].Proposer # n /\ grace'[n] = 0
         /\ \A g \in Goroutine : pc'[n][g] \notin {"sleep", "make"}
<1>0. ~Named(n)
  BY NamedGrows
<1>1. /\ ~propsalState[n].AmProposer /\ state[n].Proposer # n /\ grace[n] = 0
      /\ \A g \in Goroutine : pc[n][g] \notin {"sleep", "make"}
  BY <1>0 DEF ProposerIsNamed
<1>a. propsalState[n] \in ProposalState
  BY ProposalStateOf
<1> DEFINE Goal == /\ ~propsalState'[n].AmProposer /\ state'[n].Proposer # n
                   /\ grace'[n] = 0
                   /\ \A g \in Goroutine : pc'[n][g] \notin {"sleep", "make"}
<1>2. CASE watchProposer(n)
  <2>1. PICK j \in (tick[n] + 1)..Len(Beacon) :
          /\ RandomSource(j)
          /\ tick' = [tick EXCEPT ![n] = j]
          /\ state' = [state EXCEPT ![n].Proposer = proposer(j)]
          /\ startRound(n, "watchProposer", FALSE, proposer(j))
    BY Zenon, <1>2 DEF watchProposer
  <2>2. tick'[n] = j /\ j >= 1
    BY <2>1, BeaconAssumption, SMTT(30) DEF TypeOK
  <2>3. proposer(j) # n
    BY <2>1, <2>2, BeaconAssumption, SMTT(30) DEF Named
  <2>4. /\ ~propsalState'[n].AmProposer
        /\ \A h \in Goroutine : pc'[n][h] \in {pc[n][h], "idle"}
    BY ZenonT(30), <2>1, <2>3, StartRoundProposer DEF Goroutine
  <2>5. state'[n].Proposer # n
    BY <2>1, <2>3, SMTT(30) DEF TypeOK, State
  <2>6. UNCHANGED grace
    BY <1>2 DEF watchProposer
  <2> QED BY <1>1, <2>4, <2>5, <2>6
<1>3. CASE onTimeoutPrecommit(n)
  <2>1. /\ ~propsalState'[n].AmProposer
        /\ \A h \in Goroutine : pc'[n][h] \in {pc[n][h], "idle"}
    BY ZenonT(30), <1>1, <1>3, StartRoundProposer DEF onTimeoutPrecommit, Goroutine
  <2> QED BY <1>1, <1>3, <2>1 DEF onTimeoutPrecommit
<1>4. ASSUME NEW m \in msgs, onPreCommit(n, m) PROVE Goal
  <2>1. UNCHANGED <<state, pc>> /\ grace'[n] = grace[n]
    BY <1>1, <1>4 DEF onPreCommit, TypeOK
  <2>2. propsalState'[n].AmProposer = propsalState[n].AmProposer
    BY <1>4, <1>a DEF onPreCommit, TypeOK, ProposalState
  <2> QED BY <1>1, <2>1, <2>2
<1>5. ASSUME NEW m \in msgs, onPreVote(n, m) PROVE Goal
  <2>1. UNCHANGED <<state, pc, grace>>
    BY <1>5 DEF onPreVote
  <2>2. propsalState'[n].AmProposer = propsalState[n].AmProposer
    <3> DEFINE votes == propsalState[n].PreVotes \cup {m.from}
    <3>1. CASE propsalState' = [propsalState EXCEPT ![n].PreVotes = votes]
      BY <1>a, <3>1 DEF TypeOK, ProposalState
    <3>2. CASE propsalState' = [propsalState EXCEPT ![n] =
                 [@ EXCEPT !.PreVotes = votes, !.pcOnce = TRUE, !.Step = "precommit",
                           !.lockedValue = propsalState[n].Block,
                           !.lockedRound = propsalState[n].Round]]
      BY <1>a, <3>2 DEF TypeOK, ProposalState
    <3> QED BY <1>5, <3>1, <3>2 DEF onPreVote
  <2> QED BY <1>1, <2>1, <2>2
<1>6. ASSUME NEW m \in msgs, onNewRound(n, m) PROVE Goal
  <2>1. UNCHANGED <<state, pc, grace>>
    BY <1>6 DEF onNewRound
  <2>2. propsalState'[n].AmProposer = propsalState[n].AmProposer
    BY Zenon, <1>6, <1>a DEF onNewRound, ClearRound, TypeOK, ProposalState
  <2> QED BY <1>1, <2>1, <2>2
<1>7. ASSUME NEW m \in validating[n], onProposalVote(n, m) PROVE Goal
  <2>1. UNCHANGED <<state, pc, grace>>
    BY <1>7 DEF onProposalVote
  <2>2. propsalState'[n].AmProposer = propsalState[n].AmProposer
    <3>1. CASE UNCHANGED propsalState
      BY <3>1
    <3>2. ASSUME NEW bc \in Value, NEW step \in {"prevote", propsalState[n].Step},
                 propsalState' = [propsalState EXCEPT ![n] =
                    [@ EXCEPT !.pvOnce = TRUE, !.Block = bc, !.Step = step]]
          PROVE  propsalState'[n].AmProposer = propsalState[n].AmProposer
      BY <1>a, <3>2 DEF TypeOK, ProposalState
    <3> QED BY Zenon, <1>7, <3>1, <3>2 DEF onProposalVote
  <2> QED BY <1>1, <2>1, <2>2
<1>8. CASE onTimeoutProposal(n)
  <2>1. propsalState'[n].AmProposer = propsalState[n].AmProposer
    <3>1. CASE UNCHANGED propsalState
      BY <3>1
    <3>2. CASE propsalState' = [propsalState EXCEPT ![n] =
                 [@ EXCEPT !.Step = "prevote", !.pvOnce = TRUE]]
      BY <1>a, <3>2 DEF TypeOK, ProposalState
    <3> QED BY <1>8, <3>1, <3>2 DEF onTimeoutProposal
  <2>2. \A g \in Goroutine : pc'[n][g] \in {pc[n][g], "idle"}
    BY <1>8, SMTT(30) DEF onTimeoutProposal, TypeOK
  <2> QED BY <1>1, <1>8, <2>1, <2>2 DEF onTimeoutProposal
<1>9. CASE onTimeoutPrevote(n)
  <2>1. propsalState'[n].AmProposer = propsalState[n].AmProposer
    <3>1. CASE UNCHANGED propsalState
      BY <3>1
    <3>2. CASE propsalState' = [propsalState EXCEPT ![n] =
                 [@ EXCEPT !.Step = "precommit", !.pcOnce = TRUE]]
      BY <1>a, <3>2 DEF TypeOK, ProposalState
    <3> QED BY <1>9, <3>1, <3>2 DEF onTimeoutPrevote
  <2>2. \A g \in Goroutine : pc'[n][g] \in {pc[n][g], "idle"}
    BY <1>9, SMTT(30) DEF onTimeoutPrevote, TypeOK
  <2> QED BY <1>1, <1>9, <2>1, <2>2 DEF onTimeoutPrevote
<1>10. CASE onTimeoutBlock(n)
  <2>1. \A g \in Goroutine : pc'[n][g] \in {pc[n][g], "idle"}
    BY <1>10 DEF onTimeoutBlock, TypeOK
  <2> QED BY <1>1, <1>10, <2>1 DEF onTimeoutBlock
<1>11. ASSUME NEW t \in timers[n], timerTick(n, t) PROVE Goal
  <2>1. \A g \in Goroutine : pc'[n][g] \in {pc[n][g], t}
    BY <1>11 DEF timerTick, TypeOK
  <2>2. t \in Step
    BY DEF TypeOK
  <2> QED BY <1>1, <1>11, <2>1, <2>2 DEF timerTick, Step
<1>12. ASSUME applyBlock(n) PROVE state'[n].Proposer = state[n].Proposer
  <2>1. state[n] \in State
    BY DEF TypeOK
  <2> QED BY <1>12, <2>1 DEF applyBlock, TypeOK, State
<1>13. ASSUME NEW m \in msgs, onBlock(n, m) PROVE Goal
  BY ZenonT(30), <1>1, <1>12, <1>13 DEF onBlock
<1>14. ASSUME NEW m \in selfBlock[n], onOwnBlock(n, m) PROVE Goal
  BY <1>1, <1>12, <1>14 DEF onOwnBlock
<1>15. ASSUME NEW m \in msgs, onProposal(n, m) PROVE Goal
  BY <1>1, <1>15 DEF onProposal
<1>16. CASE sendBlock(n)
  <2>1. grace[n] > 0
    BY <1>16 DEF sendBlock
  <2> QED BY <1>1, <2>1, SMTT(30)
<1>17. ASSUME NEW g \in Goroutine, announceRound(n, g) \/ proposeBlock(n, g) PROVE Goal
  BY ZenonT(30), <1>1, <1>17 DEF announceRound, proposeBlock
<1> QED
  BY Zenon, <1>2, <1>3, <1>4, <1>5, <1>6, <1>7, <1>8, <1>9, <1>10, <1>11, <1>13, <1>14,
     <1>15, <1>16, <1>17 DEF NodeNext, Receive, watchTimeouts

\* Applying a block makes its lock, prevotes and precommits those of the new tip.
LEMMA ApplyStep ==
  ASSUME TypeOK, Grows, NEW n \in Node, RoundAt(n), applyBlock(n),
         propsalState[n].Step = "block", state'[n].Block \in Cid
  PROVE  /\ state'[n].Block \in Held(n)'
         /\ \E v, w \in msgs' :
              /\ v.type = "PreVote" /\ w.type = "PreCommit"
              /\ v.from # n /\ w.from # n
              /\ v.height = state'[n].Height /\ w.height = state'[n].Height
              /\ v.round = w.round
              /\ v.block = state'[n].Block /\ w.block = state'[n].Block
<1> DEFINE ps == propsalState[n]
<1>1. state[n] \in State
  BY DEF TypeOK
<1>2. state'[n].Block = ps.lockedValue /\ state'[n].Height = ps.Height
  BY <1>1 DEF applyBlock, TypeOK, State
<1>3. ps.lockedValue \in Cid
  BY <1>2
<1>4. ps.Block = ps.lockedValue /\ ps.Block \in Held(n)
  BY <1>3 DEF RoundAt, LockBackedAt, BlockHeldAt
<1>5. PICK v \in Node \ {n} : Msg("PreVote", v, ps.Height, ps.Round, ps.lockedValue) \in msgs
  BY <1>3 DEF RoundAt, LockBackedAt, SentVoteFor
<1>6. PICK w \in Node \ {n} : Msg("PreCommit", w, ps.Height, ps.Round, ps.lockedValue) \in msgs
  BY <1>3 DEF RoundAt, DisciplineAt, SentVoteFor
<1>7. state'[n].Block \in Held(n)'
  BY <1>2, <1>4, HeldGrows
<1>8. msgs \subseteq msgs'
  BY DEF Grows
<1> QED BY <1>2, <1>5, <1>6, <1>7, <1>8 DEF Msg

\* A step changes the applied block of a node only by applyBlock in step "block".
LEMMA TipStep ==
  ASSUME TypeOK, NEW n \in Node, NodeNext(n)
  PROVE  \/ state'[n].Block = state[n].Block /\ state'[n].Height = state[n].Height
         \/ applyBlock(n) /\ propsalState[n].Step = "block"
<1>1. state[n] \in State
  BY DEF TypeOK
<1>2. CASE UNCHANGED state
  BY <1>2
<1>3. CASE watchProposer(n)
  BY <1>1, <1>3, SMTT(30) DEF watchProposer, TypeOK, State
<1>4. CASE applyBlock(n) /\ propsalState[n].Step = "block"
  BY <1>4
<1> QED
  BY Zenon, <1>2, <1>3, <1>4
  DEF NodeNext, Receive, watchTimeouts, announceRound, proposeBlock, onNewRound,
      onProposal, onProposalVote, onPreVote, onPreCommit, sendBlock, onBlock,
      onOwnBlock, Applies, timerTick, onTimeoutProposal, onTimeoutPrevote,
      onTimeoutPrecommit, onTimeoutBlock

-----------------------------------------------------------------------------
\* The inductive invariant

\* IInv holds in the state that NewConsensus and Start set up.
LEMMA InitIInv == Init => IInv
<1> SUFFICES ASSUME Init PROVE IInv
  OBVIOUS
<1>1. TypeOK
  BY InitType
<1>2. \A n \in Node : RoundAt(n)
  BY ConsensusAssumption
  DEF Init, RoundAt, DisciplineAt, LockBackedAt, BlockHeldAt, CountedAt
<1>3. LockDiscipline /\ LockIsBacked /\ BlockIsHeld /\ CountedVotesAreCurrent
  BY <1>2 DEF RoundAt, LockDiscipline, LockIsBacked, BlockIsHeld, CountedVotesAreCurrent
<1>4. AppliedIsBacked
  BY ZenonT(30), ConsensusAssumption DEF Init, AppliedIsBacked
<1>5. ProposerIsNamed
  BY ConsensusAssumption DEF Init, ProposerIsNamed
<1>6. VotesAreHeld /\ OnlyProposersPropose
  BY Zenon DEF Init, VotesAreHeld, OnlyProposersPropose
<1> QED BY <1>1, <1>3, <1>4, <1>5, <1>6 DEF IInv

\* Every step of every node preserves IInv.
LEMMA NextIInv == IInv /\ [Next]_vars => IInv'
<1> SUFFICES ASSUME IInv, [Next]_vars PROVE IInv'
  OBVIOUS
<1>0. CASE UNCHANGED vars
  <2> USE <1>0 DEF vars
  <2>1. TypeOK'
    BY DEF IInv, TypeOK
  <2>2. LockDiscipline'
    BY DEF IInv, LockDiscipline, DisciplineAt, SentVoteFor
  <2>3. LockIsBacked'
    BY ZenonT(30) DEF IInv, LockIsBacked, LockBackedAt, SentVoteFor
  <2>4. BlockIsHeld' /\ VotesAreHeld'
    BY Zenon DEF IInv, BlockIsHeld, BlockHeldAt, Held, VotesAreHeld
  <2>5. CountedVotesAreCurrent'
    <3>1. \A v, t, h, r : SentVote(v, t, h, r) => SentVote(v, t, h, r)'
      BY Zenon DEF SentVote, SentVoteFor
    <3>2. propsalState' = propsalState
      OBVIOUS
    <3> QED BY <3>1, <3>2 DEF IInv, CountedVotesAreCurrent, CountedAt
  <2>6. AppliedIsBacked'
    BY SMTT(30) DEF IInv, AppliedIsBacked, Held
  <2>7. ProposerIsNamed' /\ OnlyProposersPropose'
    BY DEF IInv, ProposerIsNamed, Named, OnlyProposersPropose
  <2> QED BY <2>1, <2>2, <2>3, <2>4, <2>5, <2>6, <2>7 DEF IInv
<1>1. ASSUME NEW n \in Node, NodeNext(n) PROVE IInv'
  <2>1. TypeOK /\ ProposerIsNamed /\ OnlyProposersPropose /\ VotesAreHeld /\ AppliedIsBacked
    BY DEF IInv
  <2>2. \A p \in Node : RoundAt(p)
    BY DEF IInv, RoundAt, LockDiscipline, LockIsBacked, BlockIsHeld, CountedVotesAreCurrent
  <2>3. TypeOK'
    BY <2>1, TypeStep
  <2>4. Others(n) /\ Grows
    BY <1>1, <2>1, StepFrame
  <2>5. \A p \in Node : RoundAt(p)'
    BY <1>1, <2>1, <2>2, <2>4, RoundStep, OthersKeepRound
  <2>6. LockDiscipline' /\ LockIsBacked' /\ BlockIsHeld' /\ CountedVotesAreCurrent'
    BY <2>5 DEF RoundAt, LockDiscipline, LockIsBacked, BlockIsHeld, CountedVotesAreCurrent
  <2>7. \A m \in msgs : m.from \in Node
    BY <2>1 DEF TypeOK, Message
  <2>8. \A p \in Node : Named(p) => Named(p)'
    BY <2>1, <2>3, <2>4, NamedGrows
  <2>9. VotesAreHeld'
    <3> SUFFICES ASSUME NEW m \in msgs', m.block \in Cid PROVE m.block \in Held(m.from)'
      BY DEF VotesAreHeld
    <3>1. CASE m \in msgs
      BY <2>1, <2>4, <2>7, <3>1, HeldGrows DEF VotesAreHeld
    <3>2. CASE m \notin msgs
      BY <1>1, <2>1, <2>2, <3>2, SentStep
    <3> QED BY <3>1, <3>2
  <2>10. ProposerIsNamed'
    <3> SUFFICES ASSUME NEW p \in Node, ~Named(p)'
                 PROVE  /\ ~propsalState'[p].AmProposer /\ state'[p].Proposer # p
                        /\ grace'[p] = 0
                        /\ \A g \in Goroutine : pc'[p][g] \notin {"sleep", "make"}
      BY DEF ProposerIsNamed
    <3>1. CASE p = n
      BY <1>1, <2>1, <2>3, <2>4, <3>1, NamedStep
    <3>2. CASE p # n
      <4>1. /\ propsalState'[p] = propsalState[p] /\ state'[p] = state[p]
            /\ grace'[p] = grace[p] /\ pc'[p] = pc[p]
        BY <2>4, <3>2 DEF Others
      <4>2. ~Named(p)
        BY <2>8
      <4> QED BY <2>1, <4>1, <4>2 DEF ProposerIsNamed
    <3> QED BY <3>1, <3>2
  <2>11. \A m \in msgs' : m.type \in {"NewRound", "Proposal", "Block"} => Named(m.from)'
    <3> SUFFICES ASSUME NEW m \in msgs', m.type \in {"NewRound", "Proposal", "Block"}
                 PROVE  Named(m.from)'
      OBVIOUS
    <3>1. CASE m \in msgs
      BY <2>1, <2>7, <2>8, <3>1 DEF OnlyProposersPropose
    <3>2. CASE m \notin msgs
      BY <1>1, <2>1, <2>2, <2>8, <3>2, SentStep
    <3> QED BY <3>1, <3>2
  <2>12. \A h \in blocks' : Named(h.Proposer)'
    <3>1. \A h \in blocks : h.Proposer \in Node /\ Named(h.Proposer)
      BY <2>1 DEF OnlyProposersPropose, TypeOK, Header
    <3>2. CASE UNCHANGED blocks
      BY <2>8, <3>1, <3>2
    <3>3. ASSUME NEW g \in Goroutine, proposeBlock(n, g) PROVE \A h \in blocks' : Named(h.Proposer)'
      <4>1. Named(n)
        BY Zenon, <2>1, <3>3 DEF proposeBlock, ProposerIsNamed
      <4>2. \A h \in blocks' : h \in blocks \/ h.Proposer = n
        <5>1. \/ UNCHANGED blocks
              \/ \E b \in Value : makeBlock(n, b)
          BY Zenon, <3>3 DEF proposeBlock
        <5>2. CASE UNCHANGED blocks
          BY <5>2
        <5>3. ASSUME NEW h, h.Proposer = n, blocks' = blocks \cup {h}
              PROVE  \A k \in blocks' : k \in blocks \/ k.Proposer = n
          BY <5>3
        <5>4. ASSUME NEW b \in Value, makeBlock(n, b)
              PROVE  \A k \in blocks' : k \in blocks \/ k.Proposer = n
          BY ZenonT(30), <5>2, <5>3, <5>4 DEF makeBlock
        <5> QED BY <5>1, <5>2, <5>4
      <4> QED BY <2>8, <3>1, <4>1, <4>2
    <3> QED
      BY Zenon, <1>1, <3>2, <3>3
      DEF NodeNext, Receive, watchTimeouts, watchProposer, announceRound, onNewRound,
          onProposal, onProposalVote, onPreVote, onPreCommit, sendBlock, onBlock,
          onOwnBlock, timerTick, onTimeoutProposal, onTimeoutPrevote,
          onTimeoutPrecommit, onTimeoutBlock
  <2>13. AppliedIsBacked'
    <3> DEFINE Backed(p, b, h, ms) ==
          \E v, w \in ms :
            /\ v.type = "PreVote" /\ w.type = "PreCommit"
            /\ v.from # p /\ w.from # p
            /\ v.height = h /\ w.height = h /\ v.round = w.round
            /\ v.block = b /\ w.block = b
    <3> SUFFICES ASSUME NEW p \in Node, state'[p].Block \in Cid
                 PROVE  /\ state'[p].Block \in Held(p)'
                        /\ Backed(p, state'[p].Block, state'[p].Height, msgs')
      BY DEF AppliedIsBacked
    <3>1. CASE state'[p].Block = state[p].Block /\ state'[p].Height = state[p].Height
      <4>1. state[p].Block \in Held(p) /\ Backed(p, state[p].Block, state[p].Height, msgs)
        BY <2>1, <3>1 DEF AppliedIsBacked
      <4> QED BY ZenonT(30), <2>4, <3>1, <4>1, HeldGrows DEF Grows
    <3>2. CASE p = n /\ applyBlock(n) /\ propsalState[n].Step = "block"
      <4>1. TypeOK /\ Grows /\ RoundAt(n) /\ state'[n].Block \in Cid
        BY <2>1, <2>2, <2>4, <3>2
      <4>2. /\ state'[n].Block \in Held(n)'
            /\ Backed(n, state'[n].Block, state'[n].Height, msgs')
        BY <3>2, <4>1, ApplyStep, SMTT(30)
      <4> HIDE DEF Backed
      <4> QED BY <3>2, <4>2
    <3> HIDE DEF Backed
    <3>3. CASE p # n
      <4>1. state'[p] = state[p]
        BY Zenon, <2>4, <3>3 DEF Others
      <4> QED BY Zenon, <3>1, <4>1
    <3>4. CASE p = n
      <4>1. \/ state'[n].Block = state[n].Block /\ state'[n].Height = state[n].Height
            \/ applyBlock(n) /\ propsalState[n].Step = "block"
        BY Zenon, <1>1, <2>1, TipStep
      <4> QED BY Zenon, <3>1, <3>2, <3>4, <4>1
    <3> QED BY Zenon, <3>3, <3>4
  <2> QED BY <2>3, <2>6, <2>9, <2>10, <2>11, <2>12, <2>13 DEF IInv, OnlyProposersPropose
<1> QED BY <1>0, <1>1 DEF Next

\* The inductive invariant holds in every reachable state.
THEOREM Inductive == Spec => []IInv
BY InitIInv, NextIInv, PTL DEF Spec

\* For every set of nodes and every beacon: a proposal, vote or Block message that
\* names a block was published by a node that made or validated that block.
THEOREM VotesHeld == Spec => []VotesAreHeld
BY Inductive, PTL DEF IInv

\* For every set of nodes and every beacon: the votes behind a threshold were cast by
\* other nodes for the height and round in progress.
THEOREM VotesCurrent == Spec => []CountedVotesAreCurrent
BY Inductive, PTL DEF IInv

\* For every set of nodes and every beacon: a lock on a block is of the current round
\* and another node prevoted that block in that round.
THEOREM LocksBacked == Spec => []LockIsBacked
BY Inductive, PTL DEF IInv

\* For every set of nodes and every beacon: the tip of a node's chain is a block that
\* it made or validated and that others prevoted and precommitted in one round.
THEOREM AppliedBacked == Spec => []AppliedIsBacked
BY Inductive, PTL DEF IInv

\* For every set of nodes and every beacon: only nodes the beacon named announce
\* rounds, make blocks, propose, and publish Block messages.
THEOREM ProposersNamed == Spec => []OnlyProposersPropose
BY Inductive, PTL DEF IInv

=============================================================================
