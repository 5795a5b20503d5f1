------------------------------ MODULE Consensus ------------------------------
(***************************************************************************)
(* The block consensus engine of pkg/did/consensus: every node runs one    *)
(* Consensus object, a randomness beacon names a proposer, the proposer    *)
(* announces a round and a block, the others vote twice (prevote and       *)
(* precommit), and the proposer's Block message makes everybody apply the  *)
(* value it has locked.                                                    *)
(*                                                                         *)
(* A node is four kinds of goroutine over shared, mostly unlocked state:   *)
(* watchProposer (beacon), watchTimeouts (timers), subscribeMsgs           *)
(* (messages, one at a time), and the AfterFunc of the vote grace period.  *)
(* A handler is one step except where it blocks: startRound sleeps and     *)
(* then stores a block between its two publishes, onProposal fetches and   *)
(* validates the block, and the AfterFunc publishes before it applies.     *)
(*                                                                         *)
(* Gossip is the set of messages ever published. A message in it may be    *)
(* handled late, never, out of order, or again. A message a handler        *)
(* ignores is not distinguished from one that has not arrived yet.         *)
(***************************************************************************)
EXTENDS Integers, FiniteSets, Sequences

CONSTANTS
  Node,           \* peer ids of the nodes registered in the metadata store
  NodeList,       \* store.Nodes(): the same ids, sorted
  Cid,            \* CIDs that blocks can hash to
  Undef,          \* cid.Undef; its String() is "b", which cid.Parse never sees
  Empty,          \* the empty string: no proposer yet, or the id in a timeout vote
  Genesis,        \* the block NewConsensus loads as last applied
  Beacon,         \* the results of the drand beacon, in order
  Signer,         \* nodes configured with a signing key
  OnMsgKeys,      \* nodes whose stored key onMsg can decode (multibase)
  SendBlockKeys,  \* nodes whose stored key sendBlock can decode (raw point)
  Expires,        \* timers <<node, step>> short enough to expire in the runs considered
  Pending,        \* whether makeBlock may find transactions in the mempool
  Verdict,        \* what validate may conclude about a block
  Outcome,        \* outcomes of a publish or a store access: TRUE is success
  MaxRound,       \* bound: no round above it is started
  MaxHeight       \* bound: no height above it is started

Step == {"propose", "prevote", "precommit", "block"}

ASSUME ConsensusAssumption ==
  /\ Node # {} /\ IsFiniteSet(Node) /\ Empty \notin Node
  /\ Undef \notin Cid /\ Empty \notin Cid /\ Genesis \notin Cid /\ Undef # Empty
  /\ Signer \subseteq Node /\ OnMsgKeys \subseteq Node /\ SendBlockKeys \subseteq Node
  /\ Expires \subseteq Node \X Step
  /\ Pending \subseteq BOOLEAN /\ Verdict \subseteq BOOLEAN
  /\ Outcome \subseteq BOOLEAN /\ TRUE \in Outcome
  /\ MaxRound \in Nat /\ MaxHeight \in Nat

ASSUME BeaconAssumption ==
  /\ NodeList \in [1..Cardinality(Node) -> Node]
  /\ \A n \in Node : \E i \in 1..Cardinality(Node) : NodeList[i] = n
  /\ Beacon \in Seq([round : Nat, value : Nat])

VARIABLES
  state,         \* Consensus.state: the applied chain tip and the proposer
  propsalState,  \* Consensus.propsalState: the round in progress
  tick,          \* position in Beacon of the last value watchProposer handled
  pc,            \* where watchProposer and watchTimeouts are
  timers,        \* the time.Timers that are running
  validating,    \* the proposal subscribeMsgs is validating, if any
  grace,         \* AfterFuncs of the vote grace period that are pending
  selfBlock,     \* Block messages published by an AfterFunc, not yet applied
  blocks,        \* headers of the blocks put in the (shared, IPFS) block store
  validated,     \* blocks IsBlockValid accepted at a node
  msgs           \* every message published on the consensus topic

vars == <<state, propsalState, tick, pc, timers, validating, grace, selfBlock,
          blocks, validated, msgs>>

-----------------------------------------------------------------------------
Value == Cid \cup {Undef}

MsgType == {"NewRound", "Proposal", "PreVote", "PreCommit", "Block"}

Message == [type : MsgType, from : Node, height : Nat, round : Nat,
            block : Value \cup {Empty}]

Header == [id : Cid, Height : Nat, Parent : Value \cup {Genesis}, Proposer : Node]

State == [Proposer : Node \cup {Empty}, Height : Nat,
          Block : Value \cup {Genesis}, ParentBlock : Value \cup {Genesis}]

ProposalState ==
  [AmProposer : BOOLEAN, Height : Nat, Round : Nat, Step : Step, Block : Value,
   f : Nat, PreVotes : SUBSET Node, PreCommits : SUBSET Node,
   lockedValue : Value, lockedRound : Nat,
   pvOnce : BOOLEAN, pcOnce : BOOLEAN, sbOnce : BOOLEAN]

Goroutine == {"watchProposer", "watchTimeouts"}

\* "idle": receiving from its channels; "sleep" and "make": inside startRound;
\* a step name: watchTimeouts has received that timer's tick
Location == {"idle", "sleep", "make"} \cup Step

Init ==
  /\ state = [n \in Node |-> [Proposer |-> Empty, Height |-> 0,
                              Block |-> Genesis, ParentBlock |-> Undef]]
  /\ propsalState = [n \in Node |->
       [AmProposer |-> FALSE, Height |-> 0, Round |-> 0, Step |-> "propose",
        Block |-> Undef, f |-> 0, PreVotes |-> {}, PreCommits |-> {},
        lockedValue |-> Undef, lockedRound |-> 0,
        pvOnce |-> FALSE, pcOnce |-> FALSE, sbOnce |-> FALSE]]
  /\ tick = [n \in Node |-> 0]
  /\ pc = [n \in Node |-> [g \in Goroutine |-> "idle"]]
  /\ timers = [n \in Node |-> {}]
  /\ validating = [n \in Node |-> {}]
  /\ grace = [n \in Node |-> 0]
  /\ selfBlock = [n \in Node |-> {}]
  /\ blocks = {}
  /\ validated = [n \in Node |-> {}]
  /\ msgs = {}

-----------------------------------------------------------------------------
\* Messages. sendMsg reports success without publishing when there is no key.

Msg(t, n, h, r, b) == [type |-> t, from |-> n, height |-> h, round |-> r, block |-> b]

Sent(n, ok) == n \in Signer => ok

sendMsg(n, m, ok) == msgs' = IF n \in Signer /\ ok THEN msgs \cup {m} ELSE msgs

sendVote(n, t, b, ok) ==
  sendMsg(n, Msg(t, n, propsalState[n].Height, propsalState[n].Round, b), ok)

sendNewRound(n, ok) ==
  sendMsg(n, Msg("NewRound", n, propsalState[n].Height, propsalState[n].Round, Undef), ok)

sendProposal(n, b, ok) ==
  sendMsg(n, Msg("Proposal", n, propsalState[n].Height, propsalState[n].Round, b), ok)

\* the subscription hands on what others have published, in any order
Msgs(n) == {m \in msgs : m.from # n}

\* onMsg: messages of registered nodes, with a key that verifies them, reach the
\* handlers one at a time
onMsg(n, m, t) ==
  /\ m.type = t
  /\ m \in Msgs(n)
  /\ m.from \in OnMsgKeys
  /\ validating[n] = {}

-----------------------------------------------------------------------------
\* The beacon

nthTick == 10

\* every tenth round of drand is passed on, if somebody is waiting for it
RandomSource(j) == Beacon[j].round % nthTick = 0

\* the node that a beacon value selects from the list
proposer(j) == NodeList[(Beacon[j].value % Cardinality(Node)) + 1]

-----------------------------------------------------------------------------
\* startRound

\* mutant: one vote is subtracted, not added
RequiredVotesMinusOne == (((Cardinality(Node) - 1) \div 3) * 2) - 1

\* votes required of the round, from the number of the other nodes
RequiredVotes == (((Cardinality(Node) - 1) \div 3) * 2) + 1

\* mutants: a new round keeps the votes, or the lock, of the last one
ClearRoundKeepsVotes(ps) ==
  [ps EXCEPT !.lockedRound = 0, !.lockedValue = Undef,
             !.pvOnce = FALSE, !.pcOnce = FALSE, !.sbOnce = FALSE]

ClearRoundKeepsLock(ps) ==
  [ps EXCEPT !.PreVotes = {}, !.PreCommits = {},
             !.pvOnce = FALSE, !.pcOnce = FALSE, !.sbOnce = FALSE]

\* the proposal state of a new round, votes, locks and onces cleared
ClearRound(ps) ==
  [ps EXCEPT !.lockedRound = 0, !.lockedValue = Undef,
             !.PreVotes = {}, !.PreCommits = {},
             !.pvOnce = FALSE, !.pcOnce = FALSE, !.sbOnce = FALSE]

\* mutant: the block of the last round is dropped
startRoundForgets(n, g, inc, leader) ==
  LET ps == propsalState[n]
      b  == Undef
      waits == leader # n /\ b = Undef /\ ps.Round + 1 > 1
  IN /\ state[n].Height < MaxHeight
     /\ inc => ps.Round < MaxRound
     /\ propsalState' = [propsalState EXCEPT ![n] =
          [ClearRound(ps) EXCEPT
             !.AmProposer = (leader = n),
             !.Height = state[n].Height + 1,
             !.Round = IF inc THEN ps.Round + 1 ELSE 1,
             !.Block = b,
             !.Step = IF inc /\ ~waits THEN "prevote" ELSE "propose"]]
     /\ pc' = [pc EXCEPT ![n][g] = IF leader = n THEN "sleep" ELSE "idle"]
     /\ timers' = [timers EXCEPT ![n] =
                     IF leader = n THEN @ ELSE @ \cup {"propose"}]

\* up to the Sleep of a proposer, or the return of any other node
startRound(n, g, inc, leader) ==
  LET ps == propsalState[n]
      b  == IF inc THEN ps.Block ELSE Undef
      waits == leader # n /\ b = Undef /\ ps.Round + 1 > 1
  IN /\ state[n].Height < MaxHeight
     /\ inc => ps.Round < MaxRound
     /\ propsalState' = [propsalState EXCEPT ![n] =
          [ClearRound(ps) EXCEPT
             !.AmProposer = (leader = n),
             !.Height = state[n].Height + 1,
             !.Round = IF inc THEN ps.Round + 1 ELSE 1,
             !.Block = b,
             !.Step = IF inc /\ ~waits THEN "prevote" ELSE "propose"]]
     /\ pc' = [pc EXCEPT ![n][g] = IF leader = n THEN "sleep" ELSE "idle"]
     /\ timers' = [timers EXCEPT ![n] =
                     IF leader = n THEN @ ELSE @ \cup {"propose"}]

\* mutant: every node takes a beacon value for its own turn
watchProposerSelf(n) ==
  /\ pc[n]["watchProposer"] = "idle"
  /\ \E j \in (tick[n] + 1)..Len(Beacon) :
       /\ RandomSource(j)
       /\ tick' = [tick EXCEPT ![n] = j]
       /\ state' = [state EXCEPT ![n].Proposer = n]
       /\ startRound(n, "watchProposer", FALSE, n)
  /\ UNCHANGED <<validating, grace, selfBlock, blocks, validated, msgs>>

\* the beacon names a proposer; values that came while startRound slept may be lost
watchProposer(n) ==
  /\ pc[n]["watchProposer"] = "idle"
  /\ \E j \in (tick[n] + 1)..Len(Beacon) :
       /\ RandomSource(j)
       /\ tick' = [tick EXCEPT ![n] = j]
       /\ state' = [state EXCEPT ![n].Proposer = proposer(j)]
       /\ startRound(n, "watchProposer", FALSE, proposer(j))
  /\ UNCHANGED <<validating, grace, selfBlock, blocks, validated, msgs>>

\* mutant: a node list that could not be read does not end startRound
announceRoundIgnoresError(n, g) ==
  /\ pc[n][g] = "sleep"
  /\ timers' = [timers EXCEPT ![n] = @ \cup {"prevote"}]
  /\ \E ok, read \in Outcome :
       /\ sendNewRound(n, ok)
       /\ propsalState' = [propsalState EXCEPT ![n].f =
                            IF Sent(n, ok) /\ read THEN RequiredVotes ELSE @]
       /\ pc' = [pc EXCEPT ![n][g] = IF Sent(n, ok) THEN "make" ELSE "idle"]
  /\ UNCHANGED <<state, tick, validating, grace, selfBlock, blocks, validated>>

\* after the Sleep: announce the round, then read the nodes to count the votes it needs
announceRound(n, g) ==
  /\ pc[n][g] = "sleep"
  /\ timers' = [timers EXCEPT ![n] = @ \cup {"prevote"}]
  /\ \E ok, read \in Outcome :
       /\ sendNewRound(n, ok)
       /\ propsalState' = [propsalState EXCEPT ![n].f =
                            IF Sent(n, ok) /\ read THEN RequiredVotes ELSE @]
       /\ pc' = [pc EXCEPT ![n][g] = IF Sent(n, ok) /\ read THEN "make" ELSE "idle"]
  /\ UNCHANGED <<state, tick, validating, grace, selfBlock, blocks, validated>>

\* makeBlock: nothing to propose when the mempool is empty, else a new block
makeBlock(n, b) ==
  \/ /\ FALSE \in Pending
     /\ b = Undef
     /\ UNCHANGED blocks
  \/ /\ TRUE \in Pending
     /\ b \in Cid
     /\ \A h \in blocks : h.id # b
     /\ blocks' = blocks \cup
          {[id |-> b, Height |-> propsalState[n].Height,
            Parent |-> state[n].Block, Proposer |-> n]}

\* the rest of startRound: keep the block of the last round or make one, propose
proposeBlock(n, g) ==
  LET ps == propsalState[n]
  IN /\ pc[n][g] = "make"
     /\ pc' = [pc EXCEPT ![n][g] = "idle"]
     /\ \/ \E b \in Value, ok \in Outcome :
             /\ IF ps.Block = Undef THEN makeBlock(n, b)
                                    ELSE b = ps.Block /\ UNCHANGED blocks
             /\ sendProposal(n, b, ok)
             /\ propsalState' = [propsalState EXCEPT ![n] =
                  [@ EXCEPT !.Block = b,
                            !.Step = IF Sent(n, ok) THEN "prevote" ELSE ps.Step]]
        \/ /\ ps.Block = Undef /\ FALSE \in Outcome   \* storing the block failed
           /\ UNCHANGED <<propsalState, blocks, msgs>>
     /\ UNCHANGED <<state, tick, timers, validating, grace, selfBlock, validated>>

-----------------------------------------------------------------------------
\* Messages of the proposer

onNewRound(n, m) ==
  /\ onMsg(n, m, "NewRound")
  /\ m.from = state[n].Proposer
  /\ propsalState' = [propsalState EXCEPT ![n] =
       [ClearRound(@) EXCEPT !.Step = "propose",
                             !.Height = m.height, !.Round = m.round]]
  /\ timers' = [timers EXCEPT ![n] = @ \cup {"propose"}]
  /\ UNCHANGED <<state, tick, pc, validating, grace, selfBlock, blocks,
                 validated, msgs>>

\* onProposal up to the call of validate; the height and round are not looked at
onProposal(n, m) ==
  /\ onMsg(n, m, "Proposal")
  /\ m.from = state[n].Proposer
  /\ propsalState[n].Step = "propose"
  /\ validating' = [validating EXCEPT ![n] = {m}]
  /\ UNCHANGED <<state, propsalState, tick, pc, timers, grace, selfBlock, blocks,
                 validated, msgs>>

\* mutant: the block is fetched but not validated
validateUnchecked(n, m, bc) == bc = m.block /\ UNCHANGED validated

\* validate: an unavailable or invalid block reads as cid.Undef
validate(n, m, bc) ==
  \/ /\ m.block = Undef \/ FALSE \in Verdict
     /\ bc = Undef
     /\ UNCHANGED validated
  \/ /\ TRUE \in Verdict
     /\ bc = m.block /\ bc \in Cid
     /\ validated' = [validated EXCEPT ![n] = @ \cup {bc}]

\* the rest of onProposal: the prevote, unless pvOnce was used meanwhile
onProposalVote(n, m) ==
  LET ps == propsalState[n]
  IN /\ m \in validating[n]
     /\ validating' = [validating EXCEPT ![n] = {}]
     /\ \E bc \in Value, ok \in Outcome :
          /\ validate(n, m, bc)
          /\ IF ps.pvOnce
             THEN UNCHANGED <<propsalState, timers, msgs>>
             ELSE /\ sendVote(n, "PreVote", bc, ok)
                  /\ propsalState' = [propsalState EXCEPT ![n] =
                       [@ EXCEPT !.pvOnce = TRUE, !.Block = bc,
                                 !.Step = IF Sent(n, ok) THEN "prevote" ELSE ps.Step]]
                  /\ timers' = [timers EXCEPT ![n] =
                       (@ \ {"propose"}) \cup
                         (IF Sent(n, ok) THEN {"prevote"} ELSE {})]
     /\ UNCHANGED <<state, tick, pc, grace, selfBlock, blocks>>

-----------------------------------------------------------------------------
\* Votes

\* mutant: a vote for any block counts
onVoteAnyBlock(n, m, t) ==
  /\ onMsg(n, m, t)
  /\ m.from # state[n].Proposer
  /\ m.height = propsalState[n].Height
  /\ m.round = propsalState[n].Round

\* onVote counts a vote of a non-proposer for the node's own height, round, block
onVote(n, m, t) ==
  /\ onMsg(n, m, t)
  /\ m.from # state[n].Proposer
  /\ m.height = propsalState[n].Height
  /\ m.round = propsalState[n].Round
  /\ m.block = propsalState[n].Block

\* mutant: as many votes as the threshold
EnoughAtLeast(votes, f) == Cardinality(votes) >= f

\* more votes than the threshold of the round
Enough(votes, f) == Cardinality(votes) > f

\* the proposer restarts the precommit timer at every vote
voteTimers(n) ==
  timers[n] \cup (IF propsalState[n].AmProposer THEN {"precommit"} ELSE {})

onPreVote(n, m) ==
  LET ps == propsalState[n]
      votes == ps.PreVotes \cup {m.from}
  IN /\ onVote(n, m, "PreVote")
     /\ ps.Step = "prevote"
     /\ IF Enough(votes, ps.f) /\ ~ps.pcOnce
        THEN \E ok \in Outcome :
               /\ sendVote(n, "PreCommit", ps.Block, ok)
               /\ propsalState' = [propsalState EXCEPT ![n] =
                    [@ EXCEPT !.PreVotes = votes, !.pcOnce = TRUE,
                              !.Step = "precommit",
                              !.lockedValue = ps.Block, !.lockedRound = ps.Round]]
               /\ timers' = [timers EXCEPT ![n] =
                    (voteTimers(n) \ {"prevote"}) \cup
                      (IF Sent(n, ok) THEN {"precommit"} ELSE {})]
        ELSE /\ propsalState' = [propsalState EXCEPT ![n].PreVotes = votes]
             /\ timers' = [timers EXCEPT ![n] = voteTimers(n)]
             /\ UNCHANGED msgs
     /\ UNCHANGED <<state, tick, pc, validating, grace, selfBlock, blocks, validated>>

onPreCommit(n, m) ==
  LET ps == propsalState[n]
      votes == ps.PreCommits \cup {m.from}
      quorum == Enough(votes, ps.f) /\ ~ps.sbOnce
  IN /\ onVote(n, m, "PreCommit")
     /\ ps.Step = "precommit"
     /\ propsalState' = [propsalState EXCEPT ![n] =
          [@ EXCEPT !.PreCommits = votes,
                    !.sbOnce = ps.sbOnce \/ quorum,
                    !.Step = IF quorum THEN "block" ELSE ps.Step]]
     /\ timers' = [timers EXCEPT ![n] =
          IF ~quorum THEN voteTimers(n)
          ELSE (voteTimers(n) \ {"precommit"}) \cup
                 (IF ps.AmProposer THEN {} ELSE {"block"})]
     /\ grace' = [grace EXCEPT ![n] = IF quorum /\ ps.AmProposer THEN @ + 1 ELSE @]
     /\ UNCHANGED <<state, tick, pc, validating, selfBlock, blocks, validated, msgs>>

-----------------------------------------------------------------------------
\* Applying the block

\* the AfterFunc: sendBlock reports the lock of whatever round is current now
sendBlock(n) ==
  LET ps == propsalState[n]
      m  == Msg("Block", n, ps.Height, ps.lockedRound, ps.lockedValue)
  IN /\ grace[n] > 0
     /\ grace' = [grace EXCEPT ![n] = @ - 1]
     /\ \E ok, read \in Outcome :
          IF read /\ ps.PreCommits \subseteq SendBlockKeys /\ Sent(n, ok)
          THEN /\ sendMsg(n, m, ok)
               /\ selfBlock' = [selfBlock EXCEPT ![n] = @ \cup {m}]
          ELSE UNCHANGED <<msgs, selfBlock>>
     /\ UNCHANGED <<state, propsalState, tick, pc, timers, validating, blocks,
                    validated>>

\* mutant: onBlock expects the step before the one onPreCommit sets
AppliesBeforeBlock(n, m) ==
  /\ m.from = state[n].Proposer
  /\ propsalState[n].Step = "precommit"
  /\ m.block = propsalState[n].lockedValue
  /\ m.round = propsalState[n].lockedRound

\* onBlock applies the message that names the value and round the node has locked
Applies(n, m) ==
  /\ m.from = state[n].Proposer
  /\ propsalState[n].Step = "block"
  /\ m.block = propsalState[n].lockedValue
  /\ m.round = propsalState[n].lockedRound

applyBlock(n) ==
  /\ timers' = [timers EXCEPT ![n] = @ \ {"block"}]
  /\ state' = [state EXCEPT ![n] =
       [@ EXCEPT !.Height = propsalState[n].Height,
                 !.ParentBlock = state[n].Block,
                 !.Block = propsalState[n].lockedValue]]

onBlock(n, m) ==
  /\ onMsg(n, m, "Block")
  /\ Applies(n, m)
  /\ applyBlock(n)
  /\ UNCHANGED <<propsalState, tick, pc, validating, grace, selfBlock, blocks,
                 validated, msgs>>

\* the AfterFunc calls onBlock with the message it has just published
onOwnBlock(n, m) ==
  /\ m \in selfBlock[n]
  /\ selfBlock' = [selfBlock EXCEPT ![n] = @ \ {m}]
  /\ IF Applies(n, m) THEN applyBlock(n) ELSE UNCHANGED <<state, timers>>
  /\ UNCHANGED <<propsalState, tick, pc, validating, grace, blocks, validated, msgs>>

-----------------------------------------------------------------------------
\* Timeouts. A tick that watchTimeouts has received is handled even if the timer
\* is stopped or restarted before the handler runs.

timerTick(n, t) ==
  /\ pc[n]["watchTimeouts"] = "idle"
  /\ t \in timers[n] /\ <<n, t>> \in Expires
  /\ pc' = [pc EXCEPT ![n]["watchTimeouts"] = t]
  /\ timers' = [timers EXCEPT ![n] = @ \ {t}]
  /\ UNCHANGED <<state, propsalState, tick, validating, grace, selfBlock, blocks,
                 validated, msgs>>

\* mutant: a timeout is stale as soon as the height or the step has moved on
StaleEither(n, step) ==
  \/ propsalState[n].Height # state[n].Height
  \/ propsalState[n].Step # step

\* a timeout is stale only when both the height and the step have moved on
Stale(n, step) ==
  /\ propsalState[n].Height # state[n].Height
  /\ propsalState[n].Step # step

onTimeoutProposal(n) ==
  LET ps == propsalState[n]
  IN /\ pc[n]["watchTimeouts"] = "propose"
     /\ pc' = [pc EXCEPT ![n]["watchTimeouts"] = "idle"]
     /\ IF Stale(n, "propose")
        THEN UNCHANGED <<propsalState, timers, msgs>>
        ELSE /\ propsalState' = [propsalState EXCEPT ![n] =
                  [@ EXCEPT !.Step = "prevote", !.pvOnce = TRUE]]
             /\ IF ps.pvOnce
                THEN UNCHANGED <<timers, msgs>>
                ELSE /\ \E ok \in Outcome : sendVote(n, "PreVote", Empty, ok)
                     /\ timers' = [timers EXCEPT ![n] = @ \cup {"prevote"}]
     /\ UNCHANGED <<state, tick, validating, grace, selfBlock, blocks, validated>>

onTimeoutPrevote(n) ==
  LET ps == propsalState[n]
  IN /\ pc[n]["watchTimeouts"] = "prevote"
     /\ pc' = [pc EXCEPT ![n]["watchTimeouts"] = "idle"]
     /\ IF Stale(n, "prevote")
        THEN UNCHANGED <<propsalState, timers, msgs>>
        ELSE /\ propsalState' = [propsalState EXCEPT ![n] =
                  [@ EXCEPT !.Step = "precommit", !.pcOnce = TRUE]]
             /\ IF ps.pcOnce
                THEN UNCHANGED <<timers, msgs>>
                ELSE /\ \E ok \in Outcome : sendVote(n, "PreCommit", Empty, ok)
                     /\ timers' = [timers EXCEPT ![n] = @ \cup {"precommit"}]
     /\ UNCHANGED <<state, tick, validating, grace, selfBlock, blocks, validated>>

onTimeoutPrecommit(n) ==
  /\ pc[n]["watchTimeouts"] = "precommit"
  /\ startRound(n, "watchTimeouts", TRUE, state[n].Proposer)
  /\ UNCHANGED <<state, tick, validating, grace, selfBlock, blocks, validated, msgs>>

\* logs only
onTimeoutBlock(n) ==
  /\ pc[n]["watchTimeouts"] = "block"
  /\ pc' = [pc EXCEPT ![n]["watchTimeouts"] = "idle"]
  /\ UNCHANGED <<state, propsalState, tick, timers, validating, grace, selfBlock,
                 blocks, validated, msgs>>

-----------------------------------------------------------------------------
Receive(n) ==
  \E m \in msgs :
    \/ onNewRound(n, m)
    \/ onProposal(n, m)
    \/ onPreVote(n, m)
    \/ onPreCommit(n, m)
    \/ onBlock(n, m)

watchTimeouts(n) ==
  \/ \E t \in timers[n] : timerTick(n, t)
  \/ onTimeoutProposal(n)
  \/ onTimeoutPrevote(n)
  \/ onTimeoutPrecommit(n)
  \/ onTimeoutBlock(n)

NodeNext(n) ==
  \/ watchProposer(n)
  \/ \E g \in Goroutine : announceRound(n, g) \/ proposeBlock(n, g)
  \/ Receive(n)
  \/ \E m \in validating[n] : onProposalVote(n, m)
  \/ sendBlock(n)
  \/ \E m \in selfBlock[n] : onOwnBlock(n, m)
  \/ watchTimeouts(n)

Next == \E n \in Node : NodeNext(n)

Spec == Init /\ [][Next]_vars

\* Goroutines that can run do run and timers that run expire, as the Go runtime
\* guarantees; nothing obliges gossip to deliver a message or the beacon to tick.
Fairness ==
  \A n \in Node :
    /\ \A g \in Goroutine : WF_vars(announceRound(n, g)) /\ WF_vars(proposeBlock(n, g))
    /\ WF_vars(\E m \in validating[n] : onProposalVote(n, m))
    /\ WF_vars(sendBlock(n))
    /\ WF_vars(\E m \in selfBlock[n] : onOwnBlock(n, m))
    /\ WF_vars(watchTimeouts(n))

FairSpec == Spec /\ Fairness

-----------------------------------------------------------------------------
\* Properties

\* Every variable stays in its type: the maps, counters, ids and program
\* locations of the Consensus struct never take a value the code does not declare.
TypeOK ==
  /\ state \in [Node -> State]
  /\ propsalState \in [Node -> ProposalState]
  /\ tick \in [Node -> 0..Len(Beacon)]
  /\ pc \in [Node -> [Goroutine -> Location]]
  /\ timers \in [Node -> SUBSET Step]
  /\ validating \in [Node -> SUBSET Message]
  /\ grace \in [Node -> Nat]
  /\ selfBlock \in [Node -> SUBSET Message]
  /\ blocks \subseteq Header
  /\ validated \in [Node -> SUBSET Cid]
  /\ msgs \subseteq Message

\* the blocks a node may stand for: it made them or its validator accepted them
Held(n) == validated[n] \cup {h.id : h \in {b \in blocks : b.Proposer = n}}

\* No node stands for a block it has not checked: whenever a proposal, a prevote,
\* a precommit or a Block message names a real block, its sender made that block or
\* validated it, although Block and lockedValue are overwritten by other goroutines
\* between the validation and the send.
VotesAreHeld == \A m \in msgs : m.block \in Cid => m.block \in Held(m.from)

\* n sent a vote of type t for height h, round r and block b
SentVoteFor(n, t, h, r, b) == Msg(t, n, h, r, b) \in msgs

\* the same for a block or cid.Undef, not for the empty id of a timeout
SentVote(n, t, h, r) == \E b \in Value : SentVoteFor(n, t, h, r, b)

CountedAt(n) ==
  LET ps == propsalState[n]
  IN /\ \A v \in ps.PreVotes : v # n /\ SentVote(v, "PreVote", ps.Height, ps.Round)
     /\ \A v \in ps.PreCommits : v # n /\ SentVote(v, "PreCommit", ps.Height, ps.Round)

\* The votes onVote has counted towards the threshold are votes that another node
\* really cast for the height and round the counting node is in now, and none is the
\* empty vote of a timeout: no vote survives a startRound or a NewRound message that
\* moves the node elsewhere.
CountedVotesAreCurrent == \A n \in Node : CountedAt(n)

LockBackedAt(n) ==
  LET ps == propsalState[n]
  IN ps.lockedValue \in Cid =>
       /\ ps.lockedRound = ps.Round
       /\ ps.Block = ps.lockedValue
       /\ \E v \in Node \ {n} :
            SentVoteFor(v, "PreVote", ps.Height, ps.Round, ps.lockedValue)

\* A node locked on a block is locked in its current round, on the block it still
\* has as propsalState.Block, and at least one other node prevoted exactly that.
LockIsBacked == \A n \in Node : LockBackedAt(n)

\* A block that onBlock has made the tip of a node's chain was made or validated by
\* that node, and in one round of the tip's height some other node prevoted it and
\* some other node precommitted it.
AppliedIsBacked ==
  \A n \in Node :
    LET b == state[n].Block
        h == state[n].Height
    IN b \in Cid =>
         /\ b \in Held(n)
         /\ \E v, w \in msgs :
              /\ v.type = "PreVote" /\ w.type = "PreCommit"
              /\ v.from # n /\ w.from # n
              /\ v.height = h /\ w.height = h /\ v.round = w.round
              /\ v.block = b /\ w.block = b

\* the beacon values node n has handled include one that selects it
Named(n) == \E j \in 1..tick[n] : RandomSource(j) /\ proposer(j) = n

\* Only a node that the beacon has named as proposer announces rounds, makes blocks
\* or publishes Block messages, however late its sleeping goroutines act.
OnlyProposersPropose ==
  /\ \A m \in msgs : m.type \in {"NewRound", "Proposal", "Block"} => Named(m.from)
  /\ \A h \in blocks : Named(h.Proposer)

\* node n has heard of no proposer but itself
OnlySelf(n) == \A j \in 1..tick[n] : RandomSource(j) => proposer(j) = n

\* A proposer that starts the vote grace period has the precommits that startRound
\* computed from the number of nodes, whichever publish or read of the store failed
\* before, as long as it has not been a validator: startRound sets f after its
\* sleep and never resets it, so a former validator may count against another one.
ProposerHasQuorum ==
  \A n \in Node :
    OnlySelf(n) /\ propsalState[n].AmProposer /\ propsalState[n].Step = "block" =>
      Cardinality(propsalState[n].PreCommits) > RequiredVotes

\* No two nodes have different blocks as tip at the same height.
Agreement ==
  \A n, o \in Node :
    state[n].Height = state[o].Height /\ {state[n].Block, state[o].Block} \subseteq Cid
      => state[n].Block = state[o].Block

\* no node has been given a second beacon value
BeforeHandover ==
  \A n \in Node : \A i, j \in 1..tick[n] : RandomSource(i) /\ RandomSource(j) => i = j

\* Until the beacon names a proposer again there is one block: whatever the nodes
\* propose, vote for or apply, over any number of rounds that timeouts restart, is the
\* same, because startRound keeps the block of the round before. So the nodes agree.
OneBlockPerTick ==
  BeforeHandover =>
    /\ Agreement
    /\ \A m, o \in msgs : {m.block, o.block} \subseteq Cid => m.block = o.block

\* the nodes other than p that precommitted, in a round of a height, b or no block
Precommitted(p, h, r, b) ==
  {v \in Node \ {p} : \E c \in {b, Undef} : SentVoteFor(v, "PreCommit", h, r, c)}

\* Until the beacon names a proposer again no node applies a block without a quorum: a
\* validator, whose own threshold is 0, waits for the Block message of the proposer,
\* which reports the lock of whatever round is current when the grace period ends, but
\* follows a round in which more than RequiredVotes other nodes precommitted, each the
\* applied block or none, and not the empty id of a timeout.
AppliedHasQuorum ==
  BeforeHandover =>
    \A n \in Node : state[n].Block \in Cid =>
      \E p \in Node, w \in msgs :
        /\ Named(p)
        /\ Cardinality(Precommitted(p, w.height, w.round, state[n].Block)) > RequiredVotes

\* A node that handles a proposal timeout has prevoted in its round, with an empty
\* vote if it had not voted yet.
TimeoutPrevotes ==
  [][\A n \in Node : onTimeoutProposal(n) => propsalState'[n].pvOnce]_vars

\* A proposer that collected the precommits of its round applies the block: the grace
\* period ends with sendBlock and onBlock, and the height advances.
GraceCommits ==
  \A n \in Node : grace[n] > 0 ~> state[n].Height = propsalState[n].Height

InFirstRound(n) ==
  /\ state[n].Proposer \notin {n, Empty}
  /\ propsalState[n].Round = 1
  /\ propsalState[n].Step # "block"

\* A validator is never stuck in its first round: when the NewRound messages stop, the
\* chain of proposal, prevote and precommit timers, however they race with the
\* messages that stop and restart them, ends in a new round or in a full vote.
FirstRoundEnds ==
  <>[][\A n \in Node, m \in msgs : ~onNewRound(n, m)]_vars =>
    \A n \in Node :
      {n} \X Step \subseteq Expires => (InFirstRound(n) ~> ~InFirstRound(n))

-----------------------------------------------------------------------------
\* What makes the properties above inductive

\* a precommit of another node stands behind the lock once sbOnce is used, the
\* onces follow the steps, and nothing is locked while a proposal is awaited or
\* validated
DisciplineAt(n) ==
  LET ps == propsalState[n]
  IN /\ ps.Step = "propose" \/ validating[n] # {} => ps.lockedValue = Undef
     /\ ps.Step \in {"precommit", "block"} \/ ps.sbOnce => ps.pcOnce
     /\ ps.Step = "block" => ps.sbOnce
     /\ ps.sbOnce /\ ps.lockedValue \in Cid =>
          \E v \in Node \ {n} :
            SentVoteFor(v, "PreCommit", ps.Height, ps.Round, ps.lockedValue)

LockDiscipline == \A n \in Node : DisciplineAt(n)

\* propsalState.Block is a block the node may stand for
BlockHeldAt(n) == propsalState[n].Block \in Cid => propsalState[n].Block \in Held(n)

BlockIsHeld == \A n \in Node : BlockHeldAt(n)

\* a node that acts as proposer, or will once a goroutine wakes, was named
ProposerIsNamed ==
  \A n \in Node :
    \/ Named(n)
    \/ /\ ~propsalState[n].AmProposer /\ state[n].Proposer # n /\ grace[n] = 0
       /\ \A g \in Goroutine : pc[n][g] \notin {"sleep", "make"}

\* The inductive invariant: the safety properties with the facts that carry them
\* through every handler of consensus.go.
IInv ==
  /\ TypeOK
  /\ LockDiscipline /\ LockIsBacked
  /\ BlockIsHeld /\ VotesAreHeld
  /\ CountedVotesAreCurrent
  /\ AppliedIsBacked
  /\ ProposerIsNamed /\ OnlyProposersPropose

\* state.Proposer is the selection of the last value handled; a block reaches
\* validators only through the messages of its maker
FollowsBeacon ==
  \A n \in Node :
    /\ tick[n] = 0 => state[n].Proposer = Empty /\ propsalState[n].f = 0
    /\ tick[n] > 0 => RandomSource(tick[n]) /\ state[n].Proposer = proposer(tick[n])
    /\ validating[n] \subseteq msgs
    /\ validated[n] \subseteq {h.id : h \in blocks}

\* a proposer validates nobody's block, and keeps the one it made, while it is the
\* only one to have been named
OneBlockMade ==
  /\ \A n \in Node : OnlySelf(n) => validating[n] = {}
  /\ BeforeHandover => \A h \in blocks : propsalState[h.Proposer].Block = h.id

\* the threshold is not set yet: nothing can make the node count votes
Unset(n) ==
  /\ propsalState[n].Step = "propose"
  /\ "precommit" \notin timers[n]
  /\ pc[n]["watchTimeouts"] \notin {"precommit", "sleep", "make"}
  /\ pc[n]["watchProposer"] # "make"
  /\ \/ propsalState[n].Height # state[n].Height
     \/ /\ "prevote" \notin timers[n] /\ pc[n]["watchTimeouts"] # "prevote"
        /\ pc[n]["watchProposer"] # "sleep"

ThresholdAt(n) ==
  OnlySelf(n) =>
    /\ "propose" \notin timers[n] /\ pc[n]["watchTimeouts"] # "propose"
    /\ propsalState[n].f = RequiredVotes \/ Unset(n)
    /\ propsalState[n].Step = "block" =>
         Cardinality(propsalState[n].PreCommits) > RequiredVotes

\* What a node owes to the beacon values it has handled, beside IInv: proposer()
\* selected the node it takes for the proposer, a proposer keeps over restarted
\* rounds the block it made, and no error path of startRound leaves it counting votes
\* without the threshold.
BeaconInv == FollowsBeacon /\ OneBlockMade /\ \A n \in Node : ThresholdAt(n)

\* more than RequiredVotes nodes other than p precommitted in one round
QuorumBeside(p) ==
  \E w \in msgs :
    Cardinality({v \in Node \ {p} : SentVote(v, "PreCommit", w.height, w.round)}) >
      RequiredVotes

\* nothing is decided, nor about to be
Undecided ==
  /\ \A n \in Node : grace[n] = 0 /\ selfBlock[n] = {} /\ state[n].Block = Genesis
  /\ \A m \in msgs : m.type # "Block"

\* What stands behind a decision, beside BeaconInv: a quorum of precommits came before
\* the first grace period, and so before the first Block message.
DecisionInv ==
  BeforeHandover => Undecided \/ \E p \in Node : Named(p) /\ QuorumBeside(p)

=============================================================================
