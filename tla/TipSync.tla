------------------------------ MODULE TipSync -------------------------------
(***************************************************************************)
(* How a node finds out whether it may join the consensus                  *)
(* (internal/did/handler.go): Start collects peers, three workers ask them *)
(* for their tip over a stream each, and the node starts if the tip is its *)
(* own block or can be applied.  newDidStreamHandler                       *)
(* (internal/node/streams.go) calls Start until it succeeds.               *)
(*                                                                         *)
(* A stream may fail at any point and a peer may never answer: ReqTip sets *)
(* no deadline, so the workers of an attempt that has timed out may still  *)
(* be at work during the next one.  The goroutines of two attempts are     *)
(* modelled; those of an older one can reach no variable that is left.     *)
(* The variable calm stands for a network that has stopped failing.        *)
(***************************************************************************)
EXTENDS Functions, FiniteSets

CONSTANTS
  Peer,        \* the peers libp2p may be connected to,
  Drand,       \* those tagged "drand",
  Worker,      \* the goroutines of one askForTip
  Threshold,   \* tipSetPeerCountStartThreshold
  MaxTip,      \* tips are numbered along the chain; 0 is cid.Undef
  Own,         \* the node's own block
  Setup,       \* the node's chain, its peers, and their first and last tip
  NoPeer

ASSUME TipAssumption ==
  /\ IsFiniteSet(Peer) /\ IsFiniteSet(Worker)
  /\ Drand \subseteq Peer /\ NoPeer \notin Peer
  /\ Threshold \in Nat \ {0} /\ MaxTip \in Nat /\ Own \in 0 .. MaxTip
  /\ Setup \subseteq [required : {1, Threshold}, near : SUBSET Peer, foreign : SUBSET Peer,
                 first : [Peer -> 0 .. MaxTip], last : [Peer -> 0 .. MaxTip]]

VARIABLES
  required,    \* requiredPeers: 1 on a test chain
  near,        \* the peers it is ever connected to
  foreign,     \* those on another chain
  tip, last,   \* State.Block of each peer, and a bound on it
  calm,        \* the network has stopped failing
  pc, peers,   \* Start: where it is, how often its list holds each peer
  target,      \* the tip it has agreed on
  cur,         \* the attempt whose result it waits for
  queue,       \* askForTip, by attempt: the channel pch,
  wg, tips,    \* the wait group and the tally,
  call,        \* and the ReqTip of each worker
  since        \* each peer's tip when the attempt began (0 between attempts)

vars == <<required, near, foreign, tip, last, calm, pc, peers, target, cur, queue, wg, tips, call, since>>
env == <<required, near, foreign, tip, last, calm>>
ask == <<cur, queue, wg, tips, call>>

-----------------------------------------------------------------------------
Tip == 0 .. MaxTip
Undef == 0
Attempt == {0, 1}

Call == [st : {"idle", "sent", "answered", "closed", "hung"}, peer : Peer \cup {NoPeer}, tip : Tip]
NoCall == [st |-> "idle", peer |-> NoPeer, tip |-> Undef]

NoOne == [p \in Peer |-> 0]
NoTips == [t \in {} |-> 0]

Init ==
  /\ \E s \in Setup :
       /\ required = s.required /\ near = s.near /\ foreign = s.foreign
       /\ tip = s.first /\ last = s.last
  /\ calm = FALSE
  /\ pc = "poll" /\ peers = NoOne /\ target = Undef
  /\ cur = 0
  /\ queue = [a \in Attempt |-> NoOne]
  /\ wg = [a \in Attempt |-> 0]
  /\ tips = [a \in Attempt |-> NoTips]
  /\ call = [a \in Attempt |-> [w \in Worker |-> NoCall]]
  /\ since = NoOne

SetCall(a, w, c) == call' = [call EXCEPT ![a] = [@ EXCEPT ![w] = c]]

-----------------------------------------------------------------------------
(* Start *)

\* One turn of the loop that waits for peers: whoever is connected now is
\* appended to the list, again if it is listed already.
Poll(connected) ==
  /\ pc = "poll" /\ SumFunction(peers) < required
  /\ calm => connected = near
  /\ peers' = [p \in Peer |-> IF p \in connected \ Drand THEN peers[p] + 1 ELSE peers[p]]
  /\ UNCHANGED <<env, pc, target, ask, since>>

\* mutant: the tally and the wait group are fields of the handler
askForTipShares(v) ==
  /\ pc = "poll" /\ SumFunction(peers) >= required
  /\ \A p \in Peer : v[p] <= peers[p]
  /\ SumFunction(v) = required
  /\ cur' = cur
  /\ queue' = [queue EXCEPT ![cur] = v]
  /\ wg' = [wg EXCEPT ![cur] = required]
  /\ tips' = [tips EXCEPT ![cur] = NoTips]
  /\ UNCHANGED call
  /\ since' = tip
  /\ pc' = "ask" /\ peers' = NoOne
  /\ UNCHANGED <<env, target>>

\* The first required entries of the shuffled list are asked, with a channel, a
\* wait group, a tally and workers of their own.
askForTip(v) ==
  /\ pc = "poll" /\ SumFunction(peers) >= required
  /\ \A p \in Peer : v[p] <= peers[p]
  /\ SumFunction(v) = required
  /\ cur' = 1 - cur
  /\ queue' = [queue EXCEPT ![cur'] = v]
  /\ wg' = [wg EXCEPT ![cur'] = required]
  /\ tips' = [tips EXCEPT ![cur'] = NoTips]
  /\ call' = [call EXCEPT ![cur'] = [w \in Worker |-> NoCall]]
  /\ since' = tip
  /\ pc' = "ask" /\ peers' = NoOne
  /\ UNCHANGED <<env, target>>

\* the workers of the attempt can still finish it, given time
Underway ==
  \/ wg[cur] = 0
  \/ \E w \in Worker :
       \/ call[cur][w].st \in {"sent", "answered", "closed"}
       \/ call[cur][w].st = "idle" /\ \E p \in Peer : queue[cur][p] > 0

AllAnswered ==
  /\ pc = "ask" /\ wg[cur] = 0
  /\ pc' = "decide"
  /\ UNCHANGED <<env, peers, target, ask, since>>

\* The context's ten minutes are over.  They are long enough for a network that
\* does not fail; otherwise they may end at any time.
Timeout ==
  /\ pc = "ask" /\ ~(calm /\ Underway)
  /\ pc' = "retry"
  /\ UNCHANGED <<env, peers, target, ask, since>>

\* mutant: the number of different tips is compared with 1 only
DecideOneTip ==
  /\ pc = "decide"
  /\ IF Cardinality(DOMAIN tips[cur]) # 1
       THEN pc' = "retry" /\ UNCHANGED target
       ELSE /\ target' = CHOOSE t \in DOMAIN tips[cur] : TRUE
            /\ pc' = IF target' = Own THEN "start" ELSE IF target' = Undef THEN "retry" ELSE "apply"
  /\ UNCHANGED <<env, peers, ask, since>>

\* len(tips) counts different tips, not answers.  The text of cid.Undef does
\* not parse.
Decide ==
  /\ pc = "decide"
  /\ IF Cardinality(DOMAIN tips[cur]) # required \/ Cardinality(DOMAIN tips[cur]) # 1
       THEN pc' = "retry" /\ UNCHANGED target
       ELSE /\ target' = CHOOSE t \in DOMAIN tips[cur] : TRUE
            /\ pc' = IF target' = Own THEN "start" ELSE IF target' = Undef THEN "retry" ELSE "apply"
  /\ UNCHANGED <<env, peers, ask, since>>

\* the validator's verdict on the chain up to the tip
ApplyFromTip ==
  /\ pc = "apply"
  /\ pc' \in {"start", "retry"}
  /\ UNCHANGED <<env, peers, target, ask, since>>

\* a subscription to the consensus topics may fail
StartConsensus ==
  /\ pc = "start"
  /\ pc' = "started" \/ (~calm /\ pc' = "retry")
  /\ UNCHANGED <<env, peers, target, ask, since>>

\* Ten seconds later, from Start itself or from its caller.  The tally is left to
\* the workers that still count into it.
Again ==
  /\ pc = "retry"
  /\ pc' = "poll" /\ target' = Undef /\ since' = NoOne
  /\ tips' = [tips EXCEPT ![cur] = NoTips]
  /\ wg' = [wg EXCEPT ![cur] = required]
  /\ UNCHANGED <<env, peers, cur, queue, call>>

-----------------------------------------------------------------------------
(* ReqTip, in worker w of attempt a *)

\* Open and Write; a channel that is closed still hands out what it holds
ReqTip(a, w, p) ==
  /\ queue[a][p] > 0 /\ call[a][w].st = "idle"
  /\ queue' = [queue EXCEPT ![a][p] = @ - 1]
  /\ SetCall(a, w, [st |-> "sent", peer |-> p, tip |-> Undef])
  /\ UNCHANGED <<env, pc, peers, target, cur, wg, tips, since>>

\* mutant: an error counts as done
ReqTipFailsDone(a, w) ==
  /\ call[a][w].st = "closed" \/ (~calm /\ call[a][w].st \in {"sent", "answered"})
  /\ SetCall(a, w, NoCall)
  /\ wg' = [wg EXCEPT ![a] = @ - 1]
  /\ UNCHANGED <<env, pc, peers, target, cur, queue, tips, since>>

\* The stream cannot be opened, ends, is reset, or a message comes in pieces: a
\* read returns the first piece, which does not decode or has no chain id.  The
\* worker goes on to the next peer without wg.Done.
ReqTipFails(a, w) ==
  /\ call[a][w].st = "closed" \/ (~calm /\ call[a][w].st \in {"sent", "answered"})
  /\ SetCall(a, w, NoCall)
  /\ UNCHANGED <<env, pc, peers, target, cur, queue, wg, tips, since>>

\* no answer and no error, ever
Hang(a, w) ==
  /\ ~calm /\ call[a][w].st = "sent"
  /\ SetCall(a, w, [st |-> "hung", peer |-> NoPeer, tip |-> Undef])
  /\ UNCHANGED <<env, pc, peers, target, cur, queue, wg, tips, since>>

\* what the caller sees: peer p does not answer a request for another chain
handleTipReq(p) ==
  IF p \in foreign THEN [st |-> "closed", peer |-> p, tip |-> Undef]
  ELSE [st |-> "answered", peer |-> p, tip |-> tip[p]]

\* the peer reads the request, and closes the stream in any case
Handle(a, w) ==
  /\ call[a][w].st = "sent"
  /\ SetCall(a, w, handleTipReq(call[a][w].peer))
  /\ UNCHANGED <<env, pc, peers, target, cur, queue, wg, tips, since>>

\* tally f with one more answer t
Counted(f, t) ==
  [u \in DOMAIN f \cup {t} |-> (IF u \in DOMAIN f THEN f[u] ELSE 0) + (IF u = t THEN 1 ELSE 0)]

\* mutant: wg.Done is forgotten
TallyNotDone(a, w) ==
  /\ call[a][w].st = "answered"
  /\ tips' = [tips EXCEPT ![a] = Counted(@, call[a][w].tip)]
  /\ SetCall(a, w, NoCall)
  /\ UNCHANGED <<env, pc, peers, target, cur, queue, wg, since>>

\* mutant: wg.Done is called twice
TallyTwice(a, w) ==
  /\ call[a][w].st = "answered"
  /\ tips' = [tips EXCEPT ![a] = Counted(@, call[a][w].tip)]
  /\ wg' = [wg EXCEPT ![a] = @ - 2]
  /\ SetCall(a, w, NoCall)
  /\ UNCHANGED <<env, pc, peers, target, cur, queue, since>>

Tally(a, w) ==
  /\ call[a][w].st = "answered"
  /\ tips' = [tips EXCEPT ![a] = Counted(@, call[a][w].tip)]
  /\ wg' = [wg EXCEPT ![a] = @ - 1]
  /\ SetCall(a, w, NoCall)
  /\ UNCHANGED <<env, pc, peers, target, cur, queue, since>>

-----------------------------------------------------------------------------
(* The network *)

\* a peer accepts a block
onBlock(p) ==
  /\ tip[p] < last[p]
  /\ tip' = [tip EXCEPT ![p] = @ + 1]
  /\ UNCHANGED <<required, near, foreign, last, calm, pc, peers, target, ask, since>>

Calm ==
  /\ calm' = TRUE
  /\ UNCHANGED <<required, near, foreign, tip, last, pc, peers, target, ask, since>>

-----------------------------------------------------------------------------
Start ==
  \/ /\ pc = "poll"
     /\ \/ \E c \in SUBSET near : Poll(c)
        \/ \E v \in [Peer -> 0 .. required] : askForTip(v)
  \/ AllAnswered \/ Timeout \/ Decide \/ ApplyFromTip \/ StartConsensus \/ Again

worker ==
  \E a \in Attempt, w \in Worker :
    Tally(a, w) \/ ReqTipFails(a, w) \/ \E p \in Peer : ReqTip(a, w, p)

peer == \E a \in Attempt, w \in Worker : Handle(a, w)

Next ==
  \/ Start \/ worker \/ peer
  \/ \E a \in Attempt, w \in Worker : Hang(a, w)
  \/ \E p \in Peer : onBlock(p)
  \/ Calm

\* Start is scheduled, some worker that can go on is, and once the network is calm
\* so is some peer that was asked; nothing makes the network calm.
Fairness == WF_vars(Start) /\ WF_vars(worker) /\ WF_vars(calm /\ peer)

Spec == Init /\ [][Next]_vars /\ Fairness

-----------------------------------------------------------------------------
(* Properties *)

\* Every variable holds a value of its kind; the wait group of askForTip is never
\* negative, which would make wg.Done panic.
TypeOK ==
  /\ required \in {1, Threshold} /\ near \subseteq Peer /\ foreign \subseteq Peer
  /\ tip \in [Peer -> Tip] /\ last \in [Peer -> Tip] /\ since \in [Peer -> Tip]
  /\ calm \in BOOLEAN
  /\ pc \in {"poll", "ask", "decide", "apply", "start", "started", "retry"}
  /\ peers \in [Peer -> Nat] /\ target \in Tip
  /\ cur \in Attempt
  /\ queue \in [Attempt -> [Peer -> Nat]]
  /\ wg \in [Attempt -> Nat]
  /\ DOMAIN tips = Attempt /\ \A a \in Attempt : DOMAIN tips[a] \subseteq Tip
  /\ call \in [Attempt -> [Worker -> Call]]

\* A tally is used only when every peer that was asked is in it: a peer that
\* fails to answer costs the attempt, it is never left out of the count.
TallyComplete == pc = "decide" => SumFunction(tips[cur]) = required

\* p had tip t at some time of the current attempt
HadTip(p, t) == since[p] <= t /\ t <= tip[p]

\* Every tip that is counted, and so the one the consensus starts on, is one that
\* some peer had during the last attempt, never a late answer to an earlier one:
\* a worker that outlives its attempt only reaches the tally of that attempt.
StartsFresh ==
  /\ pc # "poll" => \A t \in DOMAIN tips[cur] : \E p \in Peer : HadTip(p, t)
  /\ pc \in {"start", "started"} => \E p \in Peer : HadTip(p, target)

\* Start compares the number of different tips with the number of peers and
\* with 1 (handler.go:145), so only a chain that asks for one peer can start.
OnlyTestChainsStart == pc = "started" => required = 1

\* all peers are on the node's block
Agreed ==
  /\ required = 1
  /\ near \ Drand # {}
  /\ \A p \in near \ Drand : p \notin foreign /\ tip[p] = Own

\* On a test chain whose network stops failing, a node on the tip of its peers
\* starts, whatever failed before: no hung stream of an earlier attempt and no
\* peer without an answer keeps Start from another attempt.
EventuallyStarts == <>[](calm /\ Agreed) => <>(pc = "started")

-----------------------------------------------------------------------------
(* The inductive invariant behind StartsFresh and OnlyTestChainsStart *)

Typed ==
  /\ required \in {1, Threshold}
  /\ tip \in [Peer -> Tip] /\ last \in [Peer -> Tip] /\ since \in [Peer -> Tip]
  /\ cur \in Attempt
  /\ DOMAIN tips = Attempt /\ \A a \in Attempt : DOMAIN tips[a] \subseteq Tip
  /\ target \in Tip
  /\ call \in [Attempt -> [Worker -> Call]]

\* answers of the current attempt, on the wire and counted, are of that attempt
FreshInv ==
  pc # "poll" =>
    /\ \A p \in Peer : since[p] <= tip[p]
    /\ \A w \in Worker : call[cur][w].st = "answered" =>
         \E p \in Peer : HadTip(p, call[cur][w].tip)
    /\ \A t \in DOMAIN tips[cur] : \E p \in Peer : HadTip(p, t)

TargetInv ==
  pc \in {"apply", "start", "started"} =>
    required = 1 /\ \E p \in Peer : HadTip(p, target)

\* a call that is underway has a peer
CallInv ==
  \A a \in Attempt, w \in Worker :
    call[a][w].st \in {"sent", "answered"} => call[a][w].peer \in Peer

TipInv == Typed /\ FreshInv /\ TargetInv /\ CallInv

-----------------------------------------------------------------------------
(* The inductive invariant behind TypeOK and TallyComplete *)

\* calls that may still be counted
Pending(a) == {w \in Worker : call[a][w].st \in {"sent", "answered"}}

\* The wait group covers every peer still in the channel and every call that may
\* still end in a wg.Done, of the attempt that is waited for and of the other.
WaitInv == \A a \in Attempt : SumFunction(queue[a]) + Cardinality(Pending(a)) <= wg[a]

\* the peers that were asked are the ones waited for and the ones counted
CountInv ==
  /\ \A a \in Attempt : \A t \in DOMAIN tips[a] : tips[a][t] \in Nat
  /\ pc # "poll" => wg[cur] + SumFunction(tips[cur]) = required
  /\ pc = "decide" => wg[cur] = 0

AskInv == TypeOK /\ WaitInv /\ CountInv
=============================================================================
