--------------------------- MODULE TipSyncProofs ----------------------------
(***************************************************************************)
(* A node only starts the consensus on a tip that a peer had during the    *)
(* attempt that decided it, and only on a chain that asks for one peer:    *)
(* for any number of peers and workers, and any threshold.                 *)
(***************************************************************************)
EXTENDS TipSync, Induction, FiniteSetTheorems, TLAPS

\* Most steps are first-order and go to Zenon; SMT is named where a step needs arithmetic,
\* sequences or records.
USE Zenon, SMTT(30)

\* Nothing has been asked yet.
LEMMA TipStart == Init => TipInv
<1> SUFFICES ASSUME Init PROVE TipInv
  OBVIOUS
<1>1. PICK s \in Setup : /\ required = s.required /\ near = s.near /\ foreign = s.foreign
                         /\ tip = s.first /\ last = s.last
  BY DEF Init
<1>2. required \in {1, Threshold} /\ tip \in [Peer -> Tip] /\ last \in [Peer -> Tip]
  BY <1>1, TipAssumption DEF Tip
<1>3. 0 \in Tip
  BY TipAssumption, SMTT(30) DEF Tip
<1>4. NoCall \in Call
  BY TipAssumption, SMTT(30) DEF NoCall, Call, Tip, Undef
<1>5. Typed
  BY <1>2, <1>3, <1>4 DEF Init, Typed, NoOne, NoTips, Undef, Attempt
<1>6. CallInv
  BY DEF Init, CallInv, NoCall, Attempt
<1> QED
  BY <1>5, <1>6 DEF Init, TipInv, FreshInv, TargetInv

\* A step of Start inside an attempt that does not decide anything.
LEMMA QuietTip ==
  ASSUME TipInv, UNCHANGED <<env, ask, since>>, pc # "poll", target' \in Tip,
         pc' \in {"apply", "start", "started"} =>
           target' = target /\ pc \in {"apply", "start"}
  PROVE  TipInv'
BY DEF TipInv, Typed, FreshInv, TargetInv, CallInv, HadTip, env, ask

LEMMA TipStutter == TipInv /\ UNCHANGED vars => TipInv'
BY SMTT(30) DEF TipInv, Typed, FreshInv, TargetInv, CallInv, HadTip, vars

LEMMA PollStep ==
  ASSUME TipInv, NEW c, Poll(c) PROVE TipInv'
BY DEF TipInv, Typed, FreshInv, TargetInv, CallInv, HadTip, Poll, env, ask

\* An attempt starts with a tally and with calls of its own.
LEMMA AskStep ==
  ASSUME TipInv, NEW v, askForTip(v) PROVE TipInv'
<1>1. cur \in Attempt /\ cur' = 1 - cur /\ cur' \in Attempt
  BY SMTT(30) DEF TipInv, Typed, askForTip, Attempt
<1>2. NoCall \in Call /\ NoCall.st = "idle"
  BY TipAssumption, SMTT(30) DEF NoCall, Call, Tip, Undef
<1>3. call'[cur'] = [w \in Worker |-> NoCall]
  BY <1>1 DEF TipInv, Typed, askForTip, Attempt
<1>4. \A a \in Attempt : a # cur' => call'[a] = call[a]
  BY <1>1 DEF TipInv, Typed, askForTip, Attempt
<1>5. tips'[cur'] = NoTips /\ DOMAIN tips' = Attempt
  BY <1>1 DEF TipInv, Typed, askForTip
<1>6. Typed'
  <2>1. \A a \in Attempt : DOMAIN tips'[a] \subseteq Tip
    BY <1>1, <1>5 DEF TipInv, Typed, askForTip, NoTips
  <2> QED
    BY <1>1, <1>2, <1>5, <2>1 DEF TipInv, Typed, askForTip, env
<1>7. CallInv'
  BY <1>2, <1>3, <1>4, SMTT(30) DEF TipInv, CallInv
<1>8. FreshInv'
  <2>1. since' = tip /\ tip' = tip /\ \A p \in Peer : tip[p] \in Nat
    BY TipAssumption, SMTT(30) DEF askForTip, env, TipInv, Typed, Tip
  <2>2. DOMAIN tips'[cur'] = {}
    BY <1>5 DEF NoTips
  <2> QED
    BY <1>2, <1>3, <2>1, <2>2, SMTT(30) DEF FreshInv
<1>9. TargetInv'
  BY DEF askForTip, TargetInv
<1> QED
  BY <1>6, <1>7, <1>8, <1>9 DEF TipInv

\* The tip Start decides on is one it has counted, and it is the only one.
LEMMA DecideStep ==
  ASSUME TipInv, Decide PROVE TipInv'
<1> DEFINE D == DOMAIN tips[cur]
<1>1. FreshInv' /\ CallInv'
  <2>1. UNCHANGED <<env, ask, since>> /\ pc = "decide"
    BY DEF Decide
  <2> QED
    BY <2>1 DEF TipInv, FreshInv, CallInv, HadTip, env, ask
<1>2. TargetInv' /\ target' \in Tip
  <2>1. CASE Cardinality(D) # required \/ Cardinality(D) # 1
    BY <2>1 DEF Decide, TargetInv, TipInv, Typed
  <2>2. CASE Cardinality(D) = required /\ Cardinality(D) = 1
    <3>1. D # {}
      BY <2>2, FS_EmptySet, SMTT(30)
    <3>2. target' = CHOOSE t \in D : TRUE
      BY <2>2 DEF Decide
    <3>3. target' \in D
      BY <3>1, <3>2
    <3>4. \E p \in Peer : HadTip(p, target')
      BY <3>3 DEF TipInv, FreshInv, Decide
    <3>5. UNCHANGED <<required, tip, since>>
      BY DEF Decide, env
    <3>6. target' \in Tip
      BY <3>3 DEF TipInv, Typed
    <3> QED
      BY <2>2, <3>4, <3>5, <3>6 DEF TargetInv, HadTip
  <2> QED
    BY <2>1, <2>2
<1>3. Typed'
  BY <1>2 DEF TipInv, Typed, Decide, env, ask
<1> QED
  BY <1>1, <1>2, <1>3 DEF TipInv

\* A step of one call that counts nothing: what it leaves on the wire is either
\* no answer or the peer's tip.
LEMMA CallStep ==
  ASSUME TipInv, NEW a \in Attempt, NEW w \in Worker, NEW c \in Call, SetCall(a, w, c),
         UNCHANGED <<env, pc, target, cur, tips, since>>,
         c.st \in {"sent", "answered"} => c.peer \in Peer,
         c.st = "answered" => c.tip = tip[c.peer]
  PROVE  TipInv'
<1>1. call' \in [Attempt -> [Worker -> Call]] /\ call'[a][w] = c
  BY DEF TipInv, Typed, SetCall
<1>2. \A b \in Attempt, v \in Worker : b # a \/ v # w => call'[b][v] = call[b][v]
  BY DEF TipInv, Typed, SetCall
<1>3. Typed'
  BY <1>1 DEF TipInv, Typed, env
<1>4. CallInv'
  BY <1>1, <1>2, SMTT(30) DEF TipInv, CallInv
<1>5. FreshInv'
  <2> SUFFICES ASSUME pc # "poll" PROVE FreshInv'
    BY DEF FreshInv
  <2>1. UNCHANGED <<tip, pc, cur, tips, since>> /\ cur \in Attempt
    BY DEF env, TipInv, Typed
  <2>2. \A p \in Peer : since[p] <= tip[p]
    BY DEF TipInv, FreshInv
  <2>3. \A p \in Peer : \A t : HadTip(p, t)' <=> HadTip(p, t)
    BY <2>1 DEF HadTip
  <2>4. ASSUME NEW v \in Worker, call'[cur][v].st = "answered"
        PROVE  \E p \in Peer : HadTip(p, call'[cur][v].tip)
    <3>1. CASE cur = a /\ v = w
      <4>1. c.peer \in Peer /\ c.tip = tip[c.peer]
        BY <1>1, <2>4, <3>1
      <4>2. tip[c.peer] \in Nat
        BY <4>1, TipAssumption, SMTT(30) DEF TipInv, Typed, Tip
      <4>3. HadTip(c.peer, c.tip)
        BY <2>2, <4>1, <4>2, SMTT(30) DEF HadTip
      <4> QED
        BY <1>1, <3>1, <4>1, <4>3
    <3>2. CASE cur # a \/ v # w
      BY <1>2, <2>1, <2>4, <3>2 DEF TipInv, FreshInv
    <3> QED
      BY <3>1, <3>2
  <2> QED
    BY <2>1, <2>2, <2>3, <2>4 DEF FreshInv, TipInv
<1>6. TargetInv'
  BY DEF TipInv, TargetInv, HadTip, env
<1> QED
  BY <1>3, <1>4, <1>5, <1>6 DEF TipInv

LEMMA ReqTipStep ==
  ASSUME TipInv, NEW a \in Attempt, NEW w \in Worker, NEW p \in Peer, ReqTip(a, w, p)
  PROVE  TipInv'
<1> DEFINE c == [st |-> "sent", peer |-> p, tip |-> Undef]
<1>1. c \in Call /\ c.st = "sent" /\ c.peer \in Peer
  BY TipAssumption, SMTT(30) DEF Call, Tip, Undef
<1>2. SetCall(a, w, c) /\ UNCHANGED <<env, pc, target, cur, tips, since>>
  BY DEF ReqTip
<1> HIDE DEF c
<1> QED
  BY <1>1, <1>2, CallStep

LEMMA FailStep ==
  ASSUME TipInv, NEW a \in Attempt, NEW w \in Worker, ReqTipFails(a, w)
  PROVE  TipInv'
<1>1. NoCall \in Call /\ NoCall.st = "idle"
  BY TipAssumption, SMTT(30) DEF NoCall, Call, Tip, Undef
<1>2. SetCall(a, w, NoCall) /\ UNCHANGED <<env, pc, target, cur, tips, since>>
  BY DEF ReqTipFails
<1> QED
  BY <1>1, <1>2, CallStep

LEMMA HangStep ==
  ASSUME TipInv, NEW a \in Attempt, NEW w \in Worker, Hang(a, w)
  PROVE  TipInv'
<1> DEFINE c == [st |-> "hung", peer |-> NoPeer, tip |-> Undef]
<1>1. c \in Call /\ c.st = "hung"
  BY TipAssumption, SMTT(30) DEF Call, Tip, Undef
<1>2. SetCall(a, w, c) /\ UNCHANGED <<env, pc, target, cur, tips, since>>
  BY DEF Hang
<1> HIDE DEF c
<1> QED
  BY <1>1, <1>2, CallStep

\* A peer answers with the tip it has.
LEMMA HandleStep ==
  ASSUME TipInv, NEW a \in Attempt, NEW w \in Worker, Handle(a, w)
  PROVE  TipInv'
<1> DEFINE p == call[a][w].peer
           closed == [st |-> "closed", peer |-> p, tip |-> Undef]
           answer == [st |-> "answered", peer |-> p, tip |-> tip[p]]
<1>1. p \in Peer /\ UNCHANGED <<env, pc, target, cur, tips, since>>
  BY DEF Handle, TipInv, CallInv
<1>2. tip[p] \in Tip /\ Undef \in Tip
  BY <1>1, TipAssumption, SMTT(30) DEF TipInv, Typed, Tip, Undef
<1>3. CASE SetCall(a, w, closed)
  <2>1. closed \in Call /\ closed.st = "closed"
    BY <1>1, <1>2 DEF Call
  <2> HIDE DEF closed
  <2> QED
    BY <1>1, <1>3, <2>1, CallStep
<1>4. CASE SetCall(a, w, answer)
  <2>1. answer \in Call /\ answer.peer \in Peer /\ answer.tip = tip[answer.peer]
    BY <1>1, <1>2 DEF Call
  <2> HIDE DEF answer
  <2> QED
    BY <1>1, <1>4, <2>1, CallStep
<1> QED
  BY <1>3, <1>4 DEF Handle, handleTipReq

\* A worker counts into the tally of its own attempt; if that is the current one,
\* so is the answer.
LEMMA TallyStep ==
  ASSUME TipInv, NEW a \in Attempt, NEW w \in Worker, Tally(a, w)
  PROVE  TipInv'
<1> DEFINE t == call[a][w].tip
<1>1. UNCHANGED <<env, pc, target, cur, since>> /\ cur \in Attempt
  BY DEF Tally, TipInv, Typed
<1>2. NoCall \in Call /\ NoCall.st = "idle"
  BY TipAssumption, SMTT(30) DEF NoCall, Call, Tip, Undef
<1>3. call' \in [Attempt -> [Worker -> Call]] /\ call'[a][w] = NoCall
  BY <1>2 DEF TipInv, Typed, Tally, SetCall
<1>4. \A b \in Attempt, v \in Worker : b # a \/ v # w => call'[b][v] = call[b][v]
  BY DEF TipInv, Typed, Tally, SetCall
<1>5. DOMAIN tips' = Attempt /\ tips'[a] = Counted(tips[a], t)
  BY DEF TipInv, Typed, Tally
<1>6. \A b \in Attempt : b # a => tips'[b] = tips[b]
  BY DEF TipInv, Typed, Tally
<1>7. DOMAIN Counted(tips[a], t) = DOMAIN tips[a] \cup {t}
  BY DEF Counted
<1>8. Typed'
  <2>1. t \in Tip
    BY DEF TipInv, Typed, Call
  <2>2. \A b \in Attempt : DOMAIN tips'[b] \subseteq Tip
    BY <1>5, <1>6, <1>7, <2>1 DEF TipInv, Typed
  <2> QED
    BY <1>1, <1>3, <1>5, <2>2 DEF TipInv, Typed, env
<1>9. CallInv'
  BY <1>2, <1>3, <1>4 DEF TipInv, CallInv
<1>10. FreshInv'
  <2> SUFFICES ASSUME pc # "poll" PROVE FreshInv'
    BY <1>1 DEF FreshInv
  <2>1. \A p \in Peer : \A u : HadTip(p, u)' <=> HadTip(p, u)
    BY <1>1 DEF HadTip, env
  <2>2. ASSUME NEW v \in Worker, call'[cur][v].st = "answered"
        PROVE  \E p \in Peer : HadTip(p, call'[cur][v].tip)
    BY <1>1, <1>2, <1>3, <1>4, <2>2 DEF TipInv, FreshInv
  <2>3. ASSUME NEW u \in DOMAIN tips'[cur]
        PROVE  \E p \in Peer : HadTip(p, u)
    <3>1. CASE u \in DOMAIN tips[cur]
      BY <3>1 DEF TipInv, FreshInv
    <3>2. CASE u \notin DOMAIN tips[cur]
      <4>1. cur = a /\ u = t
        BY <1>1, <1>5, <1>6, <1>7, <2>3, <3>2
      <4> QED
        BY <4>1 DEF TipInv, FreshInv, Tally
    <3> QED
      BY <3>1, <3>2
  <2>4. \A p \in Peer : since'[p] <= tip'[p]
    BY <1>1 DEF TipInv, FreshInv, env
  <2> QED
    BY <1>1, <2>1, <2>2, <2>3, <2>4 DEF FreshInv
<1>11. TargetInv'
  BY <1>1 DEF TipInv, TargetInv, HadTip, env
<1> QED
  BY <1>8, <1>9, <1>10, <1>11 DEF TipInv

\* A tip that only grows keeps what a peer had.
LEMMA BlockStep ==
  ASSUME TipInv, NEW q \in Peer, onBlock(q) PROVE TipInv'
<1>1. UNCHANGED <<required, near, foreign, last, calm, pc, peers, target, ask, since>>
  BY DEF onBlock
<1>2. tip[q] \in Nat /\ last[q] \in 0 .. MaxTip /\ tip[q] < last[q]
  BY TipAssumption, SMTT(30) DEF onBlock, TipInv, Typed, Tip
<1>3. tip[q] + 1 \in Tip
  BY <1>2, TipAssumption, SMTT(30) DEF Tip
<1>4. tip' \in [Peer -> Tip] /\ tip'[q] = tip[q] + 1 /\ \A p \in Peer : p # q => tip'[p] = tip[p]
  BY <1>3 DEF onBlock, TipInv, Typed
<1>5. \A p \in Peer : tip[p] \in Nat /\ since[p] \in Nat
  BY TipAssumption, SMTT(30) DEF TipInv, Typed, Tip
<1>6. \A p \in Peer, t \in Nat : t <= tip[p] => t <= tip'[p]
  BY <1>4, <1>5, SMTT(30)
<1>7. \A p \in Peer, t \in Tip : HadTip(p, t) => HadTip(p, t)'
  BY <1>1, <1>6, TipAssumption, SMTT(30) DEF HadTip, Tip
<1>8. Typed' /\ CallInv'
  BY <1>1, <1>4 DEF TipInv, Typed, CallInv, ask
<1>9. FreshInv'
  <2> SUFFICES ASSUME pc # "poll" PROVE FreshInv'
    BY <1>1 DEF FreshInv
  <2>1. UNCHANGED <<pc, cur, tips, call, since>> /\ cur \in Attempt
    BY <1>1 DEF ask, TipInv, Typed
  <2>2. \A p \in Peer : since'[p] <= tip'[p]
    BY <1>5, <1>6, <2>1 DEF TipInv, FreshInv
  <2>3. ASSUME NEW v \in Worker, call[cur][v].st = "answered"
        PROVE  \E p \in Peer : HadTip(p, call[cur][v].tip)'
    <3>1. call[cur][v].tip \in Tip
      BY <2>1 DEF TipInv, Typed, Call
    <3>2. PICK p \in Peer : HadTip(p, call[cur][v].tip)
      BY <2>3 DEF TipInv, FreshInv
    <3>3. HadTip(p, call[cur][v].tip)'
      BY <1>7, <2>1, <3>1, <3>2
    <3> QED
      BY <3>3
  <2>4. ASSUME NEW t \in DOMAIN tips[cur]
        PROVE  \E p \in Peer : HadTip(p, t)'
    <3>1. t \in Tip
      BY <2>1, <2>4 DEF TipInv, Typed
    <3>2. PICK p \in Peer : HadTip(p, t)
      BY <2>4 DEF TipInv, FreshInv
    <3> QED
      BY <1>7, <3>1, <3>2
  <2> QED
    BY <2>1, <2>2, <2>3, <2>4 DEF FreshInv, HadTip
<1>10. TargetInv'
  BY <1>1, <1>7 DEF TipInv, Typed, TargetInv, HadTip
<1> QED
  BY <1>8, <1>9, <1>10 DEF TipInv

\* An attempt is over: nothing of it is used any more.
LEMMA AgainStep ==
  ASSUME TipInv, Again PROVE TipInv'
<1>1. UNCHANGED <<env, peers, cur, queue, call>> /\ pc' = "poll" /\ target' = Undef
  BY DEF Again
<1>2. since' = NoOne /\ NoOne \in [Peer -> Tip] /\ Undef \in Tip
  BY TipAssumption, SMTT(30) DEF Again, NoOne, Tip, Undef
<1>3. DOMAIN tips' = Attempt /\ \A a \in Attempt : DOMAIN tips'[a] \subseteq Tip
  BY DEF Again, TipInv, Typed, NoTips
<1>4. Typed' /\ CallInv'
  BY <1>1, <1>2, <1>3 DEF TipInv, Typed, CallInv, env
<1> QED
  BY <1>1, <1>4 DEF TipInv, FreshInv, TargetInv

LEMMA TipStep == TipInv /\ [Next]_vars => TipInv'
<1> SUFFICES ASSUME TipInv, [Next]_vars PROVE TipInv'
  OBVIOUS
<1>0. target \in Tip
  BY DEF TipInv, Typed
<1>1. CASE UNCHANGED vars
  BY <1>1, TipStutter
<1>2. ASSUME NEW c, Poll(c) PROVE TipInv'
  BY <1>2, PollStep
<1>3. ASSUME NEW v, askForTip(v) PROVE TipInv'
  BY <1>3, AskStep
<1>4. CASE AllAnswered \/ Timeout
  BY <1>0, <1>4, QuietTip DEF AllAnswered, Timeout
<1>5. CASE Decide
  BY <1>5, DecideStep
<1>6. CASE ApplyFromTip \/ StartConsensus
  BY <1>0, <1>6, QuietTip DEF ApplyFromTip, StartConsensus
<1>7. CASE Again
  BY <1>7, AgainStep
<1>8. ASSUME NEW a \in Attempt, NEW w \in Worker, NEW p \in Peer, ReqTip(a, w, p) PROVE TipInv'
  BY <1>8, ReqTipStep
<1>9. ASSUME NEW a \in Attempt, NEW w \in Worker,
             Tally(a, w) \/ ReqTipFails(a, w) \/ Hang(a, w) \/ Handle(a, w)
      PROVE  TipInv'
  BY <1>9, TallyStep, FailStep, HangStep, HandleStep
<1>10. ASSUME NEW p \in Peer, onBlock(p) PROVE TipInv'
  BY <1>10, BlockStep
<1>11. CASE Calm
  BY <1>11 DEF Calm, TipInv, Typed, FreshInv, TargetInv, CallInv, HadTip, ask
<1> QED
  BY <1>1, <1>2, <1>3, <1>4, <1>5, <1>6, <1>7, <1>8, <1>9, <1>10, <1>11
  DEF Next, Start, worker, peer

\* Whatever streams fail, hang or answer late, the answers that are on the wire
\* and counted in the current attempt are of that attempt, and a tip is agreed on
\* only where one peer is asked.
THEOREM TipInductive == Spec => []TipInv
BY TipStart, TipStep, PTL DEF Spec

\* Start never uses the late answer to an attempt that has timed out
\* (askForTip's tally and wait group are its own).
THEOREM FreshTips == Spec => []StartsFresh
<1>1. TipInv => StartsFresh
  BY DEF TipInv, FreshInv, TargetInv, StartsFresh
<1> QED
  BY <1>1, TipInductive, PTL

\* Start succeeds only on a chain that asks for one peer, whatever the threshold
\* of the others (handler.go:145).
THEOREM TestChains == Spec => []OnlyTestChainsStart
<1>1. TipInv => OnlyTestChainsStart
  BY DEF TipInv, TargetInv, OnlyTestChainsStart
<1> QED
  BY <1>1, TipInductive, PTL

-----------------------------------------------------------------------------
(* Sums over a finite set: well defined, whatever the order of their terms *)

\* Counterexamples among the subsets of a finite set, each of which leads to a
\* smaller one, are none.
LEMMA SubsetSteps ==
  ASSUME NEW S, IsFiniteSet(S), NEW B \in SUBSET SUBSET S,
         \A s \in B : \E x \in s : s \ {x} \in B
  PROVE  B = {}
<1> SUFFICES ASSUME B # {} PROVE FALSE
  OBVIOUS
<1> DEFINE C == {Cardinality(s) : s \in B}
<1>1. \A s \in B : IsFiniteSet(s) /\ Cardinality(s) \in Nat
  BY FS_Subset, FS_CardinalityType
<1>2. C \in SUBSET Nat /\ C # {}
  BY <1>1
<1>3. PICK c \in C : \A d \in C : c <= d
  BY <1>2, LeastElement
<1>4. PICK s \in B : Cardinality(s) = c
  OBVIOUS
<1>5. PICK x \in s : s \ {x} \in B
  OBVIOUS
<1>6. Cardinality(s \ {x}) = Cardinality(s) - 1
  BY <1>1, FS_RemoveElement
<1>7. c <= Cardinality(s \ {x})
  BY <1>3, <1>5
<1> QED BY <1>1, <1>4, <1>6, <1>7, SMTT(30)

Pick(s) == CHOOSE x \in s : TRUE

\* one step of the sum of f over s, given the sums over smaller sets
SumStep(f, g, s) == IF s = {} THEN 0 ELSE f[Pick(s)] + g[s \ {Pick(s)}]

Sums(f, S) == CHOOSE g : g = [s \in SUBSET S |-> SumStep(f, g, s)]

LEMMA SumIsSums == \A f, S : SumFunctionOnSet(f, S) = Sums(f, S)[S]
BY DEF SumFunctionOnSet, FoldFunctionOnSet, MapThenFoldSet, Sums, SumStep, Pick

\* The function that SumFunctionOnSet chooses exists: it can be built by the size of sets.
LEMMA SumsExist ==
  ASSUME NEW f, NEW S, IsFiniteSet(S)
  PROVE  \A s \in SUBSET S : Sums(f, S)[s] = SumStep(f, Sums(f, S), s)
<1> DEFINE Small(n) == {s \in SUBSET S : Cardinality(s) <= n}
           G == {n \in Nat : \E g : g = [s \in Small(n) |-> SumStep(f, g, s)]}
<1>1. \A s \in SUBSET S : /\ IsFiniteSet(s) /\ Cardinality(s) \in Nat
                          /\ Cardinality(s) <= Cardinality(S)
  BY FS_Subset, FS_CardinalityType
<1>2. \A s \in SUBSET S : s # {} => /\ Pick(s) \in s
                                    /\ s \ {Pick(s)} \in SUBSET S
                                    /\ Cardinality(s \ {Pick(s)}) = Cardinality(s) - 1
  BY <1>1, FS_RemoveElement DEF Pick
<1>3. 0 \in G
  <2> DEFINE g == [s \in Small(0) |-> 0]
  <2>1. \A s \in Small(0) : s = {}
    BY <1>1, FS_EmptySet, SMTT(30)
  <2>2. g = [s \in Small(0) |-> SumStep(f, g, s)]
    BY <2>1 DEF SumStep
  <2> HIDE DEF g, Small
  <2> QED BY <2>2
<1>4. ASSUME NEW n \in Nat, n \in G PROVE n + 1 \in G
  <2>1. PICK g : g = [s \in Small(n) |-> SumStep(f, g, s)]
    BY <1>4
  <2> DEFINE h == [s \in Small(n + 1) |-> IF s \in Small(n) THEN g[s] ELSE SumStep(f, g, s)]
  <2>2. ASSUME NEW s \in Small(n + 1) PROVE h[s] = SumStep(f, h, s)
    <3>1. s = {} \/ s \ {Pick(s)} \in Small(n)
      BY <1>1, <1>2, SMTT(30)
    <3>2. s = {} \/ (s \ {Pick(s)} \in Small(n + 1) /\ h[s \ {Pick(s)}] = g[s \ {Pick(s)}])
      BY <1>1, <3>1, SMTT(30)
    <3>3. SumStep(f, h, s) = SumStep(f, g, s)
      BY <3>2 DEF SumStep
    <3>4. h[s] = SumStep(f, g, s)
      BY <2>1
    <3> QED BY <3>3, <3>4
  <2>3. h = [s \in Small(n + 1) |-> SumStep(f, h, s)]
    BY <2>2
  <2> HIDE DEF h, Small
  <2> QED BY <2>3, SMTT(30)
<1> HIDE DEF G
<1>5. Cardinality(S) \in G
  <2>1. Cardinality(S) \in Nat
    BY FS_CardinalityType
  <2>2. 0 .. Cardinality(S) \subseteq G
    BY <1>3, <1>4, <2>1, NatSteps, SMTT(30)
  <2> QED BY <2>1, <2>2, SMTT(30)
<1>6. Small(Cardinality(S)) = SUBSET S
  BY <1>1
<1>7. \E g : g = [s \in SUBSET S |-> SumStep(f, g, s)]
  BY <1>5, <1>6 DEF G
<1> DEFINE g == Sums(f, S)
<1>8. g = [s \in SUBSET S |-> SumStep(f, g, s)]
  BY <1>7 DEF Sums
<1>9. \A s \in SUBSET S : g[s] = SumStep(f, g, s)
  <2> HIDE DEF g
  <2> QED BY <1>8
<1> QED BY <1>9

\* The sum over a subset is the same whatever set it is taken in.
LEMMA SumsAgree ==
  ASSUME NEW f, NEW S, IsFiniteSet(S), NEW T \in SUBSET S
  PROVE  Sums(f, S)[T] = SumFunctionOnSet(f, T)
<1> DEFINE g == Sums(f, S)
           h == Sums(f, T)
           B == {s \in SUBSET T : g[s] # h[s]}
<1>1. IsFiniteSet(T)
  BY FS_Subset
<1>2. \A s \in SUBSET T : g[s] = SumStep(f, g, s) /\ h[s] = SumStep(f, h, s)
  <2>1. \A s \in SUBSET S : Sums(f, S)[s] = SumStep(f, Sums(f, S), s)
    BY SumsExist
  <2>2. \A s \in SUBSET T : Sums(f, T)[s] = SumStep(f, Sums(f, T), s)
    BY <1>1, SumsExist
  <2> QED BY <2>1, <2>2
<1> HIDE DEF g, h
<1>3. ASSUME NEW s \in B PROVE \E x \in s : s \ {x} \in B
  <2>1. s # {} /\ Pick(s) \in s
    BY <1>2 DEF SumStep, Pick
  <2>2. g[s \ {Pick(s)}] # h[s \ {Pick(s)}]
    BY <1>2, <2>1 DEF SumStep
  <2> QED BY <2>1, <2>2
<1>4. B = {}
  <2> HIDE DEF B
  <2>1. B \in SUBSET SUBSET T
    BY DEF B
  <2> QED BY <1>1, <1>3, <2>1, SubsetSteps
<1>5. g[T] = h[T]
  BY <1>4
<1> QED BY <1>5, SumIsSums DEF g, h

\* What SumFunctionOnSet computes.
LEMMA SumDef ==
  ASSUME NEW f, NEW S, IsFiniteSet(S)
  PROVE  /\ S = {} => SumFunctionOnSet(f, S) = 0
         /\ S # {} => /\ Pick(S) \in S
                      /\ SumFunctionOnSet(f, S)
                           = f[Pick(S)] + SumFunctionOnSet(f, S \ {Pick(S)})
<1> DEFINE g == Sums(f, S)
<1>1. \A s \in SUBSET S : Sums(f, S)[s] = SumStep(f, Sums(f, S), s)
  BY SumsExist
<1>2. \A T \in SUBSET S : g[T] = SumFunctionOnSet(f, T)
  BY SumsAgree
<1> HIDE DEF g
<1>3. g[S] = SumStep(f, g, S)
  BY <1>1 DEF g
<1>4. S # {} => Pick(S) \in S
  BY DEF Pick
<1> QED BY <1>2, <1>3, <1>4 DEF SumStep

\* A sum of naturals is a natural.
LEMMA SumNat ==
  ASSUME NEW f, NEW S, IsFiniteSet(S), \A x \in S : f[x] \in Nat
  PROVE  SumFunctionOnSet(f, S) \in Nat
<1> DEFINE B == {s \in SUBSET S : SumFunctionOnSet(f, s) \notin Nat}
<1>1. ASSUME NEW s \in B PROVE \E x \in s : s \ {x} \in B
  <2>1. IsFiniteSet(s)
    BY FS_Subset
  <2>2. s # {} /\ Pick(s) \in s /\ SumFunctionOnSet(f, s)
                                      = f[Pick(s)] + SumFunctionOnSet(f, s \ {Pick(s)})
    BY <2>1, SumDef, SMTT(30)
  <2>3. f[Pick(s)] \in Nat
    BY <2>2
  <2>4. SumFunctionOnSet(f, s \ {Pick(s)}) \notin Nat
    BY <2>2, <2>3, SMTT(30)
  <2> QED BY <2>2, <2>4
<1>2. B = {}
  <2> HIDE DEF B
  <2>1. B \in SUBSET SUBSET S
    BY DEF B
  <2> QED BY <1>1, <2>1, SubsetSteps
<1> QED BY <1>2

\* Functions that agree on a set have the same sum over it.
LEMMA SumSame ==
  ASSUME NEW f, NEW g, NEW S, IsFiniteSet(S), \A x \in S : f[x] = g[x]
  PROVE  SumFunctionOnSet(f, S) = SumFunctionOnSet(g, S)
<1> DEFINE B == {s \in SUBSET S : SumFunctionOnSet(f, s) # SumFunctionOnSet(g, s)}
<1>1. ASSUME NEW s \in B PROVE \E x \in s : s \ {x} \in B
  <2>1. IsFiniteSet(s)
    BY FS_Subset
  <2>2. /\ s # {} /\ Pick(s) \in s
        /\ SumFunctionOnSet(f, s) = f[Pick(s)] + SumFunctionOnSet(f, s \ {Pick(s)})
        /\ SumFunctionOnSet(g, s) = g[Pick(s)] + SumFunctionOnSet(g, s \ {Pick(s)})
    BY <2>1, SumDef
  <2> QED BY <2>2
<1>2. B = {}
  <2> HIDE DEF B
  <2>1. B \in SUBSET SUBSET S
    BY DEF B
  <2> QED BY <1>1, <2>1, SubsetSteps
<1> QED BY <1>2

\* Any term of a sum may be taken out of it.
LEMMA SumTakeOut ==
  ASSUME NEW f, NEW S, IsFiniteSet(S), \A x \in S : f[x] \in Nat, NEW x \in S
  PROVE  SumFunctionOnSet(f, S) = f[x] + SumFunctionOnSet(f, S \ {x})
<1> DEFINE Out(s, y) == SumFunctionOnSet(f, s) = f[y] + SumFunctionOnSet(f, s \ {y})
           B == {s \in SUBSET S : \E y \in s : ~Out(s, y)}
<1>1. \A s \in SUBSET S : /\ IsFiniteSet(s) /\ SumFunctionOnSet(f, s) \in Nat
                          /\ s # {} => Pick(s) \in s /\ Out(s, Pick(s))
  BY FS_Subset, SumNat, SumDef
<1>2. ASSUME NEW s \in B PROVE \E z \in s : s \ {z} \in B
  <2>1. PICK y \in s : ~Out(s, y)
    OBVIOUS
  <2> DEFINE z == Pick(s)
  <2>2. z \in s /\ z # y /\ Out(s, z)
    BY <1>1, <2>1
  <2> HIDE DEF z
  <2>3. (s \ {z}) \ {y} = (s \ {y}) \ {z}
    OBVIOUS
  <2>4. ~Out(s \ {z}, y) \/ ~Out(s \ {y}, z)
    <3>1. /\ SumFunctionOnSet(f, s \ {z}) \in Nat /\ SumFunctionOnSet(f, s \ {y}) \in Nat
          /\ SumFunctionOnSet(f, (s \ {z}) \ {y}) \in Nat /\ f[z] \in Nat /\ f[y] \in Nat
      BY <1>1, <2>2
    <3> DEFINE c == SumFunctionOnSet(f, (s \ {z}) \ {y})
    <3>2. c = SumFunctionOnSet(f, (s \ {y}) \ {z})
      BY <2>3
    <3> HIDE DEF c
    <3>3. SUFFICES ASSUME SumFunctionOnSet(f, s \ {z}) = f[y] + c,
                          SumFunctionOnSet(f, s \ {y}) = f[z] + c
                   PROVE  FALSE
      BY <3>2 DEF c
    <3>4. c \in Nat
      BY <3>1 DEF c
    <3> QED BY <2>1, <2>2, <3>1, <3>3, <3>4, SMTT(30)
  <2>5. y \in s \ {z} /\ z \in s \ {y} /\ s \ {z} \in SUBSET S /\ s \ {y} \in SUBSET S
    BY <2>2
  <2> HIDE DEF Out
  <2> QED BY <2>2, <2>4, <2>5
<1>3. B = {}
  <2> HIDE DEF B
  <2>1. B \in SUBSET SUBSET S
    BY DEF B
  <2> QED BY <1>2, <2>1, SubsetSteps
<1> QED BY <1>3

-----------------------------------------------------------------------------
(* Every peer that was asked is waited for or counted *)

\* One more answer makes a tally larger by one, whether its tip is new or not.
LEMMA CountedSum ==
  ASSUME NEW f, IsFiniteSet(DOMAIN f), \A u \in DOMAIN f : f[u] \in Nat, NEW t
  PROVE  /\ SumFunction(f) \in Nat /\ SumFunction(Counted(f, t)) = SumFunction(f) + 1
         /\ \A u \in DOMAIN Counted(f, t) : Counted(f, t)[u] \in Nat
<1> DEFINE g == Counted(f, t)
           D == DOMAIN f
<1>1. DOMAIN g = D \cup {t} /\ \A u \in DOMAIN g : g[u] \in Nat
  BY SMTT(30) DEF Counted
<1>2. /\ \A u \in D \ {t} : g[u] = f[u]
      /\ g[t] = IF t \in D THEN f[t] + 1 ELSE 1
  BY SMTT(30) DEF Counted
<1>3. IsFiniteSet(DOMAIN g) /\ IsFiniteSet(D \ {t})
  BY <1>1, FS_AddElement, FS_RemoveElement, SMTT(30)
<1> HIDE DEF g
<1>4. SumFunctionOnSet(g, D \cup {t}) = g[t] + SumFunctionOnSet(g, (D \cup {t}) \ {t})
  BY <1>1, <1>3, SumTakeOut, SMTT(30)
<1>5. (D \cup {t}) \ {t} = D \ {t}
  OBVIOUS
<1>6. SumFunctionOnSet(g, D \ {t}) = SumFunctionOnSet(f, D \ {t})
  BY <1>2, <1>3, SumSame
<1>7. SumFunctionOnSet(f, D) \in Nat /\ SumFunctionOnSet(f, D \ {t}) \in Nat
  BY <1>3, SumNat
<1>8. t \in D => SumFunctionOnSet(f, D) = f[t] + SumFunctionOnSet(f, D \ {t})
  BY SumTakeOut, SMTT(30)
<1>9. t \notin D => D \ {t} = D
  OBVIOUS
<1>10. SumFunctionOnSet(g, DOMAIN g) = SumFunctionOnSet(f, D) + 1
  BY <1>1, <1>2, <1>4, <1>5, <1>6, <1>7, <1>8, <1>9, SMTT(30)
<1> QED
  BY <1>1, <1>7, <1>10 DEF SumFunction, g

\* A worker takes one entry out of the channel.
LEMMA QueueSum ==
  ASSUME NEW q \in [Peer -> Nat], NEW p \in Peer, q[p] > 0
  PROVE  /\ [q EXCEPT ![p] = @ - 1] \in [Peer -> Nat]
         /\ SumFunction([q EXCEPT ![p] = @ - 1]) = SumFunction(q) - 1
<1> DEFINE r == [q EXCEPT ![p] = @ - 1]
<1>1. r \in [Peer -> Nat] /\ r[p] = q[p] - 1 /\ \A u \in Peer \ {p} : r[u] = q[u]
  BY SMTT(30)
<1> HIDE DEF r
<1>2. IsFiniteSet(Peer) /\ IsFiniteSet(Peer \ {p})
  BY TipAssumption, FS_RemoveElement
<1>3. SumFunctionOnSet(q, Peer) = q[p] + SumFunctionOnSet(q, Peer \ {p})
  BY <1>2, SumTakeOut, SMTT(30)
<1>4. SumFunctionOnSet(r, Peer) = r[p] + SumFunctionOnSet(r, Peer \ {p})
  BY <1>1, <1>2, SumTakeOut, SMTT(30)
<1>5. SumFunctionOnSet(r, Peer \ {p}) = SumFunctionOnSet(q, Peer \ {p})
  BY <1>1, <1>2, SumSame
<1>6. SumFunctionOnSet(q, Peer \ {p}) \in Nat
  BY <1>2, SumNat
<1>7. SumFunctionOnSet(r, Peer) = SumFunctionOnSet(q, Peer) - 1
  BY <1>1, <1>3, <1>4, <1>5, <1>6, SMTT(30)
<1> QED
  BY <1>1, <1>7 DEF SumFunction, r

LEMMA QueueNat ==
  ASSUME NEW q \in [Peer -> Nat] PROVE SumFunction(q) \in Nat
BY TipAssumption, SumNat DEF SumFunction

LEMMA NothingSums == SumFunction(NoOne) = 0 /\ SumFunction(NoTips) = 0
<1>1. DOMAIN NoTips = {} /\ IsFiniteSet({})
  BY FS_EmptySet DEF NoTips
<1>2. SumFunction(NoTips) = 0
  BY <1>1, SumDef DEF SumFunction
<1> DEFINE B == {s \in SUBSET Peer : SumFunctionOnSet(NoOne, s) # 0}
<1>3. ASSUME NEW s \in B PROVE \E x \in s : s \ {x} \in B
  <2>1. IsFiniteSet(s)
    BY TipAssumption, FS_Subset
  <2>2. s # {} /\ Pick(s) \in s /\ SumFunctionOnSet(NoOne, s)
                    = NoOne[Pick(s)] + SumFunctionOnSet(NoOne, s \ {Pick(s)})
    BY <2>1, SumDef
  <2>3. NoOne[Pick(s)] = 0
    BY <2>2 DEF NoOne
  <2>4. SumFunctionOnSet(NoOne, s \ {Pick(s)}) # 0
    BY <2>2, <2>3, SMTT(30)
  <2> QED
    BY <2>2, <2>4
<1>4. B = {}
  <2> HIDE DEF B
  <2>1. B \in SUBSET SUBSET Peer
    BY DEF B
  <2> QED
    BY <1>3, <2>1, TipAssumption, SubsetSteps
<1>5. DOMAIN NoOne = Peer
  BY DEF NoOne
<1> QED
  BY <1>2, <1>4, <1>5 DEF SumFunction

\* The calls that may still be counted, after a worker's call becomes c.
LEMMA PendingNat ==
  ASSUME NEW a PROVE IsFiniteSet(Pending(a)) /\ Cardinality(Pending(a)) \in Nat
BY TipAssumption, FS_Subset, FS_CardinalityType DEF Pending

LEMMA PendingStep ==
  ASSUME TypeOK, NEW a \in Attempt, NEW w \in Worker, NEW c \in Call, SetCall(a, w, c)
  PROVE  /\ \A b \in Attempt : b # a => Pending(b)' = Pending(b)
         /\ Cardinality(Pending(a)') \in Nat
         /\ c.st \in {"sent", "answered"} =>
              /\ w \in Pending(a) => Cardinality(Pending(a)') = Cardinality(Pending(a))
              /\ Cardinality(Pending(a)') <= Cardinality(Pending(a)) + 1
         /\ c.st \notin {"sent", "answered"} =>
              /\ w \in Pending(a) => Cardinality(Pending(a)') = Cardinality(Pending(a)) - 1
              /\ Cardinality(Pending(a)') <= Cardinality(Pending(a))
<1>1. call'[a][w] = c /\ \A b \in Attempt, v \in Worker : b # a \/ v # w => call'[b][v] = call[b][v]
  BY DEF TypeOK, SetCall
<1>2. \A b \in Attempt : b # a => Pending(b)' = Pending(b)
  BY <1>1 DEF Pending
<1>3. c.st \in {"sent", "answered"} => Pending(a)' = Pending(a) \cup {w}
  BY <1>1 DEF Pending
<1>4. c.st \notin {"sent", "answered"} => Pending(a)' = Pending(a) \ {w}
  BY <1>1 DEF Pending
<1> DEFINE P == Pending(a)
<1>5. IsFiniteSet(P) /\ Cardinality(P) \in Nat
  BY PendingNat
<1> HIDE DEF P
<1>6. /\ Cardinality(P \cup {w}) = IF w \in P THEN Cardinality(P) ELSE Cardinality(P) + 1
      /\ Cardinality(P \ {w}) = IF w \in P THEN Cardinality(P) - 1 ELSE Cardinality(P)
  BY <1>5, FS_AddElement, FS_RemoveElement
<1>7. w \in P => Cardinality(P) > 0
  <2>1. w \in P => P # {}
    OBVIOUS
  <2> QED
    BY <1>5, <2>1, FS_EmptySet, SMTT(30)
<1>8. CASE c.st \in {"sent", "answered"}
  <2>1. Pending(a)' = P \cup {w}
    BY <1>3, <1>8 DEF P
  <2> QED
    BY <1>2, <1>5, <1>6, <1>8, <2>1, SMTT(30) DEF P
<1>9. CASE c.st \notin {"sent", "answered"}
  <2>1. Pending(a)' = P \ {w}
    BY <1>4, <1>9 DEF P
  <2> QED
    BY <1>2, <1>5, <1>6, <1>7, <1>9, <2>1, SMTT(30) DEF P
<1> QED
  BY <1>8, <1>9

LEMMA AskStart == Init => AskInv
<1> SUFFICES ASSUME Init PROVE AskInv
  OBVIOUS
<1>1. Typed
  BY TipStart DEF TipInv
<1>2. near \subseteq Peer /\ foreign \subseteq Peer
  BY TipAssumption DEF Init
<1>3. TypeOK
  BY <1>1, <1>2 DEF Init, Typed, TypeOK, NoOne, Attempt
<1>4. \A a \in Attempt : Pending(a) = {}
  BY DEF Init, Pending, NoCall, Attempt
<1>5. WaitInv
  <2>1. Cardinality({}) = 0
    BY FS_EmptySet
  <2> QED
    BY <1>4, <2>1, NothingSums, SMTT(30) DEF WaitInv, Init, Attempt
<1>6. CountInv
  BY DEF Init, CountInv, NoTips, Attempt
<1> QED
  BY <1>3, <1>5, <1>6 DEF AskInv

\* A step that leaves the channels, the calls, the wait groups and the tallies.
LEMMA QuietAsk ==
  ASSUME AskInv, Typed', UNCHANGED ask,
         near' \subseteq Peer, foreign' \subseteq Peer, calm' \in BOOLEAN,
         peers' \in [Peer -> Nat], required' = required,
         pc' \in {"poll", "ask", "decide", "apply", "start", "started", "retry"},
         pc' # "poll" => pc # "poll", pc' = "decide" => wg[cur] = 0
  PROVE  AskInv'
<1>1. TypeOK'
  BY DEF AskInv, TypeOK, Typed, ask
<1>2. WaitInv'
  BY DEF AskInv, WaitInv, Pending, ask
<1>3. CountInv'
  BY DEF AskInv, CountInv, ask
<1> QED
  BY <1>1, <1>2, <1>3 DEF AskInv

LEMMA PollAsk ==
  ASSUME AskInv, Typed', NEW c, Poll(c) PROVE AskInv'
<1>1. peers' \in [Peer -> Nat]
  BY SMTT(30) DEF Poll, AskInv, TypeOK
<1>2. /\ UNCHANGED ask /\ UNCHANGED <<required, near, foreign, calm, pc>> /\ pc = "poll"
  BY DEF Poll, env
<1> QED
  BY <1>1, <1>2, QuietAsk DEF AskInv, TypeOK

\* The new attempt waits for as many peers as its channel holds.
LEMMA AskAsk ==
  ASSUME AskInv, Typed', NEW v \in [Peer -> 0 .. required], askForTip(v) PROVE AskInv'
<1>1. cur' \in Attempt /\ v \in [Peer -> Nat] /\ required \in Nat
  BY TipAssumption, SMTT(30) DEF AskInv, TypeOK, askForTip, Attempt
<1>2. /\ queue'[cur'] = v /\ wg'[cur'] = required /\ tips'[cur'] = NoTips
      /\ call'[cur'] = [w \in Worker |-> NoCall]
      /\ \A a \in Attempt : a # cur' => /\ queue'[a] = queue[a] /\ wg'[a] = wg[a]
                                        /\ tips'[a] = tips[a] /\ call'[a] = call[a]
  BY <1>1 DEF AskInv, TypeOK, askForTip
<1>3. TypeOK'
  <2>1. queue' \in [Attempt -> [Peer -> Nat]] /\ wg' \in [Attempt -> Nat]
    BY <1>1 DEF AskInv, TypeOK, askForTip
  <2>2. NoOne \in [Peer -> Nat]
    BY DEF NoOne
  <2> QED
    BY <2>1, <2>2 DEF AskInv, TypeOK, Typed, askForTip, env
<1>4. WaitInv'
  <2>1. Pending(cur)' = {} /\ Cardinality({}) = 0
    BY <1>2, FS_EmptySet, SMTT(30) DEF Pending, NoCall
  <2>2. SumFunction(queue'[cur']) + Cardinality(Pending(cur)') <= wg'[cur']
    <3>1. SumFunction(v) = required
      BY DEF askForTip
    <3> QED
      BY <1>1, <1>2, <2>1, <3>1, SMTT(30)
  <2>3. \A a \in Attempt : a # cur' => Pending(a)' = Pending(a)
    BY <1>2 DEF Pending
  <2> QED
    BY <1>2, <2>2, <2>3 DEF AskInv, WaitInv
<1>5. CountInv'
  <2>1. \A t \in DOMAIN NoTips : NoTips[t] \in Nat
    BY DEF NoTips
  <2>2. required' = required /\ pc' = "ask"
    BY DEF askForTip, env
  <2> QED
    BY <1>1, <1>2, <2>1, <2>2, NothingSums, SMTT(30) DEF AskInv, CountInv
<1> QED
  BY <1>3, <1>4, <1>5 DEF AskInv

\* The wait group is only made larger.
LEMMA AgainAsk ==
  ASSUME AskInv, Typed', Again PROVE AskInv'
<1>1. cur \in Attempt /\ required \in Nat /\ cur' = cur /\ pc' = "poll"
  BY TipAssumption, SMTT(30) DEF AskInv, TypeOK, Again
<1>2. wg'[cur] = required /\ tips'[cur] = NoTips
      /\ \A a \in Attempt : a # cur => wg'[a] = wg[a] /\ tips'[a] = tips[a]
  BY <1>1 DEF AskInv, TypeOK, Again
<1>3. wg[cur] <= wg'[cur]
  <2>1. IsFiniteSet(DOMAIN tips[cur])
    <3>1. IsFiniteSet(Tip)
      BY TipAssumption, FS_Interval, SMTT(30) DEF Tip
    <3> QED
      BY <1>1, <3>1, FS_Subset DEF AskInv, TypeOK
  <2>2. SumFunction(tips[cur]) \in Nat
    BY <1>1, <2>1, SumNat DEF AskInv, CountInv, SumFunction
  <2> QED
    BY <1>1, <1>2, <2>2, SMTT(30) DEF AskInv, CountInv, TypeOK, Again
<1>4. TypeOK'
  <2>1. wg' \in [Attempt -> Nat]
    BY <1>1 DEF AskInv, TypeOK, Again
  <2> QED
    BY <1>1, <2>1 DEF AskInv, TypeOK, Typed, Again, env
<1>5. WaitInv'
  <2>1. UNCHANGED <<queue, call>> /\ \A a \in Attempt : Pending(a)' = Pending(a)
    BY DEF Again, Pending
  <2>2. \A a \in Attempt : wg[a] \in Nat /\ wg'[a] \in Nat /\ wg[a] <= wg'[a]
    <3>1. wg \in [Attempt -> Nat] /\ wg' \in [Attempt -> Nat]
      BY <1>4 DEF AskInv, TypeOK
    <3>2. \A a \in Attempt : a # cur => wg[a] <= wg'[a]
      BY <1>2, <3>1, SMTT(30)
    <3> QED
      BY <1>3, <3>1, <3>2
  <2>3. \A a \in Attempt : SumFunction(queue[a]) \in Nat /\ Cardinality(Pending(a)) \in Nat
    BY QueueNat, PendingNat DEF AskInv, TypeOK
  <2> QED
    BY <2>1, <2>2, <2>3, SMTT(30) DEF AskInv, WaitInv
<1>6. CountInv'
  BY <1>1, <1>2 DEF AskInv, CountInv, NoTips
<1> QED
  BY <1>4, <1>5, <1>6 DEF AskInv

\* What is queued (q) and asked (k) stays within the wait group (g) when calls end, when
\* a peer is taken from the queue and asked, and when an answer is counted.
LEMMA WaitSums ==
  ASSUME NEW q \in Nat, NEW k \in Nat, NEW g \in Nat, q + k <= g
  PROVE  /\ \A j \in Nat : j <= k => q + j <= g
         /\ \A j \in Nat : j <= k + 1 => (q - 1) + j <= g
         /\ \A j \in Nat : j = k - 1 => q + j <= g - 1
  BY SMTT(30)

\* A step of one attempt keeps the wait groups of the others.
LEMMA WaitStep ==
  ASSUME WaitInv, NEW a \in Attempt,
         \A b \in Attempt : b # a => /\ queue'[b] = queue[b] /\ wg'[b] = wg[b]
                                     /\ Pending(b)' = Pending(b),
         SumFunction(queue'[a]) + Cardinality(Pending(a)') <= wg'[a]
  PROVE  WaitInv'
<1> SUFFICES ASSUME NEW b \in Attempt
             PROVE  SumFunction(queue'[b]) + Cardinality(Pending(b)') <= wg'[b]
  BY DEF WaitInv
<1>1. CASE b = a
  BY <1>1
<1>2. CASE b # a
  <2>1. SumFunction(queue[b]) + Cardinality(Pending(b)) <= wg[b]
    BY DEF WaitInv
  <2>2. queue'[b] = queue[b] /\ wg'[b] = wg[b] /\ Pending(b)' = Pending(b)
    BY <1>2
  <2> QED
    BY <2>1, <2>2, Zenon
<1> QED
  BY <1>1, <1>2

\* A step of one call that neither takes from a channel nor counts.
LEMMA CallAsk ==
  ASSUME AskInv, Typed', NEW a \in Attempt, NEW w \in Worker, NEW c \in Call, SetCall(a, w, c),
         UNCHANGED <<env, pc, peers, cur, queue, wg, tips>>,
         c.st \in {"sent", "answered"} => w \in Pending(a)
  PROVE  AskInv'
<1>1. TypeOK'
  BY DEF AskInv, TypeOK, Typed, env
<1>2. /\ \A b \in Attempt : b # a => Pending(b)' = Pending(b)
      /\ Cardinality(Pending(a)') \in Nat
      /\ Cardinality(Pending(a)') <= Cardinality(Pending(a))
  <2>1. Cardinality(Pending(a)) \in Nat /\ TypeOK
    BY PendingNat DEF AskInv
  <2> QED
    BY <2>1, PendingStep, SMTT(30)
<1>3. WaitInv'
  <2>1. \A b \in Attempt : /\ wg[b] \in Nat /\ SumFunction(queue[b]) \in Nat
                           /\ Cardinality(Pending(b)) \in Nat
    BY QueueNat, PendingNat DEF AskInv, TypeOK
  <2>2. SumFunction(queue[a]) + Cardinality(Pending(a)) <= wg[a]
    BY DEF AskInv, WaitInv
  <2>3. SumFunction(queue[a]) + Cardinality(Pending(a)') <= wg[a]
    BY <1>2, <2>1, <2>2, WaitSums, Zenon
  <2> QED
    BY <1>2, <2>3, WaitStep DEF AskInv
<1>4. CountInv'
  BY DEF AskInv, CountInv, env
<1> QED
  BY <1>1, <1>3, <1>4 DEF AskInv

\* What a worker takes from the channel is now on the wire.
LEMMA ReqTipAsk ==
  ASSUME AskInv, Typed', NEW a \in Attempt, NEW w \in Worker, NEW p \in Peer, ReqTip(a, w, p)
  PROVE  AskInv'
<1> DEFINE c == [st |-> "sent", peer |-> p, tip |-> Undef]
<1>1. c \in Call /\ c.st = "sent" /\ SetCall(a, w, c)
  BY TipAssumption, SMTT(30) DEF Call, Tip, Undef, ReqTip
<1> HIDE DEF c
<1>2. /\ queue'[a] \in [Peer -> Nat] /\ SumFunction(queue'[a]) = SumFunction(queue[a]) - 1
      /\ \A b \in Attempt : b # a => queue'[b] = queue[b]
  <2>1. queue[a] \in [Peer -> Nat] /\ queue[a][p] > 0
    BY DEF AskInv, TypeOK, ReqTip
  <2> DEFINE r == [queue[a] EXCEPT ![p] = @ - 1]
  <2>3. r \in [Peer -> Nat] /\ SumFunction(r) = SumFunction(queue[a]) - 1
    BY <2>1, QueueSum
  <2>2. queue'[a] = r /\ \A b \in Attempt : b # a => queue'[b] = queue[b]
    BY DEF AskInv, TypeOK, ReqTip
  <2> QED
    BY <2>2, <2>3
<1>3. TypeOK'
  <2>1. queue' \in [Attempt -> [Peer -> Nat]]
    BY <1>2 DEF AskInv, TypeOK, ReqTip
  <2> QED
    BY <2>1 DEF AskInv, TypeOK, Typed, ReqTip, env
<1>4. /\ \A b \in Attempt : b # a => Pending(b)' = Pending(b)
      /\ Cardinality(Pending(a)') \in Nat
      /\ Cardinality(Pending(a)') <= Cardinality(Pending(a)) + 1
  BY <1>1, PendingStep DEF AskInv
<1>5. WaitInv'
  <2>1. \A b \in Attempt : /\ wg[b] \in Nat /\ SumFunction(queue[b]) \in Nat
                           /\ Cardinality(Pending(b)) \in Nat
    BY QueueNat, PendingNat DEF AskInv, TypeOK
  <2>2. wg' = wg
    BY DEF ReqTip
  <2>3. SumFunction(queue[a]) + Cardinality(Pending(a)) <= wg[a]
    BY DEF AskInv, WaitInv
  <2>4. SumFunction(queue'[a]) + Cardinality(Pending(a)') <= wg[a]
    BY <1>2, <1>4, <2>1, <2>3, WaitSums, Zenon
  <2> QED
    BY <1>2, <1>4, <2>2, <2>4, WaitStep DEF AskInv
<1>6. CountInv'
  BY DEF AskInv, CountInv, ReqTip, env
<1> QED
  BY <1>3, <1>5, <1>6 DEF AskInv

\* An answer moves from what is waited for to what is counted, and there is
\* something to wait for.
LEMMA TallyAsk ==
  ASSUME AskInv, Typed', NEW a \in Attempt, NEW w \in Worker, Tally(a, w)
  PROVE  AskInv'
<1> DEFINE t == call[a][w].tip
<1>1. NoCall \in Call /\ NoCall.st = "idle" /\ SetCall(a, w, NoCall) /\ w \in Pending(a)
  BY TipAssumption, SMTT(30) DEF NoCall, Call, Tip, Undef, Tally, Pending
<1>2. /\ \A b \in Attempt : b # a => Pending(b)' = Pending(b)
      /\ Cardinality(Pending(a)') \in Nat
      /\ Cardinality(Pending(a)') = Cardinality(Pending(a)) - 1
  BY <1>1, PendingStep DEF AskInv
<1>3. \A b \in Attempt : /\ wg[b] \in Nat /\ SumFunction(queue[b]) \in Nat
                         /\ Cardinality(Pending(b)) \in Nat
  BY QueueNat, PendingNat DEF AskInv, TypeOK
<1>4. SumFunction(queue[a]) + Cardinality(Pending(a)) <= wg[a]
  BY DEF AskInv, WaitInv
<1>5. wg[a] - 1 \in Nat
  BY <1>2, <1>3, <1>4, SMTT(30)
<1>6. /\ wg'[a] = wg[a] - 1 /\ tips'[a] = Counted(tips[a], t)
      /\ \A b \in Attempt : b # a => wg'[b] = wg[b] /\ tips'[b] = tips[b]
  BY DEF Tally, AskInv, TypeOK
<1>7. UNCHANGED <<env, pc, peers, cur, queue>> /\ cur \in Attempt
  BY DEF Tally, AskInv, TypeOK
<1>8. TypeOK'
  <2>1. wg' \in [Attempt -> Nat]
    BY <1>5 DEF Tally, AskInv, TypeOK
  <2> QED
    BY <1>7, <2>1 DEF AskInv, TypeOK, Typed, env
<1>9. WaitInv'
  <2>1. queue' = queue
    BY <1>7
  <2>2. /\ wg[a] \in Nat /\ SumFunction(queue[a]) \in Nat
        /\ Cardinality(Pending(a)) \in Nat
    BY <1>3, Zenon
  <2>3. SumFunction(queue[a]) + Cardinality(Pending(a)') <= wg[a] - 1
    BY <1>2, <1>4, <2>2, WaitSums, Zenon
  <2>4. SumFunction(queue[a]) + Cardinality(Pending(a)') <= wg'[a]
    BY <1>6, <2>3, Zenon
  <2> QED
    BY <1>2, <1>6, <2>1, <2>4, WaitStep DEF AskInv
<1>10. /\ SumFunction(tips[a]) \in Nat /\ SumFunction(tips'[a]) = SumFunction(tips[a]) + 1
       /\ \A u \in DOMAIN tips'[a] : tips'[a][u] \in Nat
  <2>1. IsFiniteSet(Tip)
    BY TipAssumption, FS_Interval, SMTT(30) DEF Tip
  <2>2. IsFiniteSet(DOMAIN tips[a]) /\ \A u \in DOMAIN tips[a] : tips[a][u] \in Nat
    BY <2>1, FS_Subset DEF AskInv, TypeOK, CountInv
  <2> QED
    BY <1>6, <2>2, CountedSum
<1>11. CountInv'
  <2>1. \A b \in Attempt : \A u \in DOMAIN tips'[b] : tips'[b][u] \in Nat
    BY <1>6, <1>10 DEF AskInv, CountInv
  <2>2. ASSUME pc # "poll" PROVE wg'[cur] + SumFunction(tips'[cur]) = required
    <3>1. wg[cur] + SumFunction(tips[cur]) = required
      BY <2>2 DEF AskInv, CountInv
    <3>2. CASE cur = a
      BY <1>3, <1>6, <1>10, <3>1, <3>2, SMTT(30)
    <3>3. CASE cur # a
      BY <1>6, <1>7, <3>1, <3>3
    <3> QED
      BY <3>2, <3>3
  <2>3. ASSUME pc = "decide" PROVE wg'[cur] = 0
    <3>1. wg[cur] = 0
      BY <2>3 DEF AskInv, CountInv
    <3>2. cur # a
      BY <1>3, <1>5, <3>1, SMTT(30)
    <3> QED
      BY <1>6, <1>7, <3>1, <3>2
  <2> QED
    BY <1>7, <2>1, <2>2, <2>3 DEF CountInv, env
<1> QED
  BY <1>8, <1>9, <1>11 DEF AskInv

LEMMA AskStepInv ==
  ASSUME AskInv, TipInv, TipInv', [Next]_vars PROVE AskInv'
<1>0. Typed'
  BY DEF TipInv
<1> DEFINE PC == {"poll", "ask", "decide", "apply", "start", "started", "retry"}
<1>1. /\ near \subseteq Peer /\ foreign \subseteq Peer /\ calm \in BOOLEAN
      /\ peers \in [Peer -> Nat] /\ pc \in PC
  BY DEF AskInv, TypeOK
<1>2. CASE UNCHANGED vars
  BY <1>0, <1>1, <1>2, QuietAsk DEF vars, ask, AskInv, CountInv
<1>3. ASSUME NEW c, Poll(c) PROVE AskInv'
  BY <1>0, <1>3, PollAsk
<1>4. ASSUME NEW v \in [Peer -> 0 .. required], askForTip(v) PROVE AskInv'
  BY <1>0, <1>4, AskAsk
<1>5. CASE AllAnswered
  BY <1>0, <1>1, <1>5, QuietAsk DEF AllAnswered, env
<1>6. CASE Timeout
  BY <1>0, <1>1, <1>6, QuietAsk DEF Timeout, env
<1>7. CASE Decide
  <2>1. UNCHANGED <<env, peers, ask>> /\ pc = "decide" /\ pc' \in {"retry", "start", "apply"}
    BY <1>7 DEF Decide
  <2> QED
    BY <1>0, <1>1, <2>1, QuietAsk DEF env
<1>8. CASE ApplyFromTip
  BY <1>0, <1>1, <1>8, QuietAsk DEF ApplyFromTip, env
<1>9. CASE StartConsensus
  BY <1>0, <1>1, <1>9, QuietAsk DEF StartConsensus, env
<1>10. CASE Again
  BY <1>0, <1>10, AgainAsk
<1>11. ASSUME NEW a \in Attempt, NEW w \in Worker, NEW p \in Peer, ReqTip(a, w, p) PROVE AskInv'
  BY <1>0, <1>11, ReqTipAsk
<1>12. ASSUME NEW a \in Attempt, NEW w \in Worker, Tally(a, w) PROVE AskInv'
  BY <1>0, <1>12, TallyAsk
<1>13. ASSUME NEW a \in Attempt, NEW w \in Worker, ReqTipFails(a, w) PROVE AskInv'
  <2>1. NoCall \in Call /\ NoCall.st = "idle"
    BY TipAssumption, SMTT(30) DEF NoCall, Call, Tip, Undef
  <2> QED
    BY <1>0, <1>13, <2>1, CallAsk DEF ReqTipFails
<1>14. ASSUME NEW a \in Attempt, NEW w \in Worker, Hang(a, w) PROVE AskInv'
  <2> DEFINE c == [st |-> "hung", peer |-> NoPeer, tip |-> Undef]
  <2>1. c \in Call /\ c.st = "hung" /\ SetCall(a, w, c)
    BY <1>14, TipAssumption, SMTT(30) DEF Call, Tip, Undef, Hang
  <2>2. UNCHANGED <<env, pc, peers, cur, queue, wg, tips>>
    BY <1>14 DEF Hang
  <2> HIDE DEF c
  <2> QED
    BY <1>0, <2>1, <2>2, CallAsk
<1>15. ASSUME NEW a \in Attempt, NEW w \in Worker, Handle(a, w) PROVE AskInv'
  <2> DEFINE p == call[a][w].peer
             c == handleTipReq(p)
  <2>1. p \in Peer
    BY <1>15 DEF Handle, TipInv, CallInv
  <2>2. c \in Call
    <3>1. tip[p] \in Tip /\ Undef \in Tip
      BY <2>1, TipAssumption, SMTT(30) DEF TipInv, Typed, Tip, Undef
    <3> QED
      BY <2>1, <3>1, SMTT(30) DEF handleTipReq, Call
  <2>3. w \in Pending(a) /\ SetCall(a, w, c) /\ UNCHANGED <<env, pc, peers, cur, queue, wg, tips>>
    BY <1>15 DEF Handle, Pending
  <2> HIDE DEF c
  <2> QED
    BY <1>0, <2>2, <2>3, CallAsk
<1>16. ASSUME NEW p \in Peer, onBlock(p) PROVE AskInv'
  BY <1>0, <1>1, <1>16, QuietAsk DEF onBlock, AskInv, CountInv
<1>17. CASE Calm
  BY <1>0, <1>1, <1>17, QuietAsk DEF Calm, AskInv, CountInv
<1> QED
  BY <1>2, <1>3, <1>4, <1>5, <1>6, <1>7, <1>8, <1>9, <1>10, <1>11, <1>12, <1>13, <1>14, <1>15,
     <1>16, <1>17
  DEF Next, Start, worker, peer

\* In every attempt, over or not, the wait group covers the peers that are still
\* in the channel or on the wire; with the tally it makes up the peers asked.
THEOREM AskInductive == Spec => []AskInv
<1>1. Init => AskInv
  BY AskStart
<1>2. AskInv /\ TipInv /\ TipInv' /\ [Next]_vars => AskInv'
  BY AskStepInv
<1> QED
  BY <1>1, <1>2, TipInductive, PTL DEF Spec

\* The wait group of an attempt never falls below zero, where wg.Done would
\* panic, however late a worker of an attempt that has timed out is.
THEOREM TipTypes == Spec => []TypeOK
<1>1. AskInv => TypeOK
  BY DEF AskInv
<1> QED
  BY <1>1, AskInductive, PTL

\* Start decides on a tally that holds the answer of every peer it asked
\* (handler.go waits for the group or gives the attempt up).
THEOREM TalliesComplete == Spec => []TallyComplete
<1>1. AskInv => TallyComplete
  <2> SUFFICES ASSUME AskInv, pc = "decide" PROVE SumFunction(tips[cur]) = required
    BY DEF TallyComplete
  <2>1. IsFiniteSet(Tip)
    BY TipAssumption, FS_Interval, SMTT(30) DEF Tip
  <2>2. cur \in Attempt /\ IsFiniteSet(DOMAIN tips[cur])
    BY <2>1, FS_Subset DEF AskInv, TypeOK
  <2>3. SumFunction(tips[cur]) \in Nat
    BY <2>2, SumNat DEF AskInv, CountInv, SumFunction
  <2> QED
    BY <2>3, SMTT(30) DEF AskInv, CountInv
<1> QED
  BY <1>1, AskInductive, PTL
=============================================================================
