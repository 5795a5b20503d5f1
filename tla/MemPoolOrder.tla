---------------------------- MODULE MemPoolOrder ----------------------------
(***************************************************************************)
(* The memory pool hands the earliest transaction out first, without ever  *)
(* leaving the heap's bounds, as long as no two calls overlap.             *)
(***************************************************************************)
EXTENDS MemPoolProofs

\* Most steps are first-order and go to Zenon; SMT is named where a step needs arithmetic,
\* sequences or records.
USE Zenon, SMTT(30)

-----------------------------------------------------------------------------
(* AddTx, and makeBlock outside the heap *)

LEMMA SerialStart == Init => SerialInv
<1> SUFFICES ASSUME Init PROVE SerialInv
  OBVIOUS
<1>1. PICK s \in Start :
        /\ plist = s.pooled
        /\ pc = [g \in Goroutine |-> IF g \in s.takers THEN "idle"
                                     ELSE IF g \in s.coming THEN "new" ELSE "done"]
  BY DEF Init
<1>2. s.coming \subseteq Tx /\ s.takers \subseteq Taker
  BY PoolAssumption
<1>3. HeapBut(plist, Len(plist), {})
  BY <1>1, PoolAssumption
<1>4. /\ \A t \in Tx : pc[t] \in {"new", "done"}
      /\ \A g \in Taker : pc[g] \in {"idle", "done"}
  BY <1>1, <1>2, PoolAssumption DEF Goroutine
<1>5. ~overlap /\ ~panicked
  BY DEF Init
<1>6. \A g \in Goroutine : ~InHeap(g)
  BY <1>4 DEF InHeap, Goroutine
<1>7. \A t \in Tx : AddInv(t)
  BY <1>4 DEF AddInv
<1>8. \A g \in Taker : TakeInv(g) /\ CountInv(g) /\ ~Busy(g)
  BY <1>4, <1>6 DEF TakeInv, CountInv, Busy, Goroutine
<1>9. \A t \in Tx : pc[t] \in AddPC
  BY <1>4 DEF AddPC
<1>10. \A g \in Taker : pc[g] \in TakePC
  BY <1>4 DEF TakePC
<1> QED
  BY <1>3, <1>5, <1>6, <1>7, <1>8, <1>9, <1>10 DEF SerialInv

\* What a step of g has to show: that it leaves the others alone, and what g
\* itself counts on next.
LEMMA SerialFrame ==
  ASSUME SerialInv, ~overlap, ~panicked, panicked' = panicked, NEW g \in Goroutine,
         \A h \in Goroutine \ {g} : pc'[h] = pc[h] /\ at'[h] = at[h],
         \A h \in Taker \ {g} : last'[h] = last[h] /\ want'[h] = want[h] /\ txs'[h] = txs[h],
         plist' = plist \/ \A h \in Goroutine \ {g} : ~InHeap(h),
         g \in Tx => pc'[g] \in AddPC /\ AddInv(g)' /\ Len(plist') >= Len(plist),
         g \in Taker => pc'[g] \in TakePC /\ TakeInv(g)' /\ CountInv(g)',
         g \in Taker => (Busy(g)' \/ plist' # plist => \A h \in Taker \ {g} : ~Busy(h)),
         InHeap(g)' => \A h \in Goroutine \ {g} : ~InHeap(h),
         plist \in Seq(Tx), plist' \in Seq(Tx), want \in [Taker -> Nat],
         (\A h \in Goroutine : ~InHeap(h))' => HeapBut(plist', Len(plist'), {})
  PROVE  SerialInv'
<1>1. \A h \in Goroutine \ {g} : (InHeap(h)' <=> InHeap(h))
  BY DEF InHeap
<1>2. \A h \in Taker \ {g} : (Busy(h)' <=> Busy(h))
  BY DEF Busy, Goroutine
<1>3. ASSUME NEW t \in Tx, t # g PROVE AddInv(t)' /\ pc'[t] \in AddPC
  <2>1. pc'[t] = pc[t] /\ at'[t] = at[t] /\ AddInv(t) /\ pc[t] \in AddPC
    BY <1>3 DEF SerialInv, Goroutine
  <2>2. CASE plist' = plist
    BY <2>1, <2>2 DEF AddInv
  <2>3. CASE ~InHeap(t)
    BY <2>1, <2>3 DEF AddInv, InHeap
  <2> QED
    BY <1>3, <2>1, <2>2, <2>3 DEF Goroutine
<1>4. ASSUME NEW h \in Taker, h # g PROVE TakeInv(h)' /\ pc'[h] \in TakePC
  <2>1. pc'[h] = pc[h] /\ at'[h] = at[h] /\ last'[h] = last[h] /\ TakeInv(h) /\ pc[h] \in TakePC
    BY <1>4 DEF SerialInv, Goroutine
  <2>2. CASE plist' = plist
    BY <2>1, <2>2 DEF TakeInv, LastFirst
  <2>3. CASE ~InHeap(h)
    BY <2>1, <2>3 DEF TakeInv, InHeap
  <2> QED
    BY <1>4, <2>1, <2>2, <2>3 DEF Goroutine
<1>5. ASSUME NEW h \in Taker, h # g PROVE CountInv(h)'
  <2>1. /\ pc'[h] = pc[h] /\ want'[h] = want[h] /\ txs'[h] = txs[h] /\ CountInv(h)
        /\ want[h] \in Nat
    BY <1>5 DEF SerialInv, Goroutine
  <2>2. CASE plist' = plist
    BY <2>1, <2>2 DEF CountInv, InHeap
  <2>3. CASE ~Busy(h)
    BY <2>1, <2>3 DEF CountInv, InHeap, Busy
  <2>4. CASE plist' # plist /\ Busy(h)
    <3>1. g \in Tx /\ ~InHeap(h) /\ Len(plist') >= Len(plist)
      BY <1>5, <2>4 DEF Goroutine
    <3>2. Len(plist') \in Nat /\ Len(plist) \in Nat
      BY SMTT(30)
    <3> QED
      BY <2>1, <3>1, <3>2, SMTT(30) DEF CountInv, InHeap
  <2> QED
    BY <2>2, <2>3, <2>4
<1>6. \A t \in Tx : pc'[t] \in AddPC /\ AddInv(t)'
  BY <1>3
<1>7. \A h \in Taker : pc'[h] \in TakePC /\ TakeInv(h)' /\ CountInv(h)'
  BY <1>4, <1>5
<1>8. (\A h, k \in Goroutine : InHeap(h) /\ InHeap(k) => h = k)'
  BY <1>1 DEF SerialInv
<1>9. (\A h, k \in Taker : Busy(h) /\ Busy(k) => h = k)'
  BY <1>2 DEF SerialInv
<1> QED
  BY <1>6, <1>7, <1>8, <1>9 DEF SerialInv

\* AddTx by itself keeps the heap a heap.
LEMMA SerialAdd ==
  ASSUME PoolInv, SerialInv, ~overlap, ~overlap', ~panicked, NEW t \in Tx, onTx(t)
  PROVE  SerialInv'
<1>0. /\ t \in Goroutine /\ t \notin Taker /\ plist \in Seq(Tx) /\ Len(plist) \in Nat
      /\ pc \in [Goroutine -> AddPC \cup TakePC] /\ at \in [Goroutine -> Nat]
      /\ want \in [Taker -> Nat]
  BY PoolAssumption, SMTT(30) DEF PoolInv, TypeOK, Goroutine
<1>1. CASE AddTx(t)
  <2>1. \A h \in Goroutine : ~InHeap(h)
    BY <1>1 DEF AddTx, OthersInHeap, InHeap
  <2>2. HeapBut(plist, Len(plist), {})
    BY <2>1 DEF SerialInv
  <2>3. /\ plist' \in Seq(Tx) /\ Len(plist') = Len(plist) + 1
        /\ \A i \in 1 .. Len(plist) : plist'[i] = plist[i]
    BY <1>0, <1>1, SMTT(30) DEF AddTx, Push
  <2>4. HeapBut(plist', Len(plist'), {Len(plist') - 1})
    <3>1. ASSUME NEW j \in 1 .. Len(plist) - 1 PROVE V(plist', Up(j)) <= V(plist', j)
      <4>1. Up(j) + 1 \in 1 .. Len(plist) /\ j + 1 \in 1 .. Len(plist)
        BY <1>0, UpFacts, SMTT(30)
      <4> QED
        BY <2>2, <2>3, <4>1 DEF HeapBut, V
    <3> QED
      BY <1>0, <2>3, <3>1, SMTT(30) DEF HeapBut
  <2>5. pc'[t] = "len" /\ at' = at
    BY <1>0, <1>1 DEF AddTx, Goto
  <2>6. AddInv(t)' /\ pc'[t] \in AddPC
    BY <1>0, <2>3, <2>4, <2>5, SMTT(30) DEF AddInv, AddPC
  <2>7. /\ \A h \in Goroutine \ {t} : pc'[h] = pc[h] /\ at'[h] = at[h]
        /\ UNCHANGED <<last, want, txs, panicked>>
    BY <1>0, <1>1 DEF AddTx, Goto
  <2>8. InHeap(t)' /\ Len(plist') >= Len(plist)
    BY <1>0, <2>3, <2>5, SMTT(30) DEF InHeap
  <2> QED
    BY <1>0, <2>1, <2>3, <2>6, <2>7, <2>8, SerialFrame
<1>2. ASSUME InHeap(t) PROVE (\A h \in Goroutine \ {t} : ~InHeap(h)) /\ AddInv(t)
  BY <1>0, <1>2 DEF SerialInv
<1>3. CASE AddLen(t)
  <2>1. /\ \A h \in Goroutine \ {t} : pc'[h] = pc[h] /\ at'[h] = at[h] /\ ~InHeap(h)
        /\ UNCHANGED <<plist, last, want, txs, panicked>>
        /\ pc[t] = "len" /\ AddInv(t)
    BY <1>0, <1>2, <1>3 DEF AddLen, Goto, InHeap
  <2>2. HeapBut(plist, Len(plist), {Len(plist) - 1}) /\ Len(plist) > 0
    BY <2>1 DEF AddInv
  <2>3. CASE Len(plist) > 1
    <3>1. pc'[t] = "up" /\ at'[t] = Len(plist) - 1
      BY <1>0, <1>3, <2>3 DEF AddLen, Goto
    <3>2. Bridged(plist, Len(plist), Len(plist) - 1)
      <4>1. \A j \in 1 .. Len(plist) - 1 : Up(j) < Len(plist) - 1
        BY <1>0, UpFacts, SMTT(30)
      <4> QED
        BY <1>0, <4>1, SMTT(30) DEF Bridged
    <3>3. AddInv(t)' /\ pc'[t] \in AddPC
      BY <1>0, <2>1, <2>2, <2>3, <3>1, <3>2, SMTT(30) DEF AddInv, AddPC
    <3>4. InHeap(t)'
      BY <3>1 DEF InHeap
    <3> QED
      BY <1>0, <2>1, <3>3, <3>4, SerialFrame, SMTT(30)
  <2>4. CASE Len(plist) = 1
    <3>1. pc'[t] = "done"
      BY <1>0, <1>3, <2>4, SMTT(30) DEF AddLen, Goto
    <3>2. AddInv(t)' /\ pc'[t] \in AddPC
      BY <3>1 DEF AddInv, AddPC
    <3>3. HeapBut(plist', Len(plist'), {})
      BY <2>1, <2>2, <2>4, HeapEmptied, SMTT(30)
    <3>4. ~InHeap(t)'
      BY <3>1 DEF InHeap
    <3> QED
      BY <1>0, <2>1, <3>2, <3>3, <3>4, SerialFrame, SMTT(30)
  <2>5. Len(plist) > 1 \/ Len(plist) = 1
    <3>1. Len(plist) \in Nat /\ Len(plist) > 0
      BY <1>0, <2>2
    <3>2. \A n \in Nat : n > 0 => n > 1 \/ n = 1
      BY SMTT(30)
    <3> QED
      BY <3>1, <3>2
  <2> QED
    BY <2>3, <2>4, <2>5
<1>4. ASSUME AddUp(t) \/ AddSwap(t)
      PROVE  /\ InHeap(t) /\ AddInv(t) /\ InRange(at[t]) /\ ~Panic
             /\ at[t] \in 1 .. Len(plist) - 1
             /\ HeapBut(plist, Len(plist), {at[t]})
             /\ Bridged(plist, Len(plist), at[t])
             /\ Up(at[t]) \in Nat /\ Up(at[t]) < at[t]
  <2>1. pc[t] \in {"up", "upSwap"} /\ InHeap(t)
    BY <1>4 DEF AddUp, AddSwap, InHeap
  <2>2. /\ AddInv(t) /\ at[t] \in 1 .. Len(plist) - 1
        /\ HeapBut(plist, Len(plist), {at[t]})
        /\ Bridged(plist, Len(plist), at[t])
    BY <1>2, <2>1 DEF AddInv
  <2>3. InRange(at[t]) /\ Up(at[t]) \in Nat /\ Up(at[t]) < at[t]
    BY <1>0, <2>2, UpFacts, SMTT(30) DEF InRange
  <2>4. ~Panic
    BY <1>4, <2>3 DEF AddUp, AddSwap, Panic
  <2> QED
    BY <2>1, <2>2, <2>3, <2>4
<1>5. CASE AddUp(t)
  <2>1. /\ \A h \in Goroutine \ {t} : pc'[h] = pc[h] /\ at'[h] = at[h] /\ ~InHeap(h)
        /\ UNCHANGED <<plist, last, want, txs, panicked>>
    BY <1>0, <1>2, <1>4, <1>5 DEF AddUp, Goto
  <2>2. CASE Less(at[t], Up(at[t]))
    <3>1. pc'[t] = "upSwap" /\ at' = at
      BY <1>0, <1>4, <1>5, <2>2 DEF AddUp, Goto
    <3>2. AddInv(t)' /\ pc'[t] \in AddPC
      BY <1>4, <1>5, <2>1, <2>2, <3>1 DEF AddInv, AddPC, Less, V
    <3>3. InHeap(t)'
      BY <3>1 DEF InHeap
    <3> QED
      BY <1>0, <2>1, <3>2, <3>3, SerialFrame, SMTT(30)
  <2>3. CASE ~Less(at[t], Up(at[t]))
    <3>1. pc'[t] = "done"
      BY <1>0, <1>4, <1>5, <2>3 DEF AddUp, Goto
    <3>2. AddInv(t)' /\ pc'[t] \in AddPC /\ ~InHeap(t)'
      BY <3>1 DEF AddInv, AddPC, InHeap
    <3>3. V(plist, Up(at[t])) <= V(plist, at[t])
      <4>1. plist[at[t] + 1] \in Tx /\ plist[Up(at[t]) + 1] \in Tx
        BY <1>0, <1>4, <1>5, SMTT(30)
      <4> QED
        BY <2>3, <4>1, TsAssumption, SMTT(30) DEF Less, V
    <3>4. HeapBut(plist', Len(plist'), {})
      BY <1>4, <1>5, <2>1, <3>3 DEF HeapBut
    <3> QED
      BY <1>0, <2>1, <3>2, <3>4, SerialFrame, SMTT(30)
  <2> QED
    BY <2>2, <2>3
<1>6. CASE AddSwap(t)
  <2>0. /\ InHeap(t) /\ AddInv(t) /\ InRange(at[t]) /\ ~Panic
        /\ at[t] \in 1 .. Len(plist) - 1
        /\ HeapBut(plist, Len(plist), {at[t]})
        /\ Bridged(plist, Len(plist), at[t])
        /\ Up(at[t]) \in Nat /\ Up(at[t]) < at[t]
    BY Zenon, <1>4, <1>6
  <2>1. /\ \A h \in Goroutine \ {t} : pc'[h] = pc[h] /\ at'[h] = at[h] /\ ~InHeap(h)
        /\ plist' = Swap(Up(at[t]), at[t]) /\ UNCHANGED <<last, want, txs, panicked>>
        /\ pc'[t] = IF Up(at[t]) > 0 THEN "up" ELSE "done"
        /\ at'[t] = Up(at[t])
    BY <1>0, <1>2, <1>6, <2>0 DEF AddSwap, Goto
  <2>2. V(plist, at[t]) < V(plist, Up(at[t]))
    BY <1>6, <2>0 DEF AddSwap, AddInv
  <2>3. /\ plist' \in Seq(Tx) /\ Len(plist') = Len(plist)
        /\ V(plist', Up(at[t])) = V(plist, at[t]) /\ V(plist', at[t]) = V(plist, Up(at[t]))
        /\ \A k \in 0 .. Len(plist) - 1 :
             k # Up(at[t]) /\ k # at[t] => V(plist', k) = V(plist, k)
    <3>1. Up(at[t]) < Len(plist) /\ at[t] < Len(plist) /\ at[t] \in Nat
      BY <1>0, <2>0, SMTT(30)
    <3>2. Up(at[t]) \in Nat /\ plist \in Seq(Tx)
      BY <1>0, <2>0
    <3>3. Swapped(plist', plist, Up(at[t]), at[t])
      BY Zenon, <2>1, <3>1, <3>2, SwapSwaps DEF Swap
    <3> QED
      BY <3>1, <3>2, <3>3, SwapFacts, SMTT(30)
  <2>4. HeapBut(plist', Len(plist), {Up(at[t])}) /\ Bridged(plist', Len(plist), Up(at[t]))
    <3>1. Len(plist) \in 1 .. Len(plist)
      BY <1>0, <2>0, SMTT(30)
    <3> QED
      BY Zenon, <1>0, <2>0, <2>2, <2>3, <3>1, SiftUp
  <2>a. /\ \A h \in Goroutine \ {t} : pc'[h] = pc[h] /\ at'[h] = at[h] /\ ~InHeap(h)
        /\ UNCHANGED <<last, want, txs, panicked>>
        /\ pc'[t] = IF Up(at[t]) > 0 THEN "up" ELSE "done"
        /\ at'[t] = Up(at[t])
    BY Zenon, <2>1
  <2>5. CASE Up(at[t]) > 0
    <3>1. pc'[t] = "up" /\ Up(at[t]) \in 1 .. Len(plist) - 1
      BY <1>0, <2>0, <2>a, <2>5, SMTT(30)
    <3>2. AddInv(t)' /\ pc'[t] \in AddPC /\ InHeap(t)'
      BY <2>a, <2>3, <2>4, <3>1 DEF AddInv, AddPC, InHeap
    <3> QED
      BY <1>0, <2>a, <2>3, <3>2, SerialFrame, SMTT(30)
  <2>6. CASE Up(at[t]) = 0
    <3>1. pc'[t] = "done"
      <4>1. ~(Up(at[t]) > 0)
        BY <2>6, SMTT(30)
      <4> QED BY Zenon, <2>a, <4>1
    <3>2. AddInv(t)' /\ pc'[t] \in AddPC /\ ~InHeap(t)'
      BY <3>1 DEF AddInv, AddPC, InHeap
    <3>3. HeapBut(plist', Len(plist'), {})
      <4>1. HeapBut(plist', Len(plist'), {0}) /\ 0 \notin 1 .. Len(plist') - 1
        BY <2>3, <2>4, <2>6, SMTT(30)
      <4>2. Len(plist') \in Nat
        BY <2>3, SMTT(30)
      <4> QED
        BY <4>1, <4>2, HeapEmptied
    <3>4. Len(plist') >= Len(plist)
      BY <1>0, <2>3, SMTT(30)
    <3> QED
      BY <1>0, <2>a, <2>3, <3>2, <3>3, <3>4, SerialFrame
  <2> QED
    BY <2>0, <2>5, <2>6, SMTT(30)
<1> QED
  BY <1>1, <1>3, <1>5, <1>6 DEF onTx

\* makeBlock outside the heap counts on what no other makeBlock takes.
LEMMA SerialCount ==
  ASSUME PoolInv, SerialInv, ~overlap, ~overlap', ~panicked, NEW g \in Taker,
         Begin(g) \/ Count(g) \/ GetTx(g) \/ PutFails(g) \/ Put(g) \/ Made(g)
  PROVE  SerialInv'
<1>0. /\ g \in Goroutine /\ g \notin Tx /\ plist \in Seq(Tx) /\ Len(plist) \in Nat
      /\ pc \in [Goroutine -> AddPC \cup TakePC] /\ at \in [Goroutine -> Nat]
      /\ want \in [Taker -> Nat] /\ txs \in [Taker -> Seq(Tx)]
  BY PoolAssumption, SMTT(30) DEF PoolInv, TypeOK, Goroutine
<1>1. ~Panic /\ UNCHANGED <<plist, panicked>> /\ ~InHeap(g)
  <2>1. pc[g] = "put" => txs[g] # <<>>
    BY DEF SerialInv, CountInv
  <2>2. ~Panic
    BY <2>1 DEF Panic, Begin, Count, GetTx, PutFails, Put, Made, Leave
  <2> QED
    BY <2>1, <2>2 DEF Begin, Count, GetTx, PutFails, Put, Made, Leave, InHeap
<1>2. \A h \in Goroutine \ {g} : pc'[h] = pc[h] /\ at'[h] = at[h]
  BY <1>0, <1>1 DEF Begin, Count, GetTx, PutFails, Put, Made, Leave, Goto
<1>3. \A h \in Taker \ {g} : last'[h] = last[h] /\ want'[h] = want[h] /\ txs'[h] = txs[h]
  BY <1>0, <1>1 DEF Begin, Count, GetTx, PutFails, Put, Made, Leave
<1>4. \A h \in Taker \ {g} : ~Busy(h)
  <2>1. CASE Begin(g)
    BY <2>1 DEF Begin, Busy
  <2>2. CASE ~Begin(g)
    <3>1. Busy(g)
      BY <2>2 DEF Count, GetTx, PutFails, Put, Made, Busy
    <3> QED
      BY <3>1 DEF SerialInv
  <2> QED
    BY <2>1, <2>2
<1>5. CASE pc'[g] = "popLen"
  <2>1. GetTx(g) /\ want[g] > 0 /\ want' = want
    <3>1. ~Begin(g) /\ ~Count(g) /\ ~PutFails(g) /\ ~Put(g) /\ ~Made(g)
      BY <1>0, <1>1, <1>5 DEF Begin, Count, PutFails, Put, Made, Leave, Goto
    <3> QED
      BY <1>0, <1>5, <3>1 DEF GetTx, Goto
  <2>2. \A h \in Goroutine \ {g} : ~InHeap(h)
    BY <1>0, <1>5, <2>1 DEF GetTx, OthersInHeap, Goto
  <2>3. HeapBut(plist, Len(plist), {})
    BY <1>1, <2>2 DEF SerialInv
  <2>4. Len(plist) >= want[g]
    BY <2>1 DEF SerialInv, CountInv, GetTx
  <2>5. pc'[g] \in TakePC /\ TakeInv(g)' /\ CountInv(g)' /\ InHeap(g)'
    BY <1>1, <1>5, <2>1, <2>3, <2>4 DEF TakePC, TakeInv, CountInv, InHeap
  <2> QED
    BY <1>0, <1>1, <1>2, <1>3, <1>4, <2>2, <2>5, SerialFrame
<1>6. CASE pc'[g] # "popLen"
  <2>1. pc'[g] \in {"idle", "count", "get", "put", "made"}
    BY <1>0, <1>1, <1>6 DEF Begin, Count, GetTx, PutFails, Put, Made, Leave, Goto
  <2>2. pc'[g] \in TakePC /\ TakeInv(g)' /\ ~InHeap(g)'
    BY <2>1 DEF TakePC, TakeInv, InHeap
  <2>3. CountInv(g)'
    <3>1. CASE pc'[g] \in {"idle", "count", "made"}
      BY <2>2, <3>1 DEF CountInv
    <3>2. CASE pc'[g] = "get"
      <4>1. Begin(g) \/ Count(g)
        BY <1>0, <1>1, <3>2 DEF GetTx, PutFails, Put, Made, Leave, Goto
      <4>2. want'[g] > 0 /\ Len(plist) >= want'[g]
        BY <1>0, <3>2, <4>1, PoolAssumption, SMTT(30) DEF Begin, Count, Goto
      <4> QED
        BY <1>1, <2>2, <3>2, <4>2 DEF CountInv
    <3>3. CASE pc'[g] = "put"
      <4>1. GetTx(g) /\ txs' = txs
        BY <1>0, <1>1, <3>3 DEF Begin, Count, GetTx, PutFails, Put, Made, Leave, Goto
      <4>2. ~ (want[g] > 0 /\ Len(plist) > 0)
        BY <1>0, <3>3, <4>1 DEF GetTx, Goto
      <4>3. Len(plist) >= want[g] /\ (want[g] > 0 \/ txs[g] # <<>>)
        BY <4>1 DEF GetTx, SerialInv, CountInv
      <4>4. txs[g] # <<>>
        BY <1>0, <4>2, <4>3, SMTT(30)
      <4> QED
        BY <2>2, <3>3, <4>1, <4>4 DEF CountInv
    <3> QED
      BY <2>1, <3>1, <3>2, <3>3
  <2>4. (\A h \in Goroutine : ~InHeap(h))' => HeapBut(plist', Len(plist'), {})
    BY <1>1, <1>2 DEF SerialInv, InHeap
  <2> QED
    BY <1>0, <1>1, <1>2, <1>3, <1>4, <2>2, <2>3, <2>4, SerialFrame
<1> QED
  BY <1>5, <1>6

-----------------------------------------------------------------------------
(* makeBlock in the heap *)

\* What GetTx counts on in the heap when it is alone.
LEMMA SerialPopping ==
  ASSUME PoolInv, SerialInv, ~overlap, ~panicked, NEW g \in Taker,
         PopLen(g) \/ PopSwap(g) \/ Down(g) \/ Child(g) \/ DownSwap(g) \/ Pop(g)
  PROVE  /\ g \in Goroutine /\ g \notin Tx /\ plist \in Seq(Tx) /\ Len(plist) \in Nat
         /\ pc \in [Goroutine -> AddPC \cup TakePC] /\ at \in [Goroutine -> Nat]
         /\ want \in [Taker -> Nat] /\ txs \in [Taker -> Seq(Tx)] /\ last \in [Taker -> Int]
         /\ at[g] \in Nat /\ last[g] \in Int
         /\ \A h \in Goroutine \ {g} : ~InHeap(h)
         /\ \A h \in Taker \ {g} : ~Busy(h)
         /\ TakeInv(g) /\ CountInv(g) /\ Len(plist) >= want[g] /\ want[g] > 0
         /\ Len(plist) > 0 /\ plist # <<>>
         /\ \A i \in 0 .. Len(plist) - 1 : V(plist, i) \in Nat
         /\ pc[g] \in {"down", "child", "downSwap", "pop"} =>
              LastFirst(g) /\ last[g] = Len(plist) - 1
         /\ pc[g] \in {"child", "downSwap"} =>
              /\ at[g] \in 1 .. last[g] - 1 /\ Up(at[g]) \in Nat /\ Up(at[g]) < at[g]
              /\ HeapBut(plist, last[g], Children(Up(at[g])))
              /\ Bridged(plist, last[g], Up(at[g]))
              /\ \A j \in 1 .. last[g] - 1 : Up(j) = Up(at[g]) => V(plist, at[g]) <= V(plist, j)
<1> DEFINE n == Len(plist)
           a == at[g]
           l == last[g]
<1>0. /\ g \in Goroutine /\ g \notin Tx /\ plist \in Seq(Tx) /\ n \in Nat
      /\ pc \in [Goroutine -> AddPC \cup TakePC] /\ at \in [Goroutine -> Nat]
      /\ want \in [Taker -> Nat] /\ txs \in [Taker -> Seq(Tx)] /\ last \in [Taker -> Int]
      /\ a \in Nat /\ l \in Int
  BY PoolAssumption, SMTT(30) DEF PoolInv, TypeOK, Goroutine
<1>1. InHeap(g) /\ Busy(g)
  BY DEF PopLen, PopSwap, Down, Child, DownSwap, Pop, InHeap, Busy
<1>2. /\ \A h \in Goroutine \ {g} : ~InHeap(h)
      /\ \A h \in Taker \ {g} : ~Busy(h)
      /\ TakeInv(g) /\ CountInv(g) /\ n >= want[g] /\ want[g] > 0
  BY <1>0, <1>1 DEF SerialInv, CountInv
<1>3. n > 0 /\ plist # <<>>
  BY <1>0, <1>2, SMTT(30)
<1>4. \A i \in 0 .. n - 1 : V(plist, i) \in Nat
  <2>1. ASSUME NEW i \in 0 .. n - 1 PROVE plist[i + 1] \in Tx
    BY <1>0, SMTT(30)
  <2> QED
    BY <2>1, TsAssumption DEF V
<1>5. pc[g] \in {"down", "child", "downSwap", "pop"} => LastFirst(g) /\ l = n - 1
  BY <1>2 DEF TakeInv, LastFirst
<1>6. pc[g] \in {"child", "downSwap"} =>
        /\ a \in 1 .. l - 1 /\ Up(a) \in Nat /\ Up(a) < a
        /\ HeapBut(plist, l, Children(Up(a)))
        /\ Bridged(plist, l, Up(a))
        /\ \A j \in 1 .. l - 1 : Up(j) = Up(a) => V(plist, a) <= V(plist, j)
  BY <1>0, <1>2, UpFacts, SMTT(30) DEF TakeInv
<1> QED
  BY <1>0, <1>2, <1>3, <1>4, <1>5, <1>6

LEMMA SerialPopLen ==
  ASSUME PoolInv, SerialInv, ~overlap, ~panicked, NEW g \in Taker, PopLen(g)
  PROVE  SerialInv'
<1> DEFINE n == Len(plist)
           a == at[g]
           l == last[g]
<1>c0. /\ g \in Goroutine /\ g \notin Tx /\ plist \in Seq(Tx) /\ n \in Nat
       /\ pc \in [Goroutine -> AddPC \cup TakePC] /\ at \in [Goroutine -> Nat]
       /\ want \in [Taker -> Nat] /\ txs \in [Taker -> Seq(Tx)] /\ last \in [Taker -> Int]
       /\ a \in Nat /\ l \in Int
  BY SerialPopping
<1>c2. /\ \A h \in Goroutine \ {g} : ~InHeap(h)
       /\ \A h \in Taker \ {g} : ~Busy(h)
       /\ TakeInv(g) /\ CountInv(g) /\ n >= want[g] /\ want[g] > 0
  BY SerialPopping
<1>c3. n > 0 /\ plist # <<>>
  BY SerialPopping
<1>1. /\ pc'[g] = "popSwap" /\ last'[g] = n - 1
      /\ UNCHANGED <<plist, want, txs, panicked>>
      /\ \A h \in Goroutine \ {g} : pc'[h] = pc[h] /\ at'[h] = at[h]
      /\ \A h \in Taker \ {g} : last'[h] = last[h]
  BY <1>c0 DEF PopLen, Goto
<1>2. HeapBut(plist, n, {})
  BY <1>c2 DEF PopLen, TakeInv
<1>3. pc'[g] \in TakePC /\ TakeInv(g)' /\ CountInv(g)' /\ InHeap(g)'
  BY <1>c2, <1>1, <1>2 DEF TakePC, TakeInv, CountInv, InHeap
<1> QED
  BY <1>c0, <1>c2, <1>1, <1>3, SerialFrame

LEMMA SerialPopSwap ==
  ASSUME PoolInv, SerialInv, ~overlap, ~panicked, NEW g \in Taker, PopSwap(g)
  PROVE  SerialInv'
<1> DEFINE n == Len(plist)
           a == at[g]
           l == last[g]
<1>c0. /\ g \in Goroutine /\ g \notin Tx /\ plist \in Seq(Tx) /\ n \in Nat
       /\ pc \in [Goroutine -> AddPC \cup TakePC] /\ at \in [Goroutine -> Nat]
       /\ want \in [Taker -> Nat] /\ txs \in [Taker -> Seq(Tx)] /\ last \in [Taker -> Int]
       /\ a \in Nat /\ l \in Int
  BY SerialPopping
<1>c2. /\ \A h \in Goroutine \ {g} : ~InHeap(h)
       /\ \A h \in Taker \ {g} : ~Busy(h)
       /\ TakeInv(g) /\ CountInv(g) /\ n >= want[g] /\ want[g] > 0
  BY SerialPopping
<1>c3. n > 0 /\ plist # <<>>
  BY SerialPopping
<1>c4. \A i \in 0 .. n - 1 : V(plist, i) \in Nat
  BY SerialPopping
<1>1. HeapBut(plist, n, {}) /\ l = n - 1
  BY <1>c2 DEF PopSwap, TakeInv
<1>2. InRange(l)
  BY <1>c0, <1>c3, <1>1, SMTT(30) DEF InRange
<1>3. /\ pc'[g] = IF 1 < l THEN "down" ELSE "pop"
      /\ plist' = Swap(0, l) /\ at'[g] = 0
      /\ UNCHANGED <<last, want, txs, panicked>>
      /\ \A h \in Goroutine \ {g} : pc'[h] = pc[h] /\ at'[h] = at[h]
  BY <1>c0, <1>2 DEF PopSwap, Goto
<1>4. l \in Nat /\ l < n /\ 0 < n
  BY <1>c0, <1>c3, <1>1, SMTT(30)
<1>5. Swapped(plist', plist, 0, l)
  <2>1. Swapped([plist EXCEPT ![0 + 1] = plist[l + 1], ![l + 1] = plist[0 + 1]], plist, 0, l)
    <3> HIDE DEF l
    <3> QED
      BY <1>c0, <1>4, SwapSwaps
  <2>2. plist' = [plist EXCEPT ![0 + 1] = plist[l + 1], ![l + 1] = plist[0 + 1]]
    BY <1>3 DEF Swap
  <2> QED
    BY <2>1, <2>2
<1>6. /\ plist' \in Seq(Tx) /\ Len(plist') = n
      /\ V(plist', 0) = V(plist, l) /\ V(plist', l) = V(plist, 0)
      /\ \A k \in 0 .. n - 1 : k # 0 /\ k # l => V(plist', k) = V(plist, k)
  BY <1>c0, <1>4, <1>5, SwapFacts, SMTT(30)
<1>7. \A i \in 0 .. n - 1 : V(plist, 0) <= V(plist, i)
  <2>1. n \in 1 .. Len(plist)
    BY <1>c0, <1>c3, SMTT(30)
  <2> QED
    BY <1>c0, <1>1, <2>1, RootFirst
<1>8. LastFirst(g)'
  <2>1. \A i \in 0 .. n - 1 : V(plist', l) <= V(plist', i)
    BY <1>c4, <1>4, <1>6, <1>7, SMTT(30)
  <2> QED
    BY <1>1, <1>3, <1>6, <2>1 DEF LastFirst
<1>9. HeapBut(plist', l, Children(0))
  <2>1. ASSUME NEW j \in 1 .. l - 1, j \notin Children(0)
        PROVE  V(plist', Up(j)) <= V(plist', j)
    <3>1. Up(j) \in Nat /\ Up(j) < j /\ Up(j) # 0
      BY <1>4, <2>1, UpFacts, SMTT(30)
    <3>2. V(plist', j) = V(plist, j) /\ V(plist', Up(j)) = V(plist, Up(j))
      BY <1>1, <1>4, <1>6, <3>1, SMTT(30)
    <3>3. j \in 1 .. n - 1
      BY <1>1, <1>4, SMTT(30)
    <3> QED
      BY <1>1, <3>2, <3>3 DEF HeapBut
  <2> QED
    BY <2>1 DEF HeapBut
<1>10. 1 < l \/ HeapBut(plist', l, {})
  BY <1>4, SMTT(30) DEF HeapBut
<1>11. TakeInv(g)'
  <2>1. CASE 1 < l
    BY <1>3, <1>8, <1>9, <2>1, SMTT(30) DEF TakeInv, Bridged
  <2>2. CASE ~ (1 < l)
    BY <1>3, <1>8, <1>10, <2>2 DEF TakeInv
  <2> QED
    BY <2>1, <2>2
<1>12. pc'[g] \in TakePC /\ CountInv(g)' /\ InHeap(g)'
  BY <1>c2, <1>3, <1>6 DEF TakePC, CountInv, InHeap
<1> QED
  BY <1>c0, <1>c2, <1>3, <1>6, <1>11, <1>12, SerialFrame

LEMMA SerialDown ==
  ASSUME PoolInv, SerialInv, ~overlap, ~panicked, NEW g \in Taker, Down(g)
  PROVE  SerialInv'
<1> DEFINE n == Len(plist)
           a == at[g]
           l == last[g]
<1>c0. /\ g \in Goroutine /\ g \notin Tx /\ plist \in Seq(Tx) /\ n \in Nat
       /\ pc \in [Goroutine -> AddPC \cup TakePC] /\ at \in [Goroutine -> Nat]
       /\ want \in [Taker -> Nat] /\ txs \in [Taker -> Seq(Tx)] /\ last \in [Taker -> Int]
       /\ a \in Nat /\ l \in Int
  BY SerialPopping
<1>c2. /\ \A h \in Goroutine \ {g} : ~InHeap(h)
       /\ \A h \in Taker \ {g} : ~Busy(h)
       /\ TakeInv(g) /\ CountInv(g) /\ n >= want[g] /\ want[g] > 0
  BY SerialPopping
<1>c3. n > 0 /\ plist # <<>>
  BY SerialPopping
<1>c4. \A i \in 0 .. n - 1 : V(plist, i) \in Nat
  BY SerialPopping
<1>c5. pc[g] \in {"down", "child", "downSwap", "pop"} => LastFirst(g) /\ l = n - 1
  BY SerialPopping
<1>1. /\ 2 * a + 1 < l /\ HeapBut(plist, l, Children(a)) /\ Bridged(plist, l, a)
      /\ LastFirst(g) /\ l = n - 1
  BY <1>c2, <1>c5 DEF Down, TakeInv
<1>2. 2 * a + 2 < l => InRange(2 * a + 2)
  BY <1>c0, <1>1, SMTT(30) DEF InRange
<1>3. /\ pc'[g] = "child"
      /\ at'[g] = IF 2 * a + 2 < l /\ Less(2 * a + 2, 2 * a + 1) THEN 2 * a + 2 ELSE 2 * a + 1
      /\ UNCHANGED <<plist, last, want, txs, panicked>>
      /\ \A h \in Goroutine \ {g} : pc'[h] = pc[h] /\ at'[h] = at[h]
  <2>1. 2 * a + 1 + 1 = 2 * a + 2
    BY <1>c0, SMTT(30)
  <2> QED
    BY <1>c0, <1>2, <2>1 DEF Down, Goto
<1>4. at'[g] \in 1 .. l - 1 /\ at'[g] \in Children(a) /\ Up(at'[g]) = a
  <2>1. at'[g] \in 1 .. l - 1 /\ at'[g] \in Children(a)
    BY <1>c0, <1>1, <1>3, SMTT(30) DEF Children
  <2>2. at'[g] \in Nat /\ at'[g] > 0
    BY <1>c0, <2>1, SMTT(30)
  <2> QED
    BY <1>c0, <2>1, <2>2, UpFacts
<1>5. ASSUME NEW j \in 1 .. l - 1, Up(j) = a PROVE V(plist, at'[g]) <= V(plist, j)
  <2>1. j \in Children(a)
    BY <1>c0, <1>5, UpFacts, SMTT(30)
  <2>2. j = 2 * a + 1 \/ j = 2 * a + 2
    BY <2>1 DEF Children
  <2>3. V(plist, j) \in Nat /\ V(plist, 2 * a + 1) \in Nat
    BY <1>c0, <1>c4, <1>1, SMTT(30)
  <2>4. 2 * a + 2 < l => V(plist, 2 * a + 2) \in Nat
    BY <1>c0, <1>c4, <1>1, SMTT(30)
  <2>5. Less(2 * a + 2, 2 * a + 1) <=> V(plist, 2 * a + 2) < V(plist, 2 * a + 1)
    BY DEF Less, V
  <2>6. CASE 2 * a + 2 < l
    BY <1>3, <2>2, <2>3, <2>4, <2>5, <2>6, SMTT(30)
  <2>7. CASE ~ (2 * a + 2 < l)
    BY <1>c0, <1>3, <2>2, <2>3, <2>7, SMTT(30)
  <2> QED
    BY <2>6, <2>7
<1>6. TakeInv(g)'
  <2>1. LastFirst(g)'
    BY <1>1, <1>3 DEF LastFirst
  <2> QED
    BY <1>1, <1>3, <1>4, <1>5, <2>1 DEF TakeInv
<1>7. pc'[g] \in TakePC /\ CountInv(g)' /\ InHeap(g)'
  BY <1>c2, <1>3 DEF TakePC, CountInv, InHeap
<1> QED
  BY <1>c0, <1>c2, <1>3, <1>6, <1>7, SerialFrame

LEMMA SerialChild ==
  ASSUME PoolInv, SerialInv, ~overlap, ~panicked, NEW g \in Taker, Child(g)
  PROVE  SerialInv'
<1> DEFINE n == Len(plist)
           a == at[g]
           l == last[g]
<1>c0. /\ g \in Goroutine /\ g \notin Tx /\ plist \in Seq(Tx) /\ n \in Nat
       /\ pc \in [Goroutine -> AddPC \cup TakePC] /\ at \in [Goroutine -> Nat]
       /\ want \in [Taker -> Nat] /\ txs \in [Taker -> Seq(Tx)] /\ last \in [Taker -> Int]
       /\ a \in Nat /\ l \in Int
  BY SerialPopping
<1>c2. /\ \A h \in Goroutine \ {g} : ~InHeap(h)
       /\ \A h \in Taker \ {g} : ~Busy(h)
       /\ TakeInv(g) /\ CountInv(g) /\ n >= want[g] /\ want[g] > 0
  BY SerialPopping
<1>c3. n > 0 /\ plist # <<>>
  BY SerialPopping
<1>c4. \A i \in 0 .. n - 1 : V(plist, i) \in Nat
  BY SerialPopping
<1>c5. pc[g] \in {"down", "child", "downSwap", "pop"} => LastFirst(g) /\ l = n - 1
  BY SerialPopping
<1>c6. pc[g] \in {"child", "downSwap"} =>
         /\ a \in 1 .. l - 1 /\ Up(a) \in Nat /\ Up(a) < a
         /\ HeapBut(plist, l, Children(Up(a)))
         /\ Bridged(plist, l, Up(a))
         /\ \A j \in 1 .. l - 1 : Up(j) = Up(a) => V(plist, a) <= V(plist, j)
  BY SerialPopping
<1>1. /\ a \in 1 .. l - 1 /\ Up(a) \in Nat /\ Up(a) < a /\ l = n - 1 /\ LastFirst(g)
      /\ HeapBut(plist, l, Children(Up(a))) /\ Bridged(plist, l, Up(a))
      /\ \A j \in 1 .. l - 1 : Up(j) = Up(a) => V(plist, a) <= V(plist, j)
  BY <1>c5, <1>c6 DEF Child
<1>2. InRange(a)
  BY <1>c0, <1>1, SMTT(30) DEF InRange
<1>3. /\ pc'[g] = IF Less(a, Up(a)) THEN "downSwap" ELSE "pop"
      /\ UNCHANGED <<plist, at, last, want, txs, panicked>>
      /\ \A h \in Goroutine \ {g} : pc'[h] = pc[h] /\ at'[h] = at[h]
  BY <1>c0, <1>2 DEF Child, Goto
<1>4. LastFirst(g)'
  BY <1>1, <1>3 DEF LastFirst
<1>5. TakeInv(g)'
  <2>1. CASE Less(a, Up(a))
    <3>1. V(plist, a) < V(plist, Up(a))
      BY <2>1 DEF Less, V
    <3> QED
      BY <1>1, <1>3, <1>4, <2>1, <3>1 DEF TakeInv
  <2>2. CASE ~Less(a, Up(a))
    <3>1. V(plist, Up(a)) <= V(plist, a)
      <4>1. V(plist, Up(a)) \in Nat /\ V(plist, a) \in Nat
        BY <1>c0, <1>c4, <1>1, SMTT(30)
      <4>2. ~ (V(plist, a) < V(plist, Up(a)))
        BY <2>2 DEF Less, V
      <4> QED
        BY <4>1, <4>2, SMTT(30)
    <3>2. ASSUME NEW j \in 1 .. l - 1 PROVE V(plist, Up(j)) <= V(plist, j)
      <4>1. CASE j \in Children(Up(a))
        <5>1. Up(j) = Up(a)
          BY <1>1, <4>1, UpFacts, SMTT(30)
        <5>2. V(plist, Up(a)) \in Nat /\ V(plist, a) \in Nat /\ V(plist, j) \in Nat
          BY <1>c0, <1>c4, <1>1, SMTT(30)
        <5> QED
          BY <1>1, <3>1, <5>1, <5>2, SMTT(30)
      <4>2. CASE j \notin Children(Up(a))
        BY <1>1, <4>2 DEF HeapBut
      <4> QED
        BY <4>1, <4>2
    <3>3. HeapBut(plist, l, {})
      BY <3>2 DEF HeapBut
    <3> QED
      BY <1>3, <1>4, <2>2, <3>3 DEF TakeInv
  <2> QED
    BY <2>1, <2>2
<1>6. pc'[g] \in TakePC /\ CountInv(g)' /\ InHeap(g)'
  BY <1>c2, <1>3 DEF TakePC, CountInv, InHeap
<1> QED
  BY <1>c0, <1>c2, <1>3, <1>5, <1>6, SerialFrame

LEMMA SerialDownSwap ==
  ASSUME PoolInv, SerialInv, ~overlap, ~panicked, NEW g \in Taker, DownSwap(g)
  PROVE  SerialInv'
<1> DEFINE n == Len(plist)
           a == at[g]
           l == last[g]
<1>c0. /\ g \in Goroutine /\ g \notin Tx /\ plist \in Seq(Tx) /\ n \in Nat
       /\ pc \in [Goroutine -> AddPC \cup TakePC] /\ at \in [Goroutine -> Nat]
       /\ want \in [Taker -> Nat] /\ txs \in [Taker -> Seq(Tx)] /\ last \in [Taker -> Int]
       /\ a \in Nat /\ l \in Int
  BY SerialPopping
<1>c2. /\ \A h \in Goroutine \ {g} : ~InHeap(h)
       /\ \A h \in Taker \ {g} : ~Busy(h)
       /\ TakeInv(g) /\ CountInv(g) /\ n >= want[g] /\ want[g] > 0
  BY SerialPopping
<1>c3. n > 0 /\ plist # <<>>
  BY SerialPopping
<1>c5. pc[g] \in {"down", "child", "downSwap", "pop"} => LastFirst(g) /\ l = n - 1
  BY SerialPopping
<1>c6. pc[g] \in {"child", "downSwap"} =>
         /\ a \in 1 .. l - 1 /\ Up(a) \in Nat /\ Up(a) < a
         /\ HeapBut(plist, l, Children(Up(a)))
         /\ Bridged(plist, l, Up(a))
         /\ \A j \in 1 .. l - 1 : Up(j) = Up(a) => V(plist, a) <= V(plist, j)
  BY SerialPopping
<1>1. /\ a \in 1 .. l - 1 /\ Up(a) \in Nat /\ Up(a) < a /\ l = n - 1 /\ LastFirst(g)
      /\ HeapBut(plist, l, Children(Up(a))) /\ Bridged(plist, l, Up(a))
      /\ \A j \in 1 .. l - 1 : Up(j) = Up(a) => V(plist, a) <= V(plist, j)
  BY <1>c5, <1>c6 DEF DownSwap
<1>2. InRange(a) /\ a < n /\ Up(a) < n /\ a < l /\ Up(a) < l
  BY <1>c0, <1>1, SMTT(30) DEF InRange
<1>3. /\ pc'[g] = IF 2 * a + 1 < l THEN "down" ELSE "pop"
      /\ plist' = Swap(Up(a), a)
      /\ UNCHANGED <<at, last, want, txs, panicked>>
      /\ \A h \in Goroutine \ {g} : pc'[h] = pc[h] /\ at'[h] = at[h]
  BY <1>c0, <1>2 DEF DownSwap, Goto
<1>4. V(plist, a) < V(plist, Up(a))
  BY <1>c2 DEF DownSwap, TakeInv
<1>5. Swapped(plist', plist, Up(a), a)
  BY <1>c0, <1>1, <1>2, <1>3, SwapSwaps DEF Swap
<1>6. /\ plist' \in Seq(Tx) /\ Len(plist') = n
      /\ V(plist', Up(a)) = V(plist, a) /\ V(plist', a) = V(plist, Up(a))
      /\ \A k \in 0 .. n - 1 : k # Up(a) /\ k # a => V(plist', k) = V(plist, k)
  BY <1>c0, <1>1, <1>2, <1>5, SwapFacts, SMTT(30)
<1>7. HeapBut(plist', l, Children(a)) /\ Bridged(plist', l, a)
  <2>1. l \in 1 .. Len(plist) /\ a \in 1 .. l - 1
    BY <1>c0, <1>1, SMTT(30)
  <2> QED
    BY <1>c0, <1>1, <1>4, <1>6, <2>1, SiftDown
<1>8. LastFirst(g)'
  <2>1. ASSUME NEW i \in 0 .. n - 1 PROVE V(plist', l) <= V(plist', i)
    <3>1. V(plist', l) = V(plist, l) /\ \A k \in 0 .. n - 1 : V(plist, l) <= V(plist, k)
      <4>1. l \in 0 .. n - 1 /\ l # Up(a) /\ l # a
        BY <1>c0, <1>c3, <1>1, <1>2, SMTT(30)
      <4> QED
        BY <1>1, <1>6, <4>1 DEF LastFirst
    <3>2. \E k \in 0 .. n - 1 : V(plist', i) = V(plist, k)
      <4>1. a \in 0 .. n - 1 /\ Up(a) \in 0 .. n - 1
        BY <1>c0, <1>1, <1>2, SMTT(30)
      <4>2. CASE i = a
        BY <1>6, <4>1, <4>2
      <4>3. CASE i = Up(a)
        BY <1>6, <4>1, <4>3
      <4>4. CASE i # a /\ i # Up(a)
        BY <1>6, <4>4
      <4> QED
        BY <4>2, <4>3, <4>4
    <3> QED
      BY <3>1, <3>2
  <2> QED
    BY <1>1, <1>3, <1>6, <2>1 DEF LastFirst
<1>9. 2 * a + 1 < l \/ HeapBut(plist', l, {})
  <2>1. ASSUME ~ (2 * a + 1 < l), NEW j \in 1 .. l - 1 PROVE j \notin Children(a)
    BY <1>c0, <2>1, SMTT(30) DEF Children
  <2> QED
    BY <1>7, <2>1 DEF HeapBut
<1>10. TakeInv(g)'
  <2>1. CASE 2 * a + 1 < l
    BY <1>3, <1>7, <1>8, <2>1 DEF TakeInv
  <2>2. CASE ~ (2 * a + 1 < l)
    BY <1>3, <1>8, <1>9, <2>2 DEF TakeInv
  <2> QED
    BY <2>1, <2>2
<1>11. pc'[g] \in TakePC /\ CountInv(g)' /\ InHeap(g)'
  BY <1>c2, <1>3, <1>6 DEF TakePC, CountInv, InHeap
<1> QED
  BY <1>c0, <1>c2, <1>3, <1>6, <1>10, <1>11, SerialFrame

LEMMA SerialTake ==
  ASSUME PoolInv, SerialInv, ~overlap, ~panicked, NEW g \in Taker, Pop(g)
  PROVE  SerialInv'
<1> DEFINE n == Len(plist)
           a == at[g]
           l == last[g]
<1>c0. /\ g \in Goroutine /\ g \notin Tx /\ plist \in Seq(Tx) /\ n \in Nat
       /\ pc \in [Goroutine -> AddPC \cup TakePC] /\ at \in [Goroutine -> Nat]
       /\ want \in [Taker -> Nat] /\ txs \in [Taker -> Seq(Tx)] /\ last \in [Taker -> Int]
       /\ a \in Nat /\ l \in Int
  BY SerialPopping
<1>c2. /\ \A h \in Goroutine \ {g} : ~InHeap(h)
       /\ \A h \in Taker \ {g} : ~Busy(h)
       /\ TakeInv(g) /\ CountInv(g) /\ n >= want[g] /\ want[g] > 0
  BY SerialPopping
<1>c3. n > 0 /\ plist # <<>>
  BY SerialPopping
<1>c5. pc[g] \in {"down", "child", "downSwap", "pop"} => LastFirst(g) /\ l = n - 1
  BY SerialPopping
<1>1. HeapBut(plist, l, {}) /\ l = n - 1
  BY <1>c2, <1>c5 DEF Pop, TakeInv
<1>2. /\ pc'[g] = "get" /\ want'[g] = want[g] - 1
      /\ plist' = [i \in 1 .. n - 1 |-> plist[i]]
      /\ txs'[g] = Append(txs[g], plist[n]) /\ panicked' = panicked
      /\ \A h \in Goroutine \ {g} : pc'[h] = pc[h] /\ at'[h] = at[h]
      /\ \A h \in Taker \ {g} : last'[h] = last[h] /\ want'[h] = want[h] /\ txs'[h] = txs[h]
  BY <1>c0, <1>c3 DEF Pop, Goto
<1>3. /\ plist' \in Seq(Tx) /\ Len(plist') = n - 1
      /\ \A i \in 1 .. n - 1 : plist'[i] = plist[i]
  BY <1>c0, <1>c3, <1>2, FrontFacts
<1>4. HeapBut(plist', Len(plist'), {})
  <2>1. ASSUME NEW j \in 1 .. n - 1 - 1 PROVE V(plist', Up(j)) <= V(plist', j)
    <3>1. Up(j) + 1 \in 1 .. n - 1 /\ j + 1 \in 1 .. n - 1
      <4>1. j \in Nat /\ j > 0 /\ j < n - 1
        BY <1>c0, SMTT(30)
      <4>2. Up(j) \in Nat /\ Up(j) < j
        BY <4>1, UpFacts
      <4> QED
        BY <1>c0, <4>1, <4>2, SMTT(30)
    <3>2. V(plist', Up(j)) = V(plist, Up(j)) /\ V(plist', j) = V(plist, j)
      BY <1>3, <3>1 DEF V
    <3> QED
      BY <1>1, <3>2 DEF HeapBut
  <2> QED
    BY <1>3, <2>1 DEF HeapBut
<1>5. txs'[g] # <<>>
  <2>1. plist[n] \in Tx /\ txs[g] \in Seq(Tx)
    BY <1>c0, <1>c3, SMTT(30)
  <2>2. Append(txs[g], plist[n]) # <<>>
    BY <2>1, SMTT(30)
  <2> QED
    BY <1>2, <2>2
<1>6. pc'[g] \in TakePC /\ TakeInv(g)' /\ CountInv(g)' /\ ~InHeap(g)'
  <2>1. Len(plist') >= want'[g]
    <3>1. n \in Nat /\ want[g] \in Nat /\ n >= want[g]
      BY <1>c0, <1>c2
    <3>2. Len(plist') = n - 1 /\ want'[g] = want[g] - 1
      BY <1>2, <1>3
    <3>3. \A x, y \in Nat : x >= y => x - 1 >= y - 1
      BY SMTT(30)
    <3> HIDE DEF n
    <3> QED
      BY <3>1, <3>2, <3>3
  <2> QED
    BY <1>2, <1>5, <2>1 DEF TakePC, TakeInv, CountInv, InHeap
<1> QED
  BY <1>c0, <1>c2, <1>2, <1>3, <1>4, <1>6, SerialFrame

\* GetTx by itself keeps the heap a heap and takes the earliest.
LEMMA SerialPop ==
  ASSUME PoolInv, SerialInv, ~overlap, ~panicked, NEW g \in Taker,
         PopLen(g) \/ PopSwap(g) \/ Down(g) \/ Child(g) \/ DownSwap(g) \/ Pop(g)
  PROVE  SerialInv'
BY SerialPopLen, SerialPopSwap, SerialDown, SerialChild, SerialDownSwap, SerialTake

\* Adders and takers keep to their own labels.
LEMMA Labels ==
  ASSUME PoolInv, Next
  PROVE  /\ \A t \in Tx : pc[t] \in AddPC => pc'[t] \in AddPC
         /\ \A g \in Taker : pc[g] \in TakePC => pc'[g] \in TakePC
<1>1. pc \in [Goroutine -> AddPC \cup TakePC] /\ Tx \cap Taker = {}
  BY PoolAssumption DEF PoolInv, TypeOK
<1>2. ASSUME NEW t \in Tx, onTx(t) PROVE \E p \in AddPC : pc' = [pc EXCEPT ![t] = p] \/ pc' = pc
  BY <1>2 DEF onTx, AddTx, AddLen, AddUp, AddSwap, Panic, Goto, AddPC
<1>3. ASSUME NEW g \in Taker, makeBlock(g)
      PROVE  \E p \in TakePC : pc' = [pc EXCEPT ![g] = p] \/ pc' = pc
  BY <1>3 DEF makeBlock, Begin, Count, GetTx, PopLen, PopSwap, Down, Child, DownSwap, Pop,
              PutFails, Put, Made, Leave, Panic, Goto, TakePC
<1>4. CASE \E t \in Tx : onTx(t)
  BY <1>1, <1>2, <1>4 DEF Goroutine
<1>5. CASE \E g \in Taker : makeBlock(g)
  BY <1>1, <1>3, <1>5 DEF Goroutine
<1> QED
  BY <1>4, <1>5 DEF Next

\* The invariant of a pool whose calls have not overlapped is inductive.
THEOREM SerialInductive == Spec => [](PoolInv /\ SerialInv)
<1>1. Init => SerialInv
  BY SerialStart
<1>2. PoolInv /\ SerialInv /\ [Next]_vars => SerialInv'
  <2> SUFFICES ASSUME PoolInv, SerialInv, [Next]_vars PROVE SerialInv'
    OBVIOUS
  <2>1. CASE UNCHANGED vars
    BY <2>1, ZenonT(60) DEF vars, SerialInv, InHeap, Busy, AddInv, TakeInv, CountInv, LastFirst
  <2>2. CASE Next
    <3>1. ~panicked /\ (overlap => overlap')
      <4>1. ASSUME NEW t \in Tx, onTx(t) PROVE ~panicked /\ (overlap => overlap')
        <5>1. CASE AddTx(t)
          BY <4>1, <5>1 DEF onTx, AddTx
        <5>2. CASE AddLen(t) \/ AddUp(t) \/ AddSwap(t)
          BY <4>1, <5>2 DEF onTx, AddLen, AddUp, AddSwap, Panic
        <5> QED
          BY <4>1, <5>1, <5>2 DEF onTx
      <4>2. ASSUME NEW g \in Taker, makeBlock(g) PROVE ~panicked /\ (overlap => overlap')
        <5>1. CASE Begin(g)
          BY <4>2, <5>1 DEF makeBlock, Begin
        <5>2. CASE GetTx(g)
          BY <4>2, <5>2 DEF makeBlock, GetTx
        <5>3. CASE Count(g) \/ PopLen(g) \/ PopSwap(g) \/ Down(g) \/ Child(g) \/ DownSwap(g)
          BY <4>2, <5>3 DEF makeBlock, Count, PopLen, PopSwap, Down, Child, DownSwap, Panic
        <5>4. CASE PutFails(g) \/ Made(g)
          BY <4>2, <5>4 DEF makeBlock, PutFails, Made, Leave
        <5>5. CASE Put(g)
          BY <4>2, <5>5 DEF makeBlock, Put, Panic
        <5>6. CASE Pop(g)
          BY <4>2, <5>6 DEF makeBlock, Pop, Panic
        <5> QED
          BY <4>2, <5>1, <5>2, <5>3, <5>4, <5>5, <5>6 DEF makeBlock
      <4> QED
        BY <2>2, <4>1, <4>2 DEF Next
    <3>2. CASE ~overlap'
      BY <2>2, <3>1, <3>2, SerialAdd, SerialCount, SerialPop DEF Next, makeBlock
    <3>3. CASE overlap'
      <4>1. \A t \in Tx : pc'[t] \in AddPC
        BY <2>2, Labels DEF SerialInv
      <4>2. \A g \in Taker : pc'[g] \in TakePC
        BY <2>2, Labels DEF SerialInv
      <4> QED
        BY <3>3, <4>1, <4>2 DEF SerialInv
    <3> QED
      BY <3>2, <3>3
  <2> QED
    BY <2>1, <2>2
<1> QED
  BY <1>1, <1>2, PoolInductive, PTL DEF Spec

\* The next transaction taken is the earliest of the pool, as long as no two
\* calls of AddTx, GetTx or makeBlock have overlapped.
THEOREM EarliestFirst == Spec => []SerialOrder
<1>1. PoolInv /\ SerialInv => SerialOrder
  <2> SUFFICES ASSUME PoolInv, SerialInv, ~overlap, NEW g \in Taker, pc[g] = "pop",
                      NEW i \in 1 .. Len(plist)
               PROVE  Ts[plist[Len(plist)]] <= Ts[plist[i]]
    BY DEF SerialOrder
  <2>1. LastFirst(g) /\ Len(plist) \in Nat
    BY SMTT(30) DEF SerialInv, TakeInv, PoolInv, TypeOK
  <2>2. i - 1 \in 0 .. Len(plist) - 1 /\ i - 1 + 1 = i /\ Len(plist) - 1 + 1 = Len(plist)
    BY <2>1, SMTT(30)
  <2>3. V(plist, Len(plist) - 1) <= V(plist, i - 1)
    BY <2>1, <2>2 DEF LastFirst
  <2> QED
    BY <2>2, <2>3 DEF V
<1> QED
  BY <1>1, SerialInductive, PTL

\* No call leaves the bounds of the heap, and no block is made of nothing, as
\* long as no two calls have overlapped.
THEOREM NoPanicAlone == Spec => []PanicNeedsOverlap
<1>1. SerialInv => PanicNeedsOverlap
  BY DEF SerialInv, PanicNeedsOverlap
<1> QED
  BY <1>1, SerialInductive, PTL
=============================================================================
