---------------------------- MODULE MemPoolProofs ---------------------------
(***************************************************************************)
(* What swaps, and the steps of up and down, do to a heap; that the memory *)
(* pool keeps every transaction once under every interleaving; and that    *)
(* the tree of a block, however many transactions are taken for it, reads  *)
(* back as those transactions.                                             *)
(***************************************************************************)
EXTENDS MemPool, Induction, TLAPS

\* Most steps are first-order and go to Zenon; SMT is named where a step needs arithmetic,
\* sequences or records.
USE Zenon, SMTT(30)

-----------------------------------------------------------------------------
(* Sequences and heaps *)

\* Index j > 0 is a child of Up(j), and comes after it.
LEMMA UpFacts ==
  ASSUME NEW j \in Nat, j > 0
  PROVE  /\ Up(j) \in Nat /\ Up(j) < j
         /\ j \in Children(Up(j))
         /\ \A i \in Nat : j \in Children(i) => Up(j) = i
  BY SMTT(30) DEF Up, Children

Swapped(r, s, i, j) ==
  /\ r \in Seq(Tx) /\ Len(r) = Len(s) /\ DOMAIN r = 1 .. Len(s) /\ DOMAIN s = 1 .. Len(s)
  /\ r[i + 1] = s[j + 1] /\ r[j + 1] = s[i + 1]
  /\ \A k \in 1 .. Len(s) : k # i + 1 /\ k # j + 1 => r[k] = s[k]

\* Two elements change places and nothing else does.
LEMMA SwapSwaps ==
  ASSUME NEW s \in Seq(Tx), NEW i \in Nat, NEW j \in Nat, i < Len(s), j < Len(s)
  PROVE  Swapped([s EXCEPT ![i + 1] = s[j + 1], ![j + 1] = s[i + 1]], s, i, j)
BY SMTT(30) DEF Swapped

LEMMA SwapFacts ==
  ASSUME NEW s \in Seq(Tx), NEW i \in Nat, NEW j \in Nat, i < Len(s), j < Len(s),
         NEW r, Swapped(r, s, i, j)
  PROVE  /\ r \in Seq(Tx) /\ Len(r) = Len(s)
         /\ V(r, i) = V(s, j) /\ V(r, j) = V(s, i)
         /\ \A k \in 0 .. Len(s) - 1 : k # i /\ k # j => V(r, k) = V(s, k)
         /\ Range(r) = Range(s)
         /\ Distinct(s) => Distinct(r)
<1>1. /\ r \in Seq(Tx) /\ Len(r) = Len(s) /\ DOMAIN r = 1 .. Len(s) /\ DOMAIN s = 1 .. Len(s)
      /\ r[i + 1] = s[j + 1] /\ r[j + 1] = s[i + 1]
      /\ \A k \in 1 .. Len(s) : k # i + 1 /\ k # j + 1 => r[k] = s[k]
  BY DEF Swapped
<1>2. V(r, i) = V(s, j) /\ V(r, j) = V(s, i)
  BY <1>1 DEF V
<1>3. ASSUME NEW k \in 0 .. Len(s) - 1, k # i, k # j PROVE V(r, k) = V(s, k)
  <2>1. k + 1 \in 1 .. Len(s) /\ k + 1 # i + 1 /\ k + 1 # j + 1
    BY <1>3, SMTT(30)
  <2> QED
    BY <1>1, <2>1 DEF V
<1>4. Range(r) = Range(s)
  <2>1. i + 1 \in 1 .. Len(s) /\ j + 1 \in 1 .. Len(s)
    BY SMTT(30)
  <2>2. ASSUME NEW k \in 1 .. Len(s) PROVE \E l \in 1 .. Len(s) : r[k] = s[l]
    BY <1>1, <2>1
  <2>3. ASSUME NEW k \in 1 .. Len(s) PROVE \E l \in 1 .. Len(s) : s[k] = r[l]
    <3>1. CASE k = i + 1
      BY <1>1, <2>1, <3>1
    <3>2. CASE k = j + 1
      BY <1>1, <2>1, <3>2
    <3>3. CASE k # i + 1 /\ k # j + 1
      BY <1>1, <3>3
    <3> QED
      BY <3>1, <3>2, <3>3
  <2>4. \A x : x \in Range(r) <=> \E k \in 1 .. Len(s) : x = r[k]
    BY <1>1 DEF Range
  <2>5. \A x : x \in Range(s) <=> \E k \in 1 .. Len(s) : x = s[k]
    BY <1>1 DEF Range
  <2>6. \A x : x \in Range(r) <=> x \in Range(s)
    BY <2>2, <2>3, <2>4, <2>5, ZenonT(60)
  <2> QED
    BY <2>6
<1>5. Distinct(s) => Distinct(r)
  BY <1>1, SMTT(30) DEF Distinct
<1> QED
  BY <1>1, <1>2, <1>3, <1>4, <1>5

\* The root of a heap is its earliest element.
LEMMA RootFirst ==
  ASSUME NEW s \in Seq(Tx), NEW n \in 1 .. Len(s), HeapBut(s, n, {})
  PROVE  \A i \in 0 .. n - 1 : V(s, 0) <= V(s, i)
<1> DEFINE Bad == {i \in 0 .. n - 1 : ~ (V(s, 0) <= V(s, i))}
<1>1. ASSUME NEW i \in 0 .. n - 1 PROVE V(s, i) \in Nat
  <2>1. s[i + 1] \in Tx
    BY SMTT(30)
  <2> QED
    BY <2>1, TsAssumption DEF V
<1>2. SUFFICES ASSUME Bad # {} PROVE FALSE
  BY <1>2
<1>3. PICK i \in Bad : \A m \in Bad : i <= m
  <2>1. Bad \in SUBSET Nat
    BY SMTT(30)
  <2> QED
    BY <1>2, <2>1, LeastElement
<1>4. i \in 0 .. n - 1 /\ i # 0
  BY <1>1, SMTT(30)
<1>5. Up(i) \in 0 .. n - 1 /\ Up(i) < i
  BY <1>4, UpFacts, SMTT(30)
<1>6. Up(i) \notin Bad
  BY <1>3, <1>4, <1>5, SMTT(30)
<1>7. V(s, Up(i)) <= V(s, i)
  BY <1>4, SMTT(30) DEF HeapBut
<1> QED
  BY <1>1, <1>3, <1>4, <1>5, <1>6, <1>7, SMTT(30)

\* An element that is earlier than its parent moves up a level (up).
LEMMA SiftUp ==
  ASSUME NEW s \in Seq(Tx), NEW n \in 1 .. Len(s), NEW j \in 1 .. n - 1,
         HeapBut(s, n, {j}), Bridged(s, n, j), V(s, j) < V(s, Up(j)),
         NEW r \in Seq(Tx), V(r, Up(j)) = V(s, j), V(r, j) = V(s, Up(j)),
         \A k \in 0 .. Len(s) - 1 : k # Up(j) /\ k # j => V(r, k) = V(s, k)
  PROVE  HeapBut(r, n, {Up(j)}) /\ Bridged(r, n, Up(j))
<1> DEFINE p == Up(j)
<1>1. p \in Nat /\ p < j
  BY UpFacts, SMTT(30)
<1>2. ASSUME NEW k \in 1 .. n - 1 PROVE Up(k) \in 0 .. n - 1 /\ Up(k) < k
  BY UpFacts, SMTT(30)
<1>3. ASSUME NEW i \in 0 .. n - 1 PROVE V(s, i) \in Nat
  <2>1. s[i + 1] \in Tx
    BY SMTT(30)
  <2> QED
    BY <2>1, TsAssumption DEF V
<1> HIDE DEF p
<1>4. /\ V(r, p) = V(s, j) /\ V(r, j) = V(s, p) /\ V(s, j) < V(s, p)
      /\ \A k \in 0 .. n - 1 : k # p /\ k # j => V(r, k) = V(s, k)
  BY SMTT(30) DEF p
<1>5. \A k \in 1 .. n - 1 : k # j => V(s, Up(k)) <= V(s, k)
  BY DEF HeapBut
<1>6. \A k \in 1 .. n - 1 : Up(k) = j => V(s, p) <= V(s, k)
  BY SMTT(30) DEF Bridged, p
<1>7. Up(j) = p
  BY DEF p
<1>8. ASSUME NEW k \in 1 .. n - 1, k # p PROVE V(r, Up(k)) <= V(r, k)
  <2>1. CASE k = j
    BY <1>1, <1>3, <1>4, <1>7, <2>1, SMTT(30)
  <2>2. CASE k # j /\ Up(k) = j
    BY <1>1, <1>2, <1>3, <1>4, <1>6, <1>8, <2>2, SMTT(30)
  <2>3. CASE k # j /\ Up(k) = p
    BY <1>1, <1>2, <1>3, <1>4, <1>5, <1>8, <2>3, SMTT(30)
  <2>4. CASE k # j /\ Up(k) # j /\ Up(k) # p
    <3>1. V(r, k) = V(s, k) /\ V(r, Up(k)) = V(s, Up(k))
      BY <1>2, <1>4, <1>8, <2>4, SMTT(30)
    <3> QED
      BY <1>5, <2>4, <3>1
  <2> QED
    BY <2>1, <2>2, <2>3, <2>4
<1>9. ASSUME p > 0, NEW k \in 1 .. n - 1, Up(k) = p PROVE V(r, Up(p)) <= V(r, k)
  <2>1. p \in 1 .. n - 1 /\ Up(p) \in 0 .. n - 1 /\ Up(p) < p
    BY <1>1, <1>2, <1>9, SMTT(30)
  <2>2. V(s, Up(p)) <= V(s, p) /\ V(r, Up(p)) = V(s, Up(p))
    BY <1>1, <1>4, <1>5, <2>1, SMTT(30)
  <2>3. CASE k = j
    BY <1>4, <2>2, <2>3
  <2>4. CASE k # j
    <3>1. k # p
      BY <1>2, <1>9, SMTT(30)
    <3>2. V(s, p) <= V(s, k) /\ V(r, k) = V(s, k)
      BY <1>4, <1>5, <1>9, <2>4, <3>1, SMTT(30)
    <3> QED
      BY <1>1, <1>3, <2>1, <2>2, <3>2, SMTT(30)
  <2> QED
    BY <2>3, <2>4
<1> QED
  BY <1>7, <1>8, <1>9 DEF HeapBut, Bridged

\* An element that is later than its earliest child moves down a level (down).
LEMMA SiftDown ==
  ASSUME NEW s \in Seq(Tx), NEW n \in 1 .. Len(s), NEW j \in 1 .. n - 1,
         HeapBut(s, n, Children(Up(j))), Bridged(s, n, Up(j)), V(s, j) < V(s, Up(j)),
         \A k \in 1 .. n - 1 : Up(k) = Up(j) => V(s, j) <= V(s, k),
         NEW r \in Seq(Tx), V(r, Up(j)) = V(s, j), V(r, j) = V(s, Up(j)),
         \A k \in 0 .. Len(s) - 1 : k # Up(j) /\ k # j => V(r, k) = V(s, k)
  PROVE  HeapBut(r, n, Children(j)) /\ Bridged(r, n, j)
<1> DEFINE p == Up(j)
<1>1. p \in Nat /\ p < j
  BY UpFacts, SMTT(30)
<1>2. ASSUME NEW k \in 1 .. n - 1
      PROVE  Up(k) \in 0 .. n - 1 /\ Up(k) < k /\ k \in Children(Up(k))
  BY UpFacts, SMTT(30)
<1>3. ASSUME NEW i \in 0 .. n - 1 PROVE V(s, i) \in Nat
  <2>1. s[i + 1] \in Tx
    BY SMTT(30)
  <2> QED
    BY <2>1, TsAssumption DEF V
<1>4. \A k \in 1 .. n - 1 : Up(k) # p => V(s, Up(k)) <= V(s, k)
  <2>1. \A k \in 1 .. n - 1 : k \in Children(p) => Up(k) = p
    BY <1>1, UpFacts, SMTT(30)
  <2> QED
    BY <2>1 DEF HeapBut
<1>5. p > 0 => V(s, Up(p)) <= V(s, j)
  BY DEF Bridged
<1> HIDE DEF p
<1>6. /\ V(r, p) = V(s, j) /\ V(r, j) = V(s, p) /\ V(s, j) < V(s, p)
      /\ \A k \in 0 .. n - 1 : k # p /\ k # j => V(r, k) = V(s, k)
      /\ Up(j) = p
      /\ \A k \in 1 .. n - 1 : Up(k) = p => V(s, j) <= V(s, k)
  BY SMTT(30) DEF p
<1>7. ASSUME NEW k \in 1 .. n - 1, k \notin Children(j) PROVE V(r, Up(k)) <= V(r, k)
  <2>0. Up(k) # j /\ Up(k) \in 0 .. n - 1 /\ Up(k) < k
    BY <1>2, <1>7
  <2>1. CASE k = j
    BY <1>1, <1>3, <1>6, <2>1, SMTT(30)
  <2>2. CASE k # j /\ Up(k) = p
    BY <1>1, <1>6, <2>0, <2>2, SMTT(30)
  <2>3. CASE k # j /\ Up(k) # p /\ k = p
    BY <1>1, <1>5, <1>6, <2>0, <2>3, SMTT(30)
  <2>4. CASE k # j /\ Up(k) # p /\ k # p
    BY <1>4, <1>6, <2>0, <2>4, SMTT(30)
  <2> QED
    BY <2>1, <2>2, <2>3, <2>4
<1>8. ASSUME NEW k \in 1 .. n - 1, Up(k) = j PROVE V(r, Up(j)) <= V(r, k)
  <2>1. k # p /\ k # j
    BY <1>1, <1>2, <1>8, SMTT(30)
  <2> QED
    BY <1>1, <1>4, <1>6, <1>8, <2>1, SMTT(30)
<1> QED
  BY <1>7, <1>8 DEF HeapBut, Bridged

LEMMA HeapEmptied ==
  ASSUME NEW s, NEW n \in Nat, NEW i, i \notin 1 .. n - 1, HeapBut(s, n, {i})
  PROVE  HeapBut(s, n, {})
BY DEF HeapBut

\* All but the last element stay.
LEMMA FrontFacts ==
  ASSUME NEW s \in Seq(Tx), Len(s) > 0
  PROVE  LET f == [i \in 1 .. Len(s) - 1 |-> s[i]]
         IN  f \in Seq(Tx) /\ Len(f) = Len(s) - 1 /\ \A i \in 1 .. Len(s) - 1 : f[i] = s[i]
BY SMTT(30)

-----------------------------------------------------------------------------
(* Conservation *)

\* Most steps leave the heap and what was taken alone.
LEMMA QuietStep ==
  ASSUME PoolInv, UNCHANGED <<plist, txs, gone>>,
         pc' \in [Goroutine -> AddPC \cup TakePC], at' \in [Goroutine -> Nat],
         last' \in [Taker -> Int], want' \in [Taker -> Nat],
         overlap' \in BOOLEAN, panicked' \in BOOLEAN,
         \A g \in Goroutine : pc'[g] \in {"up", "upSwap", "child", "downSwap"} => at'[g] > 0,
         (\A g \in Taker : InHeap(g) => want[g] > 0)',
         \A t \in Tx : pc'[t] = "new" => pc[t] = "new"
  PROVE  PoolInv' /\ UNCHANGED <<Range(plist), Taken>>
<1>1. UNCHANGED <<Range(plist), Taken>> /\ Distinct(plist)'
  BY SMTT(30) DEF Taken, Range, Distinct, PoolInv
<1>2. TypeOK'
  BY DEF PoolInv, TypeOK
<1> QED
  BY <1>1, <1>2 DEF PoolInv

\* A swap in range leaves the heap's set alone.
LEMMA SwapStep ==
  ASSUME PoolInv, NEW i \in Nat, NEW j \in Nat, i < Len(plist), j < Len(plist),
         plist' = Swap(i, j), UNCHANGED <<txs, gone, last, want, overlap, panicked>>,
         pc' \in [Goroutine -> AddPC \cup TakePC], at' \in [Goroutine -> Nat],
         \A g \in Goroutine : pc'[g] \in {"up", "upSwap", "child", "downSwap"} => at'[g] > 0,
         (\A g \in Taker : InHeap(g) => want[g] > 0)',
         \A t \in Tx : pc'[t] = "new" => pc[t] = "new"
  PROVE  PoolInv' /\ UNCHANGED <<Range(plist), Taken>>
<1>1. plist \in Seq(Tx) /\ Distinct(plist)
  BY DEF PoolInv, TypeOK
<1>2. plist' \in Seq(Tx) /\ Range(plist') = Range(plist) /\ Distinct(plist')
  <2>1. Swapped(plist', plist, i, j)
    BY <1>1, SwapSwaps DEF Swap
  <2> QED
    BY <1>1, <2>1, SwapFacts
<1>3. Range(plist)' = Range(plist) /\ Distinct(plist)'
  BY <1>2
<1>4. Taken' = Taken
  BY DEF Taken
<1>5. TypeOK'
  BY <1>2 DEF PoolInv, TypeOK
<1> QED
  BY <1>3, <1>4, <1>5 DEF PoolInv

\* A new transaction joins the heap's set.
LEMMA AddStep ==
  ASSUME PoolInv, NEW t \in Tx, AddTx(t)
  PROVE  /\ PoolInv'
         /\ t \notin Range(plist) \cup Taken
         /\ Range(plist)' = Range(plist) \cup {t} /\ Taken' = Taken
<1>1. plist \in Seq(Tx) /\ Distinct(plist) /\ t \notin Range(plist) \cup Taken
  BY DEF PoolInv, TypeOK, AddTx
<1>2. /\ plist' \in Seq(Tx) /\ Len(plist') = Len(plist) + 1
      /\ plist'[Len(plist) + 1] = t
      /\ \A i \in 1 .. Len(plist) : plist'[i] = plist[i]
  BY <1>1, SMTT(30) DEF AddTx, Push
<1>3. \A x : x \in Range(plist) <=> \E i \in 1 .. Len(plist) : x = plist[i]
  BY <1>1, SMTT(30) DEF Range
<1>4. \A x : x \in Range(plist') <=> \E i \in 1 .. Len(plist) + 1 : x = plist'[i]
  BY <1>2, SMTT(30) DEF Range
<1>5. \A x : x \in Range(plist') <=> x \in Range(plist) \/ x = t
  <2>1. Len(plist) \in Nat
    BY <1>1, SMTT(30)
  <2> QED
    BY <1>2, <1>3, <1>4, <2>1, SMTT(30)
<1>6. Range(plist)' = Range(plist) \cup {t}
  BY <1>5
<1>7. Distinct(plist)'
  BY <1>1, <1>2, <1>3, SMTT(30) DEF Distinct
<1>8. Taken' = Taken
  BY DEF Taken, AddTx
<1>9. TypeOK'
  BY <1>2 DEF PoolInv, TypeOK, AddTx, Goto, AddPC, Goroutine, OthersInHeap
<1>10. \A u \in Tx : pc'[u] = "new" => pc[u] = "new" /\ u # t
  BY DEF PoolInv, TypeOK, AddTx, Goto, Goroutine
<1>11. \A g \in Goroutine : pc'[g] \in {"up", "upSwap", "child", "downSwap"} => at'[g] > 0
  BY DEF PoolInv, TypeOK, AddTx, Goto, Goroutine
<1>12. (\A g \in Taker : InHeap(g) => want[g] > 0)'
  BY PoolAssumption DEF PoolInv, TypeOK, AddTx, Goto, Goroutine, InHeap
<1> QED
  BY <1>1, <1>6, <1>7, <1>8, <1>9, <1>10, <1>11, <1>12 DEF PoolInv

\* The last transaction of the heap is taken, and was there once.
LEMMA PopStep ==
  ASSUME PoolInv, NEW g \in Taker, Pop(g), plist # <<>>
  PROVE  /\ PoolInv'
         /\ \E t \in Tx : /\ t \in Range(plist)
                          /\ Range(plist)' = Range(plist) \ {t}
                          /\ Taken' = Taken \cup {t}
<1> DEFINE n == Len(plist)
           t == plist[n]
<1>1. plist \in Seq(Tx) /\ Distinct(plist) /\ n \in Nat /\ n > 0 /\ t \in Tx
  BY SMTT(30) DEF PoolInv, TypeOK
<1>2. /\ plist' \in Seq(Tx) /\ Len(plist') = n - 1
      /\ \A i \in 1 .. n - 1 : plist'[i] = plist[i]
  <2>1. plist' = [i \in 1 .. n - 1 |-> plist[i]]
    BY DEF Pop
  <2> QED
    BY <1>1, <2>1, FrontFacts
<1>3. \A x : x \in Range(plist) <=> \E i \in 1 .. n : x = plist[i]
  BY <1>1, SMTT(30) DEF Range
<1>4. \A x : x \in Range(plist') <=> \E i \in 1 .. n - 1 : x = plist'[i]
  BY <1>2, SMTT(30) DEF Range
<1>5. \A x : x \in Range(plist') <=> x \in Range(plist) /\ x # t
  BY <1>1, <1>2, <1>3, <1>4, SMTT(30) DEF Distinct
<1>6. Range(plist)' = Range(plist) \ {t} /\ t \in Range(plist)
  BY <1>1, <1>3, <1>5, SMTT(30)
<1>7. Distinct(plist)'
  BY <1>1, <1>2, SMTT(30) DEF Distinct
<1>8. /\ txs' = [txs EXCEPT ![g] = Append(txs[g], t)]
      /\ gone' = gone
  BY DEF Pop
<1>9. txs \in [Taker -> Seq(Tx)]
  BY DEF PoolInv, TypeOK
<1>10. \A x : x \in Range(Append(txs[g], t)) <=> x \in Range(txs[g]) \/ x = t
  <2> DEFINE q == txs[g]
             r == Append(q, t)
  <2>1. /\ q \in Seq(Tx) /\ r \in Seq(Tx) /\ Len(r) = Len(q) + 1 /\ r[Len(q) + 1] = t
        /\ \A i \in 1 .. Len(q) : r[i] = q[i]
    BY <1>1, <1>9, SMTT(30)
  <2> HIDE DEF q, r
  <2>2. \A x : x \in Range(q) <=> \E i \in 1 .. Len(q) : x = q[i]
    BY <2>1, SMTT(30) DEF Range
  <2>3. \A x : x \in Range(r) <=> \E i \in 1 .. Len(q) + 1 : x = r[i]
    BY <2>1, SMTT(30) DEF Range
  <2>4. Len(q) \in Nat
    BY <2>1, SMTT(30)
  <2>5. \A x : x \in Range(r) <=> x \in Range(q) \/ x = t
    BY <2>1, <2>2, <2>3, <2>4, SMTT(30)
  <2> QED
    BY <2>5 DEF q, r
<1>11. Taken' = Taken \cup {t}
  BY <1>1, <1>8, <1>9, <1>10 DEF Taken
<1>12. TypeOK'
  <2>1. txs' \in [Taker -> Seq(Tx)]
    BY <1>1, <1>8, <1>9, SMTT(30)
  <2>2. want' \in [Taker -> Nat]
    <3>1. want[g] \in Nat /\ want[g] > 0
      BY DEF PoolInv, TypeOK, Pop, InHeap
    <3>2. want' = [want EXCEPT ![g] = want[g] - 1] /\ want \in [Taker -> Nat]
      BY DEF PoolInv, TypeOK, Pop
    <3> QED
      BY <3>1, <3>2, SMTT(30)
  <2>3. pc' \in [Goroutine -> AddPC \cup TakePC]
    BY DEF PoolInv, TypeOK, Pop, Goto, TakePC
  <2>4. at' \in [Goroutine -> Nat] /\ last' \in [Taker -> Int]
    BY SMTT(30) DEF PoolInv, TypeOK, Pop
  <2>5. UNCHANGED <<gone, overlap, panicked>>
    BY DEF Pop
  <2> QED
    BY <1>2, <2>1, <2>2, <2>3, <2>4, <2>5 DEF PoolInv, TypeOK
<1>13. \A u \in Tx : pc'[u] = "new" => pc[u] = "new"
  BY DEF PoolInv, TypeOK, Pop, Goto, Goroutine
<1>14. \A h \in Goroutine : pc'[h] \in {"up", "upSwap", "child", "downSwap"} => at'[h] > 0
  BY DEF PoolInv, TypeOK, Pop, Goto, Goroutine
<1>15. (\A h \in Taker : InHeap(h) => want[h] > 0)'
  BY DEF PoolInv, TypeOK, Pop, Goto, Goroutine, InHeap
<1> HIDE DEF n, t
<1> QED
  BY <1>1, <1>6, <1>7, <1>11, <1>12, <1>13, <1>14, <1>15 DEF PoolInv

\* makeBlock keeps what it took, until it returns.
LEMMA LeaveStep ==
  ASSUME PoolInv, NEW g \in Taker, Leave(g)
  PROVE  PoolInv' /\ UNCHANGED <<Range(plist), Taken>>
<1>1. /\ txs \in [Taker -> Seq(Tx)] /\ gone \subseteq Tx
      /\ txs' = [txs EXCEPT ![g] = <<>>] /\ gone' = gone \cup Range(txs[g])
  BY DEF PoolInv, TypeOK, Leave
<1>2. Range(txs[g]) \subseteq Tx /\ Range(<<>>) = {}
  BY <1>1, SMTT(30) DEF Range
<1>3. \A h \in Taker : txs'[h] = IF h = g THEN <<>> ELSE txs[h]
  BY <1>1
<1>4. Taken' = Taken
  BY <1>1, <1>2, <1>3 DEF Taken
<1>5. TypeOK'
  <2>1. txs' \in [Taker -> Seq(Tx)] /\ gone' \subseteq Tx
    BY <1>1, <1>2, SMTT(30)
  <2>2. want' \in [Taker -> Nat] /\ pc' \in [Goroutine -> AddPC \cup TakePC]
    BY DEF PoolInv, TypeOK, Leave, Goto, TakePC
  <2> QED
    BY <2>1, <2>2 DEF PoolInv, TypeOK, Leave
<1>6. \A t \in Tx : pc'[t] = "new" => pc[t] = "new"
  BY DEF PoolInv, TypeOK, Leave, Goto, Goroutine
<1>7. \A h \in Goroutine : pc'[h] \in {"up", "upSwap", "child", "downSwap"} => at'[h] > 0
  BY DEF PoolInv, TypeOK, Leave, Goto, Goroutine
<1>8. (\A h \in Taker : InHeap(h) => want[h] > 0)'
  BY DEF PoolInv, TypeOK, Leave, Goto, Goroutine, InHeap
<1>9. plist' = plist
  BY DEF Leave
<1> QED
  BY <1>4, <1>5, <1>6, <1>7, <1>8, <1>9 DEF PoolInv

\* Every step is one of the bag, or none.
LEMMA PoolStep ==
  ASSUME PoolInv, [Next]_vars
  PROVE  /\ PoolInv'
         /\ \/ UNCHANGED <<Range(plist), Taken>>
            \/ \E t \in Tx : /\ t \notin Range(plist) \cup Taken
                             /\ Range(plist)' = Range(plist) \cup {t}
                             /\ Taken' = Taken
            \/ \E t \in Tx : /\ t \in Range(plist)
                             /\ Range(plist)' = Range(plist) \ {t}
                             /\ Taken' = Taken \cup {t}
<1> DEFINE Same == PoolInv' /\ UNCHANGED <<Range(plist), Taken>>
<1>1. ASSUME UNCHANGED vars PROVE Same
  BY <1>1, QuietStep DEF vars, PoolInv, TypeOK, InHeap
<1>2. ASSUME Panic PROVE Same
  BY <1>2, QuietStep DEF Panic, PoolInv, TypeOK, InHeap
<1>3. ASSUME NEW t \in Tx, onTx(t), ~Panic PROVE Same \/ AddTx(t)
  <2>1. CASE AddLen(t)
    <3>1. /\ pc' \in [Goroutine -> AddPC \cup TakePC] /\ at' \in [Goroutine -> Nat]
          /\ last' \in [Taker -> Int] /\ want' \in [Taker -> Nat]
          /\ overlap' \in BOOLEAN /\ UNCHANGED <<plist, txs, gone, panicked>>
      <4>1. UNCHANGED <<plist, txs, gone, panicked>> /\ overlap' \in BOOLEAN
        BY <2>1 DEF AddLen, PoolInv, TypeOK
      <4>2. pc' \in [Goroutine -> AddPC \cup TakePC]
        BY <2>1 DEF AddLen, Goto, PoolInv, TypeOK, AddPC
      <4>3. at' \in [Goroutine -> Nat]
        <5>1. Len(plist) \in Nat
          BY SMTT(30) DEF PoolInv, TypeOK
        <5> QED
          BY <2>1, <5>1, SMTT(30) DEF AddLen, PoolInv, TypeOK
      <4>4. last' \in [Taker -> Int] /\ want' \in [Taker -> Nat]
        BY <2>1 DEF AddLen, PoolInv, TypeOK
      <4> QED
        BY <4>1, <4>2, <4>3, <4>4
    <3>2. \A h \in Goroutine : pc'[h] \in {"up", "upSwap", "child", "downSwap"} => at'[h] > 0
      <4>1. /\ Len(plist) \in Nat /\ t \in Goroutine
            /\ pc \in [Goroutine -> AddPC \cup TakePC] /\ at \in [Goroutine -> Nat]
        BY SMTT(30) DEF PoolInv, TypeOK, Goroutine
      <4>2. \A h \in Goroutine : h # t => pc'[h] = pc[h] /\ at'[h] = at[h]
        BY <2>1, <4>1 DEF AddLen, Goto
      <4>3. pc'[t] = "done" \/ (Len(plist) > 1 /\ at'[t] = Len(plist) - 1)
        BY <2>1, <4>1 DEF AddLen, Goto
      <4>4. pc'[t] = "done" \/ at'[t] > 0
        BY <4>1, <4>3, SMTT(30)
      <4> QED
        BY <4>2, <4>4 DEF PoolInv
    <3>3. (\A h \in Taker : InHeap(h) => want[h] > 0)'
      BY <2>1, PoolAssumption DEF AddLen, Goto, PoolInv, TypeOK, InHeap, Goroutine
    <3>4. \A u \in Tx : pc'[u] = "new" => pc[u] = "new"
      BY <2>1 DEF AddLen, Goto, PoolInv, TypeOK, Goroutine
    <3>5. panicked' \in BOOLEAN
      BY <3>1 DEF PoolInv, TypeOK
    <3> QED
      BY <3>1, <3>2, <3>3, <3>4, <3>5, QuietStep
  <2>2. CASE AddUp(t)
    <3>1. /\ pc' \in [Goroutine -> AddPC \cup TakePC] /\ at' \in [Goroutine -> Nat]
          /\ last' \in [Taker -> Int] /\ want' \in [Taker -> Nat]
          /\ overlap' \in BOOLEAN /\ UNCHANGED <<plist, txs, gone, panicked>>
      <4>1. UNCHANGED <<plist, txs, gone, panicked>> /\ overlap' \in BOOLEAN
        BY <1>3, <2>2 DEF AddUp, PoolInv, TypeOK
      <4>2. pc' \in [Goroutine -> AddPC \cup TakePC]
        BY <1>3, <2>2 DEF AddUp, Goto, PoolInv, TypeOK, AddPC
      <4>3. at' \in [Goroutine -> Nat]
        BY <1>3, <2>2, SMTT(30) DEF AddUp, PoolInv, TypeOK
      <4>4. last' \in [Taker -> Int] /\ want' \in [Taker -> Nat]
        BY <1>3, <2>2 DEF AddUp, PoolInv, TypeOK
      <4> QED
        BY <4>1, <4>2, <4>3, <4>4
    <3>2. \A h \in Goroutine : pc'[h] \in {"up", "upSwap", "child", "downSwap"} => at'[h] > 0
      BY <1>3, <2>2 DEF AddUp, Goto, PoolInv, TypeOK, Goroutine
    <3>3. (\A h \in Taker : InHeap(h) => want[h] > 0)'
      BY <1>3, <2>2, PoolAssumption DEF AddUp, Goto, PoolInv, TypeOK, InHeap, Goroutine
    <3>4. \A u \in Tx : pc'[u] = "new" => pc[u] = "new"
      BY <1>3, <2>2 DEF AddUp, Goto, PoolInv, TypeOK, Goroutine
    <3>5. panicked' \in BOOLEAN
      BY <3>1 DEF PoolInv, TypeOK
    <3> QED
      BY <3>1, <3>2, <3>3, <3>4, <3>5, QuietStep
  <2>3. CASE AddSwap(t)
    <3>1. at[t] \in Nat /\ at[t] > 0 /\ at[t] < Len(plist)
      BY <1>3, <2>3 DEF AddSwap, PoolInv, TypeOK, InRange, Goroutine
    <3>2. Up(at[t]) \in Nat /\ Up(at[t]) < at[t]
      BY <3>1, UpFacts
    <3>3. /\ plist' = Swap(Up(at[t]), at[t])
          /\ UNCHANGED <<txs, gone, last, want, overlap, panicked>>
          /\ pc' = [pc EXCEPT ![t] = IF Up(at[t]) > 0 THEN "up" ELSE "done"]
          /\ at' = [at EXCEPT ![t] = Up(at[t])]
      BY <1>3, <2>3 DEF AddSwap, Goto
    <3>4. pc' \in [Goroutine -> AddPC \cup TakePC] /\ at' \in [Goroutine -> Nat]
      BY <3>2, <3>3 DEF PoolInv, TypeOK, AddPC
    <3>5. \A g \in Goroutine : pc'[g] \in {"up", "upSwap", "child", "downSwap"} => at'[g] > 0
      BY <3>3 DEF PoolInv, TypeOK, Goroutine
    <3>6. (\A g \in Taker : InHeap(g) => want[g] > 0)'
      BY <3>3, PoolAssumption DEF PoolInv, TypeOK, InHeap, Goroutine
    <3>7. \A u \in Tx : pc'[u] = "new" => pc[u] = "new"
      BY <3>3 DEF PoolInv, TypeOK, Goroutine
    <3>8. Up(at[t]) < Len(plist)
      BY <3>1, <3>2, SMTT(30) DEF PoolInv, TypeOK
    <3> QED
      BY <3>1, <3>2, <3>3, <3>4, <3>5, <3>6, <3>7, <3>8, SwapStep
  <2> QED
    BY <1>3, <2>1, <2>2, <2>3 DEF onTx
<1>4. ASSUME NEW g \in Taker, makeBlock(g), ~Panic PROVE Same \/ (Pop(g) /\ plist # <<>>)
  <2>1. CASE Begin(g)
    <3>1. /\ pc' \in [Goroutine -> AddPC \cup TakePC] /\ at' \in [Goroutine -> Nat]
          /\ last' \in [Taker -> Int] /\ want' \in [Taker -> Nat]
          /\ overlap' \in BOOLEAN /\ UNCHANGED <<plist, txs, gone, panicked>>
      <4>1. UNCHANGED <<plist, txs, gone, panicked>> /\ overlap' \in BOOLEAN
        BY <2>1 DEF Begin, PoolInv, TypeOK
      <4>2. pc' \in [Goroutine -> AddPC \cup TakePC]
        BY <2>1, ZenonT(60) DEF Begin, Goto, PoolInv, TypeOK, TakePC
      <4>3. at' \in [Goroutine -> Nat]
        BY <2>1 DEF Begin, PoolInv, TypeOK
      <4>4. last' \in [Taker -> Int] /\ want' \in [Taker -> Nat]
        BY <2>1, PoolAssumption DEF Begin, PoolInv, TypeOK
      <4> QED
        BY <4>1, <4>2, <4>3, <4>4
    <3>2. \A h \in Goroutine : pc'[h] \in {"up", "upSwap", "child", "downSwap"} => at'[h] > 0
      BY <2>1 DEF Begin, Goto, PoolInv, TypeOK, Goroutine
    <3>3. (\A h \in Taker : InHeap(h) => want[h] > 0)'
      BY <2>1, PoolAssumption, ZenonT(60) DEF Begin, Goto, PoolInv, TypeOK, InHeap, Goroutine
    <3>4. \A u \in Tx : pc'[u] = "new" => pc[u] = "new"
      BY <2>1 DEF Begin, Goto, PoolInv, TypeOK, Goroutine
    <3>5. panicked' \in BOOLEAN
      BY <3>1 DEF PoolInv, TypeOK
    <3> QED
      BY <3>1, <3>2, <3>3, <3>4, <3>5, QuietStep
  <2>2. CASE Count(g)
    <3>1. /\ Len(plist) \in Nat /\ g \in Goroutine
          /\ pc \in [Goroutine -> AddPC \cup TakePC] /\ want \in [Taker -> Nat]
      BY SMTT(30) DEF PoolInv, TypeOK, Goroutine
    <3>2. /\ UNCHANGED <<plist, at, last, txs, gone, overlap, panicked>>
          /\ want' = [want EXCEPT ![g] = Len(plist)]
          /\ pc' = [pc EXCEPT ![g] = IF Len(plist) = 0 THEN "idle" ELSE "get"]
      BY <2>2 DEF Count, Goto
    <3>3. pc' \in [Goroutine -> AddPC \cup TakePC] /\ want' \in [Taker -> Nat]
      BY <3>1, <3>2 DEF TakePC
    <3>4. \A h \in Goroutine : h # g => pc'[h] = pc[h]
      BY <3>1, <3>2
    <3>5. pc'[g] \in {"idle", "get"}
      BY <3>1, <3>2
    <3>6. \A h \in Goroutine : pc'[h] \in {"up", "upSwap", "child", "downSwap"} => at'[h] > 0
      BY <3>2, <3>4, <3>5 DEF PoolInv
    <3>7. (\A h \in Taker : InHeap(h) => want[h] > 0)'
      BY <3>1, <3>2, <3>4, <3>5 DEF PoolInv, InHeap, Goroutine
    <3>8. \A u \in Tx : pc'[u] = "new" => pc[u] = "new"
      BY <3>4, <3>5 DEF Goroutine
    <3>9. /\ at' \in [Goroutine -> Nat] /\ last' \in [Taker -> Int]
          /\ overlap' \in BOOLEAN /\ panicked' \in BOOLEAN
      BY <3>2 DEF PoolInv, TypeOK
    <3> QED
      BY <3>2, <3>3, <3>6, <3>7, <3>8, <3>9, QuietStep
  <2>3. CASE GetTx(g)
    BY <2>3, QuietStep, ZenonT(60) DEF GetTx, Goto, PoolInv, TypeOK, InHeap, TakePC, Goroutine, OthersInHeap
  <2>4. CASE PopLen(g)
    <3>1. /\ Len(plist) - 1 \in Int /\ g \in Goroutine
          /\ pc \in [Goroutine -> AddPC \cup TakePC] /\ last \in [Taker -> Int]
      BY SMTT(30) DEF PoolInv, TypeOK, Goroutine
    <3>2. /\ UNCHANGED <<plist, at, want, txs, gone, overlap, panicked>>
          /\ last' = [last EXCEPT ![g] = Len(plist) - 1]
          /\ pc' = [pc EXCEPT ![g] = "popSwap"] /\ pc[g] = "popLen"
      BY <2>4 DEF PopLen, Goto
    <3>3. pc' \in [Goroutine -> AddPC \cup TakePC] /\ last' \in [Taker -> Int]
      BY <3>1, <3>2 DEF TakePC
    <3>4. pc'[g] = "popSwap" /\ \A h \in Goroutine : h # g => pc'[h] = pc[h]
      BY <3>1, <3>2
    <3>5. \A h \in Goroutine : pc'[h] \in {"up", "upSwap", "child", "downSwap"} => at'[h] > 0
      BY <3>2, <3>4 DEF PoolInv
    <3>6. (\A h \in Taker : InHeap(h) => want[h] > 0)'
      BY <3>2, <3>4 DEF PoolInv, InHeap, Goroutine
    <3>7. \A u \in Tx : pc'[u] = "new" => pc[u] = "new"
      BY <3>4 DEF Goroutine
    <3>8. /\ at' \in [Goroutine -> Nat] /\ want' \in [Taker -> Nat]
          /\ overlap' \in BOOLEAN /\ panicked' \in BOOLEAN
      BY <3>2 DEF PoolInv, TypeOK
    <3> QED
      BY <3>2, <3>3, <3>5, <3>6, <3>7, <3>8, QuietStep
  <2>5. CASE PopSwap(g)
    <3>1. last[g] \in Nat /\ last[g] < Len(plist) /\ 0 < Len(plist)
      BY <1>4, <2>5, SMTT(30) DEF PopSwap, PoolInv, TypeOK, InRange
    <3>2. /\ plist' = Swap(0, last[g])
          /\ UNCHANGED <<txs, gone, last, want, overlap, panicked>>
          /\ pc[g] = "popSwap"
          /\ pc' = [pc EXCEPT ![g] = IF 1 < last[g] THEN "down" ELSE "pop"]
          /\ at' = [at EXCEPT ![g] = 0]
      BY <1>4, <2>5 DEF PopSwap, Goto
    <3>3. pc' \in [Goroutine -> AddPC \cup TakePC] /\ at' \in [Goroutine -> Nat]
      BY <3>2 DEF PoolInv, TypeOK, TakePC
    <3>4. \A h \in Goroutine : pc'[h] \in {"up", "upSwap", "child", "downSwap"} => at'[h] > 0
      BY <3>2 DEF PoolInv, TypeOK, Goroutine
    <3>5. (\A h \in Taker : InHeap(h) => want[h] > 0)'
      BY <3>2 DEF PoolInv, TypeOK, InHeap, Goroutine
    <3>6. \A u \in Tx : pc'[u] = "new" => pc[u] = "new"
      BY <3>2 DEF PoolInv, TypeOK, Goroutine
    <3> QED
      BY <3>1, <3>2, <3>3, <3>4, <3>5, <3>6, SwapStep
  <2>6. CASE Down(g)
    <3>1. /\ pc' \in [Goroutine -> AddPC \cup TakePC] /\ at' \in [Goroutine -> Nat]
          /\ last' \in [Taker -> Int] /\ want' \in [Taker -> Nat]
          /\ overlap' \in BOOLEAN /\ UNCHANGED <<plist, txs, gone, panicked>>
      <4>1. UNCHANGED <<plist, txs, gone, panicked>> /\ overlap' \in BOOLEAN
        BY <1>4, <2>6 DEF Down, PoolInv, TypeOK
      <4>2. pc' \in [Goroutine -> AddPC \cup TakePC]
        BY <1>4, <2>6 DEF Down, Goto, PoolInv, TypeOK, TakePC
      <4>3. at' \in [Goroutine -> Nat]
        <5>1. at[g] \in Nat /\ at \in [Goroutine -> Nat]
          BY DEF PoolInv, TypeOK, Goroutine
        <5>2. \/ at' = [at EXCEPT ![g] = 2 * at[g] + 1]
              \/ at' = [at EXCEPT ![g] = 2 * at[g] + 1 + 1]
          BY <1>4, <2>6 DEF Down
        <5> QED
          BY <5>1, <5>2, SMTT(30)
      <4>4. last' \in [Taker -> Int] /\ want' \in [Taker -> Nat]
        BY <1>4, <2>6 DEF Down, PoolInv, TypeOK
      <4> QED
        BY <4>1, <4>2, <4>3, <4>4
    <3>2. \A h \in Goroutine : pc'[h] \in {"up", "upSwap", "child", "downSwap"} => at'[h] > 0
      <4>1. at[g] \in Nat /\ at \in [Goroutine -> Nat] /\ g \in Goroutine
        BY DEF PoolInv, TypeOK, Goroutine
      <4>2. \/ at' = [at EXCEPT ![g] = 2 * at[g] + 1]
            \/ at' = [at EXCEPT ![g] = 2 * at[g] + 1 + 1]
        BY <1>4, <2>6 DEF Down
      <4>3. \A h \in Goroutine : h # g => at'[h] = at[h] /\ pc'[h] = pc[h]
        BY <1>4, <2>6, <4>2 DEF Down, Goto, PoolInv, TypeOK
      <4>4. at'[g] > 0
        BY <4>1, <4>2, SMTT(30)
      <4> QED
        BY <4>3, <4>4 DEF PoolInv
    <3>3. (\A h \in Taker : InHeap(h) => want[h] > 0)'
      BY <1>4, <2>6, PoolAssumption DEF Down, Goto, PoolInv, TypeOK, InHeap, Goroutine
    <3>4. \A u \in Tx : pc'[u] = "new" => pc[u] = "new"
      BY <1>4, <2>6 DEF Down, Goto, PoolInv, TypeOK, Goroutine
    <3>5. panicked' \in BOOLEAN
      BY <3>1 DEF PoolInv, TypeOK
    <3> QED
      BY <3>1, <3>2, <3>3, <3>4, <3>5, QuietStep
  <2>7. CASE Child(g)
    BY <1>4, <2>7, QuietStep DEF Child, Goto, PoolInv, TypeOK, InHeap, TakePC, Goroutine
  <2>8. CASE DownSwap(g)
    <3>1. at[g] \in Nat /\ at[g] > 0 /\ at[g] < Len(plist)
      BY <1>4, <2>8 DEF DownSwap, PoolInv, TypeOK, InRange, Goroutine
    <3>2. Up(at[g]) \in Nat /\ Up(at[g]) < at[g]
      BY <3>1, UpFacts
    <3>3. /\ plist' = Swap(Up(at[g]), at[g])
          /\ UNCHANGED <<txs, gone, at, last, want, overlap, panicked>>
          /\ pc[g] = "downSwap"
          /\ pc' = [pc EXCEPT ![g] = IF 2 * at[g] + 1 < last[g] THEN "down" ELSE "pop"]
      BY <1>4, <2>8 DEF DownSwap, Goto
    <3>4. pc' \in [Goroutine -> AddPC \cup TakePC] /\ at' \in [Goroutine -> Nat]
      BY <3>3 DEF PoolInv, TypeOK, TakePC
    <3>5. \A h \in Goroutine : pc'[h] \in {"up", "upSwap", "child", "downSwap"} => at'[h] > 0
      BY <3>3 DEF PoolInv, TypeOK, Goroutine
    <3>6. (\A h \in Taker : InHeap(h) => want[h] > 0)'
      BY <3>3 DEF PoolInv, TypeOK, InHeap, Goroutine
    <3>7. \A u \in Tx : pc'[u] = "new" => pc[u] = "new"
      BY <3>3 DEF PoolInv, TypeOK, Goroutine
    <3>8. Up(at[g]) < Len(plist)
      BY <3>1, <3>2, SMTT(30) DEF PoolInv, TypeOK
    <3> QED
      BY <3>1, <3>2, <3>3, <3>4, <3>5, <3>6, <3>7, <3>8, SwapStep
  <2>9. CASE Pop(g)
    BY <1>4, <2>9 DEF Pop
  <2>10. CASE PutFails(g) \/ Made(g)
    BY <2>10, LeaveStep DEF PutFails, Made
  <2>11. CASE Put(g)
    BY <1>4, <2>11, QuietStep DEF Put, Goto, PoolInv, TypeOK, InHeap, TakePC, Goroutine
  <2> QED
    BY <1>4, <2>1, <2>2, <2>3, <2>4, <2>5, <2>6, <2>7, <2>8, <2>9, <2>10, <2>11 DEF makeBlock
<1> HIDE DEF Same
<1>5. Same \/ (\E t \in Tx : AddTx(t)) \/ (\E g \in Taker : Pop(g) /\ plist # <<>>)
  BY <1>1, <1>2, <1>3, <1>4 DEF Next
<1>6. CASE Same
  BY <1>6 DEF Same
<1>7. CASE \E t \in Tx : AddTx(t)
  BY <1>7, AddStep
<1>8. CASE \E g \in Taker : Pop(g) /\ plist # <<>>
  BY <1>8, PopStep
<1> QED
  BY <1>5, <1>6, <1>7, <1>8

LEMMA PoolStart == Init => PoolInv /\ Range(plist) \cap Taken = {} /\ Range(plist) \subseteq Tx
<1> SUFFICES ASSUME Init PROVE PoolInv /\ Range(plist) \cap Taken = {} /\ Range(plist) \subseteq Tx
  OBVIOUS
<1>1. PICK s \in Start :
        /\ plist = s.pooled
        /\ pc = [g \in Goroutine |-> IF g \in s.takers THEN "idle"
                                     ELSE IF g \in s.coming THEN "new" ELSE "done"]
        /\ gone = Tx \ (Range(s.pooled) \cup s.coming)
  BY DEF Init
<1>2. /\ s.pooled \in Seq(Tx) /\ s.coming \subseteq Tx /\ s.takers \subseteq Taker
      /\ Distinct(s.pooled) /\ Range(s.pooled) \cap s.coming = {}
  BY PoolAssumption
<1>3. plist \in Seq(Tx) /\ Distinct(plist) /\ Range(plist) \subseteq Tx
  BY <1>1, <1>2, SMTT(30) DEF Range
<1>4. Taken = gone
  BY <1>1, SMTT(30) DEF Init, Taken, Range
<1>5. TypeOK
  <2>1. txs \in [Taker -> Seq(Tx)]
    BY SMTT(30) DEF Init
  <2>2. at \in [Goroutine -> Nat] /\ last \in [Taker -> Int] /\ want \in [Taker -> Nat]
    BY SMTT(30) DEF Init
  <2>3. pc \in [Goroutine -> AddPC \cup TakePC]
    BY <1>1 DEF AddPC, TakePC
  <2>4. overlap = FALSE /\ panicked = FALSE
    BY DEF Init
  <2> QED
    BY <1>1, <1>3, <2>1, <2>2, <2>3, <2>4 DEF TypeOK
<1>6. \A g \in Goroutine : pc[g] \in {"idle", "new", "done"}
  BY <1>1
<1>7. \A t \in Tx : pc[t] = "new" => t \in s.coming
  BY <1>1 DEF Goroutine
<1> QED
  BY <1>1, <1>2, <1>3, <1>4, <1>5, <1>6, <1>7 DEF PoolInv, InHeap, Goroutine

\* The inductive invariant behind Conserves holds.
THEOREM PoolInductive == Spec => []PoolInv
<1>1. Init => PoolInv
  BY PoolStart
<1>2. PoolInv /\ [Next]_vars => PoolInv'
  BY PoolStep
<1> QED
  BY <1>1, <1>2, PTL DEF Spec

\* No goroutine of the pool ever leaves the types of its variables: no counter
\* of makeBlock falls below 0.
THEOREM PoolTyped == Spec => []TypeOK
<1>1. PoolInv => TypeOK
  BY DEF PoolInv
<1> QED
  BY <1>1, PoolInductive, PTL

\* The pool implements the bag: under every interleaving of AddTx and makeBlock
\* each transaction is in the heap until it is taken, and taken once.
THEOREM PoolConserves == Spec => Conserves
<1>1. Init => B!Init
  BY PoolStart DEF B!Init, Taken
<1>2. PoolInv /\ [Next]_vars => [B!Next]_<<Range(plist), Taken>>
  <2> SUFFICES ASSUME PoolInv, [Next]_vars PROVE B!Next \/ UNCHANGED <<Range(plist), Taken>>
    OBVIOUS
  <2> QED
    BY PoolStep DEF B!Next, B!Add, B!Take
<1> QED
  BY <1>1, <1>2, PoolInductive, PTL DEF Spec, Conserves, B!Spec

-----------------------------------------------------------------------------
(* Sorting *)

LEMMA SeqOf ==
  ASSUME NEW f, NEW n \in Nat, NEW S, f \in [1 .. n -> S]
  PROVE  f \in Seq(S) /\ Len(f) = n /\ DOMAIN f = 1 .. n
BY SMTT(30)

\* The latest of a list of naturals.
LEMMA Latest ==
  ASSUME NEW n \in Nat, NEW f \in [1 .. n + 1 -> Nat]
  PROVE  \E m \in 1 .. n + 1 : \A i \in 1 .. n + 1 : f[i] <= f[m]
<1> DEFINE G == {k \in 0 .. n : \E m \in 1 .. k + 1 : \A i \in 1 .. k + 1 : f[i] <= f[m]}
<1>1. 0 \in G
  BY SMTT(30)
<1>2. ASSUME NEW k \in 0 .. n - 1, k \in G PROVE k + 1 \in G
  <2>1. PICK m \in 1 .. k + 1 : \A i \in 1 .. k + 1 : f[i] <= f[m]
    BY <1>2
  <2>2. f[m] \in Nat /\ f[k + 2] \in Nat /\ \A i \in 1 .. k + 1 : f[i] \in Nat
    BY SMTT(30)
  <2>3. CASE f[k + 2] <= f[m]
    <3>1. \A i \in 1 .. (k + 1) + 1 : f[i] <= f[m]
      BY <2>1, <2>3, SMTT(30)
    <3> QED BY <3>1, SMTT(30)
  <2>4. CASE f[m] < f[k + 2]
    <3>1. \A i \in 1 .. (k + 1) + 1 : f[i] <= f[k + 2]
      BY <2>1, <2>2, <2>4, SMTT(30)
    <3>2. k + 2 \in 1 .. (k + 1) + 1
      BY SMTT(30)
    <3> QED BY <3>1, <3>2, SMTT(30)
  <2> QED BY <2>2, <2>3, <2>4, SMTT(30)
<1>3. n \in G
  <2> HIDE DEF G
  <2>1. 0 .. n \subseteq G
    BY <1>1, <1>2, NatSteps
  <2> QED BY <2>1, SMTT(30)
<1> QED BY <1>3

Sorts(p, f) == \A i, j \in DOMAIN f : i < j => f[p[i]] <= f[p[j]]

\* Every list of naturals can be sorted.
LEMMA SortExists ==
  ASSUME NEW n \in Nat
  PROVE  \A f \in [1 .. n -> Nat] : \E p \in Bijection(1 .. n, 1 .. n) : Sorts(p, f)
<1> DEFINE G == {k \in 0 .. n : \A f \in [1 .. k -> Nat] :
                                  \E p \in Bijection(1 .. k, 1 .. k) : Sorts(p, f)}
<1>1. 0 \in G
  <2> SUFFICES ASSUME NEW f \in [1 .. 0 -> Nat]
               PROVE  \E p \in Bijection(1 .. 0, 1 .. 0) : Sorts(p, f)
    BY SMTT(30)
  <2> DEFINE p == [i \in 1 .. 0 |-> i]
  <2>1. p \in Bijection(1 .. 0, 1 .. 0)
    BY DEF Bijection, Injection, Surjection, IsInjective
  <2>2. Sorts(p, f)
    BY SMTT(30) DEF Sorts
  <2> QED BY <2>1, <2>2
<1>2. ASSUME NEW k \in 0 .. n - 1, k \in G PROVE k + 1 \in G
  <2> SUFFICES ASSUME NEW f \in [1 .. k + 1 -> Nat]
               PROVE  \E p \in Bijection(1 .. k + 1, 1 .. k + 1) : Sorts(p, f)
    BY SMTT(30)
  <2>0. k \in Nat /\ \A i \in 1 .. k + 1 : i \in 1 .. k \/ i = k + 1
    BY SMTT(30)
  <2>1. PICK m \in 1 .. k + 1 : \A i \in 1 .. k + 1 : f[i] <= f[m]
    BY <2>0, Latest
  <2> DEFINE g == [i \in 1 .. k |-> IF i = m THEN f[k + 1] ELSE f[i]]
  <2>2. g \in [1 .. k -> Nat]
    BY SMTT(30)
  <2>3. PICK q \in Bijection(1 .. k, 1 .. k) : Sorts(q, g)
    BY <1>2, <2>2
  <2> DEFINE p == [i \in 1 .. k + 1 |-> IF i = k + 1 THEN m ELSE IF q[i] = m THEN k + 1 ELSE q[i]]
  <2>4. /\ q \in [1 .. k -> 1 .. k] /\ \A i, j \in 1 .. k : q[i] = q[j] => i = j
        /\ \A j \in 1 .. k : \E i \in 1 .. k : q[i] = j
    BY DEF Bijection, Injection, Surjection, IsInjective
  <2>10. /\ p[k + 1] = m /\ DOMAIN p = 1 .. k + 1
        /\ \A i \in 1 .. k : /\ p[i] = (IF q[i] = m THEN k + 1 ELSE q[i])
                             /\ q[i] \in 1 .. k /\ q[i] # k + 1 /\ i # k + 1 /\ i \in 1 .. k + 1
    <3>1. k + 1 \in 1 .. k + 1 /\ \A i \in 1 .. k : i \in 1 .. k + 1 /\ i # k + 1
      BY <2>0, SMTT(30)
    <3>2. \A i \in 1 .. k : q[i] \in 1 .. k /\ q[i] # k + 1
      BY <2>4, <3>1
    <3> QED BY <3>1, <3>2
  <2>5. p \in [1 .. k + 1 -> 1 .. k + 1]
    <3>1. \A i \in 1 .. k + 1 : p[i] \in 1 .. k + 1
      <4>1. \A i \in 1 .. k : p[i] \in 1 .. k + 1
        <5>1. \A i \in 1 .. k : q[i] \in 1 .. k + 1
          BY <2>0, <2>10
        <5>2. k + 1 \in 1 .. k + 1
          BY <2>0, SMTT(30)
        <5> HIDE DEF p
        <5> QED BY <2>10, <5>1, <5>2
      <4> HIDE DEF p
      <4> QED BY <2>0, <2>10, <4>1
    <3> QED BY <3>1
  <2>6. ASSUME NEW i \in 1 .. k + 1, NEW j \in 1 .. k + 1, p[i] = p[j] PROVE i = j
    <3> HIDE DEF p
    <3> QED BY <2>0, <2>4, <2>6, <2>10, ZenonT(60)
  <2>7. ASSUME NEW j \in 1 .. k + 1 PROVE \E i \in 1 .. k + 1 : p[i] = j
    <3>1. CASE j = m
      BY <3>1, SMTT(30)
    <3>2. CASE j # m /\ j = k + 1
      <4>1. m \in 1 .. k
        BY <3>2, SMTT(30)
      <4>2. PICK i \in 1 .. k : q[i] = m
        BY <2>4, <4>1
      <4>3. i \in 1 .. k + 1 /\ p[i] = j
        BY <3>2, <4>2, SMTT(30)
      <4> QED BY <4>3
    <3>3. CASE j # m /\ j # k + 1
      <4>1. PICK i \in 1 .. k : q[i] = j
        BY <2>4, <3>3, SMTT(30)
      <4>2. i \in 1 .. k + 1 /\ p[i] = j
        BY <3>3, <4>1, SMTT(30)
      <4> QED BY <4>2
    <3> QED BY <3>1, <3>2, <3>3
  <2>8. p \in Bijection(1 .. k + 1, 1 .. k + 1)
    <3> HIDE DEF p
    <3> QED BY <2>5, <2>6, <2>7 DEF Bijection, Injection, Surjection, IsInjective
  <2>9. Sorts(p, f)
    <3>1. ASSUME NEW i \in 1 .. k PROVE f[p[i]] = g[q[i]]
      <4>1. g[q[i]] = IF q[i] = m THEN f[k + 1] ELSE f[q[i]]
        BY <2>10
      <4> HIDE DEF p, g
      <4> QED BY <2>10, <4>1
    <3>2. \A i, j \in 1 .. k : i < j => g[q[i]] <= g[q[j]]
      BY <2>3 DEF Sorts
    <3>3. p[k + 1] = m
      BY <2>10
    <3> HIDE DEF p, g
    <3>4. ASSUME NEW i \in 1 .. k + 1, NEW j \in 1 .. k + 1, i < j PROVE f[p[i]] <= f[p[j]]
      <4>1. CASE j = k + 1
        BY <2>1, <2>5, <3>3, <4>1
      <4>2. CASE j # k + 1
        <5>1. i \in 1 .. k /\ j \in 1 .. k
          BY <3>4, <4>2, SMTT(30)
        <5> QED BY <3>1, <3>2, <3>4, <5>1
      <4> QED BY <4>1, <4>2
    <3> QED BY <3>4 DEF Sorts
  <2> QED BY <2>8, <2>9
<1>3. n \in G
  <2> HIDE DEF G
  <2>1. 0 .. n \subseteq G
    BY <1>1, <1>2, NatSteps
  <2> QED BY <2>1, SMTT(30)
<1> QED BY <1>3

\* Sorting keeps the transactions.
LEMMA SortedFacts ==
  ASSUME NEW n \in Nat, NEW f \in [1 .. n -> Nat]
  PROVE  Sorted(f) \in [1 .. n -> Nat] /\ Range(Sorted(f)) = Range(f)
<1> DEFINE p == CHOOSE p \in Bijection(1 .. n, 1 .. n) :
                  \A i, j \in 1 .. n : i < j => f[p[i]] <= f[p[j]]
<1>1. DOMAIN f = 1 .. n
  OBVIOUS
<1>2. \E q \in Bijection(1 .. n, 1 .. n) : \A i, j \in 1 .. n : i < j => f[q[i]] <= f[q[j]]
  BY SortExists DEF Sorts
<1>3. p \in Bijection(1 .. n, 1 .. n)
  BY <1>2
<1>4. Sorted(f) = [i \in 1 .. n |-> f[p[i]]]
  BY <1>1, SMTT(30) DEF Sorted
<1> HIDE DEF p
<1>5. p \in [1 .. n -> 1 .. n] /\ \A j \in 1 .. n : \E i \in 1 .. n : p[i] = j
  BY <1>3 DEF Bijection, Injection, Surjection
<1>6. Sorted(f) \in [1 .. n -> Nat]
  BY <1>4, <1>5
<1>7. Range(Sorted(f)) \subseteq Range(f)
  BY <1>4, <1>5, SMTT(30) DEF Range
<1>8. ASSUME NEW j \in 1 .. n PROVE f[j] \in Range(Sorted(f))
  <2>1. PICK i \in 1 .. n : p[i] = j
    BY <1>5
  <2>2. Sorted(f)[i] = f[j] /\ DOMAIN Sorted(f) = 1 .. n
    BY <1>4, <2>1
  <2> QED BY <2>2 DEF Range
<1> QED BY <1>6, <1>7, <1>8 DEF Range

-----------------------------------------------------------------------------
(* One level of the tree *)

LEMMA Halves ==
  ASSUME NEW n \in Nat, n > 1, NEW l \in Nat, l = IF n % 2 = 1 THEN n + 1 ELSE n
  PROVE  l = 2 * (l \div 2) /\ l \div 2 \in 1 .. n - 1
<1>1. l % 2 = 0
  BY SMTT(30)
<1>2. l = 2 * (l \div 2)
  BY <1>1, SMTT(30)
<1> QED BY <1>2, SMTT(30)

\* The parents of a level of at least two nodes are fewer, and have all of its
\* nodes, and nothing else, as children.
LEMMA PairsFacts ==
  ASSUME NEW S, NEW s \in Seq(S), Len(s) > 1
  PROVE  /\ \E T : Pairs(Pad(s)) \in Seq(T)
         /\ Len(Pairs(Pad(s))) \in 1 .. Len(s) - 1
         /\ \A t \in Range(Pairs(Pad(s))) : t.tx = NoTx /\ Range(t.children) \subseteq Range(s)
         /\ \A c \in Range(s) : \E t \in Range(Pairs(Pad(s))) : c \in Range(t.children)
<1> DEFINE n == Len(s)
           u == Pad(s)
           m == Len(u) \div 2
           P == Pairs(u)
<1>1. n \in Nat /\ n > 1 /\ s \in [1 .. n -> S] /\ s[n] \in S
  BY SMTT(30)
<1>2. /\ u \in Seq(S) /\ Len(u) = (IF n % 2 = 1 THEN n + 1 ELSE n)
      /\ \A i \in 1 .. n : u[i] = s[i]
      /\ \A i \in 1 .. Len(u) : u[i] \in Range(s)
  <2>1. CASE n % 2 = 1
    <3>1. u = Append(s, s[n])
      BY <2>1 DEF Pad
    <3>2. u \in Seq(S) /\ Len(u) = n + 1 /\ (\A i \in 1 .. n : u[i] = s[i]) /\ u[n + 1] = s[n]
      BY <1>1, <3>1, SMTT(30)
    <3> HIDE DEF u
    <3> QED BY <1>1, <2>1, <3>2, SMTT(30) DEF Range
  <2>2. CASE n % 2 # 1
    BY <1>1, <2>2 DEF Pad, Range
  <2> QED BY <2>1, <2>2
<1>3. m \in 1 .. n - 1 /\ Len(u) = 2 * m
  <2> HIDE DEF u, n
  <2>1. Len(u) \in Nat
    BY <1>2, SMTT(30)
  <2> QED BY <1>1, <1>2, <2>1, Halves
<1>4. P = [k \in 1 .. m |-> Parent(u[2 * k - 1], u[2 * k])]
  BY DEF Pairs
<1> HIDE DEF u, m, P, n
<1>5. P \in Seq(Range(P)) /\ Len(P) = m /\ DOMAIN P = 1 .. m
  <2>1. P \in [1 .. m -> Range(P)] /\ m \in Nat
    BY <1>1, <1>3, <1>4, SMTT(30) DEF Range
  <2> QED BY <2>1, SeqOf
<1>6. \A k \in 1 .. m : /\ 2 * k - 1 \in 1 .. Len(u) /\ 2 * k \in 1 .. Len(u)
                        /\ P[k].tx = NoTx /\ Range(P[k].children) = {u[2 * k - 1], u[2 * k]}
  <2> SUFFICES ASSUME NEW k \in 1 .. m
               PROVE  /\ 2 * k - 1 \in 1 .. Len(u) /\ 2 * k \in 1 .. Len(u)
                      /\ P[k].tx = NoTx /\ Range(P[k].children) = {u[2 * k - 1], u[2 * k]}
    OBVIOUS
  <2>1. 2 * k - 1 \in 1 .. Len(u) /\ 2 * k \in 1 .. Len(u)
    BY <1>1, <1>3, SMTT(30)
  <2>2. P[k].tx = NoTx /\ P[k].children = <<u[2 * k - 1], u[2 * k]>>
    BY <1>4 DEF Parent
  <2>3. ASSUME NEW l, NEW r PROVE Range(<<l, r>>) = {l, r}
    BY SMTT(30) DEF Range
  <2>4. Range(P[k].children) = {u[2 * k - 1], u[2 * k]}
    BY <2>2, <2>3
  <2> QED BY <2>1, <2>2, <2>4
<1>7. ASSUME NEW t \in Range(P) PROVE t.tx = NoTx /\ Range(t.children) \subseteq Range(s)
  <2>1. PICK k \in 1 .. m : t = P[k]
    BY <1>5 DEF Range
  <2> QED BY <1>2, <1>6, <2>1
<1>8. ASSUME NEW i \in 1 .. n PROVE \E t \in Range(P) : s[i] \in Range(t.children)
  <2> DEFINE k == (i + 1) \div 2
  <2>1. k \in 1 .. m /\ (i = 2 * k - 1 \/ i = 2 * k)
    BY <1>1, <1>2, <1>3, SMTT(30)
  <2> HIDE DEF k
  <2>2. s[i] \in Range(P[k].children)
    BY <1>2, <1>6, <2>1
  <2>3. P[k] \in Range(P)
    BY <1>5, <2>1 DEF Range
  <2> QED BY <2>2, <2>3
<1>9. \A c \in Range(s) : \E t \in Range(P) : c \in Range(t.children)
  BY <1>1, <1>8 DEF Range
<1> QED BY <1>3, <1>5, <1>7, <1>9 DEF P, u, n

-----------------------------------------------------------------------------
(* The tree and the walk *)

Turn(leaves, g, k) ==
  IF k = 0 THEN leaves
  ELSE IF Len(g[k - 1]) > 1 THEN Pairs(Pad(g[k - 1]))
  ELSE g[k - 1]

Visit(top, g, k) ==
  IF k = 0 THEN {top}
  ELSE g[k - 1] \cup UNION {Range(s.children) : s \in g[k - 1]}

\* The functions that Levels and Visited define recursively exist.
LEMMA TurnsExist ==
  ASSUME NEW leaves, NEW N \in Nat
  PROVE  \E g : g = [k \in 0 .. N |-> Turn(leaves, g, k)]
<1> DEFINE G == {n \in Nat : \E g : g = [k \in 0 .. n |-> Turn(leaves, g, k)]}
<1>1. 0 \in G
  <2> DEFINE g == [k \in 0 .. 0 |-> leaves]
  <2>1. g = [k \in 0 .. 0 |-> Turn(leaves, g, k)]
    BY SMTT(30) DEF Turn
  <2> QED BY <2>1
<1>2. ASSUME NEW n \in 0 .. N - 1, n \in G PROVE n + 1 \in G
  <2>1. PICK g : g = [k \in 0 .. n |-> Turn(leaves, g, k)]
    BY <1>2
  <2> DEFINE h == [k \in 0 .. n + 1 |-> IF k \in 0 .. n THEN g[k] ELSE Turn(leaves, g, k)]
  <2>2. ASSUME NEW k \in 0 .. n + 1 PROVE h[k] = Turn(leaves, h, k)
    <3>1. k = 0 \/ (k - 1 \in 0 .. n /\ k - 1 \in 0 .. n + 1)
      BY SMTT(30)
    <3>2. k = 0 \/ h[k - 1] = g[k - 1]
      BY <3>1
    <3>3. Turn(leaves, h, k) = Turn(leaves, g, k)
      BY <3>2, SMTT(30) DEF Turn
    <3>4. h[k] = Turn(leaves, g, k)
      BY <2>1
    <3> QED BY <3>3, <3>4
  <2>3. h = [k \in 0 .. n + 1 |-> Turn(leaves, h, k)]
    BY <2>2
  <2> HIDE DEF h
  <2> QED BY <2>3, SMTT(30)
<1> HIDE DEF G
<1>3. 0 .. N \subseteq G
  BY <1>1, <1>2, NatSteps
<1>4. N \in G
  BY <1>3, SMTT(30)
<1> QED BY <1>4 DEF G

LEMMA LevelsDef ==
  ASSUME NEW leaves, Len(leaves) \in Nat
  PROVE  \A k \in 0 .. Len(leaves) : Levels(leaves)[k] = Turn(leaves, Levels(leaves), k)
<1> DEFINE L == Levels(leaves)
<1>1. L = CHOOSE g : g = [k \in 0 .. Len(leaves) |-> Turn(leaves, g, k)]
  BY DEF Levels, Turn
<1>2. L = [k \in 0 .. Len(leaves) |-> Turn(leaves, L, k)]
  BY <1>1, TurnsExist
<1>3. \A k \in 0 .. Len(leaves) : L[k] = Turn(leaves, L, k)
  <2> HIDE DEF L
  <2> QED BY <1>2
<1> QED BY <1>3

LEMMA VisitsExist ==
  ASSUME NEW top, NEW N \in Nat
  PROVE  \E g : g = [k \in 0 .. N |-> Visit(top, g, k)]
<1> DEFINE G == {n \in Nat : \E g : g = [k \in 0 .. n |-> Visit(top, g, k)]}
<1>1. 0 \in G
  <2> DEFINE g == [k \in 0 .. 0 |-> {top}]
  <2>1. g = [k \in 0 .. 0 |-> Visit(top, g, k)]
    BY SMTT(30) DEF Visit
  <2> QED BY <2>1
<1>2. ASSUME NEW n \in 0 .. N - 1, n \in G PROVE n + 1 \in G
  <2>1. PICK g : g = [k \in 0 .. n |-> Visit(top, g, k)]
    BY <1>2
  <2> DEFINE h == [k \in 0 .. n + 1 |-> IF k \in 0 .. n THEN g[k] ELSE Visit(top, g, k)]
  <2>2. ASSUME NEW k \in 0 .. n + 1 PROVE h[k] = Visit(top, h, k)
    <3>1. k = 0 \/ (k - 1 \in 0 .. n /\ k - 1 \in 0 .. n + 1)
      BY SMTT(30)
    <3>2. k = 0 \/ h[k - 1] = g[k - 1]
      BY <3>1
    <3>3. Visit(top, h, k) = Visit(top, g, k)
      BY <3>2 DEF Visit
    <3>4. h[k] = Visit(top, g, k)
      BY <2>1
    <3> QED BY <3>3, <3>4
  <2>3. h = [k \in 0 .. n + 1 |-> Visit(top, h, k)]
    BY <2>2
  <2> HIDE DEF h
  <2> QED BY <2>3, SMTT(30)
<1> HIDE DEF G
<1>3. 0 .. N \subseteq G
  BY <1>1, <1>2, NatSteps
<1>4. N \in G
  BY <1>3, SMTT(30)
<1> QED BY <1>4 DEF G

LEMMA VisitedDef ==
  ASSUME NEW top, NEW d \in Nat
  PROVE  \E v : /\ Visited(top, d) = v[d]
                /\ \A k \in 0 .. d : v[k] = Visit(top, v, k)
<1> DEFINE v == CHOOSE g : g = [k \in 0 .. d |-> Visit(top, g, k)]
<1>1. Visited(top, d) = v[d]
  BY DEF Visited, Visit
<1>2. v = [k \in 0 .. d |-> Visit(top, v, k)]
  BY VisitsExist
<1> HIDE DEF v
<1>3. \A k \in 0 .. d : v[k] = Visit(top, v, k)
  BY <1>2
<1> QED BY <1>1, <1>3

\* A node of a level is one of the level below or has children there; a node of
\* the level below is one of the level or the child of one.  The last level has
\* one node.
LEMMA LevelFacts ==
  ASSUME NEW S, NEW leaves \in Seq(S), Len(leaves) > 0
  PROVE  LET n == Len(leaves)
             L == Levels(leaves)
         IN  /\ L[0] = leaves
             /\ \A k \in 1 .. n :
                  /\ \A t \in Range(L[k]) :
                       \/ t \in Range(L[k - 1])
                       \/ t.tx = NoTx /\ Range(t.children) \subseteq Range(L[k - 1])
                  /\ \A c \in Range(L[k - 1]) :
                       c \in Range(L[k]) \/ \E t \in Range(L[k]) : c \in Range(t.children)
             /\ Range(L[n]) = {L[n][1]}
<1> DEFINE n == Len(leaves)
           L == Levels(leaves)
           G == {k \in 0 .. n : /\ \E T : L[k] \in Seq(T)
                                /\ Len(L[k]) \in Nat /\ Len(L[k]) > 0
                                /\ Len(L[k]) = 1 \/ Len(L[k]) <= n - k}
<1>1. n \in Nat /\ n > 0
  BY SMTT(30)
<1>2. L[0] = leaves /\ \A k \in 1 .. n : L[k] = IF Len(L[k - 1]) > 1 THEN Pairs(Pad(L[k - 1]))
                                                ELSE L[k - 1]
  BY <1>1, LevelsDef, SMTT(30) DEF Turn
<1> HIDE DEF L, n
<1>3. 0 \in G
  BY <1>1, <1>2, SMTT(30) DEF n
<1>4. ASSUME NEW k \in 0 .. n - 1, k \in G PROVE k + 1 \in G
  <2>0. Len(L[k]) \in Nat /\ Len(L[k]) > 0 /\ (Len(L[k]) = 1 \/ Len(L[k]) <= n - k)
    BY <1>4
  <2>4. (Len(L[k]) > 1 => Len(L[k]) <= n - k) /\ (~(Len(L[k]) > 1) => Len(L[k]) = 1)
    <3> DEFINE l == Len(L[k])
    <3>1. l \in Nat /\ l > 0 /\ (l = 1 \/ l <= n - k)
      BY <2>0
    <3>2. (l > 1 => l <= n - k) /\ (~(l > 1) => l = 1)
      <4> HIDE DEF l
      <4> QED BY <3>1, SMTT(30)
    <3> QED BY <3>2
  <2>1. L[k + 1] = IF Len(L[k]) > 1 THEN Pairs(Pad(L[k])) ELSE L[k]
    <3>1. k + 1 \in 1 .. n /\ (k + 1) - 1 = k
      BY <1>1, SMTT(30)
    <3> QED BY <1>2, <3>1
  <2>2. CASE Len(L[k]) > 1
    <3>1. PICK T : L[k] \in Seq(T)
      BY <1>4
    <3>2. /\ \E U : Pairs(Pad(L[k])) \in Seq(U)
          /\ Len(Pairs(Pad(L[k]))) \in 1 .. Len(L[k]) - 1
      BY <2>2, <3>1, PairsFacts
    <3>3. Len(L[k + 1]) \in 1 .. Len(L[k]) - 1 /\ \E U : L[k + 1] \in Seq(U)
      BY <2>1, <2>2, <3>2
    <3>4. Len(L[k]) \in Nat /\ Len(L[k]) <= n - k
      BY <2>0, <2>2, <2>4
    <3>5. Len(L[k + 1]) \in Nat /\ Len(L[k + 1]) > 0 /\ Len(L[k + 1]) <= n - (k + 1)
      BY <1>1, <3>3, <3>4, SMTT(30)
    <3> QED BY <1>1, <3>3, <3>5, SMTT(30)
  <2>3. CASE ~(Len(L[k]) > 1)
    <3>1. L[k + 1] = L[k] /\ Len(L[k]) = 1
      BY <2>1, <2>3, <2>4
    <3> QED BY <1>1, <1>4, <3>1, SMTT(30)
  <2> QED BY <2>2, <2>3
<1>5. 0 .. n \subseteq G
  <2> HIDE DEF G
  <2> QED BY <1>1, <1>3, <1>4, NatSteps
<1>6. ASSUME NEW k \in 1 .. n
      PROVE  /\ \A t \in Range(L[k]) :
                  \/ t \in Range(L[k - 1])
                  \/ t.tx = NoTx /\ Range(t.children) \subseteq Range(L[k - 1])
             /\ \A c \in Range(L[k - 1]) :
                  c \in Range(L[k]) \/ \E t \in Range(L[k]) : c \in Range(t.children)
  <2>1. CASE Len(L[k - 1]) > 1
    <3>1. k - 1 \in 0 .. n
      BY <1>1, SMTT(30)
    <3>2. PICK T : L[k - 1] \in Seq(T)
      BY <1>5, <3>1
    <3>3. L[k] = Pairs(Pad(L[k - 1]))
      BY <1>2, <2>1
    <3> QED BY <2>1, <3>2, <3>3, PairsFacts, SMTT(30)
  <2>2. CASE ~(Len(L[k - 1]) > 1)
    BY <1>2, <2>2
  <2> QED BY <2>1, <2>2
<1>7. Range(L[n]) = {L[n][1]}
  <2>1. n \in G
    BY <1>1, <1>5, SMTT(30)
  <2>2. Len(L[n]) = 1
    BY <1>1, <2>1, SMTT(30)
  <2>3. DOMAIN L[n] = 1 .. 1
    BY <2>1, <2>2, SMTT(30)
  <2> QED BY <2>3, SMTT(30) DEF Range
<1> QED BY <1>2, <1>6, <1>7 DEF L, n

\* The tree of any list of transactions, of any length and with repetitions, reads
\* back as the transactions of the list.
THEOREM TreeReadsBack ==
  ASSUME NEW n \in Nat \ {0}, NEW f \in [1 .. n -> Nat], NoTx \notin Nat
  PROVE  AllTx(NewTxSet(f), n) = Range(f)
<1> DEFINE leaves == [i \in 1 .. n |-> Leaf(Sorted(f)[i])]
           L == Levels(leaves)
           top == L[n][1]
           All == UNION {Range(L[k]) : k \in 0 .. n}
<1>1. Sorted(f) \in [1 .. n -> Nat] /\ Range(Sorted(f)) = Range(f)
  BY SortedFacts
<1>2. leaves \in Seq(Range(leaves)) /\ Len(leaves) = n /\ DOMAIN leaves = 1 .. n
  <2>1. leaves \in [1 .. n -> Range(leaves)]
    BY DEF Range
  <2> HIDE DEF leaves
  <2> QED BY <2>1, SeqOf
<1>3. NewTxSet(f) = top
  <2>1. DOMAIN f = 1 .. n /\ Len(f) = n
    BY SeqOf
  <2> QED BY <2>1 DEF NewTxSet
<1>4. /\ \A t \in Range(leaves) : t.tx \in Range(f) /\ Range(t.children) = {}
      /\ \A c \in Range(f) : \E t \in Range(leaves) : t.tx = c
  <2>1. \A i \in 1 .. n : leaves[i].tx = Sorted(f)[i] /\ leaves[i].children = <<>>
    BY DEF Leaf
  <2>2. Range(<<>>) = {}
    BY SMTT(30) DEF Range
  <2>3. DOMAIN Sorted(f) = 1 .. n
    BY <1>1
  <2> HIDE DEF leaves
  <2>4. ASSUME NEW t \in Range(leaves) PROVE t.tx \in Range(f) /\ Range(t.children) = {}
    <3>1. PICK i \in 1 .. n : t = leaves[i]
      BY <1>2 DEF Range
    <3>2. Sorted(f)[i] \in Range(Sorted(f))
      BY <2>3 DEF Range
    <3> QED BY <1>1, <2>1, <2>2, <3>1, <3>2
  <2>5. ASSUME NEW c \in Range(f) PROVE \E t \in Range(leaves) : t.tx = c
    <3>1. PICK i \in 1 .. n : c = Sorted(f)[i]
      BY <1>1, <2>3 DEF Range
    <3>2. leaves[i] \in Range(leaves)
      BY <1>2 DEF Range
    <3> QED BY <2>1, <3>1, <3>2
  <2> QED BY <2>4, <2>5
<1> HIDE DEF leaves
<1>5. /\ L[0] = leaves
      /\ \A k \in 1 .. n :
           /\ \A t \in Range(L[k]) :
                \/ t \in Range(L[k - 1])
                \/ t.tx = NoTx /\ Range(t.children) \subseteq Range(L[k - 1])
           /\ \A c \in Range(L[k - 1]) :
                c \in Range(L[k]) \/ \E t \in Range(L[k]) : c \in Range(t.children)
      /\ Range(L[n]) = {L[n][1]}
  <2>1. Len(leaves) > 0
    BY <1>2, SMTT(30)
  <2>2. LET m == Len(leaves)
            M == Levels(leaves)
        IN  /\ M[0] = leaves
            /\ \A k \in 1 .. m :
                 /\ \A t \in Range(M[k]) :
                      \/ t \in Range(M[k - 1])
                      \/ t.tx = NoTx /\ Range(t.children) \subseteq Range(M[k - 1])
                 /\ \A c \in Range(M[k - 1]) :
                      c \in Range(M[k]) \/ \E t \in Range(M[k]) : c \in Range(t.children)
            /\ Range(M[m]) = {M[m][1]}
    BY <1>2, <2>1, LevelFacts
  <2> QED BY <1>2, <2>2
<1> HIDE DEF L
<1>6. ASSUME NEW t \in All
      PROVE  Range(t.children) \subseteq All /\ (t.tx = NoTx \/ t \in Range(leaves))
  <2> DEFINE G == {k \in 0 .. n : \A u \in Range(L[k]) :
                     Range(u.children) \subseteq All /\ (u.tx = NoTx \/ u \in Range(leaves))}
  <2>1. 0 \in G
    BY <1>4, <1>5, SMTT(30)
  <2>2. ASSUME NEW k \in 0 .. n - 1, k \in G PROVE k + 1 \in G
    <3>1. k + 1 \in 1 .. n /\ (k + 1) - 1 = k /\ k \in 0 .. n
      BY SMTT(30)
    <3>2. Range(L[k]) \subseteq All
      BY <3>1
    <3>3. \A u \in Range(L[k + 1]) :
            u \in Range(L[k]) \/ (u.tx = NoTx /\ Range(u.children) \subseteq Range(L[k]))
      BY <1>5, <3>1
    <3> HIDE DEF All
    <3> QED BY <2>2, <3>1, <3>2, <3>3, SMTT(30)
  <2>3. 0 .. n \subseteq G
    <3> HIDE DEF G
    <3> QED BY <2>1, <2>2, NatSteps
  <2> QED BY <2>3
<1>7. PICK v : /\ Visited(top, n) = v[n]
               /\ \A k \in 0 .. n : v[k] = Visit(top, v, k)
  BY VisitedDef
<1>8. /\ v[0] = {top}
      /\ \A k \in 0 .. n - 1 : v[k + 1] = v[k] \cup UNION {Range(s.children) : s \in v[k]}
  <2>1. v[0] = {top}
    <3>1. 0 \in 0 .. n
      BY SMTT(30)
    <3> QED BY <1>7, <3>1 DEF Visit
  <2>2. ASSUME NEW k \in 0 .. n - 1
        PROVE  v[k + 1] = v[k] \cup UNION {Range(s.children) : s \in v[k]}
    <3>1. k + 1 \in 0 .. n /\ (k + 1) - 1 = k /\ k + 1 # 0
      BY SMTT(30)
    <3> QED BY <1>7, <3>1 DEF Visit
  <2> QED BY <2>1, <2>2
<1>9. v[n] \subseteq All
  <2> DEFINE G == {k \in 0 .. n : v[k] \subseteq All}
  <2>1. 0 \in G
    BY <1>5, <1>8, SMTT(30)
  <2>2. ASSUME NEW k \in 0 .. n - 1, k \in G PROVE k + 1 \in G
    <3>1. v[k] \subseteq All /\ k + 1 \in 0 .. n
      BY <2>2, SMTT(30)
    <3> HIDE DEF All
    <3> QED BY <1>6, <1>8, <3>1, SMTT(30)
  <2>3. 0 .. n \subseteq G
    <3> HIDE DEF G
    <3> QED BY <2>1, <2>2, NatSteps
  <2> QED BY <2>3, SMTT(30)
<1>10. Range(leaves) \subseteq v[n]
  <2> DEFINE G == {k \in 0 .. n : Range(L[n - k]) \subseteq v[k]}
  <2>1. 0 \in G
    BY <1>5, <1>8, SMTT(30)
  <2>2. ASSUME NEW k \in 0 .. n - 1, k \in G PROVE k + 1 \in G
    <3>1. n - k \in 1 .. n /\ (n - k) - 1 = n - (k + 1) /\ k + 1 \in 0 .. n
      BY SMTT(30)
    <3>2. \A c \in Range(L[n - (k + 1)]) :
            c \in Range(L[n - k]) \/ \E t \in Range(L[n - k]) : c \in Range(t.children)
      BY <1>5, <3>1
    <3>3. Range(L[n - k]) \subseteq v[k]
      BY <2>2
    <3>4. v[k + 1] = v[k] \cup UNION {Range(s.children) : s \in v[k]}
      BY <1>8
    <3>5. Range(L[n - (k + 1)]) \subseteq v[k + 1]
      BY <3>2, <3>3, <3>4
    <3> QED BY <3>1, <3>5
  <2>3. 0 .. n \subseteq G
    <3> HIDE DEF G
    <3> QED BY <2>1, <2>2, NatSteps
  <2>4. n \in G /\ n - n = 0
    BY <2>3, SMTT(30)
  <2> QED BY <1>5, <2>4
<1>11. \A c \in Range(f) : c \in Nat /\ c # NoTx
  BY DEF Range
<1> HIDE DEF All, top
<1> QED BY <1>3, <1>4, <1>6, <1>7, <1>9, <1>10, <1>11, SMTT(30) DEF AllTx

-----------------------------------------------------------------------------
(* The blocks that are made *)

\* A step that stores no set leaves the goroutines that have a root where they are.
LEMMA RootStays ==
  ASSUME RootInv, PoolInv, UNCHANGED root,
         \A g \in Taker : pc[g] = "made" => pc'[g] = pc[g] /\ txs'[g] = txs[g]
  PROVE  RootInv'
BY DEF RootInv, Cids

LEMMA RootStep ==
  ASSUME PoolInv, RootInv, [Next]_vars PROVE RootInv'
<1>1. /\ pc \in [Goroutine -> AddPC \cup TakePC] /\ txs \in [Taker -> Seq(Tx)]
      /\ Tx \cap Taker = {} /\ Taker \subseteq Goroutine
  BY PoolAssumption DEF PoolInv, TypeOK, Goroutine
<1>2. CASE UNCHANGED vars
  BY <1>2, RootStays DEF vars
<1>3. CASE Panic
  BY <1>3, RootStays DEF Panic
<1>4. ASSUME NEW t \in Tx, onTx(t), ~Panic PROVE RootInv'
  <2>1. UNCHANGED <<root, txs>> /\ \A g \in Taker : pc'[g] = pc[g]
    BY <1>1, <1>4 DEF onTx, AddTx, AddLen, AddUp, AddSwap, Goto
  <2> QED
    BY <2>1, RootStays
<1>5. ASSUME NEW g \in Taker, makeBlock(g), ~Panic PROVE RootInv'
  <2>1. CASE Begin(g) \/ Count(g) \/ GetTx(g) \/ PopLen(g)
    <3>1. UNCHANGED <<root, txs>> /\ pc[g] # "made" /\ \A h \in Taker : h # g => pc'[h] = pc[h]
      BY <1>1, <2>1 DEF Begin, Count, GetTx, PopLen, Goto
    <3> QED
      BY <3>1, RootStays
  <2>2. CASE PopSwap(g) \/ Down(g) \/ Child(g) \/ DownSwap(g)
    <3>1. UNCHANGED <<root, txs>> /\ pc[g] # "made" /\ \A h \in Taker : h # g => pc'[h] = pc[h]
      BY <1>1, <1>5, <2>2 DEF PopSwap, Down, Child, DownSwap, Goto
    <3> QED
      BY <3>1, RootStays
  <2>3. CASE Pop(g) \/ PutFails(g)
    <3>1. /\ UNCHANGED root /\ pc[g] # "made"
          /\ \A h \in Taker : h # g => pc'[h] = pc[h] /\ txs'[h] = txs[h]
      BY <1>1, <1>5, <2>3 DEF Pop, PutFails, Leave, Goto
    <3> QED
      BY <3>1, RootStays
  <2>4. CASE Put(g)
    <3>1. /\ txs[g] # <<>> /\ UNCHANGED txs
          /\ root' = [root EXCEPT ![g] = NewTxSet(Cids(g))]
          /\ pc' = [pc EXCEPT ![g] = "made"]
      BY <1>5, <2>4 DEF Put, Goto, Cids
    <3>2. \A h \in Taker : Cids(h)' = Cids(h)
      BY <3>1 DEF Cids
    <3>3. pc'[g] = "made" /\ \A h \in Taker : h # g => pc'[h] = pc[h]
      BY <1>1, <3>1
    <3>4. /\ root' = [h \in Taker |-> root'[h]] /\ root'[g] = NewTxSet(Cids(g))
          /\ \A h \in Taker : h # g => root'[h] = root[h]
      BY <3>1 DEF RootInv
    <3> QED
      BY <3>1, <3>2, <3>3, <3>4 DEF RootInv
  <2>5. CASE Made(g)
    <3>1. /\ root' = [root EXCEPT ![g] = NoTx]
          /\ \A h \in Taker : h # g => pc'[h] = pc[h] /\ txs'[h] = txs[h]
      BY <1>1, <2>5 DEF Made, Leave, Goto
    <3>2. \A h \in Taker : h # g => Cids(h)' = Cids(h)
      BY <3>1 DEF Cids
    <3>3. /\ root' = [h \in Taker |-> root'[h]] /\ root'[g] = NoTx
          /\ \A h \in Taker : h # g => root'[h] = root[h]
      BY <3>1 DEF RootInv
    <3> QED
      BY <3>1, <3>2, <3>3 DEF RootInv
  <2> QED
    BY <1>5, <2>1, <2>2, <2>3, <2>4, <2>5 DEF makeBlock
<1> QED
  BY <1>2, <1>3, <1>4, <1>5 DEF Next

\* A block reads back as the transactions taken for it, for any limit on their
\* number and under every interleaving: the set a taker has stored is the tree of
\* what it still holds.
THEOREM BlocksComplete == Spec => []BlocksReadBack
<1>1. Init => RootInv
  BY DEF Init, RootInv
<1>2. PoolInv /\ RootInv /\ [Next]_vars => RootInv'
  BY RootStep
<1>3. PoolInv /\ RootInv => BlocksReadBack
  <2> SUFFICES ASSUME PoolInv, RootInv, NEW g \in Taker, root[g] # NoTx
               PROVE  AllTx(root[g], Len(txs[g])) = {Cid[t] : t \in Range(txs[g])}
    BY DEF BlocksReadBack
  <2>1. txs[g] \in Seq(Tx) /\ txs[g] # <<>> /\ root[g] = NewTxSet(Cids(g))
    BY DEF PoolInv, TypeOK, RootInv
  <2>2. /\ Len(txs[g]) \in Nat \ {0} /\ txs[g] \in [1 .. Len(txs[g]) -> Tx]
        /\ DOMAIN txs[g] = 1 .. Len(txs[g])
    BY <2>1, SMTT(30)
  <2>3. Cids(g) \in [1 .. Len(txs[g]) -> Nat]
    BY <2>2, PoolAssumption DEF Cids
  <2>4. AllTx(NewTxSet(Cids(g)), Len(txs[g])) = Range(Cids(g))
    BY <2>2, <2>3, PoolAssumption, TreeReadsBack
  <2>5. Range(Cids(g)) = {Cid[t] : t \in Range(txs[g])}
    BY <2>2 DEF Cids, Range
  <2> QED
    BY <2>1, <2>4, <2>5
<1> QED
  BY <1>1, <1>2, <1>3, PoolInductive, PTL DEF Spec
=============================================================================
