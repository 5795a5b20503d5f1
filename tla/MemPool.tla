------------------------------ MODULE MemPool -------------------------------
(***************************************************************************)
(* The memory pool (pkg/did/consensus/mempool.go) between the goroutines   *)
(* that use it: onTx adds, in one goroutine per message, and makeBlock     *)
(* (blocks.go) takes, in the two goroutines that start rounds.             *)
(*                                                                         *)
(* The pool locks its mutex in Len, Less, Swap, Push and Pop, each on its  *)
(* own, while container/heap strings them together, so one step here is    *)
(* one of those calls.  An index out of range ends the process.            *)
(***************************************************************************)
EXTENDS HeapOrder, TxSet

CONSTANTS
  Start,      \* which transactions are in the pool at the start, as a heap, which
              \* still arrive, and who makes blocks
  Taker,      \* the goroutines that make blocks
  Cid,        \* the id a transaction is stored under
  MaxBlockTxCount

ASSUME PoolAssumption ==
  /\ Tx \cap Taker = {}
  /\ Start \subseteq [pooled : Seq(Tx), coming : SUBSET Tx, takers : SUBSET Taker]
  /\ \A s \in Start : /\ Distinct(s.pooled) /\ HeapBut(s.pooled, Len(s.pooled), {})
                      /\ Range(s.pooled) \cap s.coming = {}
  /\ Cid \in [Tx -> Nat]
  /\ MaxBlockTxCount \in Nat \ {0}
  /\ NoTx \notin Nat

VARIABLES
  plist,      \* the heap
  pc, at,     \* where each goroutine is, and the index it works on (0 after)
  last,       \* a taker's index of the heap's last element
  want,       \* how many transactions a taker still asks for
  txs,        \* the transactions a taker has taken
  root,       \* the TxRoot of a taker's block
  gone,       \* transactions that left with a block, or with one not made
  overlap,    \* two calls have overlapped
  panicked    \* the process has ended

vars == <<plist, pc, at, last, want, txs, root, gone, overlap, panicked>>

-----------------------------------------------------------------------------
Goroutine == Tx \cup Taker

AddPC == {"new", "len", "up", "upSwap", "done"}
TakePC == {"done", "idle", "count", "get", "popLen", "popSwap", "down", "child", "downSwap", "pop", "put", "made"}

\* The pool is a heap, as calls of AddTx that did not overlap leave it; the
\* transactions of neither set went with earlier blocks.
Init ==
  /\ \E s \in Start :
       /\ plist = s.pooled
       /\ pc = [g \in Goroutine |-> IF g \in s.takers THEN "idle"
                                  ELSE IF g \in s.coming THEN "new" ELSE "done"]
       /\ gone = Tx \ (Range(s.pooled) \cup s.coming)
  /\ at = [g \in Goroutine |-> 0]
  /\ last = [g \in Taker |-> 0]
  /\ want = [g \in Taker |-> 0]
  /\ txs = [g \in Taker |-> <<>>]
  /\ root = [g \in Taker |-> NoTx]
  /\ overlap = FALSE /\ panicked = FALSE

\* the pool's methods, on indexes from 0
InRange(i) == 0 <= i /\ i < Len(plist)

\* mutant: the latest transaction first
LessLater(i, j) == Ts[plist[i + 1]] > Ts[plist[j + 1]]

Less(i, j) == Ts[plist[i + 1]] < Ts[plist[j + 1]]

\* mutant: the second element is not written back
SwapLoses(i, j) == [plist EXCEPT ![i + 1] = plist[j + 1]]

Swap(i, j) == [plist EXCEPT ![i + 1] = plist[j + 1], ![j + 1] = plist[i + 1]]

Push(t) == Append(plist, t)

Goto(g, l) == pc' = [pc EXCEPT ![g] = l]

Panic ==
  /\ panicked' = TRUE
  /\ UNCHANGED <<plist, pc, at, last, want, txs, root, gone, overlap>>

\* g is between the first and the last step of AddTx or of GetTx
InHeap(g) ==
  pc[g] \in {"len", "up", "upSwap", "popLen", "popSwap", "down", "child", "downSwap", "pop"}

OthersInHeap(g) == \E h \in Goroutine \ {g} : InHeap(h)

-----------------------------------------------------------------------------
(* AddTx: heap.Push *)

AddTx(t) ==
  /\ pc[t] = "new"
  /\ plist' = Push(t)
  /\ Goto(t, "len")
  /\ overlap' = (overlap \/ OthersInHeap(t))
  /\ UNCHANGED <<at, last, want, txs, root, gone, panicked>>

AddLen(t) ==
  /\ pc[t] = "len"
  /\ IF Len(plist) > 1
       THEN Goto(t, "up") /\ at' = [at EXCEPT ![t] = Len(plist) - 1]
       ELSE Goto(t, "done") /\ UNCHANGED at
  /\ UNCHANGED <<plist, last, want, txs, root, gone, overlap, panicked>>

AddUp(t) ==
  /\ pc[t] = "up"
  /\ IF ~InRange(at[t]) THEN Panic
     ELSE /\ IF Less(at[t], Up(at[t]))
               THEN Goto(t, "upSwap") /\ UNCHANGED at
               ELSE Goto(t, "done") /\ at' = [at EXCEPT ![t] = 0]
          /\ UNCHANGED <<plist, last, want, txs, root, gone, overlap, panicked>>

AddSwap(t) ==
  /\ pc[t] = "upSwap"
  /\ IF ~InRange(at[t]) THEN Panic
     ELSE /\ plist' = Swap(Up(at[t]), at[t])
          /\ at' = [at EXCEPT ![t] = Up(at[t])]
          /\ Goto(t, IF Up(at[t]) > 0 THEN "up" ELSE "done")
          /\ UNCHANGED <<last, want, txs, root, gone, overlap, panicked>>

-----------------------------------------------------------------------------
(* makeBlock *)

\* makeBlock returns
Leave(g) ==
  /\ gone' = gone \cup Range(txs[g])
  /\ txs' = [txs EXCEPT ![g] = <<>>]
  /\ want' = [want EXCEPT ![g] = 0]
  /\ Goto(g, "idle")
  /\ UNCHANGED <<plist, at, last, overlap, panicked>>

\* the first Len, compared with the limit
Begin(g) ==
  /\ pc[g] = "idle"
  /\ overlap' = (overlap \/ \E h \in Taker \ {g} : pc[h] \notin {"idle", "done"})
  /\ IF Len(plist) < MaxBlockTxCount
       THEN Goto(g, "count") /\ UNCHANGED want
       ELSE Goto(g, "get") /\ want' = [want EXCEPT ![g] = MaxBlockTxCount]
  /\ UNCHANGED <<plist, at, last, txs, root, gone, panicked>>

\* mutant: an empty pool is not told apart
CountProposes(g) ==
  /\ pc[g] = "count"
  /\ want' = [want EXCEPT ![g] = Len(plist)]
  /\ Goto(g, "get")
  /\ UNCHANGED <<plist, at, last, txs, root, gone, overlap, panicked>>

\* the second Len, which is what is asked for; nothing to propose if it is 0
Count(g) ==
  /\ pc[g] = "count"
  /\ want' = [want EXCEPT ![g] = Len(plist)]
  /\ Goto(g, IF Len(plist) = 0 THEN "idle" ELSE "get")
  /\ UNCHANGED <<plist, at, last, txs, root, gone, overlap, panicked>>

\* mutant: a nil transaction is skipped
GetTxSkips(g) ==
  /\ pc[g] = "get"
  /\ IF want[g] > 0
       THEN /\ Goto(g, IF Len(plist) > 0 THEN "popLen" ELSE "get")
            /\ overlap' = (overlap \/ (Len(plist) > 0 /\ OthersInHeap(g)))
       ELSE Goto(g, "put") /\ UNCHANGED overlap
  /\ UNCHANGED <<plist, at, last, want, txs, root, gone, panicked>>

\* mutant: the loop runs once more
GetTxMore(g) ==
  /\ pc[g] = "get"
  /\ IF want[g] >= 0 /\ Len(plist) > 0
       THEN Goto(g, "popLen") /\ overlap' = (overlap \/ OthersInHeap(g))
       ELSE Goto(g, "put") /\ UNCHANGED overlap
  /\ UNCHANGED <<plist, at, last, want, txs, root, gone, panicked>>

\* the loop's test, and the Len at the start of GetTx
GetTx(g) ==
  /\ pc[g] = "get"
  /\ IF want[g] > 0 /\ Len(plist) > 0
       THEN Goto(g, "popLen") /\ overlap' = (overlap \/ OthersInHeap(g))
       ELSE Goto(g, "put") /\ UNCHANGED overlap
  /\ UNCHANGED <<plist, at, last, want, txs, root, gone, panicked>>

\* heap.Pop: the root changes places with the last element, sinks among the
\* others, and the last element is taken
PopLen(g) ==
  /\ pc[g] = "popLen"
  /\ last' = [last EXCEPT ![g] = Len(plist) - 1]
  /\ Goto(g, "popSwap")
  /\ UNCHANGED <<plist, at, want, txs, root, gone, overlap, panicked>>

PopSwap(g) ==
  /\ pc[g] = "popSwap"
  /\ IF ~InRange(last[g]) THEN Panic
     ELSE /\ plist' = Swap(0, last[g])
          /\ at' = [at EXCEPT ![g] = 0]
          /\ Goto(g, IF 1 < last[g] THEN "down" ELSE "pop")
          /\ UNCHANGED <<last, want, txs, root, gone, overlap, panicked>>

\* the smaller of two children of at[g], left when there is no right one; at
\* moves to it so that the parent is Up(at)
Down(g) ==
  LET l == 2 * at[g] + 1
      r == l + 1
  IN /\ pc[g] = "down"
     /\ IF r < last[g] /\ ~InRange(r) THEN Panic
        ELSE /\ at' = [at EXCEPT ![g] = IF r < last[g] /\ Less(r, l) THEN r ELSE l]
             /\ Goto(g, "child")
             /\ UNCHANGED <<plist, last, want, txs, root, gone, overlap, panicked>>

Child(g) ==
  /\ pc[g] = "child"
  /\ IF ~InRange(at[g]) THEN Panic
     ELSE /\ Goto(g, IF Less(at[g], Up(at[g])) THEN "downSwap" ELSE "pop")
          /\ UNCHANGED <<plist, at, last, want, txs, root, gone, overlap, panicked>>

DownSwap(g) ==
  /\ pc[g] = "downSwap"
  /\ IF ~InRange(at[g]) THEN Panic
     ELSE /\ plist' = Swap(Up(at[g]), at[g])
          /\ Goto(g, IF 2 * at[g] + 1 < last[g] THEN "down" ELSE "pop")
          /\ UNCHANGED <<at, last, want, txs, root, gone, overlap, panicked>>

Pop(g) ==
  /\ pc[g] = "pop"
  /\ IF plist = <<>> THEN Panic
     ELSE /\ txs' = [txs EXCEPT ![g] = Append(@, plist[Len(plist)])]
          /\ plist' = [i \in 1 .. Len(plist) - 1 |-> plist[i]]
          /\ want' = [want EXCEPT ![g] = @ - 1]
          /\ at' = [at EXCEPT ![g] = 0]
          /\ last' = [last EXCEPT ![g] = 0]
          /\ Goto(g, "get")
          /\ UNCHANGED <<root, gone, overlap, panicked>>

\* a transaction or the set cannot be stored, or the set is too large: what was
\* taken is in no block
PutFails(g) ==
  /\ pc[g] = "put" /\ txs[g] # <<>>
  /\ Leave(g)
  /\ UNCHANGED root

\* the ids of what was taken
Cids(g) == [i \in DOMAIN txs[g] |-> Cid[txs[g][i]]]

\* NewTxSet has no root for an empty list
Put(g) ==
  /\ pc[g] = "put" /\ Len(txs[g]) <= MaxBlockTxCount
  /\ IF txs[g] = <<>> THEN Panic
     ELSE /\ root' = [root EXCEPT ![g] = NewTxSet(Cids(g))]
          /\ Goto(g, "made")
          /\ UNCHANGED <<plist, at, last, want, txs, gone, overlap, panicked>>

\* startRound goes on with the block
Made(g) ==
  /\ pc[g] = "made"
  /\ Leave(g)
  /\ root' = [root EXCEPT ![g] = NoTx]

-----------------------------------------------------------------------------
onTx(t) == ~panicked /\ (AddTx(t) \/ AddLen(t) \/ AddUp(t) \/ AddSwap(t))

makeBlock(g) ==
  ~panicked /\ ( \/ Begin(g) \/ Count(g) \/ GetTx(g) \/ PopLen(g) \/ PopSwap(g)
                 \/ Down(g) \/ Child(g) \/ DownSwap(g) \/ Pop(g) \/ PutFails(g) \/ Put(g) \/ Made(g) )

Next == (\E t \in Tx : onTx(t)) \/ (\E g \in Taker : makeBlock(g))

\* Goroutines are scheduled: one that can take a step eventually does.
Fairness ==
  /\ \A t \in Tx : WF_vars(onTx(t))
  /\ \A g \in Taker : WF_vars(makeBlock(g))

Spec == Init /\ [][Next]_vars /\ Fairness

-----------------------------------------------------------------------------
(* Properties *)

\* Every variable holds a value of its kind; in particular makeBlock never takes
\* more transactions than it counted.
TypeOK ==
  /\ plist \in Seq(Tx)
  /\ pc \in [Goroutine -> AddPC \cup TakePC]
  /\ at \in [Goroutine -> Nat]
  /\ last \in [Taker -> Int] /\ want \in [Taker -> Nat]
  /\ txs \in [Taker -> Seq(Tx)]
  /\ gone \subseteq Tx
  /\ overlap \in BOOLEAN /\ panicked \in BOOLEAN

Taken == {t \in Tx : t \in gone \/ \E g \in Taker : t \in Range(txs[g])}

\* However the calls of AddTx and makeBlock interleave, no transaction is lost
\* in the heap and none is taken twice: the pool is the bag of TxBag.tla.
B == INSTANCE TxBag WITH pool <- Range(plist), out <- Taken

Conserves == B!Spec

\* "The MemPool is to provide TXs in sequental time as stated by the TX"
\* (mempool.go): as long as no two calls have overlapped, the transaction that
\* is about to be taken is the earliest of the pool.
SerialOrder ==
  ~overlap => \A g \in Taker : pc[g] = "pop" =>
    \A i \in 1 .. Len(plist) : Ts[plist[Len(plist)]] <= Ts[plist[i]]

\* The process ends with an index out of range only if two calls overlapped.
PanicNeedsOverlap == panicked => overlap

\* A block reads back as exactly the transactions that were taken for it,
\* although odd levels of its tree repeat a node and a transaction may have
\* arrived twice.
BlocksReadBack ==
  \A g \in Taker : root[g] # NoTx =>
    AllTx(root[g], Len(txs[g])) = {Cid[t] : t \in Range(txs[g])}

\* makeBlock returns, however many transactions other goroutines take meanwhile.
MakeBlockEnds == \A g \in Taker : pc[g] \notin {"idle", "done"} ~> (pc[g] = "idle" \/ panicked)

-----------------------------------------------------------------------------
(* The inductive invariants behind Conserves, and behind SerialOrder and   *)
(* PanicNeedsOverlap.                                                      *)

PoolInv ==
  /\ TypeOK
  /\ Distinct(plist)
  /\ \A g \in Goroutine : pc[g] \in {"up", "upSwap", "child", "downSwap"} => at[g] > 0
  /\ \A g \in Taker : InHeap(g) => want[g] > 0
  /\ \A t \in Tx : pc[t] = "new" => t \notin Range(plist) \cup Taken

\* what is behind BlocksReadBack: a set is stored for what the taker still holds
RootInv ==
  /\ root = [g \in Taker |-> root[g]]
  /\ \A g \in Taker : root[g] # NoTx =>
       pc[g] = "made" /\ txs[g] # <<>> /\ root[g] = NewTxSet(Cids(g))

\* where a goroutine is, what of the heap it has left to repair
AddInv(t) ==
  /\ pc[t] = "len" => HeapBut(plist, Len(plist), {Len(plist) - 1}) /\ Len(plist) > 0
  /\ pc[t] \in {"up", "upSwap"} =>
       /\ at[t] \in 1 .. Len(plist) - 1
       /\ HeapBut(plist, Len(plist), {at[t]})
       /\ Bridged(plist, Len(plist), at[t])
  /\ pc[t] = "upSwap" => V(plist, at[t]) < V(plist, Up(at[t]))

\* the element at the end is the earliest
LastFirst(g) ==
  /\ last[g] = Len(plist) - 1
  /\ \A i \in 0 .. Len(plist) - 1 : V(plist, last[g]) <= V(plist, i)

TakeInv(g) ==
  /\ pc[g] \in {"popLen", "popSwap"} => HeapBut(plist, Len(plist), {})
  /\ pc[g] = "popSwap" => last[g] = Len(plist) - 1
  /\ pc[g] \in {"down", "child", "downSwap", "pop"} => LastFirst(g)
  /\ pc[g] = "down" =>
       /\ 2 * at[g] + 1 < last[g]
       /\ HeapBut(plist, last[g], Children(at[g]))
       /\ Bridged(plist, last[g], at[g])
  /\ pc[g] \in {"child", "downSwap"} =>
       /\ at[g] \in 1 .. last[g] - 1
       /\ HeapBut(plist, last[g], Children(Up(at[g])))
       /\ Bridged(plist, last[g], Up(at[g]))
       /\ \A j \in 1 .. last[g] - 1 : Up(j) = Up(at[g]) => V(plist, at[g]) <= V(plist, j)
  /\ pc[g] = "downSwap" => V(plist, at[g]) < V(plist, Up(at[g]))
  /\ pc[g] = "pop" => HeapBut(plist, last[g], {})

\* what a makeBlock that no other overlaps counts on
CountInv(g) ==
  /\ pc[g] = "get" => Len(plist) >= want[g] /\ (want[g] > 0 \/ txs[g] # <<>>)
  /\ InHeap(g) => Len(plist) >= want[g] /\ want[g] > 0
  /\ pc[g] = "put" => txs[g] # <<>>

Busy(g) == pc[g] \notin {"idle", "done"}

SerialInv ==
  /\ \A t \in Tx : pc[t] \in AddPC
  /\ \A g \in Taker : pc[g] \in TakePC
  /\ panicked => overlap
  /\ ~overlap =>
       /\ \A g, h \in Goroutine : InHeap(g) /\ InHeap(h) => g = h
       /\ \A g, h \in Taker : Busy(g) /\ Busy(h) => g = h
       /\ (\A g \in Goroutine : ~InHeap(g)) => HeapBut(plist, Len(plist), {})
       /\ \A t \in Tx : AddInv(t)
       /\ \A g \in Taker : TakeInv(g) /\ CountInv(g)
=============================================================================
