--------------------------- MODULE FileStoreProofs --------------------------
(***************************************************************************)
(* The file of identities, for any identities and any length of the list.  *)
(* Every step preserves FileInv: the list in memory has at all times what  *)
(* the file had when it was read, so that the Write after a Truncate       *)
(* brings back all of it.                                                  *)
(***************************************************************************)
EXTENDS FileStore, TLAPS

\* Most steps are first-order and go to Zenon; SMT is named where a step needs arithmetic,
\* sequences or records.
USE Zenon, SMTT(30)

-----------------------------------------------------------------------------
(* Sequences *)

\* The entries of a sequence are values of its elements' set.
LEMMA RangeIn == ASSUME NEW S, NEW s \in Seq(S) PROVE Range(s) \subseteq S
BY SMTT(30) DEF Range

\* Appending an entry adds it to those of the list (Add).
LEMMA RangeAppend ==
  ASSUME NEW S, NEW s \in Seq(S), NEW e \in S
  PROVE  Append(s, e) \in Seq(S) /\ Range(Append(s, e)) = Range(s) \cup {e}
<1>1. Append(s, e) \in Seq(S) /\ Len(Append(s, e)) = Len(s) + 1
  BY SMTT(30)
<1>2. \A n \in 1 .. Len(s) : Append(s, e)[n] = s[n]
  BY SMTT(30)
<1>3. Append(s, e)[Len(s) + 1] = e
  BY SMTT(30)
<1>4. DOMAIN s = 1 .. Len(s) /\ DOMAIN Append(s, e) = 1 .. Len(s) + 1 /\ Len(s) \in Nat
  BY <1>1, SMTT(30)
<1>5. Range(Append(s, e)) \subseteq Range(s) \cup {e}
  BY <1>2, <1>3, <1>4, SMTT(30) DEF Range
<1>6. Range(s) \cup {e} \subseteq Range(Append(s, e))
  BY <1>2, <1>3, <1>4, SMTT(30) DEF Range
<1> QED BY <1>1, <1>5, <1>6

\* The empty list has no entries.
LEMMA RangeEmpty == Range(<<>>) = {}
BY SMTT(30) DEF Range

\* and is a list of anything.
LEMMA EmptySeq == \A S : <<>> \in Seq(S)
BY SMTT(30)

\* What an early end of a write leaves are entries of the list, and perhaps one
\* that is cut off (WriteFails, PowerLoss).
LEMMA PartialRange ==
  ASSUME NEW s \in Seq(Entry \cup {Broken}), NEW f \in Partials(s)
  PROVE  /\ f \in Seq(Entry \cup {Broken})
         /\ Range(f) \cap Id \subseteq Range(s) \cap Id
<1> DEFINE S == Entry \cup {Broken}
<1>0. Len(s) \in Nat /\ DOMAIN s = 1 .. Len(s) /\ \A n \in 1 .. Len(s) : s[n] \in S
  BY SMTT(30)
<1>1. CASE \E k \in 0 .. Len(s) - 1 : f = [n \in 1 .. k |-> s[n]]
  <2>1. PICK k \in 0 .. Len(s) - 1 : f = [n \in 1 .. k |-> s[n]]
    BY <1>1
  <2>2. k \in Nat /\ \A n \in 1 .. k : n \in 1 .. Len(s)
    BY <1>0, SMTT(30)
  <2>3. f \in [1 .. k -> S]
    BY <1>0, <2>1, <2>2
  <2>4. f \in Seq(S)
    BY <2>2, <2>3, SMTT(30)
  <2>5. Range(f) \subseteq Range(s)
    BY <1>0, <2>1, <2>2 DEF Range
  <2> QED BY <2>4, <2>5
<1>2. CASE \E k \in 0 .. Len(s) - 1, e \in {Broken, Bogus} :
             f = [n \in 1 .. k + 1 |-> IF n = k + 1 THEN e ELSE s[n]]
  <2>1. PICK k \in 0 .. Len(s) - 1, e \in {Broken, Bogus} :
               f = [n \in 1 .. k + 1 |-> IF n = k + 1 THEN e ELSE s[n]]
    BY <1>2
  <2>2. k + 1 \in Nat /\ \A n \in 1 .. k + 1 : n \in 1 .. Len(s)
    BY <1>0, SMTT(30)
  <2>3. e \in S /\ e \notin Id
    BY FileAssumption DEF Entry
  <2>4. f \in [1 .. k + 1 -> S]
    BY <1>0, <2>1, <2>2, <2>3
  <2>5. f \in Seq(S)
    BY <2>2, <2>4, SMTT(30)
  <2>6. \A n \in 1 .. k + 1 : f[n] = e \/ f[n] = s[n]
    BY <2>1
  <2>7. Range(f) \subseteq Range(s) \cup {e}
    BY <1>0, <2>2, <2>4, <2>6 DEF Range
  <2> QED BY <2>3, <2>5, <2>7
<1> QED BY <1>1, <1>2, SMTT(30) DEF Partials

-----------------------------------------------------------------------------
(* The invariant *)

\* The empty file satisfies FileInv.
LEMMA FileStart == Init => FileInv
<1> SUFFICES ASSUME Init PROVE FileInv
  OBVIOUS
<1>1. Idle \in Job /\ Idle.st = "idle"
  BY DEF Idle, Job, Entry
<1>2. TypeOK
  BY <1>1, EmptySeq DEF Init, TypeOK
<1>3. JobInv /\ ListInv /\ MemoryAhead
  BY <1>1 DEF Init, JobInv, ListInv, MemoryAhead
<1>4. AckedKept /\ AdvertisedKept
  BY DEF Init, AckedKept, AdvertisedKept
<1> QED BY <1>2, <1>3, <1>4 DEF FileInv

\* Opening the store loads the whole file (read).
LEMMA FileRead == FileInv /\ read => FileInv'
<1> SUFFICES ASSUME FileInv, read PROVE FileInv'
  OBVIOUS
<1> USE DEF FileInv
<1>1. CASE Broken \in Range(file)
  BY <1>1 DEF read, TypeOK, JobInv, ListInv, MemoryAhead, AckedKept, AdvertisedKept
<1>2. CASE Broken \notin Range(file)
  <2>1. file \in Seq(Entry)
    <3>1. \A n \in 1 .. Len(file) : file[n] \in Entry
      BY <1>2, SMTT(30) DEF TypeOK, Range
    <3> QED BY <3>1, SMTT(30) DEF TypeOK
  <2> QED
    BY <1>2, <2>1, RangeIn, SMTT(30) DEF read, TypeOK, JobInv, ListInv, MemoryAhead, AckedKept, AdvertisedKept, Idle
<1> QED BY <1>1, <1>2

\* Add appends, and only to the list.
LEMMA FileAdd == \A i \in Id : FileInv /\ Add(i) => FileInv'
<1> SUFFICES ASSUME NEW i \in Id, FileInv, Add(i) PROVE FileInv'
  OBVIOUS
<1>1. i \in Entry /\ ids \in Seq(Entry) /\ job = Idle
  BY DEF Entry, FileInv, TypeOK, Add
<1>2. ids' \in Seq(Entry) /\ Range(ids') = Range(ids) \cup {i}
  BY <1>1, RangeAppend, SMTT(30) DEF Add
<1>3. job' \in Job /\ job'.st = "append" /\ job'.id = i
  BY <1>1 DEF Add, Job
<1>4. TypeOK' /\ JobInv'
  BY <1>2, <1>3 DEF FileInv, TypeOK, JobInv, Add
<1>5. ListInv' /\ MemoryAhead' /\ AckedKept' /\ AdvertisedKept'
  BY <1>1, <1>2, <1>3, SMTT(30) DEF FileInv, ListInv, MemoryAhead, AckedKept, AdvertisedKept, Add, Idle
<1> QED BY <1>4, <1>5 DEF FileInv

\* The steps of write: the file is emptied, and filled from the list.
LEMMA FileWrite == FileInv /\ (OpenFails \/ Truncate \/ Write \/ WriteFails) => FileInv'
<1> SUFFICES ASSUME FileInv, OpenFails \/ Truncate \/ Write \/ WriteFails PROVE FileInv'
  OBVIOUS
<1>0. Idle \in Job /\ Idle.st = "idle"
  BY DEF Idle, Job, Entry
<1>1. CASE OpenFails
  BY <1>0, <1>1 DEF OpenFails, FileInv, TypeOK, JobInv, ListInv, MemoryAhead, AckedKept, AdvertisedKept
<1>2. CASE Truncate
  <2>1. job' \in Job /\ job'.st = "truncated" /\ job'.id = job.id /\ up = "open"
    BY <1>2, SMTT(30) DEF Truncate, FileInv, TypeOK, JobInv, Job, Idle
  <2>2. file' \in Seq(Entry \cup {Broken}) /\ Range(file') = {}
    BY <1>2, RangeEmpty, SMTT(30) DEF Truncate
  <2> QED
    BY <1>2, <2>1, <2>2 DEF Truncate, FileInv, TypeOK, JobInv, ListInv, MemoryAhead, AckedKept, AdvertisedKept
<1>3. CASE Write
  <2>1. file' \in Seq(Entry \cup {Broken}) /\ up = "open" /\ job.id \in Id \cap Range(ids)
    BY <1>0, <1>3, SMTT(30) DEF Write, FileInv, TypeOK, JobInv
  <2>2. TypeOK' /\ JobInv'
    BY <1>0, <1>3, <2>1 DEF Write, FileInv, TypeOK, JobInv
  <2>3. ListInv' /\ MemoryAhead' /\ AckedKept' /\ AdvertisedKept'
    BY <1>0, <1>3, <2>1 DEF Write, FileInv, ListInv, MemoryAhead, AckedKept, AdvertisedKept
  <2> QED BY <2>2, <2>3 DEF FileInv
<1>4. CASE WriteFails
  <2>1. ids \in Seq(Entry \cup {Broken}) /\ file' \in Partials(ids)
    BY <1>4, SMTT(30) DEF WriteFails, FileInv, TypeOK
  <2>2. file' \in Seq(Entry \cup {Broken}) /\ Range(file') \cap Id \subseteq Range(ids)
    BY <2>1, PartialRange
  <2> QED
    BY <1>0, <1>4, <2>2 DEF WriteFails, FileInv, TypeOK, JobInv, ListInv, MemoryAhead, AckedKept, AdvertisedKept
<1> QED BY <1>1, <1>2, <1>3, <1>4

\* A stop forgets the list; a power loss may also take back part of the file.
LEMMA FileGone == FileInv /\ (Stop \/ PowerLoss) => FileInv'
<1> SUFFICES ASSUME FileInv, Stop \/ PowerLoss PROVE FileInv'
  OBVIOUS
<1>0. Idle \in Job /\ Idle.st = "idle"
  BY DEF Idle, Job, Entry
<1>1. Gone /\ ids' \in Seq(Entry)
  BY EmptySeq DEF Stop, PowerLoss, Gone
<1>2. JobInv' /\ ListInv' /\ MemoryAhead'
  BY <1>0, <1>1 DEF Gone, JobInv, ListInv, MemoryAhead
<1>3. CASE Stop
  <2>1. mishap' \in BOOLEAN /\ (~mishap' => ~mishap /\ job.st # "truncated")
    BY <1>3 DEF Stop
  <2>2. TypeOK'
    BY <1>0, <1>1, <1>3, <2>1 DEF Stop, Gone, FileInv, TypeOK
  <2>3. AckedKept' /\ AdvertisedKept'
    BY <1>3, <2>1 DEF Stop, FileInv, AckedKept, AdvertisedKept
  <2> QED BY <1>2, <2>2, <2>3 DEF FileInv
<1>4. CASE PowerLoss
  <2>1. file' \in Seq(Entry \cup {Broken})
    <3>1. file \in Seq(Entry \cup {Broken}) /\ disk \in Seq(Entry \cup {Broken})
      BY DEF FileInv, TypeOK
    <3>2. file' = disk \/ file' = <<>> \/ file' \in Partials(file)
      BY <1>4 DEF PowerLoss
    <3> QED BY <3>1, <3>2, PartialRange, EmptySeq
  <2>2. TypeOK'
    BY <1>0, <1>1, <1>4, <2>1 DEF PowerLoss, Gone, FileInv, TypeOK
  <2>3. AckedKept' /\ AdvertisedKept'
    BY <1>4 DEF PowerLoss, AckedKept, AdvertisedKept
  <2> QED BY <1>2, <2>2, <2>3 DEF FileInv
<1> QED BY <1>3, <1>4

\* The file of identities keeps FileInv, whatever fails: in particular the list of
\* an open store has every identity of the file (fileStore.go, Add and write).
THEOREM FileInductive == Spec => []FileInv
<1>1. ASSUME FileInv, [Next]_vars PROVE FileInv'
  <2>1. ASSUME NEW i \in Id, AddKnown(i) PROVE FileInv'
    BY <1>1, <2>1 DEF AddKnown, FileInv, TypeOK, JobInv, ListInv, MemoryAhead, AckedKept, AdvertisedKept, Idle
  <2>2. ASSUME NEW i \in Entry, doAdvertise(i) PROVE FileInv'
    BY <1>1, <2>2 DEF doAdvertise, List, FileInv, TypeOK, JobInv, ListInv, MemoryAhead, AckedKept, AdvertisedKept
  <2>3. CASE Sync
    BY <1>1, <2>3 DEF Sync, FileInv, TypeOK, JobInv, ListInv, MemoryAhead, AckedKept, AdvertisedKept
  <2>4. CASE UNCHANGED vars
    BY <1>1, <2>4 DEF vars, FileInv, TypeOK, JobInv, ListInv, MemoryAhead, AckedKept, AdvertisedKept
  <2> QED
    BY <1>1, <2>1, <2>2, <2>3, <2>4, FileRead, FileAdd, FileWrite, FileGone DEF Next
<1> QED BY <1>1, FileStart, PTL DEF Spec

\* The store is well typed; an open one holds no entry that was cut off (TypeOK).
THEOREM FileTyped == Spec => []TypeOK
<1>1. FileInv => TypeOK
  BY DEF FileInv
<1> QED BY <1>1, FileInductive, PTL

\* A rewrite of the file never drops an identity that was in it (MemoryAhead).
THEOREM NeverDropped == Spec => []MemoryAhead
<1>1. FileInv => MemoryAhead
  BY DEF FileInv
<1> QED BY <1>1, FileInductive, PTL

\* Unless a write was cut short, what Add has acknowledged is in the file
\* (AckedKept).
THEOREM Durable == Spec => []AckedKept
<1>1. FileInv => AckedKept
  BY DEF FileInv
<1> QED BY <1>1, FileInductive, PTL

\* and so is what the node advertises (AdvertisedKept).
THEOREM AdvertisedDurable == Spec => []AdvertisedKept
<1>1. FileInv => AdvertisedKept
  BY DEF FileInv
<1> QED BY <1>1, FileInductive, PTL
=============================================================================
