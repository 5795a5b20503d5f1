----------------------------- MODULE FileStore ------------------------------
(***************************************************************************)
(* The node's private identities in a YAML file                            *)
(* (internal/did/fileStore.go), and their advertisement in the DHT         *)
(* (internal/node/p2p.go).                                                 *)
(*                                                                         *)
(* Add rewrites the whole file in place, under the store's mutex: truncate *)
(* it, then write.  A write may fail halfway, the process may stop between *)
(* the two, and the machine may lose what the file system has not written  *)
(* back.  Find and List read the index that NewFileStore builds and Add    *)
(* leaves alone.                                                           *)
(***************************************************************************)
EXTENDS Integers, Sequences, Functions

CONSTANTS
  Id,         \* identities of a type that Add stores (Ed25519)
  Broken,     \* an entry of the file that is cut off and cannot be decoded,
  Bogus,      \* or whose key is cut off and decodes to another identity
  MaxIds      \* bound on the length of the list

ASSUME FileAssumption ==
  /\ Broken \notin Id /\ Bogus \notin Id /\ Bogus # Broken
  /\ MaxIds \in Nat

VARIABLES
  file,       \* the entries of the file
  disk,       \* those that a power loss cannot take back
  up,         \* the process
  ids, idx,   \* FileStore.ids, and the keys of FileStore.idx
  job,        \* the Add that holds the mutex
  shown,      \* identities in the DHT
  acked,      \* identities whose Add returned no error
  mishap      \* a write failed halfway, or the process or machine stopped in one

vars == <<file, disk, up, ids, idx, job, shown, acked, mishap>>

-----------------------------------------------------------------------------
Entry == Id \cup {Bogus}

Idle == [st |-> "idle", id |-> Bogus]

Job == [st : {"idle", "append", "truncated"}, id : Entry]

Init ==
  /\ file = <<>> /\ disk = <<>>
  /\ up = "down"
  /\ ids = <<>> /\ idx = {}
  /\ job = Idle
  /\ shown = {} /\ acked = {} /\ mishap = FALSE

\* mutant: the entries are indexed and not kept
readForgets ==
  /\ up = "down"
  /\ IF Broken \in Range(file)
       THEN up' = "failed" /\ UNCHANGED <<ids, idx>>
       ELSE up' = "open" /\ ids' = <<>> /\ idx' = Range(file)
  /\ UNCHANGED <<file, disk, job, shown, acked, mishap>>

\* mutant: an entry that cannot be decoded is skipped, and kept in the list
readSkips ==
  /\ up = "down"
  /\ up' = "open" /\ ids' = file /\ idx' = Range(file) \ {Broken}
  /\ UNCHANGED <<file, disk, job, shown, acked, mishap>>

\* NewFileStore, in a process that has just started.  An empty file parses as an
\* empty list; an entry that cannot be decoded keeps the node from starting.
read ==
  /\ up = "down"
  /\ IF Broken \in Range(file)
       THEN up' = "failed" /\ UNCHANGED <<ids, idx>>
       ELSE up' = "open" /\ ids' = file /\ idx' = Range(file)
  /\ UNCHANGED <<file, disk, job, shown, acked, mishap>>

-----------------------------------------------------------------------------
(* Add *)

\* an identity of the index is not stored again
AddKnown(i) ==
  /\ up = "open" /\ job = Idle /\ i \in idx
  /\ acked' = acked \cup {i}
  /\ UNCHANGED <<file, disk, up, ids, idx, job, shown, mishap>>

\* The index is not told, so an identity added twice is listed twice.
Add(i) ==
  /\ up = "open" /\ job = Idle /\ i \notin idx /\ Len(ids) < MaxIds
  /\ ids' = Append(ids, i)
  /\ job' = [st |-> "append", id |-> i]
  /\ UNCHANGED <<file, disk, up, idx, shown, acked, mishap>>

\* write cannot open the file: Add returns the error, the entry stays in the list
OpenFails ==
  /\ job.st = "append"
  /\ job' = Idle
  /\ UNCHANGED <<file, disk, up, ids, idx, shown, acked, mishap>>

Truncate ==
  /\ job.st = "append"
  /\ file' = <<>>
  /\ job' = [st |-> "truncated", id |-> job.id]
  /\ UNCHANGED <<disk, up, ids, idx, shown, acked, mishap>>

\* mutant: only the new entry is written
WriteLast ==
  /\ job.st = "truncated"
  /\ file' = <<job.id>> /\ acked' = acked \cup {job.id}
  /\ job' = Idle
  /\ UNCHANGED <<disk, up, ids, idx, shown, mishap>>

Write ==
  /\ job.st = "truncated"
  /\ file' = ids /\ acked' = acked \cup {job.id}
  /\ job' = Idle
  /\ UNCHANGED <<disk, up, ids, idx, shown, mishap>>

\* what a write of s leaves when it ends early: some entries, and perhaps the
\* beginning of the next
Partials(s) ==
  {[n \in 1 .. k |-> s[n]] : k \in 0 .. Len(s) - 1}
    \cup {[n \in 1 .. k + 1 |-> IF n = k + 1 THEN e ELSE s[n]] :
            k \in 0 .. Len(s) - 1, e \in {Broken, Bogus}}

WriteFails ==
  /\ job.st = "truncated"
  /\ file' \in Partials(ids)
  /\ job' = Idle /\ mishap' = TRUE
  /\ UNCHANGED <<disk, up, ids, idx, shown, acked>>

-----------------------------------------------------------------------------
(* Around the store *)

\* the values of the index, not the list of entries
List == idx

\* mutant: the list of entries is advertised, and not the index
doAdvertiseList(i) ==
  /\ up = "open" /\ i \in Range(ids)
  /\ shown' = shown \cup {i}
  /\ UNCHANGED <<file, disk, up, ids, idx, job, acked, mishap>>

\* provideIdentity, for one identity of advertisableIdentities
doAdvertise(i) ==
  /\ up = "open" /\ i \in List
  /\ shown' = shown \cup {i}
  /\ UNCHANGED <<file, disk, up, ids, idx, job, acked, mishap>>

\* the file system writes back
Sync ==
  /\ disk' = file
  /\ UNCHANGED <<file, up, ids, idx, job, shown, acked, mishap>>

\* what a stopped process forgets
Gone == up' = "down" /\ ids' = <<>> /\ idx' = {} /\ job' = Idle

Stop ==
  /\ Gone
  /\ mishap' = (mishap \/ job.st = "truncated")
  /\ UNCHANGED <<file, disk, shown, acked>>

PowerLoss ==
  /\ Gone
  /\ file' \in {disk, <<>>} \cup Partials(file)
  /\ disk' = file' /\ mishap' = TRUE
  /\ UNCHANGED <<shown, acked>>

Next ==
  \/ read \/ OpenFails \/ Truncate \/ Write \/ WriteFails
  \/ \E i \in Id : AddKnown(i) \/ Add(i)
  \/ \E i \in Entry : doAdvertise(i)
  \/ Sync \/ Stop \/ PowerLoss

Spec == Init /\ [][Next]_vars

-----------------------------------------------------------------------------
(* Properties *)

\* Every variable holds a value of its kind; in particular no entry that read
\* could not decode is in the memory of an open store.
TypeOK ==
  /\ file \in Seq(Entry \cup {Broken}) /\ disk \in Seq(Entry \cup {Broken})
  /\ up \in {"down", "open", "failed"}
  /\ ids \in Seq(Entry)
  /\ idx \subseteq Entry
  /\ job \in Job
  /\ shown \subseteq Entry /\ acked \subseteq Id
  /\ mishap \in BOOLEAN

\* An open store knows every identity of the file, whatever failed before: a
\* rewrite of the file never drops a key that was in it.
MemoryAhead == up = "open" => Range(file) \cap Id \subseteq Range(ids)

\* Unless a write was cut short, an identity whose Add returned no error is in
\* the file whenever no Add is at work, over any number of restarts.
AckedKept == ~mishap /\ job.st # "truncated" => acked \subseteq Range(file)

\* Under the same condition the node only advertises identities it will still
\* have after a restart; one whose Add has failed is not among them.
AdvertisedKept == ~mishap /\ job.st # "truncated" => shown \subseteq Range(file)

-----------------------------------------------------------------------------
(* The inductive invariant of FileStoreProofs *)

\* what an Add at work has done so far
JobInv ==
  /\ up # "open" => job = Idle
  /\ job.st # "idle" => job.id \in Id \cap Range(ids)

\* The index is no newer than the list, nor, unless a write is missing, than the
\* file; and the list has what the next Write must bring back.
ListInv ==
  up = "open" =>
    /\ idx \subseteq Range(ids)
    /\ ~mishap => acked \cup shown \subseteq Range(ids)
    /\ ~mishap /\ job.st # "truncated" => idx \subseteq Range(file)

FileInv == TypeOK /\ JobInv /\ ListInv /\ MemoryAhead /\ AckedKept /\ AdvertisedKept
=============================================================================
