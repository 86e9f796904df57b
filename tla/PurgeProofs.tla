---------------------------- MODULE PurgeProofs ----------------------------
(***************************************************************************)
(* Proofs about Purge, for any bundles, files, leaves, processes and       *)
(* sizes, and for all the faults that the model has.                       *)
(***************************************************************************)
EXTENDS Purge, FiniteSetTheorems, WellFoundedInduction, TLAPS

JobRecord ==
    [pc : {"idle", "scan", "flush", "delete", "drop", "end", "failed"}, time : Nat,
     fresh : SUBSET Key, marked : SUBSET Key, pending : SUBSET Key, count : Nat,
     next : 0 .. MaxChunks, writing : {"no", "start", "open", "hung"},
     chunk : 0 .. MaxChunks, picked : SUBSET Key, todo : SUBSET (Key \cup Bundles),
     seen : SUBSET (Key \cup Bundles), doomed : SUBSET Key]

\* The objects in the stores and the processes have their types.
PurgeTypes ==
    /\ builds \in 0 .. MaxBuilds
    /\ blobs \in [Key -> 0 .. MaxBuilds + 1]
    /\ published \subseteq Bundles
    /\ upload \in [bundles : SUBSET Bundles, todo : SUBSET Key]
    /\ chunks \in [1 .. MaxChunks -> [time : Nat, keys : SUBSET Key]]
    /\ lock \in BOOLEAN
    /\ ready \in BOOLEAN
    /\ job \in [Jobs -> JobRecord]

Building(j) == job[j].pc \in {"scan", "flush"}

\* A chunk is written by a build only, with keys of its local store, under a
\* number the build has used up; the last one is empty only if nothing is left.
\* Blobs are doomed by a deletion only.
ShapeInv(j) ==
    /\ job[j].writing # "no" => Building(j) /\ job[j].chunk \in 1 .. job[j].next
    /\ job[j].writing = "no" => job[j].chunk = 0
    /\ job[j].writing = "open" => job[j].picked \subseteq job[j].fresh
    /\ job[j].writing = "open" /\ job[j].pc = "flush" /\ job[j].picked = {} =>
          job[j].fresh = {}
    /\ job[j].pc = "flush" => job[j].pending = {}
    /\ job[j].pc # "delete" => job[j].doomed = {}

\* An index is older than what is written after its launch, and is not ready
\* while it is written or dropped.
ClockInv(j) ==
    /\ Building(j) \/ job[j].pc = "delete" => job[j].time < builds
    /\ Building(j) \/ job[j].pc = "drop" => ~ ready

Sound == faults \cap {"index", "resume"} = {}

\* The keys that a build has found.
Held(j) == job[j].fresh \cup job[j].marked \cup job[j].pending

\* What a build has marked is in a chunk that it does not write again, and it
\* holds all the keys of the covered bundles that it has visited.
BuildInv(j) ==
    Sound /\ Building(j) =>
       /\ \A k \in job[j].marked :
             \E n \in 1 .. job[j].next : k \in chunks[n].keys /\ n # job[j].chunk
       /\ \A b \in covered :
             /\ b \in job[j].todo
             /\ b \in job[j].seen => FileOf[b] \in Held(j)
             /\ FileOf[b] \in Held(j) => LeavesOf[FileOf[b]] \subseteq Held(j)
             /\ job[j].pc = "flush" => b \in job[j].seen

\* A deletion has loaded the keys of the covered bundles, and dooms others only.
DeleteInv(j) ==
    /\ job[j].doomed \cap job[j].marked = {}
    /\ Sound /\ job[j].pc = "delete" => \A b \in covered : KeysOf(b) \subseteq job[j].marked

\* The covered bundles are published and complete.
CoveredInv ==
    /\ covered \subseteq published
    /\ Sound => \A b \in covered : \A k \in KeysOf(b) : Present(k)

\* A doomed blob is there, and is not more recent than the index.
DoomedInv(j) ==
    \A k \in job[j].doomed :
       Present(k) /\ ("attr" \notin faults => blobs[k] <= job[j].time)

\* What a deletion has not to keep is doomed, or still to be visited.
UnusedInv(j) ==
    job[j].pc = "delete" /\ "delete" \notin faults =>
       \A k \in Key : Present(k) =>
          \/ k \in job[j].doomed \cup (job[j].todo \ job[j].seen)
          \/ Exists(j, k)
          \/ blobs[k] > job[j].time

JobInv(j) == /\ ShapeInv(j) /\ ClockInv(j) /\ BuildInv(j)
             /\ DeleteInv(j) /\ DoomedInv(j) /\ UnusedInv(j)

ChunkTimes == \A n \in ChunkNumbers : chunks[n].time < builds

PurgeInv ==
    /\ PurgeTypes
    /\ Exclusive
    /\ ChunkTimes
    /\ CoveredInv
    /\ IndexComplete
    /\ \A j \in Jobs : JobInv(j)

-----------------------------------------------------------------------------
(* Arithmetic, and the operators of the model.                             *)

\* A set of naturals that is not empty has a least member.
LEMMA MinNat ==
  ASSUME NEW T \in SUBSET Nat, T # {}
  PROVE  \E x \in T : \A y \in T : x <= y
<1>1. PICK x \in T : \A y \in T : ~ (<<y, x>> \in OpToRel(<, Nat))
  BY Zenon, WFMin, NatLessThanWellFounded
<1>2. \A y \in T : ~(y < x)
  BY ZenonT(60), <1>1 DEF OpToRel
<1> QED BY <1>2

\* Max is what its name says, on the numbers of the chunks.
LEMMA MaxInt ==
  ASSUME NEW M \in Nat, NEW T \in SUBSET (1 .. M), T # {}
  PROVE  Max(T) \in T /\ \A y \in T : y <= Max(T)
<1> DEFINE U == {M - y : y \in T}
<1>1. PICK x \in U : \A y \in U : x <= y
  <2>1. \A y \in T : M - y \in Nat
    OBVIOUS
  <2>2. U \in SUBSET Nat
    BY <2>1
  <2>3. U # {}
    BY ZenonT(60)
  <2> QED BY ZenonT(60), <2>2, <2>3, MinNat
<1>2. M - x \in T /\ \A y \in T : M - x >= y
  BY <1>1
<1> QED BY ZenonT(60), <1>2 DEF Max

\* The least of two numbers is one of them.
LEMMA MinOfTwo ==
  ASSUME NEW a \in Nat, NEW b \in Nat
  PROVE  Min({a, b}) \in Nat
<1>1. \E x \in {a, b} : \A y \in {a, b} : x <= y
  OBVIOUS
<1> QED BY <1>1 DEF Min

\* The sizes are numbers.
LEMMA Sizes ==
  /\ MaxChunks \in Nat /\ MaxBuilds \in Nat /\ ChunkSize \in Nat /\ ChunkSize > 0
  /\ Absent = MaxBuilds + 1
BY SizesAssumption DEF Absent

\* The numbers of a process.
LEMMA JobNumbers ==
  ASSUME NEW r \in JobRecord
  PROVE  /\ r.time \in Nat /\ r.count \in Nat
         /\ r.next \in Nat /\ r.next <= MaxChunks
         /\ r.chunk \in Nat /\ r.chunk <= MaxChunks
<1>1. r.time \in Nat /\ r.count \in Nat /\ r.next \in 0 .. MaxChunks /\ r.chunk \in 0 .. MaxChunks
  BY ZenonT(60) DEF JobRecord
<1> QED BY <1>1, Sizes

\* The numbers in the stores.
LEMMA StoreNumbers ==
  ASSUME PurgeTypes
  PROVE  /\ builds \in Nat /\ builds <= MaxBuilds /\ builds # Absent
         /\ \A k \in Key : blobs[k] \in Nat
<1>1. builds \in 0 .. MaxBuilds /\ \A k \in Key : blobs[k] \in 0 .. MaxBuilds + 1
  BY ZenonT(60) DEF PurgeTypes
<1> QED BY <1>1, Sizes

\* The state of the index and of the processes is part of the types.
LEMMA Typed ==
  ASSUME PurgeInv
  PROVE  /\ PurgeTypes /\ builds \in Nat
         /\ \A j \in Jobs : /\ job[j] \in JobRecord /\ JobInv(j)
                            /\ ShapeInv(j) /\ ClockInv(j) /\ BuildInv(j)
                            /\ DeleteInv(j) /\ DoomedInv(j) /\ UnusedInv(j)
<1>1. PurgeTypes /\ \A j \in Jobs : JobInv(j)
  BY ZenonT(60) DEF PurgeInv
<1>2. \A j \in Jobs : job[j] \in JobRecord
  BY ZenonT(60), <1>1 DEF PurgeTypes
<1>3. builds \in Nat
  BY <1>1, StoreNumbers
<1> QED BY ZenonT(60), <1>1, <1>2, <1>3 DEF JobInv

\* The reader of a chunk picks keys of the local store, and some if there are.
LEMMA FirstKeys ==
  ASSUME NEW K \in SUBSET Key, NEW n \in Nat
  PROVE  /\ First(n, K) \subseteq K
         /\ n # 0 /\ K # {} => First(n, K) # {}
<1>1. First(n, K) \subseteq K
  BY DEF First
<1>2. ASSUME n # 0, K # {} PROVE First(n, K) # {}
  <2> DEFINE R == {Rank[k] : k \in K}
  <2>1. Rank \in [Key -> Nat]
    BY KeysAssumption
  <2>2. PICK r \in R : \A y \in R : r <= y
    <3>1. R \in SUBSET Nat /\ R # {}
      BY <1>2, <2>1
    <3> QED BY ZenonT(60), <3>1, MinNat
  <2>3. PICK k \in K : r = Rank[k]
    OBVIOUS
  <2>4. {i \in K : Rank[i] < Rank[k]} = {}
    BY <2>1, <2>2, <2>3
  <2>5. Cardinality({i \in K : Rank[i] < Rank[k]}) < n
    BY <1>2, <2>4, FS_EmptySet
  <2> QED BY <2>5 DEF First
<1> QED BY <1>1, <1>2

\* The keys of a bundle are keys.
LEMMA KeysOfType ==
  /\ \A b \in Bundles : FileOf[b] \in Files /\ LeavesOf[FileOf[b]] \subseteq Leaves
  /\ \A b \in Bundles : KeysOf(b) \subseteq Key
BY KeysAssumption DEF KeysOf, Key

\* The keys in the index are those of its chunks, whatever the numbers.
LEMMA IndexedKeys ==
  ASSUME PurgeTypes
  PROVE  /\ Indexed \subseteq Key
         /\ \A k : k \in Indexed <=> \E n \in 1 .. MaxChunks : k \in chunks[n].keys
<1>1. \A n \in 1 .. MaxChunks : chunks[n].keys \subseteq Key
  BY DEF PurgeTypes
<1>2. \A n \in 1 .. MaxChunks : chunks[n].keys # {} => n \in ChunkNumbers
  BY DEF ChunkNumbers, NoChunk
<1> QED BY <1>1, <1>2 DEF Indexed, ChunkNumbers

\* What is loaded from the chunks are keys, and the numbers of the chunks are
\* at most the last of them.
LEMMA LoadedKeys ==
  ASSUME PurgeTypes
  PROVE  /\ \A loaded \in Loads : loaded \subseteq Key
         /\ ChunkNumbers # {} => /\ Max(ChunkNumbers) \in 1 .. MaxChunks
                                 /\ \A n \in ChunkNumbers : n <= Max(ChunkNumbers)
<1>1. \A n \in 1 .. MaxChunks : chunks[n].keys \subseteq Key
  BY DEF PurgeTypes
<1>2. \A n \in 1 .. MaxChunks, i \in Nat : First(i, chunks[n].keys) \subseteq Key
  BY <1>1 DEF First
<1>3. ASSUME NEW loaded \in Loads PROVE loaded \subseteq Key
  <2>1. PICK m \in ChunkNumbers, i \in 0 .. ChunkSize :
           loaded = UNION {IF n = m THEN First(i, chunks[n].keys) ELSE chunks[n].keys :
                              n \in ChunkNumbers}
    BY DEF Loads
  <2>2. i \in Nat
    BY Sizes
  <2> QED BY <1>1, <1>2, <2>1, <2>2 DEF ChunkNumbers
<1>4. MaxChunks \in Nat /\ ChunkNumbers \in SUBSET (1 .. MaxChunks)
  BY ZenonT(60), Sizes DEF ChunkNumbers
<1> QED BY ZenonT(60), <1>3, <1>4, MaxInt

-----------------------------------------------------------------------------
(* The steps of the jobs.                                                  *)

\* A job that neither builds, deletes nor drops has nothing to keep.
LEMMA QuietJob ==
  ASSUME NEW j \in Jobs, ShapeInv(j)', job'[j].pc \in {"idle", "end", "failed"}
  PROVE  JobInv(j)'
<1>1. job'[j].doomed = {} /\ ~ Building(j)'
  BY DEF ShapeInv, Building
<1> QED BY <1>1 DEF JobInv, ClockInv, BuildInv, DeleteInv, DoomedInv, UnusedInv

\* A job starts when none runs, and no other runs while it does: it is enough
\* to look at what a step does to its own job.
LEMMA OneJob ==
  ASSUME PurgeInv, NEW j \in Jobs,
         Running(j) \/ \A i \in Jobs : ~ Running(i),
         \A i \in Jobs \ {j} : job'[i] = job[i],
         lock' \/ job'[j].pc = "idle", JobInv(j)'
  PROVE  Exclusive' /\ \A i \in Jobs : JobInv(i)'
<1>1. \A i \in Jobs \ {j} : job[i].pc = "idle"
  BY DEF PurgeInv, Exclusive, Running
<1>2. \A i \in Jobs \ {j} : job'[i].pc = "idle"
  BY <1>1
<1>3. Exclusive'
  BY <1>2 DEF Exclusive, Running
<1>4. ASSUME NEW i \in Jobs \ {j} PROVE JobInv(i)'
  <2>1. ShapeInv(i) /\ job'[i] = job[i]
    BY DEF PurgeInv, JobInv
  <2>2. ShapeInv(i)'
    BY <2>1 DEF ShapeInv, Building
  <2> QED BY <1>2, <2>2, QuietJob
<1> QED BY <1>3, <1>4

\* When a job takes the lock, no job runs.
LEMMA LockTaken ==
  ASSUME PurgeInv, NEW j \in Jobs, PurgeLock(j)
  PROVE  lock' /\ \A i \in Jobs : ~ Running(i)
BY DEF PurgeInv, Exclusive, PurgeLock

\* The index and the bundles that it covers stay as they are.
LEMMA IndexKept ==
  ASSUME PurgeInv, UNCHANGED <<published, blobs, chunks, covered>>,
         builds' \in Nat, builds <= builds', ready' => ready, faults \subseteq faults'
  PROVE  ChunkTimes' /\ CoveredInv' /\ IndexComplete'
<1>1. ChunkTimes'
  BY SizesAssumption DEF PurgeInv, PurgeTypes, ChunkTimes, ChunkNumbers, NoChunk, Absent
<1>2. Sound' => Sound
  BY DEF Sound
<1>3. CoveredInv'
  BY <1>2 DEF PurgeInv, CoveredInv, Present
<1>4. IndexComplete'
  BY DEF PurgeInv, IndexComplete, Indexed, ChunkNumbers
<1> QED BY <1>1, <1>3, <1>4

\* A step that replaces the state of one job.
LEMMA JobReplaced ==
  ASSUME PurgeTypes, NEW j \in Jobs, NEW r \in JobRecord, job' = [job EXCEPT ![j] = r]
  PROVE  /\ job' \in [Jobs -> JobRecord]
         /\ job'[j] = r
         /\ \A i \in Jobs \ {j} : job'[i] = job[i]
BY DEF PurgeTypes

\* A process without a job is a process.
LEMMA IdleRecord == Idle \in JobRecord
BY SizesAssumption DEF Idle, JobRecord

\* The steps that end a job.
LEMMA EndSteps ==
  ASSUME PurgeInv, NEW j \in Jobs,
         PurgeUnlock(j) \/ Fail(j) \/ Crash(j) \/ EndDelete(j) \/ EndDrop(j)
  PROVE  PurgeInv'
<1>0. PurgeTypes /\ job[j] \in JobRecord /\ ShapeInv(j) /\ (Running(j) => lock)
  BY DEF PurgeInv, PurgeTypes, JobInv, Exclusive
<1>1. /\ UNCHANGED <<builds, data, index, faults>>
      /\ lock' \in BOOLEAN
      /\ Running(j)
      /\ lock' \/ PurgeUnlock(j)
  BY ZenonT(60), <1>0 DEF PurgeTypes, Running, PurgeUnlock, Fail, Crash, EndDelete, EndDrop
<1>2. \E r \in JobRecord :
         /\ job' = [job EXCEPT ![j] = r]
         /\ r.pc \in {"idle", "end", "failed"} /\ (PurgeUnlock(j) => r.pc = "idle")
         /\ r.writing = "no" /\ r.chunk = 0 /\ r.doomed = {}
  <2>1. CASE PurgeUnlock(j) \/ Crash(j)
    <3>1. job' = [job EXCEPT ![j] = Idle]
      BY <2>1 DEF PurgeUnlock, Crash
    <3> QED BY ZenonT(60), <3>1, IdleRecord DEF Idle
  <2>2. CASE Fail(j)
    <3>1. [Idle EXCEPT !.pc = "failed"] \in JobRecord
      BY IdleRecord DEF JobRecord
    <3>2. job' = [job EXCEPT ![j] = [Idle EXCEPT !.pc = "failed"]]
      BY <2>2 DEF Fail
    <3>3. job[j].pc \notin {"end", "failed"}
      BY <2>2 DEF Fail
    <3> QED BY ZenonT(60), <3>1, <3>2, <3>3 DEF Idle, PurgeUnlock
  <2>3. CASE EndDelete(j) \/ EndDrop(j)
    <3> DEFINE r == [job[j] EXCEPT !.pc = "end"]
    <3>1. r \in JobRecord
      BY <1>0 DEF JobRecord
    <3>2. job' = [job EXCEPT ![j] = r]
      BY <2>3 DEF EndDelete, EndDrop
    <3>3. job[j].pc \in {"delete", "drop"} /\ job[j].doomed = {}
      BY <1>0, <2>3 DEF EndDelete, EndDrop, ShapeInv
    <3>4. r.pc = "end" /\ r.writing = "no" /\ r.chunk = 0 /\ r.doomed = {}
      BY <1>0, <3>3 DEF ShapeInv, Building, JobRecord
    <3>5. ~ PurgeUnlock(j)
      BY <3>3 DEF PurgeUnlock
    <3> HIDE DEF r
    <3> QED BY ZenonT(60), <3>1, <3>2, <3>4, <3>5
  <2> QED BY <2>1, <2>2, <2>3
<1>3. /\ job' \in [Jobs -> JobRecord]
      /\ \A i \in Jobs \ {j} : job'[i] = job[i]
      /\ job'[j].pc \in {"idle", "end", "failed"}
      /\ lock' \/ job'[j].pc = "idle"
      /\ job'[j].writing = "no" /\ job'[j].chunk = 0 /\ job'[j].doomed = {}
  <2>1. PICK r \in JobRecord :
         /\ job' = [job EXCEPT ![j] = r]
         /\ r.pc \in {"idle", "end", "failed"} /\ (PurgeUnlock(j) => r.pc = "idle")
         /\ r.writing = "no" /\ r.chunk = 0 /\ r.doomed = {}
    BY ZenonT(60), <1>2
  <2>2. /\ job' \in [Jobs -> JobRecord]
        /\ job'[j] = r
        /\ \A i \in Jobs \ {j} : job'[i] = job[i]
    BY ZenonT(60), <1>0, <2>1, JobReplaced
  <2> QED BY <1>0, <1>1, <2>1, <2>2
<1>4. ShapeInv(j)'
  BY <1>3 DEF ShapeInv
<1>5. PurgeTypes'
  BY <1>0, <1>1, <1>3 DEF PurgeTypes, data, index
<1>6. Exclusive' /\ \A i \in Jobs : JobInv(i)'
  BY <1>1, <1>3, <1>4, OneJob, QuietJob
<1>7. ChunkTimes' /\ CoveredInv' /\ IndexComplete'
  <2>1. builds \in Nat
    BY <1>0, StoreNumbers
  <2> QED BY <1>1, <2>1, IndexKept DEF data, index
<1> QED BY <1>5, <1>6, <1>7 DEF PurgeInv

\* A job that drops the index.
LEMMA DropStarted ==
  ASSUME PurgeInv, NEW j \in Jobs, StartDrop(j)
  PROVE  PurgeInv'
<1>0. PurgeTypes /\ builds \in Nat
  BY ZenonT(60), Typed
<1>1. PICK r \in JobRecord :
         /\ job' = [job EXCEPT ![j] = r]
         /\ r.pc = "drop" /\ r.writing = "no" /\ r.chunk = 0 /\ r.doomed = {}
  <2>1. [Idle EXCEPT !.pc = "drop"] \in JobRecord
    BY IdleRecord DEF JobRecord
  <2> QED BY ZenonT(60), <2>1 DEF StartDrop, Idle
<1>2. /\ job' \in [Jobs -> JobRecord]
      /\ job'[j] = r
      /\ \A i \in Jobs \ {j} : job'[i] = job[i]
  BY ZenonT(60), <1>0, <1>1, JobReplaced
<1>3. UNCHANGED <<builds, data, chunks, covered, faults>> /\ ready' = FALSE
  BY DEF StartDrop
<1>4. lock' = TRUE /\ \A i \in Jobs : ~ Running(i)
  BY LockTaken DEF StartDrop, PurgeLock
<1>5. PurgeTypes'
  BY ZenonT(60), <1>0, <1>2, <1>3, <1>4 DEF PurgeTypes, data
<1>6. JobInv(j)'
  <2>1. ~ Building(j)'
    BY <1>1, <1>2 DEF Building
  <2> QED BY <1>1, <1>2, <1>3, <2>1 DEF JobInv, ShapeInv, ClockInv, BuildInv, DeleteInv,
             DoomedInv, UnusedInv
<1>7. ChunkTimes' /\ CoveredInv' /\ IndexComplete'
  BY <1>0, <1>3, IndexKept DEF data
<1> QED BY <1>2, <1>4, <1>5, <1>6, <1>7, OneJob DEF PurgeInv

\* A new build covers the bundles that are complete when it is launched.
LEMMA BuildStarted ==
  ASSUME PurgeInv, NEW j \in Jobs, StartBuild(j)
  PROVE  PurgeInv'
<1>0. PurgeTypes /\ builds \in Nat
  BY ZenonT(60), Typed
<1>1. PICK r \in JobRecord :
         /\ job' = [job EXCEPT ![j] = r]
         /\ r.pc = "scan" /\ r.time = builds /\ r.todo = published /\ r.seen = {}
         /\ r.fresh = {} /\ r.marked = {} /\ r.pending = {}
         /\ r.writing = "no" /\ r.chunk = 0 /\ r.doomed = {}
  <2> DEFINE r == [Idle EXCEPT !.pc = "scan", !.time = builds, !.todo = published]
  <2>1. r \in JobRecord
    BY ZenonT(60), <1>0, IdleRecord DEF JobRecord, PurgeTypes
  <2>2. job' = [job EXCEPT ![j] = r]
    BY DEF StartBuild
  <2>3. /\ r.pc = "scan" /\ r.time = builds /\ r.todo = published /\ r.seen = {}
        /\ r.fresh = {} /\ r.marked = {} /\ r.pending = {}
        /\ r.writing = "no" /\ r.chunk = 0 /\ r.doomed = {}
    BY DEF Idle
  <2> HIDE DEF r
  <2> QED BY ZenonT(60), <2>1, <2>2, <2>3
<1>2. /\ job' \in [Jobs -> JobRecord]
      /\ job'[j] = r
      /\ \A i \in Jobs \ {j} : job'[i] = job[i]
  BY ZenonT(60), <1>0, <1>1, JobReplaced
<1>3. /\ UNCHANGED <<data, chunks, faults>>
      /\ builds' = builds + 1 /\ builds < MaxBuilds /\ ready' = FALSE
      /\ covered' = {b \in published : \A k \in KeysOf(b) : Present(k)}
  BY DEF StartBuild
<1>4. lock' = TRUE /\ \A i \in Jobs : ~ Running(i)
  BY LockTaken DEF StartBuild, PurgeLock
<1>5. PurgeTypes'
  <2>1. builds' \in 0 .. MaxBuilds
    BY <1>0, <1>3, SizesAssumption
  <2> QED BY ZenonT(60), <1>0, <1>2, <1>3, <1>4, <2>1 DEF PurgeTypes, data
<1>6. JobInv(j)'
  <2>1. ShapeInv(j)' /\ ClockInv(j)'
    BY <1>0, <1>1, <1>2, <1>3 DEF ShapeInv, ClockInv, Building
  <2>2. BuildInv(j)'
    BY <1>1, <1>2, <1>3 DEF BuildInv, Building, Held
  <2>3. DeleteInv(j)' /\ DoomedInv(j)' /\ UnusedInv(j)'
    BY <1>1, <1>2 DEF DeleteInv, DoomedInv, UnusedInv
  <2> QED BY <2>1, <2>2, <2>3 DEF JobInv
<1>7. ChunkTimes'
  BY <1>0, <1>3 DEF PurgeInv, PurgeTypes, ChunkTimes, ChunkNumbers
<1>8. CoveredInv'
  BY <1>3 DEF CoveredInv, Present, data
<1>9. IndexComplete'
  BY <1>3 DEF IndexComplete
<1> QED BY <1>2, <1>4, <1>5, <1>6, <1>7, <1>8, <1>9, OneJob DEF PurgeInv

\* A fault of a kind that spoils an index is recorded.
LEMMA NoFault ==
  ASSUME NEW kind, NEW failed \in BOOLEAN, Fault(kind, failed)
  PROVE  /\ faults \subseteq faults'
         /\ Sound' => Sound
         /\ Sound' /\ kind \in {"index", "resume"} => ~ failed
         /\ kind \notin faults' => ~ failed
         /\ \A k : k # kind /\ k \notin faults => k \notin faults'
BY DEF Fault, Sound

\* A build that is resumed has loaded the whole index, and no file in halves,
\* or else a fault is recorded.
LEMMA BuildResumed ==
  ASSUME PurgeInv, NEW j \in Jobs, ResumeBuild(j)
  PROVE  PurgeInv'
<1>0. PurgeTypes /\ builds \in Nat
  BY ZenonT(60), Typed
<1>1. PICK m \in ChunkNumbers, loaded \in Loads :
         /\ job' = [job EXCEPT ![j] =
                      [Idle EXCEPT !.pc = "scan", !.time = chunks[m].time,
                                   !.todo = published, !.marked = loaded,
                                   !.next = Max(ChunkNumbers)]]
         /\ Fault(IF loaded # Indexed THEN "index" ELSE "resume",
                  loaded # Indexed \/ Split(loaded))
  BY ZenonT(60) DEF ResumeBuild
<1>2. /\ UNCHANGED <<data, chunks, covered>>
      /\ builds' = builds + 1 /\ builds < MaxBuilds /\ ready' = FALSE
  BY DEF ResumeBuild
<1>3. lock' = TRUE /\ \A i \in Jobs : ~ Running(i)
  BY LockTaken DEF ResumeBuild, PurgeLock
<1>4. /\ loaded \subseteq Key
      /\ Max(ChunkNumbers) \in 1 .. MaxChunks
      /\ \A n \in ChunkNumbers : n <= Max(ChunkNumbers)
  BY <1>0, <1>1, LoadedKeys
<1>5. chunks[m].time \in Nat /\ chunks[m].time < builds
  BY <1>0 DEF PurgeInv, PurgeTypes, ChunkTimes, ChunkNumbers
<1>6. PICK r \in JobRecord :
         /\ job' = [job EXCEPT ![j] = r]
         /\ r.pc = "scan" /\ r.time = chunks[m].time /\ r.todo = published /\ r.seen = {}
         /\ r.fresh = {} /\ r.marked = loaded /\ r.pending = {}
         /\ r.next = Max(ChunkNumbers)
         /\ r.writing = "no" /\ r.chunk = 0 /\ r.doomed = {}
  <2> DEFINE r == [Idle EXCEPT !.pc = "scan", !.time = chunks[m].time,
                               !.todo = published, !.marked = loaded,
                               !.next = Max(ChunkNumbers)]
  <2>1. r \in JobRecord
    <3>1. Max(ChunkNumbers) \in 0 .. MaxChunks
      BY <1>4
    <3>2. published \in SUBSET (Key \cup Bundles)
      BY <1>0 DEF PurgeTypes
    <3> QED BY ZenonT(60), <1>4, <1>5, <3>1, <3>2, IdleRecord DEF JobRecord
  <2>2. job' = [job EXCEPT ![j] = r]
    BY <1>1
  <2>3. /\ r.pc = "scan" /\ r.time = chunks[m].time /\ r.todo = published /\ r.seen = {}
        /\ r.fresh = {} /\ r.marked = loaded /\ r.pending = {}
        /\ r.next = Max(ChunkNumbers)
        /\ r.writing = "no" /\ r.chunk = 0 /\ r.doomed = {}
    BY DEF Idle
  <2> HIDE DEF r
  <2> QED BY ZenonT(60), <2>1, <2>2, <2>3
<1>7. /\ job' \in [Jobs -> JobRecord]
      /\ job'[j] = r
      /\ \A i \in Jobs \ {j} : job'[i] = job[i]
  BY ZenonT(60), <1>0, <1>6, JobReplaced
<1>8. /\ faults \subseteq faults'
      /\ Sound' => loaded = Indexed /\ ~ Split(loaded)
  BY ZenonT(60), <1>1, NoFault
<1>9. PurgeTypes'
  <2>1. builds' \in 0 .. MaxBuilds
    BY <1>0, <1>2, SizesAssumption
  <2> QED BY ZenonT(60), <1>0, <1>2, <1>3, <1>7, <2>1 DEF PurgeTypes, data
<1>10. JobInv(j)'
  <2>1. ShapeInv(j)'
    BY <1>6, <1>7 DEF ShapeInv
  <2>2. ClockInv(j)'
    BY <1>0, <1>2, <1>5, <1>6, <1>7 DEF ClockInv
  <2>3. BuildInv(j)'
    <3> SUFFICES ASSUME Sound'
                 PROVE  /\ \A k \in job'[j].marked : \E n \in 1 .. job'[j].next :
                                k \in chunks'[n].keys /\ n # job'[j].chunk
                        /\ \A b \in covered' :
                              /\ b \in job'[j].todo
                              /\ b \in job'[j].seen => FileOf[b] \in Held(j)'
                              /\ FileOf[b] \in Held(j)' => LeavesOf[FileOf[b]] \subseteq Held(j)'
                              /\ job'[j].pc = "flush" => b \in job'[j].seen
      BY DEF BuildInv
    <3>1. ASSUME NEW k \in loaded
          PROVE  \E n \in 1 .. r.next : k \in chunks[n].keys /\ n # r.chunk
      <4>1. PICK n \in ChunkNumbers : k \in chunks[n].keys
        BY <1>8 DEF Indexed
      <4>2. n \in 1 .. r.next /\ n # r.chunk
        BY <1>4, <1>6, <4>1 DEF ChunkNumbers
      <4> QED BY <4>1, <4>2
    <3>2. Held(j)' = loaded
      BY <1>6, <1>7 DEF Held
    <3>3. ASSUME NEW b \in covered
          PROVE  /\ b \in r.todo
                 /\ FileOf[b] \in loaded => LeavesOf[FileOf[b]] \subseteq loaded
      <4>1. b \in published
        BY DEF PurgeInv, CoveredInv
      <4>2. FileOf[b] \in Files
        BY <1>0, <4>1, KeysOfType DEF PurgeTypes
      <4> QED BY <1>6, <1>8, <4>1, <4>2 DEF Split
    <3> QED BY <1>2, <1>6, <1>7, <3>1, <3>2, <3>3
  <2>4. DeleteInv(j)' /\ DoomedInv(j)' /\ UnusedInv(j)'
    BY <1>6, <1>7 DEF DeleteInv, DoomedInv, UnusedInv
  <2> QED BY <2>1, <2>2, <2>3, <2>4 DEF JobInv
<1>11. ChunkTimes' /\ CoveredInv' /\ IndexComplete'
  BY <1>0, <1>2, <1>8, IndexKept DEF data
<1> QED BY <1>3, <1>7, <1>9, <1>10, <1>11, OneJob DEF PurgeInv

\* Steps of a build that leave the index alone.
LEMMA BuildStep ==
  ASSUME PurgeInv, NEW j \in Jobs, NEW r \in JobRecord, job' = [job EXCEPT ![j] = r],
         Building(j), r.pc \in {"scan", "flush"},
         r.time = job[j].time, r.doomed = job[j].doomed,
         UNCHANGED <<builds, data, index, lock>>, faults \subseteq faults',
         job'[j] = r => ShapeInv(j)' /\ BuildInv(j)'
  PROVE  PurgeInv'
<1>0. PurgeTypes /\ builds \in Nat /\ JobInv(j)
  BY ZenonT(60), Typed
<1>1. /\ job' \in [Jobs -> JobRecord]
      /\ job'[j] = r
      /\ \A i \in Jobs \ {j} : job'[i] = job[i]
  BY ZenonT(60), <1>0, JobReplaced
<1>2. Running(j)
  BY DEF Building, Running
<1>3. PurgeTypes'
  BY <1>0, <1>1 DEF PurgeTypes, data, index
<1>4. lock'
  BY <1>2 DEF PurgeInv, Exclusive
<1>5. JobInv(j)'
  <2>1. r.doomed = {}
    BY <1>0 DEF JobInv, ShapeInv, Building
  <2>2. ClockInv(j)'
    BY <1>0, <1>1 DEF JobInv, ClockInv, index
  <2>3. DeleteInv(j)' /\ DoomedInv(j)' /\ UnusedInv(j)'
    BY <1>1, <2>1 DEF DeleteInv, DoomedInv, UnusedInv
  <2> QED BY <1>1, <2>2, <2>3 DEF JobInv
<1>6. ChunkTimes' /\ CoveredInv' /\ IndexComplete'
  BY <1>0, IndexKept DEF data, index
<1> QED BY <1>1, <1>2, <1>3, <1>4, <1>5, <1>6, OneJob DEF PurgeInv

\* The scan of a bundle finds the root of its file, and its leaves unless the
\* root is known: then they are known too.
LEMMA BundleScanned ==
  ASSUME PurgeInv, NEW j \in Jobs, NEW b \in Bundles, ScanBundle(j, b)
  PROVE  PurgeInv'
<1>0. PurgeTypes /\ job[j] \in JobRecord /\ ShapeInv(j) /\ BuildInv(j) /\ CoveredInv
  BY ZenonT(60), Typed DEF PurgeInv
<1>1. PICK keys \in {BundleKeys(j, b), BundleKeys(j, b) \cap Files, {}} :
         /\ job' = [job EXCEPT ![j].seen = @ \cup {b}, ![j].pending = @ \cup keys]
         /\ Fault("index", keys # BundleKeys(j, b))
  BY ZenonT(60) DEF ScanBundle
<1>2. UNCHANGED <<builds, data, index, lock>> /\ job[j].pc = "scan"
  BY DEF ScanBundle
<1>3. keys \subseteq Key
  <2>1. BundleKeys(j, b) \subseteq Key
    BY KeysOfType DEF BundleKeys, Key
  <2> QED BY <2>1
<1>4. /\ faults \subseteq faults'
      /\ Sound' => Sound /\ keys = BundleKeys(j, b)
  BY ZenonT(60), <1>1, NoFault
<1> DEFINE r == [job[j] EXCEPT !.seen = @ \cup {b}, !.pending = @ \cup keys]
<1>5. r \in JobRecord
  BY ZenonT(60), <1>0, <1>3 DEF JobRecord
<1>6. job' = [job EXCEPT ![j] = r]
  BY ZenonT(60), <1>1
<1>7. /\ r.pc = "scan" /\ r.time = job[j].time /\ r.todo = job[j].todo
      /\ r.seen = job[j].seen \cup {b} /\ r.pending = job[j].pending \cup keys
      /\ r.fresh = job[j].fresh /\ r.marked = job[j].marked
      /\ r.writing = job[j].writing /\ r.chunk = job[j].chunk /\ r.picked = job[j].picked
      /\ r.next = job[j].next /\ r.doomed = job[j].doomed
  BY <1>0, <1>2 DEF JobRecord
<1> HIDE DEF r
<1>8. ASSUME job'[j] = r PROVE ShapeInv(j)'
  BY <1>0, <1>2, <1>7, <1>8 DEF ShapeInv, Building
<1>9. ASSUME job'[j] = r PROVE BuildInv(j)'
  <2> SUFFICES ASSUME Sound'
               PROVE  /\ \A k \in job'[j].marked : \E n \in 1 .. job'[j].next :
                              k \in chunks'[n].keys /\ n # job'[j].chunk
                      /\ \A c \in covered' :
                            /\ c \in job'[j].todo
                            /\ c \in job'[j].seen => FileOf[c] \in Held(j)'
                            /\ FileOf[c] \in Held(j)' => LeavesOf[FileOf[c]] \subseteq Held(j)'
                            /\ job'[j].pc = "flush" => c \in job'[j].seen
    BY ZenonT(60) DEF BuildInv
  <2>1. /\ \A k \in job[j].marked : \E n \in 1 .. job[j].next :
               k \in chunks[n].keys /\ n # job[j].chunk
        /\ \A c \in covered :
               /\ c \in job[j].todo
               /\ c \in job[j].seen => FileOf[c] \in Held(j)
               /\ FileOf[c] \in Held(j) => LeavesOf[FileOf[c]] \subseteq Held(j)
    BY ZenonT(60), <1>0, <1>2, <1>4 DEF BuildInv, Building
  <2>2. Held(j)' = Held(j) \cup keys
    BY <1>7, <1>9 DEF Held
  <2>3. FileOf[b] \in Held(j)'
    BY <1>4, <2>2 DEF BundleKeys, Exists, Held
  <2>4. ASSUME NEW c \in covered, FileOf[c] \in Held(j)'
        PROVE  LeavesOf[FileOf[c]] \subseteq Held(j)'
    <3>1. CASE FileOf[c] \in Held(j)
      BY <2>1, <2>2, <3>1
    <3>2. CASE FileOf[c] \in keys
      <4>1. c \in Bundles
        BY <1>0 DEF CoveredInv, PurgeTypes
      <4>2. FileOf[c] \in Files /\ FileOf[b] \in Files /\ LeavesOf[FileOf[b]] \subseteq Leaves
        BY <4>1, KeysOfType
      <4>3. FileOf[c] = FileOf[b] /\ ~ Exists(j, FileOf[b])
        BY <1>4, <3>2, <4>2, KeysAssumption DEF BundleKeys
      <4>4. Present(FileOf[c])
        BY ZenonT(60), <1>0, <1>4 DEF CoveredInv, KeysOf
      <4>5. LeavesOf[FileOf[b]] \subseteq keys
        BY <1>4, <4>3, <4>4 DEF BundleKeys
      <4> QED BY <2>2, <4>3, <4>5
    <3> QED BY <2>2, <2>4, <3>1, <3>2
  <2> QED BY <1>2, <1>7, <1>9, <2>1, <2>2, <2>3, <2>4 DEF index
<1> QED BY ZenonT(60), <1>2, <1>4, <1>5, <1>6, <1>7, <1>8, <1>9, BuildStep DEF Building

\* A key moves from the keys that were fetched to the local store.
LEMMA KeyStored ==
  ASSUME PurgeInv, NEW j \in Jobs, NEW k \in Key, StoreKey(j, k)
  PROVE  PurgeInv'
<1>0. PurgeTypes /\ job[j] \in JobRecord /\ ShapeInv(j) /\ BuildInv(j)
  BY ZenonT(60), Typed
<1>1. /\ UNCHANGED <<builds, data, index, lock, faults>> /\ job[j].pc = "scan"
      /\ k \in job[j].pending
  BY DEF StoreKey
<1> DEFINE F == IF Exists(j, k) THEN job[j].fresh ELSE job[j].fresh \cup {k}
           r == [job[j] EXCEPT !.pending = @ \ {k}, !.fresh = F,
                               !.count = Min({@ + 1, ChunkSize})]
<1>2. r \in JobRecord
  <2>1. Min({job[j].count + 1, ChunkSize}) \in Nat
    BY <1>0, MinOfTwo, Sizes, JobNumbers
  <2> QED BY ZenonT(60), <1>0, <2>1 DEF JobRecord
<1>3. job' = [job EXCEPT ![j] = r]
  BY ZenonT(60) DEF StoreKey
<1>4. /\ r.pc = "scan" /\ r.time = job[j].time /\ r.todo = job[j].todo
      /\ r.seen = job[j].seen /\ r.pending = job[j].pending \ {k}
      /\ r.fresh = F /\ r.marked = job[j].marked
      /\ r.writing = job[j].writing /\ r.chunk = job[j].chunk /\ r.picked = job[j].picked
      /\ r.next = job[j].next /\ r.doomed = job[j].doomed
  BY <1>0, <1>1 DEF JobRecord
<1>5. job[j].fresh \subseteq F /\ job[j].fresh \cup job[j].marked \cup {k} = F \cup job[j].marked
  BY DEF Exists
<1> HIDE DEF r, F
<1>6. ASSUME job'[j] = r PROVE ShapeInv(j)'
  BY <1>0, <1>1, <1>4, <1>5, <1>6 DEF ShapeInv, Building
<1>7. ASSUME job'[j] = r PROVE BuildInv(j)'
  <2>1. Held(j)' = Held(j)
    BY <1>1, <1>4, <1>5, <1>7 DEF Held
  <2>2. Sound' => Sound
    BY <1>1 DEF Sound
  <2> QED BY ZenonT(60), <1>0, <1>1, <1>4, <1>7, <2>1, <2>2 DEF BuildInv, Building, index
<1> QED BY ZenonT(60), <1>1, <1>2, <1>3, <1>4, <1>6, <1>7, BuildStep DEF Building

\* A chunk is started under a number that no chunk of the build has.
LEMMA ChunkStarted ==
  ASSUME PurgeInv, NEW j \in Jobs, Tick(j) \/ FlushChunk(j)
  PROVE  PurgeInv'
<1>0. PurgeTypes /\ job[j] \in JobRecord /\ ShapeInv(j) /\ BuildInv(j)
  BY ZenonT(60), Typed
<1>1. /\ UNCHANGED <<builds, data, index, lock, faults>> /\ job[j].pc \in {"scan", "flush"}
      /\ job[j].next < MaxChunks
  BY DEF Tick, FlushChunk
<1>2. job[j].next \in Nat /\ job[j].next + 1 \in 0 .. MaxChunks
  BY <1>0, <1>1, Sizes, JobNumbers
<1>3. PICK r \in JobRecord :
         /\ job' = [job EXCEPT ![j] = r]
         /\ r.pc = job[j].pc /\ r.time = job[j].time /\ r.todo = job[j].todo
         /\ r.seen = job[j].seen /\ r.pending = job[j].pending
         /\ r.fresh = job[j].fresh /\ r.marked = job[j].marked
         /\ r.picked = job[j].picked /\ r.doomed = job[j].doomed
         /\ r.next = job[j].next + 1
         /\ \/ r.writing = "start" /\ r.chunk = r.next
            \/ /\ r.writing = job[j].writing /\ r.chunk = job[j].chunk
               /\ job[j].writing # "no"
  <2>1. CASE Tick(j)
    <3> DEFINE n == job[j].next + 1
               w == IF job[j].writing = "no" THEN "start" ELSE job[j].writing
               c == IF job[j].writing = "no" THEN n ELSE job[j].chunk
               r == [job[j] EXCEPT !.count = 0, !.next = n, !.chunk = c, !.writing = w]
    <3>1. n \in 0 .. MaxChunks /\ c \in 0 .. MaxChunks /\ w \in {"no", "start", "open", "hung"}
      BY ZenonT(60), <1>0, <1>2 DEF JobRecord
    <3>2. job' = [job EXCEPT ![j] = r]
      BY ZenonT(60), <2>1 DEF Tick
    <3>3. \/ w = "start" /\ c = n
          \/ w = job[j].writing /\ c = job[j].chunk /\ job[j].writing # "no"
      OBVIOUS
    <3>4. n = job[j].next + 1
      OBVIOUS
    <3> HIDE DEF n, w, c
    <3>5. r \in JobRecord
      BY ZenonT(60), <1>0, <3>1 DEF JobRecord
    <3>6. /\ r.pc = job[j].pc /\ r.time = job[j].time /\ r.todo = job[j].todo
          /\ r.seen = job[j].seen /\ r.pending = job[j].pending
          /\ r.fresh = job[j].fresh /\ r.marked = job[j].marked
          /\ r.picked = job[j].picked /\ r.doomed = job[j].doomed
          /\ r.next = n /\ r.writing = w /\ r.chunk = c
      BY <1>0 DEF JobRecord
    <3> HIDE DEF r
    <3> QED BY ZenonT(60), <3>2, <3>3, <3>4, <3>5, <3>6
  <2>2. CASE FlushChunk(j)
    <3> DEFINE n == job[j].next + 1
               r == [job[j] EXCEPT !.next = n, !.chunk = n, !.writing = "start"]
    <3>1. n \in 0 .. MaxChunks
      BY <1>2
    <3>2. job' = [job EXCEPT ![j] = r]
      BY ZenonT(60), <2>2 DEF FlushChunk
    <3>3. n = job[j].next + 1
      OBVIOUS
    <3> HIDE DEF n
    <3>4. r \in JobRecord
      BY ZenonT(60), <1>0, <3>1 DEF JobRecord
    <3>5. /\ r.pc = job[j].pc /\ r.time = job[j].time /\ r.todo = job[j].todo
          /\ r.seen = job[j].seen /\ r.pending = job[j].pending
          /\ r.fresh = job[j].fresh /\ r.marked = job[j].marked
          /\ r.picked = job[j].picked /\ r.doomed = job[j].doomed
          /\ r.next = n /\ r.writing = "start" /\ r.chunk = n
      BY <1>0 DEF JobRecord
    <3> HIDE DEF r
    <3> QED BY ZenonT(60), <3>2, <3>3, <3>4, <3>5
  <2> QED BY <2>1, <2>2
<1>4. ASSUME job'[j] = r PROVE ShapeInv(j)'
  BY <1>0, <1>1, <1>2, <1>3, <1>4 DEF ShapeInv, Building
<1>5. ASSUME job'[j] = r PROVE BuildInv(j)'
  <2>1. Held(j)' = Held(j)
    BY ZenonT(60), <1>3, <1>5 DEF Held
  <2>2. Sound' => Sound
    BY ZenonT(60), <1>1 DEF Sound
  <2>3. \A n \in 1 .. job[j].next : n # job[j].chunk => n \in 1 .. r.next /\ n # r.chunk
    BY <1>2, <1>3
  <2> QED BY <1>0, <1>1, <1>3, <1>5, <2>1, <2>2, <2>3 DEF BuildInv, Building, index
<1> QED BY ZenonT(60), <1>1, <1>3, <1>4, <1>5, BuildStep DEF Building

\* The scan ends when all the bundles that it listed are visited.
LEMMA ScanEnded ==
  ASSUME PurgeInv, NEW j \in Jobs, EndScan(j)
  PROVE  PurgeInv'
<1>0. PurgeTypes /\ job[j] \in JobRecord /\ ShapeInv(j) /\ BuildInv(j) /\ CoveredInv
  BY ZenonT(60), Typed DEF PurgeInv
<1>1. /\ UNCHANGED <<builds, data, index, lock, faults>> /\ job[j].pc = "scan"
      /\ job[j].todo \cap published \subseteq job[j].seen
      /\ job[j].pending = {} /\ job[j].writing = "no"
  BY DEF EndScan
<1> DEFINE r == [job[j] EXCEPT !.pc = "flush", !.count = 0]
<1>2. r \in JobRecord
  BY ZenonT(60), <1>0 DEF JobRecord
<1>3. job' = [job EXCEPT ![j] = r]
  BY ZenonT(60) DEF EndScan
<1>4. /\ r.pc = "flush" /\ r.time = job[j].time /\ r.todo = job[j].todo
      /\ r.seen = job[j].seen /\ r.pending = job[j].pending
      /\ r.fresh = job[j].fresh /\ r.marked = job[j].marked
      /\ r.writing = job[j].writing /\ r.chunk = job[j].chunk
      /\ r.next = job[j].next /\ r.doomed = job[j].doomed
  BY <1>0 DEF JobRecord
<1> HIDE DEF r
<1>5. ASSUME job'[j] = r PROVE ShapeInv(j)'
  BY <1>0, <1>1, <1>4, <1>5 DEF ShapeInv, Building
<1>6. ASSUME job'[j] = r PROVE BuildInv(j)'
  <2>1. Held(j)' = Held(j)
    BY <1>4, <1>6 DEF Held
  <2>2. Sound' => Sound
    BY <1>1 DEF Sound
  <2>3. Sound => \A b \in covered : b \in job[j].seen
    BY ZenonT(60), <1>0, <1>1 DEF BuildInv, Building, CoveredInv
  <2> QED BY <1>0, <1>1, <1>4, <1>6, <2>1, <2>2, <2>3 DEF BuildInv, Building, index
<1> QED BY ZenonT(60), <1>1, <1>2, <1>3, <1>4, <1>5, <1>6, BuildStep DEF Building

\* A chunk that fails leaves keys marked that are in no chunk, which is recorded
\* as a fault, or none.
LEMMA ChunkFailed ==
  ASSUME PurgeInv, NEW j \in Jobs, FailChunk(j)
  PROVE  PurgeInv'
<1>0. PurgeTypes /\ job[j] \in JobRecord /\ ShapeInv(j) /\ BuildInv(j)
  BY ZenonT(60), Typed
<1>1. UNCHANGED <<builds, data, index, lock>> /\ job[j].writing = "open"
  BY DEF FailChunk
<1>2. Building(j) /\ job[j].chunk \in 1 .. job[j].next
  BY ZenonT(60), <1>0, <1>1 DEF ShapeInv
<1>3. PICK read \in SUBSET Key, w \in {"hung", "start"} :
         /\ job' = [job EXCEPT ![j].writing = w, ![j].picked = {},
                               ![j].fresh = @ \ read, ![j].marked = @ \cup read]
         /\ Fault("index", read # {})
  <2>1. PICK n \in 0 .. ChunkSize :
           LET read == First(n, job[j].picked)
               hung == Cardinality(job[j].picked \ read) > ReaderBuffer
           IN /\ job' = [job EXCEPT ![j].writing = IF hung THEN "hung" ELSE "start",
                                    ![j].picked = {},
                                    ![j].fresh = @ \ read,
                                    ![j].marked = @ \cup read]
              /\ Fault("index", read # {})
    BY ZenonT(60) DEF FailChunk
  <2>2. First(n, job[j].picked) \in SUBSET Key
    BY <1>0 DEF JobRecord, First
  <2> QED BY ZenonT(60), <2>1, <2>2
<1>4. /\ faults \subseteq faults'
      /\ Sound' => Sound /\ read = {}
  BY ZenonT(60), <1>3, NoFault
<1> DEFINE r == [job[j] EXCEPT !.writing = w, !.picked = {}, !.fresh = @ \ read,
                               !.marked = @ \cup read]
<1>5. r \in JobRecord
  BY ZenonT(60), <1>0 DEF JobRecord
<1>6. job' = [job EXCEPT ![j] = r]
  BY ZenonT(60), <1>3
<1>7. /\ r.pc = job[j].pc /\ r.time = job[j].time /\ r.todo = job[j].todo
      /\ r.seen = job[j].seen /\ r.pending = job[j].pending
      /\ r.fresh = job[j].fresh \ read /\ r.marked = job[j].marked \cup read
      /\ r.writing = w /\ r.chunk = job[j].chunk
      /\ r.next = job[j].next /\ r.doomed = job[j].doomed
  BY <1>0 DEF JobRecord
<1> HIDE DEF r
<1>8. ASSUME job'[j] = r PROVE ShapeInv(j)'
  BY <1>0, <1>2, <1>7, <1>8 DEF ShapeInv, Building
<1>9. ASSUME job'[j] = r PROVE BuildInv(j)'
  <2> SUFFICES ASSUME Sound' PROVE BuildInv(j)'
    BY ZenonT(60) DEF BuildInv
  <2>1. r.fresh = job[j].fresh /\ r.marked = job[j].marked
    BY <1>4, <1>7
  <2>2. Held(j)' = Held(j)
    BY <1>7, <1>9, <2>1 DEF Held
  <2> QED BY ZenonT(60), <1>0, <1>1, <1>2, <1>4, <1>7, <1>9, <2>1, <2>2 DEF BuildInv, Building, index
<1> QED BY ZenonT(60), <1>1, <1>2, <1>4, <1>5, <1>6, <1>7, <1>8, <1>9, BuildStep DEF Building

\* The chunk that is being written is none of those that hold marked keys.
LEMMA ChunkOpened ==
  ASSUME PurgeInv, NEW j \in Jobs, OpenChunk(j)
  PROVE  PurgeInv'
<1>0. /\ PurgeTypes /\ job[j] \in JobRecord /\ JobInv(j) /\ ShapeInv(j)
      /\ ClockInv(j) /\ BuildInv(j)
  BY ZenonT(60), Typed
<1>1. /\ UNCHANGED <<builds, data, ready, covered, lock, faults>> /\ job[j].writing = "start"
      /\ chunks' = [chunks EXCEPT ![job[j].chunk] = NoChunk]
  BY DEF OpenChunk
<1>2. Building(j) /\ job[j].chunk \in 1 .. job[j].next /\ ~ ready /\ job[j].doomed = {}
  BY <1>0, <1>1 DEF ShapeInv, ClockInv, Building
<1>3. PICK P \in SUBSET Key :
         /\ P \subseteq job[j].fresh
         /\ P = {} => job[j].fresh = {}
         /\ job' = [job EXCEPT ![j].writing = "open", ![j].picked = P]
  <2>0. job[j].fresh \in SUBSET Key
    BY ZenonT(60), <1>0 DEF JobRecord
  <2>1. job[j].fresh \in SUBSET Key /\ ChunkSize \in Nat \ {0}
    BY <2>0, Sizes
  <2>2. /\ First(ChunkSize, job[j].fresh) \subseteq job[j].fresh
        /\ job[j].fresh # {} => First(ChunkSize, job[j].fresh) # {}
    BY <2>1, FirstKeys
  <2> QED BY ZenonT(60), <2>1, <2>2 DEF OpenChunk
<1> DEFINE r == [job[j] EXCEPT !.writing = "open", !.picked = P]
<1>4. r \in JobRecord
  BY ZenonT(60), <1>0 DEF JobRecord
<1>5. job' = [job EXCEPT ![j] = r]
  BY ZenonT(60), <1>3
<1>6. /\ r.pc = job[j].pc /\ r.time = job[j].time /\ r.todo = job[j].todo
      /\ r.seen = job[j].seen /\ r.pending = job[j].pending
      /\ r.fresh = job[j].fresh /\ r.marked = job[j].marked
      /\ r.writing = "open" /\ r.chunk = job[j].chunk /\ r.picked = P
      /\ r.next = job[j].next /\ r.doomed = job[j].doomed
  BY <1>0 DEF JobRecord
<1> HIDE DEF r
<1>7. /\ job' \in [Jobs -> JobRecord]
      /\ job'[j] = r
      /\ \A i \in Jobs \ {j} : job'[i] = job[i]
  BY ZenonT(60), <1>0, <1>4, <1>5, JobReplaced
<1>8. /\ chunks' \in [1 .. MaxChunks -> [time : Nat, keys : SUBSET Key]]
      /\ \A n \in 1 .. MaxChunks : chunks'[n] = chunks[n] \/ chunks'[n] = NoChunk
      /\ \A n \in 1 .. MaxChunks : n # job[j].chunk => chunks'[n] = chunks[n]
  <2>1. NoChunk \in [time : Nat, keys : SUBSET Key]
    BY SizesAssumption DEF NoChunk, Absent
  <2> QED BY ZenonT(60), <1>0, <1>1, <2>1 DEF PurgeTypes
<1>9. PurgeTypes'
  BY <1>0, <1>1, <1>7, <1>8 DEF PurgeTypes, data
<1>10. JobInv(j)'
  <2>1. ShapeInv(j)'
    BY <1>0, <1>2, <1>3, <1>6, <1>7 DEF ShapeInv, Building
  <2>2. ClockInv(j)'
    BY ZenonT(60), <1>0, <1>1, <1>2, <1>6, <1>7 DEF ClockInv, Building
  <2>3. BuildInv(j)'
    <3>1. Held(j)' = Held(j)
      BY ZenonT(60), <1>6, <1>7 DEF Held
    <3>2. Sound' => Sound
      BY ZenonT(60), <1>1 DEF Sound
    <3>3. \A n \in 1 .. job[j].next : n # job[j].chunk => chunks'[n] = chunks[n]
      <4>1. \A n \in 1 .. job[j].next : n \in 1 .. MaxChunks
        BY <1>0, Sizes, JobNumbers
      <4> QED BY ZenonT(60), <1>8, <4>1
    <3> QED BY ZenonT(60), <1>0, <1>1, <1>2, <1>6, <1>7, <3>1, <3>2, <3>3 DEF BuildInv, Building
  <2>4. DeleteInv(j)' /\ DoomedInv(j)' /\ UnusedInv(j)'
    BY <1>2, <1>6, <1>7 DEF DeleteInv, DoomedInv, UnusedInv, Building
  <2> QED BY <2>1, <2>2, <2>3, <2>4 DEF JobInv
<1>11. Running(j) /\ lock'
  BY <1>1, <1>2 DEF PurgeInv, Exclusive, Running, Building
<1>12. ChunkTimes'
  BY <1>1, <1>8 DEF PurgeInv, ChunkTimes, ChunkNumbers
<1>13. CoveredInv' /\ IndexComplete'
  BY <1>1, <1>2 DEF PurgeInv, CoveredInv, IndexComplete, Sound, Present, data
<1> QED BY <1>7, <1>9, <1>10, <1>11, <1>12, <1>13, OneJob DEF PurgeInv

\* The keys of a chunk are marked when it is written.  The last chunk is written
\* when all the keys that the build has found are marked.
LEMMA ChunkWritten ==
  ASSUME PurgeInv, NEW j \in Jobs, WriteChunk(j)
  PROVE  PurgeInv'
<1>0. /\ PurgeTypes /\ job[j] \in JobRecord /\ JobInv(j) /\ ShapeInv(j)
      /\ ClockInv(j) /\ BuildInv(j)
  BY ZenonT(60), Typed
<1> DEFINE ended == job[j].pc = "flush" /\ job[j].picked = {}
           new == [time |-> job[j].time, keys |-> job[j].picked]
<1>1. /\ UNCHANGED <<builds, data, covered, lock, faults>> /\ job[j].writing = "open"
      /\ ready' = (ready \/ ended)
      /\ chunks' = [chunks EXCEPT ![job[j].chunk] = new]
  BY DEF WriteChunk
<1>2. /\ Building(j) /\ job[j].chunk \in 1 .. job[j].next /\ ~ ready /\ job[j].doomed = {}
      /\ job[j].time < builds /\ job[j].picked \subseteq job[j].fresh
  BY ZenonT(60), <1>0, <1>1 DEF ShapeInv, ClockInv, Building
<1>3. job[j].chunk \in 1 .. MaxChunks /\ \A n \in 1 .. job[j].next : n \in 1 .. MaxChunks
  BY <1>0, <1>2, Sizes, JobNumbers
<1>4. /\ chunks' \in [1 .. MaxChunks -> [time : Nat, keys : SUBSET Key]]
      /\ chunks'[job[j].chunk] = new
      /\ \A n \in 1 .. MaxChunks : n # job[j].chunk => chunks'[n] = chunks[n]
  <2>1. new \in [time : Nat, keys : SUBSET Key]
    BY <1>0 DEF JobRecord
  <2> HIDE DEF new
  <2> QED BY ZenonT(60), <1>0, <1>1, <1>3, <2>1 DEF PurgeTypes
<1>5. ChunkTimes'
  <2>1. new.time < builds
    BY <1>2
  <2> HIDE DEF new
  <2> QED BY <1>1, <1>4, <2>1 DEF PurgeInv, ChunkTimes, ChunkNumbers
<1>6. CoveredInv'
  BY <1>1 DEF PurgeInv, CoveredInv, Sound, Present, data
<1>7. Running(j) /\ lock'
  BY <1>1, <1>2 DEF PurgeInv, Exclusive, Running, Building
<1>8. CASE ended
  <2> DEFINE r == [Idle EXCEPT !.pc = "end"]
  <2>1. job' = [job EXCEPT ![j] = r]
    BY <1>8 DEF WriteChunk
  <2>2. r \in JobRecord
    BY IdleRecord DEF JobRecord
  <2>3. r.pc = "end" /\ r.writing = "no" /\ r.chunk = 0 /\ r.doomed = {}
    BY DEF Idle
  <2> HIDE DEF r
  <2>4. /\ job' \in [Jobs -> JobRecord]
        /\ job'[j] = r
        /\ \A i \in Jobs \ {j} : job'[i] = job[i]
    BY ZenonT(60), <1>0, <2>1, <2>2, JobReplaced
  <2>5. ready' \in BOOLEAN
    BY <1>1
  <2>6. PurgeTypes'
    BY ZenonT(60), <1>0, <1>1, <1>4, <2>4, <2>5 DEF PurgeTypes, data
  <2>7. JobInv(j)'
    <3>1. ShapeInv(j)'
      BY <2>3, <2>4 DEF ShapeInv
    <3> QED BY <2>3, <2>4, <3>1, QuietJob
  <2>8. IndexComplete'
    <3> SUFFICES ASSUME Sound, NEW b \in covered, NEW k \in KeysOf(b)
                 PROVE  k \in Indexed'
      BY ZenonT(60), <1>1 DEF IndexComplete, Sound
    <3>1. job[j].fresh = {} /\ job[j].pending = {}
      BY ZenonT(60), <1>0, <1>1, <1>8 DEF ShapeInv
    <3>2. Held(j) = job[j].marked
      BY <3>1 DEF Held
    <3>3. k \in job[j].marked
      BY ZenonT(60), <1>0, <1>2, <1>8, <3>2 DEF BuildInv, KeysOf
    <3>4. PICK n \in 1 .. job[j].next : k \in chunks[n].keys /\ n # job[j].chunk
      BY <1>0, <1>2, <3>3 DEF BuildInv
    <3>5. n \in 1 .. MaxChunks /\ chunks'[n] = chunks[n]
      BY <1>3, <1>4, <3>4
    <3>6. n \in ChunkNumbers'
      BY <3>4, <3>5 DEF ChunkNumbers, NoChunk
    <3> QED BY <3>4, <3>5, <3>6 DEF Indexed
  <2> QED BY ZenonT(60), <1>5, <1>6, <1>7, <2>4, <2>6, <2>7, <2>8, OneJob DEF PurgeInv
<1>9. CASE ~ ended
  <2> DEFINE F == job[j].fresh \ job[j].picked
             M == job[j].marked \cup job[j].picked
             r == [job[j] EXCEPT !.writing = "no", !.chunk = 0, !.picked = {},
                                 !.fresh = F, !.marked = M]
  <2>1. job' = [job EXCEPT ![j] = r]
    <3> DEFINE q == [job[j] EXCEPT !.writing = "no", !.chunk = 0, !.picked = {},
                                   !.fresh = @ \ job[j].picked,
                                   !.marked = @ \cup job[j].picked]
    <3>1. job' = [job EXCEPT ![j] = IF ended THEN [Idle EXCEPT !.pc = "end"] ELSE q]
      BY Zenon DEF WriteChunk
    <3>2. q = r
      BY <1>0 DEF JobRecord
    <3> HIDE DEF ended, q, r
    <3> QED BY <1>9, <3>1, <3>2
  <2>2. r \in JobRecord
    <3>1. F \in SUBSET Key /\ M \in SUBSET Key /\ 0 \in 0 .. MaxChunks
      <4>1. F \in SUBSET Key /\ M \in SUBSET Key
        BY <1>0 DEF JobRecord
      <4> QED BY <4>1, Sizes
    <3> HIDE DEF F, M
    <3> QED BY ZenonT(60), <1>0, <3>1 DEF JobRecord
  <2>3. /\ r.pc = job[j].pc /\ r.time = job[j].time /\ r.todo = job[j].todo
        /\ r.seen = job[j].seen /\ r.pending = job[j].pending
        /\ r.fresh = job[j].fresh \ job[j].picked
        /\ r.marked = job[j].marked \cup job[j].picked
        /\ r.writing = "no" /\ r.chunk = 0
        /\ r.next = job[j].next /\ r.doomed = job[j].doomed
    BY <1>0 DEF JobRecord
  <2> HIDE DEF r
  <2>4. /\ job' \in [Jobs -> JobRecord]
        /\ job'[j] = r
        /\ \A i \in Jobs \ {j} : job'[i] = job[i]
    BY ZenonT(60), <1>0, <2>1, <2>2, JobReplaced
  <2>5. ready' = FALSE
    BY ZenonT(60), <1>1, <1>2, <1>9
  <2>6. PurgeTypes'
    BY ZenonT(60), <1>0, <1>1, <1>4, <2>4, <2>5 DEF PurgeTypes, data
  <2>7. ShapeInv(j)' /\ ClockInv(j)'
    BY ZenonT(60), <1>0, <1>1, <1>2, <2>3, <2>4, <2>5 DEF ShapeInv, ClockInv, Building
  <2>8. BuildInv(j)'
    <3>1. Held(j)' = Held(j)
      BY ZenonT(60), <1>2, <2>3, <2>4 DEF Held
    <3>2. Sound' => Sound
      BY ZenonT(60), <1>1 DEF Sound
    <3>3. ASSUME Sound, NEW k \in r.marked
          PROVE  \E n \in 1 .. r.next : k \in chunks'[n].keys /\ n # r.chunk
      <4>1. CASE k \in job[j].picked
        BY <1>2, <1>4, <2>3, <4>1
      <4>2. CASE k \in job[j].marked
        <5>1. PICK n \in 1 .. job[j].next : k \in chunks[n].keys /\ n # job[j].chunk
          BY <1>0, <1>2, <3>3, <4>2 DEF BuildInv
        <5>2. chunks'[n] = chunks[n] /\ n # 0
          BY <1>3, <1>4, <5>1
        <5> QED BY <2>3, <5>1, <5>2
      <4> QED BY ZenonT(60), <2>3, <4>1, <4>2
    <3> QED BY ZenonT(60), <1>0, <1>1, <1>2, <2>3, <2>4, <3>1, <3>2, <3>3 DEF BuildInv
  <2>9. JobInv(j)'
    <3>1. DeleteInv(j)' /\ DoomedInv(j)' /\ UnusedInv(j)'
      BY ZenonT(60), <1>2, <2>3, <2>4 DEF DeleteInv, DoomedInv, UnusedInv, Building
    <3> QED BY <2>7, <2>8, <3>1 DEF JobInv
  <2>10. IndexComplete'
    BY <2>5 DEF IndexComplete
  <2> QED BY <1>5, <1>6, <1>7, <2>4, <2>6, <2>9, <2>10, OneJob DEF PurgeInv
<1> QED BY <1>8, <1>9

\* A deletion starts with the keys of the index, or else a fault is recorded.
LEMMA DeleteStarted ==
  ASSUME PurgeInv, NEW j \in Jobs, StartDelete(j)
  PROVE  PurgeInv'
<1>0. PurgeTypes /\ builds \in Nat
  BY ZenonT(60), Typed
<1>1. PICK m \in ChunkNumbers, loaded \in Loads :
         /\ job' = [job EXCEPT ![j] =
                      [Idle EXCEPT !.pc = "delete", !.time = chunks[m].time,
                                   !.marked = loaded,
                                   !.todo = {k \in Key : Present(k)}]]
         /\ Fault("index", loaded # Indexed \/ ~ ready)
  BY ZenonT(60) DEF StartDelete
<1>2. UNCHANGED <<builds, data, index>>
  BY DEF StartDelete
<1>3. lock' = TRUE /\ \A i \in Jobs : ~ Running(i)
  BY LockTaken DEF StartDelete, PurgeLock
<1>4. loaded \subseteq Key
  BY <1>0, <1>1, LoadedKeys
<1>5. chunks[m].time \in Nat /\ chunks[m].time < builds
  BY <1>0 DEF PurgeInv, PurgeTypes, ChunkTimes, ChunkNumbers
<1>6. PICK r \in JobRecord :
         /\ job' = [job EXCEPT ![j] = r]
         /\ r.pc = "delete" /\ r.time = chunks[m].time /\ r.seen = {}
         /\ r.todo = {k \in Key : Present(k)} /\ r.fresh = {} /\ r.marked = loaded
         /\ r.writing = "no" /\ r.chunk = 0 /\ r.doomed = {}
  <2> DEFINE T == {k \in Key : Present(k)}
             r == [Idle EXCEPT !.pc = "delete", !.time = chunks[m].time,
                               !.marked = loaded, !.todo = T]
  <2>1. r \in JobRecord
    <3>1. T \in SUBSET (Key \cup Bundles)
      OBVIOUS
    <3> HIDE DEF T
    <3> QED BY ZenonT(60), <1>4, <1>5, <3>1, IdleRecord DEF JobRecord
  <2>2. job' = [job EXCEPT ![j] = r]
    BY <1>1
  <2>3. /\ r.pc = "delete" /\ r.time = chunks[m].time /\ r.seen = {}
        /\ r.todo = T /\ r.fresh = {} /\ r.marked = loaded
        /\ r.writing = "no" /\ r.chunk = 0 /\ r.doomed = {}
    BY DEF Idle
  <2> HIDE DEF r
  <2> QED BY ZenonT(60), <2>1, <2>2, <2>3
<1>7. /\ job' \in [Jobs -> JobRecord]
      /\ job'[j] = r
      /\ \A i \in Jobs \ {j} : job'[i] = job[i]
  BY ZenonT(60), <1>0, <1>6, JobReplaced
<1>8. /\ faults \subseteq faults'
      /\ Sound' => Sound /\ loaded = Indexed /\ ready
  BY ZenonT(60), <1>1, NoFault
<1>9. PurgeTypes'
  BY <1>0, <1>2, <1>3, <1>7 DEF PurgeTypes, data, index
<1>10. JobInv(j)'
  <2>1. ShapeInv(j)' /\ BuildInv(j)' /\ DoomedInv(j)'
    BY <1>6, <1>7 DEF ShapeInv, BuildInv, DoomedInv, Building
  <2>2. ClockInv(j)'
    BY <1>2, <1>5, <1>6, <1>7 DEF ClockInv, Building
  <2>3. DeleteInv(j)'
    BY ZenonT(60), <1>2, <1>6, <1>7, <1>8 DEF PurgeInv, IndexComplete, Sound, DeleteInv, index
  <2>4. UnusedInv(j)'
    BY ZenonT(60), <1>2, <1>6, <1>7 DEF UnusedInv, Present, data
  <2> QED BY <2>1, <2>2, <2>3, <2>4 DEF JobInv
<1>11. ChunkTimes' /\ CoveredInv' /\ IndexComplete'
  BY <1>0, <1>2, <1>8, IndexKept DEF data, index
<1> QED BY <1>3, <1>7, <1>9, <1>10, <1>11, OneJob DEF PurgeInv

\* A blob is doomed if it is neither in the index nor more recent than it.
LEMMA KeyChecked ==
  ASSUME PurgeInv, NEW j \in Jobs, NEW k \in Key, CheckKey(j, k)
  PROVE  PurgeInv'
<1>0. /\ PurgeTypes /\ builds \in Nat /\ job[j] \in JobRecord
      /\ ShapeInv(j) /\ ClockInv(j) /\ DeleteInv(j) /\ DoomedInv(j) /\ UnusedInv(j)
  BY ZenonT(60), Typed DEF PurgeInv
<1>1. /\ UNCHANGED <<builds, data, index, lock>> /\ job[j].pc = "delete" /\ Present(k)
  BY DEF CheckKey
<1>2. PICK gotAttr \in BOOLEAN :
         /\ job' = [job EXCEPT
                      ![j].seen = @ \cup {k},
                      ![j].doomed = IF Exists(j, k) \/ (gotAttr /\ job[j].time < blobs[k])
                                    THEN @ ELSE @ \cup {k}]
         /\ Fault("attr", ~ gotAttr)
  BY ZenonT(60) DEF CheckKey
<1>3. /\ faults \subseteq faults' /\ (Sound' => Sound)
      /\ "attr" \notin faults' => gotAttr /\ "attr" \notin faults
      /\ "delete" \notin faults' => "delete" \notin faults
  BY ZenonT(60), <1>2, NoFault
<1> DEFINE D == IF Exists(j, k) \/ (gotAttr /\ job[j].time < blobs[k])
                THEN job[j].doomed ELSE job[j].doomed \cup {k}
           r == [job[j] EXCEPT !.seen = @ \cup {k}, !.doomed = D]
<1>4. D \in SUBSET Key
  BY ZenonT(60), <1>0 DEF JobRecord
<1>5. /\ job[j].doomed \subseteq D /\ D \subseteq job[j].doomed \cup {k}
      /\ k \in D \ job[j].doomed => ~ Exists(j, k) /\ (gotAttr => ~ (job[j].time < blobs[k]))
      /\ k \in D \/ Exists(j, k) \/ job[j].time < blobs[k]
  BY ZenonT(60)
<1>6. job' = [job EXCEPT ![j] = r]
  BY ZenonT(60), <1>2
<1> HIDE DEF D
<1>7. r \in JobRecord
  BY ZenonT(60), <1>0, <1>4 DEF JobRecord
<1>8. /\ r.pc = "delete" /\ r.time = job[j].time /\ r.todo = job[j].todo
      /\ r.seen = job[j].seen \cup {k} /\ r.fresh = job[j].fresh /\ r.marked = job[j].marked
      /\ r.writing = job[j].writing /\ r.chunk = job[j].chunk /\ r.doomed = D
  BY <1>0, <1>1 DEF JobRecord
<1> HIDE DEF r
<1>9. /\ job' \in [Jobs -> JobRecord]
      /\ job'[j] = r
      /\ \A i \in Jobs \ {j} : job'[i] = job[i]
  BY ZenonT(60), <1>0, <1>6, <1>7, JobReplaced
<1>10. Running(j) /\ lock'
  BY <1>1 DEF PurgeInv, Exclusive, Running
<1>11. PurgeTypes'
  BY <1>0, <1>1, <1>9 DEF PurgeTypes, data, index
<1>12. JobInv(j)'
  <2>1. ShapeInv(j)' /\ BuildInv(j)'
    BY ZenonT(60), <1>0, <1>1, <1>8, <1>9 DEF ShapeInv, BuildInv, Building
  <2>2. ClockInv(j)'
    BY ZenonT(60), <1>0, <1>1, <1>8, <1>9 DEF ClockInv, Building, index
  <2>3. DeleteInv(j)'
    BY ZenonT(60), <1>0, <1>1, <1>3, <1>5, <1>8, <1>9 DEF DeleteInv, Exists, index
  <2>4. DoomedInv(j)'
    <3>1. blobs[k] \in Nat /\ job[j].time \in Nat
      BY <1>0, StoreNumbers, JobNumbers
    <3>2. k \in D \ job[j].doomed /\ gotAttr => blobs[k] <= job[j].time
      BY <1>5, <3>1
    <3> QED BY ZenonT(60), <1>0, <1>1, <1>3, <1>5, <1>8, <1>9, <3>2 DEF DoomedInv, Present, data
  <2>5. UnusedInv(j)'
    <3> SUFFICES ASSUME "delete" \notin faults', NEW i \in Key, Present(i)
                 PROVE  \/ i \in r.doomed \cup (r.todo \ r.seen)
                        \/ i \in r.fresh \cup r.marked
                        \/ blobs[i] > r.time
      BY <1>1, <1>9 DEF UnusedInv, Present, Exists, data
    <3>1. CASE i = k
      <4>1. blobs[k] \in Nat /\ job[j].time \in Nat
        BY <1>0, StoreNumbers, JobNumbers
      <4> QED BY <1>5, <1>8, <3>1, <4>1 DEF Exists
    <3>2. CASE i # k
      BY ZenonT(60), <1>0, <1>1, <1>3, <1>5, <1>8, <3>2 DEF UnusedInv, Exists
    <3> QED BY <3>1, <3>2
  <2> QED BY <2>1, <2>2, <2>3, <2>4, <2>5 DEF JobInv
<1>13. ChunkTimes' /\ CoveredInv' /\ IndexComplete'
  BY <1>0, <1>1, <1>3, IndexKept DEF data, index
<1> QED BY ZenonT(60), <1>9, <1>10, <1>11, <1>12, <1>13, OneJob DEF PurgeInv

\* What is deleted is doomed, hence in no bundle that the index covers.
LEMMA BlobDeleted ==
  ASSUME PurgeInv, NEW j \in Jobs, NEW k \in Key, DeleteBlob(j, k)
  PROVE  PurgeInv'
<1>0. /\ PurgeTypes /\ builds \in Nat /\ job[j] \in JobRecord
      /\ ShapeInv(j) /\ ClockInv(j) /\ DeleteInv(j) /\ DoomedInv(j) /\ UnusedInv(j)
      /\ CoveredInv
  BY ZenonT(60), Typed DEF PurgeInv
<1>1. /\ UNCHANGED <<builds, published, upload, index, lock>> /\ job[j].pc = "delete"
      /\ k \in job[j].doomed
  BY DEF DeleteBlob
<1>2. PICK deleted \in BOOLEAN :
         /\ blobs' = [blobs EXCEPT ![k] = IF deleted THEN Absent ELSE @]
         /\ Fault("delete", ~ deleted)
  BY ZenonT(60) DEF DeleteBlob
<1>3. /\ faults \subseteq faults' /\ (Sound' => Sound)
      /\ "attr" \notin faults' => "attr" \notin faults
      /\ "delete" \notin faults' => deleted /\ "delete" \notin faults
  BY ZenonT(60), <1>2, NoFault
<1>4. /\ blobs' \in [Key -> 0 .. MaxBuilds + 1]
      /\ \A i \in Key \ {k} : blobs'[i] = blobs[i]
      /\ blobs'[k] \in {Absent, blobs[k]}
      /\ deleted => blobs'[k] = Absent
  <2>1. Absent \in 0 .. MaxBuilds + 1
    BY SizesAssumption DEF Absent
  <2> HIDE DEF Absent
  <2> QED BY <1>0, <1>2, <2>1 DEF PurgeTypes
<1> DEFINE r == [job[j] EXCEPT !.doomed = @ \ {k}]
<1>5. r \in JobRecord
  BY <1>0 DEF JobRecord
<1>6. job' = [job EXCEPT ![j] = r]
  BY DEF DeleteBlob
<1>7. /\ r.pc = "delete" /\ r.time = job[j].time /\ r.todo = job[j].todo
      /\ r.seen = job[j].seen /\ r.fresh = job[j].fresh /\ r.marked = job[j].marked
      /\ r.writing = job[j].writing /\ r.chunk = job[j].chunk
      /\ r.doomed = job[j].doomed \ {k}
  BY <1>0, <1>1 DEF JobRecord
<1> HIDE DEF r
<1>8. /\ job' \in [Jobs -> JobRecord]
      /\ job'[j] = r
      /\ \A i \in Jobs \ {j} : job'[i] = job[i]
  BY ZenonT(60), <1>0, <1>5, <1>6, JobReplaced
<1>9. Running(j) /\ lock'
  BY <1>1 DEF PurgeInv, Exclusive, Running
<1>10. PurgeTypes'
  BY ZenonT(60), <1>0, <1>1, <1>4, <1>8 DEF PurgeTypes, index
<1>11. JobInv(j)'
  <2>1. ShapeInv(j)' /\ BuildInv(j)'
    BY ZenonT(60), <1>0, <1>1, <1>7, <1>8 DEF ShapeInv, BuildInv, Building
  <2>2. ClockInv(j)'
    BY ZenonT(60), <1>0, <1>1, <1>7, <1>8 DEF ClockInv, Building, index
  <2>3. DeleteInv(j)'
    BY ZenonT(60), <1>0, <1>1, <1>3, <1>7, <1>8 DEF DeleteInv, index
  <2>4. DoomedInv(j)'
    BY ZenonT(60), <1>0, <1>3, <1>4, <1>7, <1>8 DEF DoomedInv, Present, JobRecord
  <2>5. UnusedInv(j)'
    <3> SUFFICES ASSUME "delete" \notin faults', NEW i \in Key, blobs'[i] # Absent
                 PROVE  \/ i \in r.doomed \cup (r.todo \ r.seen)
                        \/ i \in r.fresh \cup r.marked
                        \/ blobs'[i] > r.time
      BY <1>8 DEF UnusedInv, Present, Exists
    <3>1. i # k /\ blobs'[i] = blobs[i]
      BY <1>3, <1>4
    <3> QED BY ZenonT(60), <1>0, <1>1, <1>3, <1>7, <3>1 DEF UnusedInv, Present, Exists
  <2> QED BY <2>1, <2>2, <2>3, <2>4, <2>5 DEF JobInv
<1>12. CoveredInv'
  <2>1. Sound => \A b \in covered : k \notin KeysOf(b)
    BY ZenonT(60), <1>0, <1>1 DEF DeleteInv
  <2>2. \A b \in covered : KeysOf(b) \subseteq Key
    BY ZenonT(60), <1>0, KeysOfType DEF CoveredInv, PurgeTypes
  <2> QED BY ZenonT(60), <1>0, <1>1, <1>3, <1>4, <2>1, <2>2 DEF CoveredInv, Present, index
<1>13. ChunkTimes' /\ IndexComplete'
  BY <1>1, <1>3 DEF PurgeInv, ChunkTimes, ChunkNumbers, IndexComplete, Indexed, Sound, index
<1> QED BY ZenonT(60), <1>8, <1>9, <1>10, <1>11, <1>12, <1>13, OneJob DEF PurgeInv

\* The chunks of an index that is being dropped are of no use.
LEMMA ChunkDropped ==
  ASSUME PurgeInv, NEW j \in Jobs, DropChunk(j)
  PROVE  PurgeInv'
<1>0. PurgeTypes /\ JobInv(j)
  BY DEF PurgeInv
<1>1. /\ UNCHANGED <<builds, data, ready, covered, lock, job, faults>> /\ job[j].pc = "drop"
      /\ chunks' = [chunks EXCEPT ![Min(ChunkNumbers)] = NoChunk]
  BY DEF DropChunk
<1>2. /\ chunks' \in [1 .. MaxChunks -> [time : Nat, keys : SUBSET Key]]
      /\ \A n \in 1 .. MaxChunks : chunks'[n] = chunks[n] \/ chunks'[n] = NoChunk
  <2>1. NoChunk \in [time : Nat, keys : SUBSET Key]
    BY SizesAssumption DEF NoChunk, Absent
  <2> QED BY ZenonT(60), <1>0, <1>1, <2>1 DEF PurgeTypes
<1>3. ~ ready /\ Running(j) /\ lock
  BY ZenonT(60), <1>0, <1>1 DEF PurgeInv, Exclusive, Running, JobInv, ClockInv
<1>4. PurgeTypes'
  BY <1>0, <1>1, <1>2 DEF PurgeTypes, data
<1>5. JobInv(j)'
  BY ZenonT(60), <1>0, <1>1 DEF JobInv, ShapeInv, ClockInv, BuildInv, DeleteInv, DoomedInv, UnusedInv,
                    Building, Present, data
<1>6. ChunkTimes'
  BY ZenonT(60), <1>1, <1>2 DEF PurgeInv, ChunkTimes, ChunkNumbers
<1>7. CoveredInv' /\ IndexComplete'
  BY ZenonT(60), <1>1, <1>3 DEF PurgeInv, CoveredInv, IndexComplete, Sound, Present, data
<1> QED BY <1>1, <1>3, <1>4, <1>5, <1>6, <1>7, OneJob DEF PurgeInv

\* Steps that leave the jobs and the index alone.
LEMMA OutsideStep ==
  ASSUME PurgeInv, PurgeTypes', UNCHANGED <<builds, chunks, ready, job, faults>>,
         lock => lock', covered' \subseteq covered, CoveredInv',
         \A k \in Key : blobs'[k] = blobs[k] \/ (~ Present(k) /\ blobs'[k] = builds)
  PROVE  PurgeInv'
<1>1. Exclusive' /\ ChunkTimes' /\ IndexComplete'
  BY DEF PurgeInv, Exclusive, Running, ChunkTimes, ChunkNumbers, IndexComplete, Indexed
<1>2. builds # Absent
  BY ZenonT(60), Typed, StoreNumbers
<1>3. ASSUME NEW j \in Jobs PROVE JobInv(j)'
  <2>0. JobInv(j) /\ job[j] \in JobRecord
    BY DEF PurgeInv, PurgeTypes
  <2>1. ShapeInv(j)' /\ ClockInv(j)'
    BY ZenonT(60), <2>0 DEF JobInv, ShapeInv, ClockInv, Building
  <2>2. BuildInv(j)'
    BY ZenonT(60), <2>0 DEF JobInv, BuildInv, Building, Held, Sound
  <2>3. DeleteInv(j)'
    BY ZenonT(60), <2>0 DEF JobInv, DeleteInv, Sound
  <2>4. DoomedInv(j)'
    BY ZenonT(60), <2>0 DEF JobInv, DoomedInv, Present, JobRecord
  <2>5. UnusedInv(j)'
    <3> SUFFICES ASSUME job[j].pc = "delete", "delete" \notin faults,
                        NEW k \in Key, blobs'[k] # Absent
                 PROVE  \/ k \in job[j].doomed \cup (job[j].todo \ job[j].seen)
                        \/ Exists(j, k)
                        \/ blobs'[k] > job[j].time
      BY DEF UnusedInv, Present, Exists
    <3>1. CASE blobs'[k] = blobs[k]
      BY <2>0, <3>1 DEF JobInv, UnusedInv, Present
    <3>2. CASE blobs'[k] = builds
      <4>1. job[j].time < builds
        BY <2>0 DEF JobInv, ClockInv
      <4>2. job[j].time \in Nat /\ builds \in Nat
        BY ZenonT(60), <2>0, Typed, JobNumbers
      <4> QED BY <3>2, <4>1, <4>2
    <3> QED BY <3>1, <3>2
  <2> QED BY <2>1, <2>2, <2>3, <2>4, <2>5 DEF JobInv
<1> QED BY <1>1, <1>3 DEF PurgeInv

\* Uploads and deletions of bundles, and a deletion that finds no index.
LEMMA OutsideSteps ==
  ASSUME PurgeInv,
         \/ \E b \in Bundles : StartUpload(b) \/ DeleteBundle(b)
         \/ \E k \in Key : PutBlob(k)
         \/ PublishBundle
         \/ AbortUpload
         \/ \E j \in Jobs : PanicNoIndex(j)
  PROVE  PurgeInv'
<1>0. PurgeTypes /\ CoveredInv
  BY DEF PurgeInv
<1>1. CASE \E b \in Bundles : StartUpload(b)
  <2>1. PICK b \in Bundles : StartUpload(b)
    BY <1>1
  <2>2. /\ UNCHANGED <<builds, blobs, published, index, lock, job, faults>>
        /\ upload' = [bundles |-> {b}, todo |-> KeysOf(b)]
    BY <2>1 DEF StartUpload
  <2>3. PurgeTypes'
    BY ZenonT(60), <1>0, <2>2, KeysOfType DEF PurgeTypes, index
  <2>4. CoveredInv'
    BY <1>0, <2>2 DEF CoveredInv, Sound, Present, index
  <2> QED BY <2>2, <2>3, <2>4, OutsideStep DEF index
<1>2. CASE \E b \in Bundles : DeleteBundle(b)
  <2>1. PICK b \in Bundles : DeleteBundle(b)
    BY <1>2
  <2>2. /\ UNCHANGED <<builds, blobs, upload, chunks, lock, ready, job, faults>>
        /\ published' = published \ {b}
        /\ covered' = covered \ {b}
    BY <2>1 DEF DeleteBundle
  <2>3. PurgeTypes'
    BY <1>0, <2>2 DEF PurgeTypes
  <2>4. CoveredInv'
    BY <1>0, <2>2 DEF CoveredInv, Sound, Present
  <2> QED BY <2>2, <2>3, <2>4, OutsideStep
<1>3. CASE \E k \in Key : PutBlob(k)
  <2>1. PICK k \in Key : PutBlob(k)
    BY <1>3
  <2>2. /\ UNCHANGED <<builds, published, index, lock, job, faults>>
        /\ upload' = [upload EXCEPT !.todo = @ \ {k}]
        /\ blobs' = [blobs EXCEPT ![k] = IF @ = Absent THEN builds ELSE @]
    BY <2>1 DEF PutBlob
  <2>3. /\ blobs' \in [Key -> 0 .. MaxBuilds + 1]
        /\ \A i \in Key : blobs'[i] = blobs[i] \/ (~ Present(i) /\ blobs'[i] = builds)
    <3>1. builds \in 0 .. MaxBuilds + 1
      BY <1>0, Sizes, StoreNumbers
    <3>2. blobs \in [Key -> 0 .. MaxBuilds + 1]
      BY ZenonT(60), <1>0 DEF PurgeTypes
    <3> QED BY <2>2, <3>1, <3>2 DEF Present
  <2>4. PurgeTypes'
    BY <1>0, <2>2, <2>3 DEF PurgeTypes, index
  <2>5. builds # Absent
    BY <1>0, StoreNumbers
  <2>6. \A b \in covered : KeysOf(b) \subseteq Key
    BY ZenonT(60), <1>0, KeysOfType DEF CoveredInv, PurgeTypes
  <2>7. CoveredInv'
    BY <1>0, <2>2, <2>3, <2>5, <2>6 DEF CoveredInv, Sound, Present, index
  <2> QED BY <2>2, <2>3, <2>4, <2>7, OutsideStep DEF index
<1>4. CASE PublishBundle \/ AbortUpload
  <2>1. /\ UNCHANGED <<builds, blobs, index, lock, job, faults>>
        /\ upload' = NoUpload
        /\ published' \in {published, published \cup upload.bundles}
    BY ZenonT(60), <1>4 DEF PublishBundle, AbortUpload
  <2>2. upload.bundles \subseteq Bundles /\ NoUpload \in [bundles : SUBSET Bundles, todo : SUBSET Key]
    BY ZenonT(60), <1>0 DEF PurgeTypes, NoUpload
  <2>3. PurgeTypes'
    BY <1>0, <2>1, <2>2 DEF PurgeTypes, index
  <2>4. CoveredInv'
    BY <1>0, <2>1 DEF CoveredInv, Sound, Present, index
  <2> QED BY ZenonT(60), <2>1, <2>3, <2>4, OutsideStep DEF index
<1>5. CASE \E j \in Jobs : PanicNoIndex(j)
  <2>1. UNCHANGED <<builds, data, index, job, faults>> /\ lock' = TRUE
    BY <1>5 DEF PanicNoIndex, PurgeLock
  <2>2. PurgeTypes'
    BY <1>0, <2>1 DEF PurgeTypes, data, index
  <2>3. CoveredInv'
    BY <1>0, <2>1 DEF CoveredInv, Sound, Present, data, index
  <2> QED BY <2>1, <2>2, <2>3, OutsideStep DEF data, index
<1> QED BY <1>1, <1>2, <1>3, <1>4, <1>5

-----------------------------------------------------------------------------
(* The theorems.                                                           *)

\* The stores are consistent at first, with or without unused blobs.
LEMMA PurgeStarts == Init => PurgeInv
<1> SUFFICES ASSUME Init PROVE PurgeInv
  OBVIOUS
<1>1. PurgeTypes
  <2>1. blobs \in [Key -> 0 .. MaxBuilds + 1]
    <3>1. 0 \in 0 .. MaxBuilds + 1 /\ Absent \in 0 .. MaxBuilds + 1
      BY Sizes
    <3> QED BY <3>1 DEF Init
  <2>2. chunks \in [1 .. MaxChunks -> [time : Nat, keys : SUBSET Key]]
    BY SizesAssumption DEF Init, NoChunk, Absent
  <2>3. job \in [Jobs -> JobRecord]
    BY IdleRecord DEF Init
  <2>4. builds \in 0 .. MaxBuilds
    BY SizesAssumption DEF Init
  <2>5. published \subseteq Bundles
    BY KeysAssumption DEF Init
  <2> QED BY ZenonT(60), <2>1, <2>2, <2>3, <2>4, <2>5 DEF Init, PurgeTypes, NoUpload
<1>2. \A j \in Jobs : job[j] = Idle
  BY DEF Init
<1>3. \A j \in Jobs : JobInv(j)
  <2> SUFFICES ASSUME NEW j \in Jobs PROVE JobInv(j)
    OBVIOUS
  <2>1. /\ job[j].pc = "idle" /\ job[j].writing = "no" /\ job[j].chunk = 0
        /\ job[j].doomed = {}
    <3>1. /\ Idle.pc = "idle" /\ Idle.writing = "no" /\ Idle.chunk = 0 /\ Idle.doomed = {}
      BY DEF Idle
    <3> QED BY ZenonT(60), <1>2, <3>1
  <2> QED BY ZenonT(60), <2>1 DEF JobInv, ShapeInv, ClockInv, BuildInv, DeleteInv, DoomedInv, UnusedInv,
                      Building
<1>4. Exclusive
  <2>1. Idle.pc = "idle"
    BY DEF Idle
  <2> QED BY ZenonT(60), <1>2, <2>1 DEF Exclusive, Running
<1>5. ChunkTimes
  BY DEF Init, ChunkTimes, ChunkNumbers
<1>6. CoveredInv /\ IndexComplete
  BY DEF Init, CoveredInv, IndexComplete
<1> QED BY <1>1, <1>3, <1>4, <1>5, <1>6 DEF PurgeInv

\* Every step of the purge, and of what goes on meanwhile, keeps the invariant.
LEMMA PurgeNext ==
  ASSUME PurgeInv, [Next]_vars
  PROVE  PurgeInv'
<1>1. CASE UNCHANGED vars
  <2>1. PurgeTypes'
    BY ZenonT(60), <1>1 DEF vars, PurgeInv, PurgeTypes
  <2>2. Exclusive' /\ ChunkTimes'
    BY ZenonT(60), <1>1 DEF vars, PurgeInv, Exclusive, Running, ChunkTimes, ChunkNumbers
  <2>3. CoveredInv' /\ IndexComplete'
    BY ZenonT(60), <1>1 DEF vars, PurgeInv, CoveredInv, IndexComplete, ChunkNumbers, Indexed,
       Present, Sound
  <2>4. ASSUME NEW j \in Jobs PROVE JobInv(j)'
    <3>1. ShapeInv(j)' /\ ClockInv(j)' /\ BuildInv(j)'
      BY ZenonT(60), <1>1, Typed DEF vars, ShapeInv, ClockInv, BuildInv, Building, Held, Sound
    <3>2. DeleteInv(j)' /\ DoomedInv(j)' /\ UnusedInv(j)'
      BY ZenonT(60), <1>1, Typed DEF vars, DeleteInv, DoomedInv, UnusedInv, Present, Sound, Exists
    <3> QED BY ZenonT(60), <3>1, <3>2 DEF JobInv
  <2> QED BY ZenonT(60), <2>1, <2>2, <2>3, <2>4 DEF PurgeInv
<1>2. CASE \/ \E b \in Bundles : StartUpload(b) \/ DeleteBundle(b)
           \/ \E k \in Key : PutBlob(k)
           \/ PublishBundle
           \/ AbortUpload
           \/ \E j \in Jobs : PanicNoIndex(j)
  BY <1>2, OutsideSteps
<1>3. ASSUME NEW j \in Jobs,
             PurgeUnlock(j) \/ Fail(j) \/ Crash(j) \/ EndDelete(j) \/ EndDrop(j)
      PROVE  PurgeInv'
  BY <1>3, EndSteps
<1>4. ASSUME NEW j \in Jobs, \/ StartBuild(j) \/ ResumeBuild(j) \/ StartDelete(j)
                             \/ StartDrop(j) \/ DropChunk(j)
      PROVE  PurgeInv'
  BY <1>4, BuildStarted, BuildResumed, DeleteStarted, DropStarted, ChunkDropped
<1>5. ASSUME NEW j \in Jobs, \/ Tick(j) \/ FlushChunk(j) \/ OpenChunk(j) \/ WriteChunk(j)
                             \/ FailChunk(j) \/ EndScan(j)
      PROVE  PurgeInv'
  BY <1>5, ChunkStarted, ChunkOpened, ChunkWritten, ChunkFailed, ScanEnded
<1>6. ASSUME NEW j \in Jobs, \/ \E b \in Bundles : ScanBundle(j, b)
                             \/ \E k \in Key : StoreKey(j, k) \/ CheckKey(j, k) \/ DeleteBlob(j, k)
      PROVE  PurgeInv'
  BY <1>6, BundleScanned, KeyStored, KeyChecked, BlobDeleted
<1> QED BY <1>1, <1>2, <1>3, <1>4, <1>5, <1>6 DEF Next

\* The invariant of the purge: however the jobs, the uploads, the deletions of
\* bundles, the crashes and the errors follow each other.
THEOREM PurgeInvariance == Spec => []PurgeInv
<1>1. PurgeInv /\ [Next]_vars => PurgeInv'
  BY PurgeNext
<1> QED BY <1>1, PurgeStarts, PTL DEF Spec

\* The purge lock keeps the jobs of all processes apart, crashes and forced
\* locks included.
THEOREM PurgeIsExclusive == Spec => []Exclusive
<1>1. PurgeInv => Exclusive
  BY DEF PurgeInv
<1> QED BY <1>1, PurgeInvariance, PTL

\* An index that is ready, if no fault was recorded, holds the keys of all the
\* bundles that it covers: for any number of bundles, keys and chunks.
THEOREM ReadyIndexIsComplete == Spec => []IndexComplete
<1>1. PurgeInv => IndexComplete
  BY DEF PurgeInv
<1> QED BY <1>1, PurgeInvariance, PTL

\* Blobs are removed by DeleteBlob only, of a job that dooms them.
LEMMA BlobsKept ==
  ASSUME PurgeInv, [Next]_vars, NEW k \in Key, Present(k), blobs'[k] = Absent
  PROVE  \E j \in Jobs : job[j].pc = "delete" /\ k \in job[j].doomed
<1>1. CASE UNCHANGED blobs
  BY <1>1 DEF Present
<1>2. ASSUME NEW i \in Key, PutBlob(i) PROVE FALSE
  <2>1. blobs' = [blobs EXCEPT ![i] = IF @ = Absent THEN builds ELSE @]
    BY <1>2 DEF PutBlob
  <2> QED BY <2>1 DEF PurgeInv, PurgeTypes, Present
<1>3. ASSUME NEW j \in Jobs, NEW i \in Key, DeleteBlob(j, i)
      PROVE  job[j].pc = "delete" /\ k \in job[j].doomed
  <2>1. PICK x : blobs' = [blobs EXCEPT ![i] = x]
    BY ZenonT(60), <1>3 DEF DeleteBlob
  <2>2. k = i
    BY <2>1 DEF PurgeInv, PurgeTypes, Present
  <2> QED BY <1>3, <2>2 DEF DeleteBlob
<1>4. \/ UNCHANGED blobs
      \/ \E i \in Key : PutBlob(i)
      \/ \E j \in Jobs, i \in Key : DeleteBlob(j, i)
  <2>1. ASSUME NEW j \in Jobs, \/ PurgeUnlock(j) \/ Fail(j) \/ Crash(j) \/ PanicNoIndex(j)
                               \/ StartBuild(j) \/ ResumeBuild(j) \/ StartDelete(j) \/ EndDelete(j)
                               \/ StartDrop(j) \/ DropChunk(j) \/ EndDrop(j)
        PROVE  UNCHANGED blobs
    BY ZenonT(60), <2>1 DEF data, PurgeUnlock, Fail, Crash, PanicNoIndex, StartBuild, ResumeBuild,
       StartDelete, EndDelete, StartDrop, DropChunk, EndDrop
  <2>2. ASSUME NEW j \in Jobs, \/ Tick(j) \/ OpenChunk(j) \/ WriteChunk(j) \/ FailChunk(j)
                               \/ EndScan(j) \/ FlushChunk(j)
                               \/ \E b \in Bundles : ScanBundle(j, b)
                               \/ \E i \in Key : StoreKey(j, i) \/ CheckKey(j, i)
        PROVE  UNCHANGED blobs
    BY ZenonT(60), <2>2 DEF data, Tick, OpenChunk, WriteChunk, FailChunk, EndScan, FlushChunk, ScanBundle,
       StoreKey, CheckKey
  <2>3. ASSUME \/ \E b \in Bundles : StartUpload(b) \/ DeleteBundle(b)
               \/ PublishBundle \/ AbortUpload \/ UNCHANGED vars
        PROVE  UNCHANGED blobs
    BY <2>3 DEF vars, StartUpload, DeleteBundle, PublishBundle, AbortUpload
  <2> QED BY <2>1, <2>2, <2>3 DEF Next
<1> QED BY <1>1, <1>2, <1>3, <1>4

\* No step, of a deletion or not, removes a blob of a covered bundle.
THEOREM DeletionKeepsOldBundles == Spec => OldBundlesKept
<1>1. ASSUME PurgeInv, [Next]_vars PROVE KeepsOldBundles
  <2> SUFFICES ASSUME Sound, NEW b \in covered, NEW k \in Key, k \in KeysOf(b), Present(k),
                      blobs'[k] = Absent
               PROVE  FALSE
    BY DEF KeepsOldBundles, Sound
  <2>1. PICK j \in Jobs : job[j].pc = "delete" /\ k \in job[j].doomed
    BY <1>1, BlobsKept
  <2>2. DeleteInv(j)
    BY <1>1 DEF PurgeInv, JobInv
  <2> QED BY <2>1, <2>2 DEF DeleteInv
<1>2. PurgeInv /\ [Next]_vars => [KeepsOldBundles]_vars
  BY <1>1
<1> QED BY <1>2, PurgeInvariance, PTL DEF Spec, OldBundlesKept

\* A deletion keeps what was written after the launch of the index it uses.
THEOREM DeletionKeepsRecent == Spec => RecentKept
<1>1. PurgeInv => [KeepsRecent]_vars
  BY ZenonT(60) DEF PurgeInv, JobInv, DoomedInv, KeepsRecent
<1> QED BY <1>1, PurgeInvariance, PTL DEF Spec, RecentKept

\* EndDelete alone takes a job from its deletion to its end.
LEMMA DeletionEnds ==
  ASSUME PurgeInv, [Next]_vars, NEW j \in Jobs, job[j].pc = "delete", job'[j].pc = "end"
  PROVE  EndDelete(j)
<1>0. job[j] \in JobRecord /\ job \in [Jobs -> JobRecord] /\ job[j].writing = "no" /\ Running(j)
  BY ZenonT(60) DEF PurgeInv, PurgeTypes, JobInv, ShapeInv, Building, Running
<1>1. ASSUME NEW i \in Jobs, NEW r, job' = [job EXCEPT ![i] = r] PROVE i = j /\ r.pc = "end"
  BY <1>0, <1>1
<1>2. ASSUME NEW i \in Jobs, PurgeLock(i) PROVE FALSE
  BY <1>0, <1>2, LockTaken
<1>3. ASSUME NEW i \in Jobs, PurgeUnlock(i) \/ Fail(i) \/ Crash(i) PROVE FALSE
  <2>1. \E r : job' = [job EXCEPT ![i] = r] /\ r.pc \in {"idle", "failed"}
    BY <1>3 DEF PurgeUnlock, Fail, Crash, Idle
  <2> QED BY <1>1, <2>1
<1>4. ASSUME NEW i \in Jobs, i # j \/ job[i].pc # "delete",
             job' = [job EXCEPT ![i] = job'[i]]
      PROVE FALSE
  BY <1>0, <1>1, <1>4
<1>5. ASSUME NEW i \in Jobs, \/ \E b \in Bundles : ScanBundle(i, b)
                             \/ \E k \in Key : StoreKey(i, k)
                             \/ Tick(i) \/ EndScan(i) \/ FlushChunk(i) \/ EndDrop(i)
      PROVE  FALSE
  <2>1. job[i].pc # "delete"
    BY ZenonT(60), <1>5 DEF ScanBundle, StoreKey, Tick, EndScan, FlushChunk, EndDrop
  <2>2. job' = [job EXCEPT ![i] = job'[i]]
    BY ZenonT(60), <1>0, <1>5 DEF ScanBundle, StoreKey, Tick, EndScan, FlushChunk, EndDrop
  <2> QED BY <1>4, <2>1, <2>2
<1>6. ASSUME NEW i \in Jobs, OpenChunk(i) \/ WriteChunk(i) \/ FailChunk(i) PROVE FALSE
  <2>1. i # j
    BY ZenonT(60), <1>0, <1>6 DEF OpenChunk, WriteChunk, FailChunk
  <2>2. job' = [job EXCEPT ![i] = job'[i]]
    BY ZenonT(60), <1>0, <1>6 DEF OpenChunk, WriteChunk, FailChunk
  <2> QED BY <1>4, <2>1, <2>2
<1>7. ASSUME NEW i \in Jobs, NEW k \in Key, CheckKey(i, k) \/ DeleteBlob(i, k) PROVE FALSE
  <2>1. CASE CheckKey(i, k)
    <3>1. PICK D : job' = [job EXCEPT ![i].seen = @ \cup {k}, ![i].doomed = D]
      BY ZenonT(60), <2>1 DEF CheckKey
    <3> QED BY <1>0, <3>1
  <2>2. CASE DeleteBlob(i, k)
    <3>1. job' = [job EXCEPT ![i].doomed = @ \ {k}]
      BY <2>2 DEF DeleteBlob
    <3> QED BY <1>0, <3>1
  <2> QED BY <1>7, <2>1, <2>2
<1>8. CASE UNCHANGED job
  BY <1>8
<1>9. ASSUME NEW i \in Jobs, EndDelete(i) PROVE EndDelete(j)
  BY ZenonT(60), <1>1, <1>9 DEF EndDelete
<1>10. ASSUME NEW i \in Jobs, \/ PanicNoIndex(i) \/ StartBuild(i) \/ ResumeBuild(i)
                              \/ StartDelete(i) \/ StartDrop(i)
       PROVE  FALSE
  BY ZenonT(60), <1>2, <1>10 DEF PanicNoIndex, StartBuild, ResumeBuild, StartDelete, StartDrop
<1>11. ASSUME \/ UNCHANGED vars
              \/ \E b \in Bundles : StartUpload(b) \/ DeleteBundle(b)
              \/ \E k \in Key : PutBlob(k)
              \/ PublishBundle
              \/ AbortUpload
              \/ \E i \in Jobs : DropChunk(i)
       PROVE  UNCHANGED job
  BY <1>11 DEF vars, StartUpload, DeleteBundle, PutBlob, PublishBundle, AbortUpload, DropChunk
<1> QED BY ZenonT(60), <1>3, <1>5, <1>6, <1>7, <1>8, <1>9, <1>10, <1>11 DEF Next

\* A deletion that ends has doomed and deleted all that it has not to keep.
THEOREM DeletionRemovesUnused == Spec => UnusedRemoved
<1>1. ASSUME PurgeInv, [Next]_vars PROVE RemovesUnused
  <2> SUFFICES ASSUME NEW j \in Jobs, job[j].pc = "delete", job'[j].pc = "end",
                      "delete" \notin faults, NEW k \in Key, Present(k)
               PROVE  Exists(j, k) \/ blobs[k] > job[j].time
    BY DEF RemovesUnused
  <2>1. UnusedInv(j)
    BY <1>1 DEF PurgeInv, JobInv
  <2>2. job[j].todo \subseteq job[j].seen /\ job[j].doomed = {}
    BY <1>1, DeletionEnds DEF EndDelete
  <2> QED BY ZenonT(60), <2>1, <2>2 DEF UnusedInv
<1>2. PurgeInv /\ [Next]_vars => [RemovesUnused]_vars
  BY <1>1
<1> QED BY <1>2, PurgeInvariance, PTL DEF Spec, UnusedRemoved
============================================================================
