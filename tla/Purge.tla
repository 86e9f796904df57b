------------------------------- MODULE Purge -------------------------------
(***************************************************************************)
(* The purge of unused blobs (pkg/core/purge.go and the purge commands).   *)
(* A "build-reverse-lookup" job scans the metadata of all bundles, gathers *)
(* the keys of their blobs in a local key-value store and writes them, as  *)
(* numbered chunks, to the metadata store: the index.  A "delete-unused"   *)
(* job loads the chunks and deletes the blobs that are neither in them nor *)
(* more recent than the index.  A "delete-reverse-lookup" job drops the    *)
(* chunks.  Meanwhile bundles are uploaded and deleted, and an upload does *)
(* not write again a blob that exists.                                     *)
(*                                                                         *)
(* A job takes the purge lock when it starts and removes it when it ends,  *)
(* well or not.  A job that crashes leaves the lock.  A job is started     *)
(* with --force, or with --resume, which implies it, only when no other is *)
(* running, as the commands ask.                                           *)
(*                                                                         *)
(* Abstractions: a bundle has one file; time is counted in launches of     *)
(* builds, so that whatever is written after a launch is more recent than  *)
(* its index; the faults that leave keys out of an index are not told      *)
(* apart.                                                                  *)
(***************************************************************************)
EXTENDS Naturals, FiniteSets, FiniteSetsExt, Functions

CONSTANTS
    Bundles,
    OldBundles,   \* those published at first
    Files,        \* the root keys
    Leaves,       \* the leaf keys
    FileOf,       \* bundle |-> root key of its file
    LeavesOf,     \* root key |-> its leaves
    Rank,         \* key |-> its rank in the order of the keys
    Jobs,         \* processes that run purge commands, one after the other
    ChunkSize,    \* keys in an index chunk (indexChunkSize)
    MaxParallel,  \* concurrent deletions (maxParallel)
    ReaderBuffer, \* capacity of the channel of dbReader
    MaxChunks,    \* bound on the chunk numbers
    MaxLaunches,  \* bound on the jobs started
    MaxBuilds,    \* bound on the builds launched
    FaultKinds    \* the kinds of faults that may happen

Key == Files \cup Leaves

ASSUME KeysAssumption ==
    /\ OldBundles \subseteq Bundles
    /\ Files \cap Leaves = {}
    /\ FileOf \in [Bundles -> Files]
    /\ LeavesOf \in [Files -> SUBSET Leaves]
    /\ IsInjective(Rank) /\ Rank \in [Key -> 1 .. Cardinality(Key)]

ASSUME SizesAssumption ==
    /\ {ChunkSize, MaxParallel} \subseteq Nat \ {0}
    /\ {ReaderBuffer, MaxChunks, MaxLaunches, MaxBuilds} \subseteq Nat

KeysOf(b) == {FileOf[b]} \cup LeavesOf[FileOf[b]]

\* What leaves keys out of an index, an index resumed in the middle of a file,
\* the attributes of a blob not read, a blob not deleted.
ASSUME FaultsAssumption == FaultKinds \subseteq {"index", "resume", "attr", "delete"}

VARIABLES
    launches,   \* jobs started so far
    builds,     \* builds launched so far
    blobs,      \* key |-> launches when the blob was written, or Absent
    created,    \* the bundles whose upload was started, ever
    published,  \* the bundles with metadata
    upload,     \* the upload in progress
    chunks,     \* the index chunks in the metadata store, by number
    lock,       \* the purge lock exists
    ready,      \* the last build ended well, and its index was not dropped
    covered,    \* the bundles complete since the launch of the last index
    job,        \* the state of each process
    faults      \* the kinds of faults so far

vars == <<launches, builds, blobs, created, published, upload, chunks, lock, ready,
          covered, job, faults>>
data == <<blobs, created, published, upload>>
index == <<chunks, ready, covered>>

Absent == MaxBuilds + 1
NoChunk == [time |-> Absent, keys |-> {}]
NoUpload == [bundles |-> {}, todo |-> {}]

\* A process.  fresh and marked are the keys of its local store, those to
\* be uploaded and those marked as uploaded; pending are the keys fetched
\* and not yet stored; count the keys stored since the last tick; writing
\* is the chunk uploader, for chunk number chunk, with the keys it picked;
\* todo and seen are the bundles or the blobs to visit and visited; doomed
\* are the blobs about to be deleted.
Idle == [pc |-> "idle", time |-> 0, fresh |-> {}, marked |-> {}, pending |-> {},
         count |-> 0, next |-> 0, writing |-> "no", chunk |-> 0, picked |-> {},
         todo |-> {}, seen |-> {}, doomed |-> {}]

Present(k) == blobs[k] # Absent
Exists(j, k) == k \in job[j].fresh \cup job[j].marked
ChunkNumbers == {n \in 1 .. MaxChunks : chunks[n] # NoChunk}
Indexed == UNION {chunks[n].keys : n \in ChunkNumbers}
First(n, keys) == {k \in keys : Cardinality({i \in keys : Rank[i] < Rank[k]}) < n}
Running(j) == job[j].pc # "idle"

\* A step that is faulty, of this kind, if failed.
Fault(kind, failed) == /\ faults' = faults \cup {k \in {kind} : failed}
                       /\ failed => kind \in FaultKinds

Init ==
    /\ launches = 0
    /\ builds = 0
    /\ published = OldBundles
    /\ \E unused \in SUBSET Key :
          blobs = [k \in Key |-> IF \/ k \in unused
                                    \/ \E b \in published : k \in KeysOf(b)
                                 THEN 0 ELSE Absent]
    /\ created = published
    /\ upload = NoUpload
    /\ chunks = [n \in 1 .. MaxChunks |-> NoChunk]
    /\ lock = FALSE
    /\ ready = FALSE
    /\ covered = {}
    /\ job = [j \in Jobs |-> Idle]
    /\ faults = {}

-----------------------------------------------------------------------------
(***************************************************************************)
(* Uploads and deletions of bundles.                                       *)
(***************************************************************************)

StartUpload(b) ==
    /\ upload = NoUpload
    /\ b \notin created
    /\ created' = created \cup {b}
    /\ upload' = [bundles |-> {b}, todo |-> KeysOf(b)]
    /\ UNCHANGED <<launches, builds, blobs, published, index, lock, job, faults>>

\* A blob is not written again if it exists; the root comes after the leaves.
PutBlob(k) ==
    /\ k \in upload.todo
    /\ k \in Files => upload.todo = {k}
    /\ upload' = [upload EXCEPT !.todo = @ \ {k}]
    /\ blobs' = [blobs EXCEPT ![k] = IF @ = Absent THEN builds ELSE @]
    /\ UNCHANGED <<launches, builds, created, published, index, lock, job, faults>>

PublishBundle ==
    /\ upload # NoUpload
    /\ upload.todo = {}
    /\ published' = published \cup upload.bundles
    /\ upload' = NoUpload
    /\ UNCHANGED <<launches, builds, blobs, created, index, lock, job, faults>>

AbortUpload ==
    /\ upload # NoUpload
    /\ upload' = NoUpload
    /\ UNCHANGED <<launches, builds, blobs, created, published, index, lock, job, faults>>

\* The metadata of the bundle goes, its blobs stay.
DeleteBundle(b) ==
    /\ b \in published
    /\ published' = published \ {b}
    /\ covered' = covered \ {b}
    /\ UNCHANGED <<launches, builds, blobs, created, upload, chunks, lock, ready, job, faults>>

-----------------------------------------------------------------------------
(***************************************************************************)
(* The lock, and the ends of a job.                                        *)
(***************************************************************************)

\* Mutant: the lock is always written with OverWrite.
PurgeLockOverwrites(j) ==
    /\ ~ Running(j)
    /\ lock' = TRUE
    /\ launches < MaxLaunches
    /\ launches' = launches + 1

\* A lock that is there is overridden only when no job is running.
PurgeLock(j) ==
    /\ ~ Running(j)
    /\ lock => \A i \in Jobs : ~ Running(i)
    /\ lock' = TRUE
    /\ launches < MaxLaunches
    /\ launches' = launches + 1

PurgeUnlock(j) ==
    /\ job[j].pc \in {"end", "failed"}
    /\ lock' = FALSE
    /\ job' = [job EXCEPT ![j] = Idle]
    /\ UNCHANGED <<launches, builds, data, index, faults>>

\* An error ends the job, unless the job is to wait for a hung reader: the
\* scan, if it fails, cancels the reader.
Fail(j) ==
    /\ job[j].pc \in {"scan", "flush", "delete", "drop"}
    /\ job[j].writing = "hung" => job[j].pc = "scan"
    /\ job' = [job EXCEPT ![j] = [Idle EXCEPT !.pc = "failed"]]
    /\ UNCHANGED <<launches, builds, data, index, lock, faults>>

Crash(j) ==
    /\ Running(j)
    /\ job' = [job EXCEPT ![j] = Idle]
    /\ UNCHANGED <<launches, builds, data, index, lock, faults>>

\* With no chunk to load, the job panics on the missing index time.
PanicNoIndex(j) ==
    /\ PurgeLock(j)
    /\ ChunkNumbers = {}
    /\ UNCHANGED <<builds, data, index, job, faults>>

-----------------------------------------------------------------------------
(***************************************************************************)
(* build-reverse-lookup: the launch, and the scan of the metadata.         *)
(***************************************************************************)

StartBuild(j) ==
    /\ PurgeLock(j)
    /\ builds < MaxBuilds
    /\ builds' = builds + 1
    /\ ready' = FALSE
    /\ covered' = {b \in published : \A k \in KeysOf(b) : Present(k)}
    /\ job' = [job EXCEPT ![j] = [Idle EXCEPT !.pc = "scan", !.time = builds,
                                              !.todo = published]]
    /\ UNCHANGED <<data, chunks, faults>>

\* The keys that copyIndexChunks may load: all of them or, as a read error goes
\* unnoticed, only the first ones of some chunk.
Loads ==
    {UNION {IF n = m THEN First(i, chunks[n].keys) ELSE chunks[n].keys : n \in ChunkNumbers} :
        m \in ChunkNumbers, i \in 0 .. ChunkSize}

\* A file is split when its root is loaded and not all its leaves.
Split(keys) == \E f \in Files \cap keys : ~ LeavesOf[f] \subseteq keys

\* The time of the index is the one in any of the chunks.
ResumeBuild(j) ==
    /\ PurgeLock(j)
    /\ \A i \in Jobs : ~ Running(i)
    /\ builds < MaxBuilds
    /\ ChunkNumbers # {}
    /\ builds' = builds + 1
    /\ ready' = FALSE
    /\ \E n \in ChunkNumbers, loaded \in Loads :
          /\ job' = [job EXCEPT ![j] =
                       [Idle EXCEPT !.pc = "scan", !.time = chunks[n].time,
                                    !.todo = published, !.marked = loaded,
                                    !.next = Max(ChunkNumbers)]]
          /\ Fault(IF loaded # Indexed THEN "index" ELSE "resume",
                   loaded # Indexed \/ Split(loaded))
    /\ UNCHANGED <<data, chunks, covered>>

\* The keys that bundleKeys returns for a bundle.  The leaves of a root that
\* is in the local store are not fetched.
BundleKeys(j, b) ==
    IF Exists(j, FileOf[b]) THEN {}
    ELSE {FileOf[b]} \cup (IF Present(FileOf[b]) THEN LeavesOf[FileOf[b]] ELSE {})

\* Unreadable metadata, or an unreadable root, is skipped.
ScanBundle(j, b) ==
    /\ job[j].pc = "scan"
    /\ b \in published \ job[j].seen
    /\ \E keys \in {BundleKeys(j, b), BundleKeys(j, b) \cap Files, {}} :
          /\ job' = [job EXCEPT ![j].seen = @ \cup {b},
                                ![j].pending = @ \cup keys]
          /\ Fault("index", keys # BundleKeys(j, b))
    /\ UNCHANGED <<launches, builds, data, index, lock>>

\* A root is stored before its leaves.
StoreKey(j, k) ==
    /\ job[j].pc = "scan"
    /\ k \in job[j].pending
    /\ k \in Leaves => \E f \in Files : k \in LeavesOf[f] /\ Exists(j, f)
    /\ job' = [job EXCEPT
                 ![j].pending = @ \ {k},
                 ![j].fresh = IF Exists(j, k) THEN @ ELSE @ \cup {k},
                 ![j].count = Min({@ + 1, ChunkSize})]
    /\ UNCHANGED <<launches, builds, data, index, lock, faults>>

-----------------------------------------------------------------------------
(***************************************************************************)
(* build-reverse-lookup: the upload of the chunks.                         *)
(***************************************************************************)

\* The tick of the uploader, when enough keys were stored since the last one.
\* It uses up a chunk number even when a chunk is being written.
Tick(j) ==
    /\ job[j].pc = "scan"
    /\ job[j].count = ChunkSize
    /\ job[j].next < MaxChunks
    /\ LET n == job[j].next + 1
           started == job[j].writing = "no"
       IN job' = [job EXCEPT ![j].count = 0,
                             ![j].next = n,
                             ![j].chunk = IF started THEN n ELSE @,
                             ![j].writing = IF started THEN "start" ELSE @]
    /\ UNCHANGED <<launches, builds, data, index, lock, faults>>

\* The reader picks the first keys not yet marked; the chunk of that number is deleted.
OpenChunk(j) ==
    /\ job[j].writing = "start"
    /\ job' = [job EXCEPT ![j].writing = "open",
                          ![j].picked = First(ChunkSize, job[j].fresh)]
    /\ chunks' = [chunks EXCEPT ![job[j].chunk] = NoChunk]
    /\ UNCHANGED <<launches, builds, data, ready, covered, lock, faults>>

\* The keys picked are marked as they are read, and the chunk is written.  A
\* build in its last phase ends with a chunk that has no key.
WriteChunk(j) ==
    /\ job[j].writing = "open"
    /\ LET ended == job[j].pc = "flush" /\ job[j].picked = {}
       IN /\ ready' = (ready \/ ended)
          /\ job' = [job EXCEPT ![j] =
                       IF ended THEN [Idle EXCEPT !.pc = "end"]
                       ELSE [job[j] EXCEPT !.writing = "no", !.chunk = 0, !.picked = {},
                                           !.fresh = @ \ job[j].picked,
                                           !.marked = @ \cup job[j].picked]]
    /\ chunks' = [chunks EXCEPT ![job[j].chunk] =
                    [time |-> job[j].time, keys |-> job[j].picked]]
    /\ UNCHANGED <<launches, builds, data, covered, lock, faults>>

\* The chunk is not written, but the keys read until the error stay marked.
\* Before a retry, the reader waits for its own producer, which may be blocked.
FailChunk(j) ==
    /\ job[j].writing = "open"
    /\ \E n \in 0 .. ChunkSize :
          LET read == First(n, job[j].picked)
              hung == Cardinality(job[j].picked \ read) > ReaderBuffer
          IN /\ job' = [job EXCEPT ![j].writing = IF hung THEN "hung" ELSE "start",
                                   ![j].picked = {},
                                   ![j].fresh = @ \ read,
                                   ![j].marked = @ \cup read]
             /\ Fault("index", read # {})
    /\ UNCHANGED <<launches, builds, data, index, lock>>

\* Mutant: the scan ends while keys are still to be stored.
EndScanEarly(j) ==
    /\ job[j].pc = "scan"
    /\ job[j].todo \cap published \subseteq job[j].seen
    /\ job[j].writing = "no"
    /\ job' = [job EXCEPT ![j].pc = "flush", ![j].count = 0]
    /\ UNCHANGED <<launches, builds, data, index, lock, faults>>

\* All the bundles listed are scanned, their keys stored, no chunk in flight.
EndScan(j) ==
    /\ job[j].pc = "scan"
    /\ job[j].todo \cap published \subseteq job[j].seen
    /\ job[j].pending = {}
    /\ job[j].writing = "no"
    /\ job' = [job EXCEPT ![j].pc = "flush", ![j].count = 0]
    /\ UNCHANGED <<launches, builds, data, index, lock, faults>>

FlushChunk(j) ==
    /\ job[j].pc = "flush"
    /\ job[j].writing = "no"
    /\ job[j].next < MaxChunks
    /\ job' = [job EXCEPT ![j].next = @ + 1,
                          ![j].chunk = job[j].next + 1,
                          ![j].writing = "start"]
    /\ UNCHANGED <<launches, builds, data, index, lock, faults>>

-----------------------------------------------------------------------------
(***************************************************************************)
(* delete-unused and delete-reverse-lookup.                                *)
(***************************************************************************)

\* Mutant: only the first chunk is loaded.
StartDeleteFirstChunk(j) ==
    /\ PurgeLock(j)
    /\ ChunkNumbers # {}
    /\ LET first == chunks[Min(ChunkNumbers)]
       IN job' = [job EXCEPT ![j] =
                    [Idle EXCEPT !.pc = "delete", !.time = first.time,
                                 !.marked = first.keys,
                                 !.todo = {k \in Key : Present(k)}]]
    /\ Fault("index", ~ ready)
    /\ UNCHANGED <<builds, data, index>>

\* The user is to run this after a build that ended well; nothing checks it.
StartDelete(j) ==
    /\ PurgeLock(j)
    /\ \E n \in ChunkNumbers, loaded \in Loads :
          /\ job' = [job EXCEPT ![j] =
                       [Idle EXCEPT !.pc = "delete", !.time = chunks[n].time,
                                    !.marked = loaded,
                                    !.todo = {k \in Key : Present(k)}]]
          /\ Fault("index", loaded # Indexed \/ ~ ready)
    /\ UNCHANGED <<builds, data, index>>

\* Mutant: how recent a blob is does not matter.
CheckKeyAnyTime(j, k) ==
    /\ job[j].pc = "delete"
    /\ Present(k)
    /\ k \notin job[j].seen
    /\ Cardinality(job[j].doomed) < MaxParallel
    /\ job' = [job EXCEPT ![j].seen = @ \cup {k},
                          ![j].doomed = IF Exists(j, k) THEN @ ELSE @ \cup {k}]
    /\ UNCHANGED <<launches, builds, data, index, lock, faults>>

\* Mutant: a blob as old as the index is kept.
CheckKeyNotOlder(j, k) ==
    /\ job[j].pc = "delete"
    /\ Present(k)
    /\ k \notin job[j].seen
    /\ Cardinality(job[j].doomed) < MaxParallel
    /\ job' = [job EXCEPT ![j].seen = @ \cup {k},
                          ![j].doomed = IF Exists(j, k) \/ job[j].time <= blobs[k]
                                        THEN @ ELSE @ \cup {k}]
    /\ UNCHANGED <<launches, builds, data, index, lock, faults>>

\* A blob that is not indexed is kept if it is more recent than the index.  An
\* error in GetAttr goes unnoticed: the blob then has the zero time.
CheckKey(j, k) ==
    /\ job[j].pc = "delete"
    /\ Present(k)
    /\ k \notin job[j].seen
    /\ Cardinality(job[j].doomed) < MaxParallel
    /\ \E gotAttr \in BOOLEAN :
          /\ ~ gotAttr => ~ Exists(j, k)
          /\ job' = [job EXCEPT
                       ![j].seen = @ \cup {k},
                       ![j].doomed = IF Exists(j, k) \/ (gotAttr /\ job[j].time < blobs[k])
                                     THEN @ ELSE @ \cup {k}]
          /\ Fault("attr", ~ gotAttr)
    /\ UNCHANGED <<launches, builds, data, index, lock>>

\* An error in Delete goes unnoticed too.
DeleteBlob(j, k) ==
    /\ job[j].pc = "delete"
    /\ k \in job[j].doomed
    /\ job' = [job EXCEPT ![j].doomed = @ \ {k}]
    /\ \E deleted \in BOOLEAN :
          /\ blobs' = [blobs EXCEPT ![k] = IF deleted THEN Absent ELSE @]
          /\ Fault("delete", ~ deleted)
    /\ UNCHANGED <<launches, builds, created, published, upload, index, lock>>

EndDelete(j) ==
    /\ job[j].pc = "delete"
    /\ job[j].todo \subseteq job[j].seen
    /\ job[j].doomed = {}
    /\ job' = [job EXCEPT ![j].pc = "end"]
    /\ UNCHANGED <<launches, builds, data, index, lock, faults>>

StartDrop(j) ==
    /\ PurgeLock(j)
    /\ job' = [job EXCEPT ![j] = [Idle EXCEPT !.pc = "drop"]]
    /\ ready' = FALSE
    /\ UNCHANGED <<builds, data, chunks, covered, faults>>

DropChunk(j) ==
    /\ job[j].pc = "drop"
    /\ ChunkNumbers # {}
    /\ chunks' = [chunks EXCEPT ![Min(ChunkNumbers)] = NoChunk]
    /\ UNCHANGED <<launches, builds, data, ready, covered, lock, job, faults>>

EndDrop(j) ==
    /\ job[j].pc = "drop"
    /\ ChunkNumbers = {}
    /\ job' = [job EXCEPT ![j].pc = "end"]
    /\ UNCHANGED <<launches, builds, data, index, lock, faults>>

-----------------------------------------------------------------------------
Next ==
    \/ \E b \in Bundles : StartUpload(b) \/ DeleteBundle(b)
    \/ \E k \in Key : PutBlob(k)
    \/ PublishBundle
    \/ AbortUpload
    \/ \E j \in Jobs :
          \/ PurgeUnlock(j) \/ Fail(j) \/ Crash(j) \/ PanicNoIndex(j)
          \/ StartBuild(j) \/ ResumeBuild(j)
          \/ \E b \in Bundles : ScanBundle(j, b)
          \/ \E k \in Key : StoreKey(j, k) \/ CheckKey(j, k) \/ DeleteBlob(j, k)
          \/ Tick(j) \/ OpenChunk(j) \/ WriteChunk(j) \/ FailChunk(j)
          \/ EndScan(j) \/ FlushChunk(j)
          \/ StartDelete(j) \/ EndDelete(j)
          \/ StartDrop(j) \/ DropChunk(j) \/ EndDrop(j)

Spec == Init /\ [][Next]_vars

-----------------------------------------------------------------------------
\* A job that runs holds the lock, and no other job runs (PurgeLock).
Exclusive ==
    \A j \in Jobs : Running(j) => lock /\ \A i \in Jobs \ {j} : ~ Running(i)

\* When PurgeBuildReverseIndex ends well, the index has all the keys of the
\* bundles that were there, complete, when it was launched and still are:
\* whatever is stored, marked and written at the same time, however many
\* chunks it takes and whatever older chunks there are.
IndexComplete ==
    ready /\ faults \cap {"index", "resume"} = {} =>
        \A b \in covered : KeysOf(b) \subseteq Indexed

\* PurgeDeleteUnused, run on such an index, never deletes a blob of these
\* bundles.
KeepsOldBundles ==
    faults \cap {"index", "resume"} = {} =>
        \A b \in covered, k \in Key :
           k \in KeysOf(b) /\ Present(k) => blobs'[k] # Absent
OldBundlesKept == [][KeepsOldBundles]_vars

\* No blob more recent than the index is deleted, if no error in GetAttr hides
\* how recent it is (checkAndDeleteKey).
KeepsRecent ==
    \A j \in Jobs, k \in Key :
       /\ "attr" \notin faults
       /\ k \in job[j].doomed \ job'[j].doomed
       /\ Present(k) /\ blobs'[k] = Absent
       => blobs[k] <= job[j].time
RecentKept == [][KeepsRecent]_vars

\* PurgeDeleteUnused, when it ends well and no deletion failed, leaves no blob
\* that is neither in the index it loaded nor more recent than it.
RemovesUnused ==
    \A j \in Jobs :
       job[j].pc = "delete" /\ job'[j].pc = "end" /\ "delete" \notin faults =>
          \A k \in Key : Present(k) => Exists(j, k) \/ blobs[k] > job[j].time
UnusedRemoved == [][RemovesUnused]_vars

-----------------------------------------------------------------------------
(***************************************************************************)
(* Statements of the documentation and of the comments that do not hold.   *)
(***************************************************************************)

\* "the root key is found in store, no need to unpack it: we necessarily have
\* all its leaves in store" (bundleKeys): an index that has the root of a file
\* of a bundle has its leaves, be it built at once or resumed.
LeavesInStore ==
    ready => \A b \in covered :
                FileOf[b] \in Indexed => LeavesOf[FileOf[b]] \subseteq Indexed

\* "The `delete-unused` command only deletes BLOB files that are older than the
\* index creation time" (docs/purge.md).
OnlyOlderDeleted ==
    [][\A j \in Jobs : \A k \in job[j].doomed :
          Present(k) /\ blobs'[k] = Absent => blobs[k] <= job[j].time]_vars

=============================================================================
