---------------------------- MODULE DiamondMerge ----------------------------
(***************************************************************************)
(* The merge of the index files of the done splits of a diamond into the   *)
(* list of files of its bundle (mergeSplits in pkg/core/diamond_commit.go).*)
(* Index files are downloaded in parallel, so the entries of the splits    *)
(* reach the merger in any order.  The radix tree of the merger is a set   *)
(* of records, one per location: a path, or a path in the hidden folder of *)
(* a split.                                                                *)
(***************************************************************************)
EXTENDS Naturals, FiniteSets

CONSTANTS
    Splits,     \* split IDs
    NoSplit,    \* the folder of the files that are not in a hidden folder
    Paths,
    Hashes,     \* root hashes: they stand for the content of a file
    Times,      \* upload times
    MaxEntries  \* bound on the number of entries to merge

ASSUME FolderAssumption == NoSplit \notin Splits
ASSUME TimesAssumption == Times \subseteq Nat \ {0}

Modes == {"EnableConflicts", "EnableCheckpoints", "IgnoreConflicts", "ForbidConflicts"}

Entry == [split : Splits, path : Paths, hash : Hashes, time : Times]

VARIABLES
    mode,       \* how the diamond handles conflicts
    received,   \* the entries of the splits that the merger received
    mergeIndex, \* the merger's index
    conflicts,  \* whether the merger met a conflict
    status      \* "merging", "dumped" to the packer, or "error"

vars == <<mode, received, mergeIndex, conflicts, status>>

-----------------------------------------------------------------------------
\* The entry is placed at its path, or in the hidden folder of split s.
AtPath(e) == [folder |-> NoSplit, path |-> e.path, hash |-> e.hash,
              time |-> e.time, ID |-> e.split]

deconflicter(s, x) == [x EXCEPT !.folder = s]

\* Insert replaces what the index holds at the same location.
Insert(index, x) ==
    {y \in index : y.folder # x.folder \/ y.path # x.path} \cup {x}

Existing(e) == {x \in mergeIndex : x.folder = NoSplit /\ x.path = e.path}

Init ==
    /\ mode \in Modes
    /\ received = {}
    /\ mergeIndex = {}
    /\ conflicts = FALSE
    /\ status = "merging"

-----------------------------------------------------------------------------
\* Nothing at that path yet.
MergeNew(e) ==
    /\ Existing(e) = {}
    /\ mergeIndex' = Insert(mergeIndex, AtPath(e))
    /\ UNCHANGED <<conflicts, status>>

\* The same content at that path: skipped.
MergeSame(e, x) ==
    /\ e.hash = x.hash
    /\ UNCHANGED <<mergeIndex, conflicts, status>>

\* Mutant: the version that is replaced is dropped.
MergeNewerDrops(e, x) ==
    /\ e.hash # x.hash
    /\ e.time > x.time
    /\ mode # "ForbidConflicts" \/ e.split = x.ID
    /\ mergeIndex' = Insert(mergeIndex, AtPath(e))
    /\ UNCHANGED <<conflicts, status>>

\* Mutant: the last version to arrive takes the path.
MergeLastArrived(e, x) ==
    /\ e.hash # x.hash
    /\ mode # "ForbidConflicts" \/ e.split = x.ID
    /\ mergeIndex' = Insert(mergeIndex, AtPath(e))
    /\ UNCHANGED <<conflicts, status>>

\* A more recent version takes the path. The version it replaces is dropped
\* when it is from the same split or when conflicts are ignored, and is else
\* moved to the hidden folder of the split of the newer version.
MergeNewer(e, x) ==
    /\ e.hash # x.hash
    /\ e.time > x.time
    /\ \/ /\ mode = "IgnoreConflicts" \/ e.split = x.ID
          /\ mergeIndex' = Insert(mergeIndex, AtPath(e))
          /\ UNCHANGED conflicts
       \/ /\ mode \in {"EnableConflicts", "EnableCheckpoints"} /\ e.split # x.ID
          /\ mergeIndex' = Insert(Insert(mergeIndex, deconflicter(e.split, x)), AtPath(e))
          /\ conflicts' = TRUE
    /\ UNCHANGED status

\* Mutant: an older version is ignored, also when conflicts are forbidden.
MergeOlderIgnores(e, x) ==
    /\ e.hash # x.hash
    /\ e.time <= x.time
    /\ UNCHANGED <<mergeIndex, conflicts, status>>

\* A version that is not more recent goes to the hidden folder of its split,
\* unless it is from the same split or conflicts are ignored.
MergeOlder(e, x) ==
    /\ e.hash # x.hash
    /\ e.time <= x.time
    /\ \/ /\ mode = "IgnoreConflicts" \/ e.split = x.ID
          /\ UNCHANGED <<mergeIndex, conflicts>>
       \/ /\ mode \in {"EnableConflicts", "EnableCheckpoints"} /\ e.split # x.ID
          /\ mergeIndex' = Insert(mergeIndex, deconflicter(e.split, AtPath(e)))
          /\ conflicts' = TRUE
    /\ UNCHANGED status

\* A conflict when conflicts are forbidden: the merger sends an error and ends.
MergeForbidden(e, x) ==
    /\ e.hash # x.hash
    /\ mode = "ForbidConflicts"
    /\ e.split # x.ID
    /\ conflicts' = TRUE
    /\ status' = "error"
    /\ UNCHANGED mergeIndex

\* The merger receives an entry.
Merge(e) ==
    /\ status = "merging"
    /\ Cardinality(received) < MaxEntries
    /\ received' = received \cup {e}
    /\ \/ MergeNew(e)
       \/ \E x \in Existing(e) : \/ MergeSame(e, x)
                                 \/ MergeNewer(e, x)
                                 \/ MergeOlder(e, x)
                                 \/ MergeForbidden(e, x)
    /\ UNCHANGED mode

\* The input is exhausted: the index is dumped to the packer.
Dump ==
    /\ status = "merging"
    /\ status' = "dumped"
    /\ UNCHANGED <<mode, received, mergeIndex, conflicts>>

Next == Dump \/ \E e \in Entry \ received : Merge(e)

Spec == Init /\ [][Next]_vars

-----------------------------------------------------------------------------
Conflict(e, f) == e.path = f.path /\ e.hash # f.hash /\ e.split # f.split

\* No split lists a path twice.
OncePerSplit == \A e, f \in received : e.split = f.split /\ e.path = f.path => e = f

\* The versions of the path of e, and whether e is the latest of them.
Versions(e) == {f \in received : f.path = e.path}
Latest(e) == \A f \in Versions(e) \ {e} : f.time < e.time

\* Discarded versions are kept: unless conflicts are ignored, every content
\* received for a path is in the bundle, at the path or in a hidden folder,
\* and no version displaces one that a hidden folder holds.
NothingLost ==
    mode \in {"EnableConflicts", "EnableCheckpoints"} /\ OncePerSplit =>
       \A e \in received :
          \E x \in mergeIndex : x.path = e.path /\ x.hash = e.hash

\* A commit that forbids conflicts fails if and only if distinct splits
\* uploaded different data at the same path, in whatever order they arrive.
ConflictDetected ==
    /\ status = "error" =>
          mode = "ForbidConflicts" /\ \E e, f \in received : Conflict(e, f)
    /\ status = "dumped" /\ mode = "ForbidConflicts" /\ OncePerSplit =>
          ~\E e, f \in received : Conflict(e, f)

\* When all the versions of a path differ, the latest is the one at the path,
\* in whatever order they arrive and however conflicts are handled.
LatestOfDistinctWins ==
    status = "dumped" =>
       \A e \in received :
          /\ Latest(e)
          /\ \A f, g \in Versions(e) : f.hash = g.hash => f = g
          => \E x \in mergeIndex :
                x.folder = NoSplit /\ x.path = e.path /\ x.hash = e.hash

\* The latest version of a path is the one at the path of the bundle.
LatestWins ==
    status = "dumped" /\ OncePerSplit =>
       \A e \in received : Latest(e) =>
          \E x \in mergeIndex :
             x.folder = NoSplit /\ x.path = e.path /\ x.hash = e.hash
=============================================================================
