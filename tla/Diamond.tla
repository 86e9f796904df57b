------------------------------ MODULE Diamond ------------------------------
(***************************************************************************)
(* The life of one diamond: a parallel upload in which several "split add" *)
(* runs each upload part of a bundle and a "commit" run merges the         *)
(* completed splits into one bundle (pkg/core/diamond*.go, split*.go,      *)
(* index*.go).                                                             *)
(*                                                                         *)
(* Runs share nothing but the metadata store, whose objects are written    *)
(* with storage.NoOverWrite.  A run may fail or crash between any two      *)
(* store operations, and is retried as a new run.  A write that the store  *)
(* applied may still be reported as failed: the reply is lost and the      *)
(* retry inside the storage layer meets the NoOverWrite precondition.  The *)
(* last write of a run states both outcomes; for the others the failure is *)
(* an Abort step that follows the write.                                   *)
(*                                                                         *)
(* Abstractions: an index file is the set of paths it lists, and which of  *)
(* several versions of a path wins is left to DiamondMerge; blobs are      *)
(* left to the content addressable store; each split has one contributor,  *)
(* named after the split.                                                  *)
(***************************************************************************)
EXTENDS Naturals, Sequences, FiniteSets

CONSTANTS
    Splits,               \* split IDs
    NoSplit,              \* the split of a run that has not started
    Files,                \* paths of the files to upload
    Bundles,              \* bundle IDs
    NoBundle,             \* the empty bundle ID
    Adders,               \* "split add" runs; a run's ID is its generation ID
    Committers,           \* "diamond commit" runs
    Cancelers,            \* "diamond cancel" runs
    EntriesPerFile,       \* entries in a full index file
    EnableBundlePreserve  \* build flag: a commit may be given its bundle ID

ASSUME SplitAssumption == NoSplit \notin Splits
ASSUME BundleAssumption == NoBundle \notin Bundles
ASSUME EntriesAssumption == EntriesPerFile \in Nat \ {0}

VARIABLES
    diamondRunning,  \* whether diamond-running.yaml exists
    diamondFinal,    \* contents of diamond-done.yaml: no or one descriptor
    splitRunning,    \* splits with a split-running.yaml
    splitDone,       \* contents of the split-done.yaml objects
    splitIndex,      \* generation |-> its index files
    bundleIndex,     \* bundle |-> its index files
    bundleDesc,      \* contents of the bundle.yaml objects
    addPc, addSplit, \* per "split add" run: where it is, the split it adds,
    input, addTodo,  \*   the files it was given, those not yet in an index file
    comPc, comBundle,\* per commit run: where it is, the bundle it creates,
    collected,       \*   the descriptors of the done splits it listed,
    unread,          \*   those whose index files it has not downloaded yet,
    comTodo, comCount,\*  the merged files not yet packed, index files written
    canPc            \* per cancel run: where it is

store == <<diamondRunning, diamondFinal, splitRunning, splitDone, splitIndex,
           bundleIndex, bundleDesc>>
addVars == <<addPc, addSplit, input, addTodo>>
comVars == <<comPc, comBundle, collected, unread, comTodo, comCount>>
vars == <<store, addVars, comVars, canPc>>

-----------------------------------------------------------------------------
SplitDescriptor == [split : Splits, gen : Adders, count : Nat]
BundleDescriptor == [bundle : Bundles, count : Nat, contributors : SUBSET Splits]
DiamondDescriptor == [state : {"done", "canceled"},
                      bundle : Bundles \cup {NoBundle},
                      splits : SUBSET Splits]

\* The files listed by the first n of a sequence of index files.
Listed(index, n) == UNION {index[i] : i \in 1 .. n}

\* The files a completed split, or a published bundle, is made of.
SplitContent(d) == Listed(splitIndex[d.gen], d.count)
BundleContent(d) == Listed(bundleIndex[d.bundle], d.count)

\* The next index file cut from the entries T left to pack: a full one, or
\* the last, partial one.
Chunks(T) == {C \in SUBSET T : /\ C # {}
                               /\ \/ Cardinality(C) = EntriesPerFile
                                  \/ C = T /\ Cardinality(T) < EntriesPerFile}

IsDone(s) == \E d \in splitDone : d.split = s
IsPublished(b) == \E d \in bundleDesc : d.bundle = b
SplitsOf(ds) == {d.split : d \in ds}

\* The diamond exists and is neither committed nor canceled.
diamondReady == diamondRunning /\ diamondFinal = {}

-----------------------------------------------------------------------------
Init ==
    /\ diamondRunning = FALSE
    /\ diamondFinal = {}
    /\ splitRunning = {}
    /\ splitDone = {}
    /\ splitIndex = [a \in Adders |-> <<>>]
    /\ bundleIndex = [b \in Bundles |-> <<>>]
    /\ bundleDesc = {}
    /\ addPc = [a \in Adders |-> "idle"]
    /\ addSplit = [a \in Adders |-> NoSplit]
    /\ input = [a \in Adders |-> {}]
    /\ addTodo = [a \in Adders |-> {}]
    /\ comPc = [c \in Committers |-> "idle"]
    /\ comBundle = [c \in Committers |-> NoBundle]
    /\ collected = [c \in Committers |-> {}]
    /\ unread = [c \in Committers |-> {}]
    /\ comTodo = [c \in Committers |-> {}]
    /\ comCount = [c \in Committers |-> 0]
    /\ canPc = [k \in Cancelers |-> "idle"]

\* "diamond initialize": creates the running descriptor.
CreateDiamond ==
    /\ ~diamondRunning
    /\ diamondRunning' = TRUE
    /\ UNCHANGED <<diamondFinal, splitRunning, splitDone, splitIndex,
                   bundleIndex, bundleDesc, addVars, comVars, canPc>>

-----------------------------------------------------------------------------
(***************************************************************************)
(* A "split add" run.                                                      *)
(***************************************************************************)

\* The run starts on split s with files F: the diamond must be ready.
StartSplit(a, s, F) ==
    /\ addPc[a] = "idle"
    /\ diamondReady
    /\ addPc' = [addPc EXCEPT ![a] = "create"]
    /\ addSplit' = [addSplit EXCEPT ![a] = s]
    /\ input' = [input EXCEPT ![a] = F]
    /\ addTodo' = [addTodo EXCEPT ![a] = F]
    /\ UNCHANGED <<store, comVars, canPc>>

\* A split that is already running may be run again, a done one may not.
CreateSplit(a) ==
    /\ addPc[a] = "create"
    /\ ~IsDone(addSplit[a])
    /\ \/ /\ addSplit[a] \in splitRunning
          /\ UNCHANGED splitRunning
       \/ /\ addSplit[a] \notin splitRunning
          /\ splitRunning' = splitRunning \cup {addSplit[a]}
    /\ addPc' = [addPc EXCEPT ![a] = "upload"]
    /\ UNCHANGED <<diamondRunning, diamondFinal, splitDone, splitIndex,
                   bundleIndex, bundleDesc, addSplit, input, addTodo,
                   comVars, canPc>>

\* An index file of the files uploaded so far is written in the directory of
\* the run's own generation.
PackSplit(a, C) ==
    /\ addPc[a] = "upload"
    /\ C \in Chunks(addTodo[a])
    /\ splitIndex' = [splitIndex EXCEPT ![a] = Append(@, C)]
    /\ addTodo' = [addTodo EXCEPT ![a] = @ \ C]
    /\ UNCHANGED <<diamondRunning, diamondFinal, splitRunning, splitDone,
                   bundleIndex, bundleDesc, addPc, addSplit, input, comVars,
                   canPc>>

\* Mutant: the split is done before its last index file is written.
FinishSplitEarly(a) ==
    /\ addPc[a] = "upload"
    /\ ~IsDone(addSplit[a])
    /\ splitDone' = splitDone \cup {[split |-> addSplit[a], gen |-> a,
                                     count |-> Len(splitIndex[a])]}
    /\ \E ack \in BOOLEAN :
          addPc' = [addPc EXCEPT ![a] = IF ack THEN "done" ELSE "failed"]
    /\ UNCHANGED <<diamondRunning, diamondFinal, splitRunning, splitIndex,
                   bundleIndex, bundleDesc, addSplit, input, addTodo,
                   comVars, canPc>>

\* Mutant: the final split descriptor overwrites one that exists.
FinishSplitOverwrite(a) ==
    /\ addPc[a] = "upload"
    /\ addTodo[a] = {}
    /\ splitDone' = splitDone \cup {[split |-> addSplit[a], gen |-> a,
                                     count |-> Len(splitIndex[a])]}
    /\ \E ack \in BOOLEAN :
          addPc' = [addPc EXCEPT ![a] = IF ack THEN "done" ELSE "failed"]
    /\ UNCHANGED <<diamondRunning, diamondFinal, splitRunning, splitIndex,
                   bundleIndex, bundleDesc, addSplit, input, addTodo,
                   comVars, canPc>>

\* All files are packed: the final split descriptor names the generation and
\* its number of index files.
FinishSplit(a) ==
    /\ addPc[a] = "upload"
    /\ addTodo[a] = {}
    /\ ~IsDone(addSplit[a])
    /\ splitDone' = splitDone \cup {[split |-> addSplit[a], gen |-> a,
                                     count |-> Len(splitIndex[a])]}
    /\ \E ack \in BOOLEAN :
          addPc' = [addPc EXCEPT ![a] = IF ack THEN "done" ELSE "failed"]
    /\ UNCHANGED <<diamondRunning, diamondFinal, splitRunning, splitIndex,
                   bundleIndex, bundleDesc, addSplit, input, addTodo,
                   comVars, canPc>>

\* The run crashes, a store operation fails, or a check turns it down.
AbortSplit(a) ==
    /\ addPc[a] \in {"create", "upload"}
    /\ addPc' = [addPc EXCEPT ![a] = "failed"]
    /\ addTodo' = [addTodo EXCEPT ![a] = {}]
    /\ UNCHANGED <<store, addSplit, input, comVars, canPc>>

-----------------------------------------------------------------------------
(***************************************************************************)
(* A "diamond commit" run.                                                 *)
(***************************************************************************)

\* A commit is given no bundle ID or, with the build flag, one that no
\* published bundle has; the diamond must be ready.
StartCommit(c, b) ==
    /\ comPc[c] = "idle"
    /\ b # NoBundle => EnableBundlePreserve /\ ~IsPublished(b)
    /\ diamondReady
    /\ comPc' = [comPc EXCEPT ![c] = "list"]
    /\ comBundle' = [comBundle EXCEPT ![c] = b]
    /\ UNCHANGED <<store, addVars, collected, unread, comTodo, comCount, canPc>>

\* The listing comes to a split that is done. Splits are listed page by page
\* while they are being completed, and a page that cannot be read ends the
\* listing without an error: any of the done splits may be missed.
ListSplit(c, d) ==
    /\ comPc[c] = "list"
    /\ d \in splitDone
    /\ collected' = [collected EXCEPT ![c] = @ \cup {d}]
    /\ UNCHANGED <<store, addVars, comPc, comBundle, unread, comTodo, comCount,
                   canPc>>

\* Mutant: a commit without done splits goes on.
CollectNone(c, b) ==
    /\ comPc[c] = "list"
    /\ IF comBundle[c] = NoBundle
         THEN b \in Bundles /\ \A x \in Committers : comBundle[x] # b
         ELSE b = comBundle[c]
    /\ comPc' = [comPc EXCEPT ![c] = "merge"]
    /\ comBundle' = [comBundle EXCEPT ![c] = b]
    /\ unread' = [unread EXCEPT ![c] = collected[c]]
    /\ UNCHANGED <<store, addVars, collected, comTodo, comCount, canPc>>

\* There must be a done split. The bundle gets a fresh ID unless it has one.
CollectSplits(c, b) ==
    /\ comPc[c] = "list"
    /\ collected[c] # {}
    /\ IF comBundle[c] = NoBundle
         THEN b \in Bundles /\ \A x \in Committers : comBundle[x] # b
         ELSE b = comBundle[c]
    /\ comPc' = [comPc EXCEPT ![c] = "merge"]
    /\ comBundle' = [comBundle EXCEPT ![c] = b]
    /\ unread' = [unread EXCEPT ![c] = collected[c]]
    /\ UNCHANGED <<store, addVars, collected, comTodo, comCount, canPc>>

\* The index files of a collected split are downloaded and merged.
DownloadSplit(c, d) ==
    /\ comPc[c] = "merge"
    /\ d \in unread[c]
    /\ d.count <= Len(splitIndex[d.gen])
    /\ unread' = [unread EXCEPT ![c] = @ \ {d}]
    /\ comTodo' = [comTodo EXCEPT ![c] = @ \cup SplitContent(d)]
    /\ UNCHANGED <<store, addVars, comPc, comBundle, collected,
                   comCount, canPc>>

\* A download fails: what was merged so far is still handed to the packer,
\* until the error reaches it.
FailDownload(c) ==
    /\ comPc[c] = "merge"
    /\ unread[c] # {}
    /\ comPc' = [comPc EXCEPT ![c] = "drain"]
    /\ UNCHANGED <<store, addVars, comBundle, collected, unread,
                   comTodo, comCount, canPc>>

\* An index file of the bundle is written. Another commit that was given the
\* same bundle ID may have written that index file already: no overwrite.
PackBundle(c, C) ==
    /\ \/ comPc[c] = "merge" /\ unread[c] = {}
       \/ comPc[c] = "drain"
    /\ C \in Chunks(comTodo[c])
    /\ Len(bundleIndex[comBundle[c]]) = comCount[c]
    /\ bundleIndex' = [bundleIndex EXCEPT ![comBundle[c]] = Append(@, C)]
    /\ comTodo' = [comTodo EXCEPT ![c] = @ \ C]
    /\ comCount' = [comCount EXCEPT ![c] = @ + 1]
    /\ UNCHANGED <<diamondRunning, diamondFinal, splitRunning, splitDone,
                   splitIndex, bundleDesc, addVars, comPc, comBundle, collected,
                   unread, canPc>>

\* Mutant: the packer takes a failed download for the end of its input.
PublishPartial(c) ==
    /\ comPc[c] \in {"merge", "drain"}
    /\ comTodo[c] = {}
    /\ ~IsPublished(comBundle[c])
    /\ bundleDesc' = bundleDesc \cup
          {[bundle |-> comBundle[c], count |-> comCount[c],
            contributors |-> SplitsOf(collected[c])]}
    /\ comPc' = [comPc EXCEPT ![c] = "published"]
    /\ UNCHANGED <<diamondRunning, diamondFinal, splitRunning, splitDone,
                   splitIndex, bundleIndex, addVars, comBundle, collected,
                   unread, comTodo, comCount, canPc>>

\* All merged files are packed: the bundle descriptor makes the bundle visible.
PublishBundle(c) ==
    /\ comPc[c] = "merge"
    /\ unread[c] = {}
    /\ comTodo[c] = {}
    /\ ~IsPublished(comBundle[c])
    /\ bundleDesc' = bundleDesc \cup
          {[bundle |-> comBundle[c], count |-> comCount[c],
            contributors |-> SplitsOf(collected[c])]}
    /\ comPc' = [comPc EXCEPT ![c] = "published"]
    /\ UNCHANGED <<diamondRunning, diamondFinal, splitRunning, splitDone,
                   splitIndex, bundleIndex, addVars, comBundle, collected,
                   unread, comTodo, comCount, canPc>>

\* Mutant: the diamond is marked done before the bundle is visible.
ConcludeEarly(c) ==
    /\ comPc[c] \in {"merge", "published"}
    /\ diamondFinal = {}
    /\ diamondFinal' = {[state |-> "done", bundle |-> comBundle[c],
                         splits |-> SplitsOf(collected[c])]}
    /\ \E ack \in BOOLEAN :
          comPc' = [comPc EXCEPT ![c] = IF ack THEN "committed" ELSE "failed"]
    /\ UNCHANGED <<diamondRunning, splitRunning, splitDone, splitIndex,
                   bundleIndex, bundleDesc, addVars, comBundle, collected,
                   unread, comTodo, comCount, canPc>>

\* The final diamond descriptor names the bundle and the splits in it.
ConcludeCommit(c) ==
    /\ comPc[c] = "published"
    /\ diamondFinal = {}
    /\ diamondFinal' = {[state |-> "done", bundle |-> comBundle[c],
                         splits |-> SplitsOf(collected[c])]}
    /\ \E ack \in BOOLEAN :
          comPc' = [comPc EXCEPT ![c] = IF ack THEN "committed" ELSE "failed"]
    /\ UNCHANGED <<diamondRunning, splitRunning, splitDone, splitIndex,
                   bundleIndex, bundleDesc, addVars, comBundle, collected,
                   unread, comTodo, comCount, canPc>>

\* The run crashes, a store operation fails, or a check turns it down.
AbortCommit(c) ==
    /\ comPc[c] \in {"list", "merge", "drain", "published"}
    /\ comPc' = [comPc EXCEPT ![c] = "failed"]
    /\ collected' = [collected EXCEPT ![c] = {}]
    /\ unread' = [unread EXCEPT ![c] = {}]
    /\ comTodo' = [comTodo EXCEPT ![c] = {}]
    /\ comCount' = [comCount EXCEPT ![c] = 0]
    /\ UNCHANGED <<store, addVars, comBundle, canPc>>

-----------------------------------------------------------------------------
(***************************************************************************)
(* A "diamond cancel" run: reads the state of the diamond, then writes the *)
(* final descriptor at the place a commit writes its own.                  *)
(***************************************************************************)
StartCancel(k) ==
    /\ canPc[k] = "idle"
    /\ diamondReady
    /\ canPc' = [canPc EXCEPT ![k] = "cancel"]
    /\ UNCHANGED <<store, addVars, comVars>>

\* Mutant: a cancel overwrites the descriptor of a commit.
FinishCancelOverwrite(k) ==
    /\ canPc[k] = "cancel"
    /\ diamondFinal' = {[state |-> "canceled", bundle |-> NoBundle, splits |-> {}]}
    /\ \E ack \in BOOLEAN :
          canPc' = [canPc EXCEPT ![k] = IF ack THEN "canceled" ELSE "failed"]
    /\ UNCHANGED <<diamondRunning, splitRunning, splitDone, splitIndex,
                   bundleIndex, bundleDesc, addVars, comVars>>

\* The cancel writes the final descriptor, unless a commit was faster.
FinishCancel(k) ==
    /\ canPc[k] = "cancel"
    /\ diamondFinal = {}
    /\ diamondFinal' = {[state |-> "canceled", bundle |-> NoBundle, splits |-> {}]}
    /\ \E ack \in BOOLEAN :
          canPc' = [canPc EXCEPT ![k] = IF ack THEN "canceled" ELSE "failed"]
    /\ UNCHANGED <<diamondRunning, splitRunning, splitDone, splitIndex,
                   bundleIndex, bundleDesc, addVars, comVars>>

AbortCancel(k) ==
    /\ canPc[k] = "cancel"
    /\ canPc' = [canPc EXCEPT ![k] = "failed"]
    /\ UNCHANGED <<store, addVars, comVars>>

-----------------------------------------------------------------------------
SplitStep(a) ==
    \/ \E s \in Splits, F \in SUBSET Files : StartSplit(a, s, F)
    \/ CreateSplit(a)
    \/ \E C \in SUBSET Files : PackSplit(a, C)
    \/ FinishSplit(a)
    \/ AbortSplit(a)

CommitStep(c) ==
    \/ \E b \in Bundles \cup {NoBundle} : StartCommit(c, b)
    \/ \E d \in splitDone \ collected[c] : ListSplit(c, d)
    \/ \E b \in Bundles : CollectSplits(c, b)
    \/ \E d \in unread[c] : DownloadSplit(c, d)
    \/ FailDownload(c)
    \/ \E C \in SUBSET Files : PackBundle(c, C)
    \/ PublishBundle(c)
    \/ ConcludeCommit(c)
    \/ AbortCommit(c)

CancelStep(k) ==
    \/ StartCancel(k)
    \/ FinishCancel(k)
    \/ AbortCancel(k)

Next ==
    \/ CreateDiamond
    \/ \E a \in Adders : SplitStep(a)
    \/ \E c \in Committers : CommitStep(c)
    \/ \E k \in Cancelers : CancelStep(k)

Spec == Init /\ [][Next]_vars

-----------------------------------------------------------------------------
(***************************************************************************)
(* Properties.                                                             *)
(***************************************************************************)

\* The metadata objects and the state of the runs have their types.
TypeOK ==
    /\ diamondRunning \in BOOLEAN
    /\ diamondFinal \in SUBSET DiamondDescriptor
    /\ splitRunning \in SUBSET Splits
    /\ splitDone \in SUBSET SplitDescriptor
    /\ splitIndex \in [Adders -> Seq(SUBSET Files)]
    /\ bundleIndex \in [Bundles -> Seq(SUBSET Files)]
    /\ bundleDesc \in SUBSET BundleDescriptor
    /\ addPc \in [Adders -> {"idle", "create", "upload", "done", "failed"}]
    /\ addSplit \in [Adders -> Splits \cup {NoSplit}]
    /\ input \in [Adders -> SUBSET Files]
    /\ addTodo \in [Adders -> SUBSET Files]
    /\ comPc \in [Committers -> {"idle", "list", "merge", "drain", "published",
                                 "committed", "failed"}]
    /\ comBundle \in [Committers -> Bundles \cup {NoBundle}]
    /\ collected \in [Committers -> SUBSET SplitDescriptor]
    /\ unread \in [Committers -> SUBSET SplitDescriptor]
    /\ comTodo \in [Committers -> SUBSET Files]
    /\ comCount \in [Committers -> Nat]
    /\ canPc \in [Cancelers -> {"idle", "cancel", "canceled", "failed"}]

\* A split that is done lists, in the index files of the generation its
\* descriptor names, exactly the files given to the run that completed it,
\* however many runs of that split were started, restarted or lost.
SplitComplete ==
    \A d \in splitDone : SplitContent(d) = input[d.gen]

\* A bundle that is visible lists exactly the files of the done splits that
\* contribute to it: no failed download, crash, or concurrent commit with the
\* same bundle ID leaves a partial or a mixed bundle behind a descriptor.
BundleComplete ==
    \A d \in bundleDesc :
       BundleContent(d) =
          UNION {SplitContent(e) : e \in {x \in splitDone : x.split \in d.contributors}}

\* A diamond that is done names a published bundle made of the very splits
\* its descriptor records, all of them done.
DoneIsReadable ==
    \A f \in diamondFinal : f.state = "done" =>
       /\ f.splits \subseteq SplitsOf(splitDone)
       /\ \E d \in bundleDesc : d.bundle = f.bundle /\ d.contributors = f.splits

\* Of all the commit and cancel runs of a diamond at most one succeeds, and
\* what it reported is what the final descriptor says.
OneConclusion ==
    /\ Cardinality({c \in Committers : comPc[c] = "committed"})
         + Cardinality({k \in Cancelers : canPc[k] = "canceled"}) <= 1
    /\ \A c \in Committers : comPc[c] = "committed" =>
          diamondFinal = {[state |-> "done", bundle |-> comBundle[c],
                           splits |-> SplitsOf(collected[c])]}
    /\ \A k \in Cancelers : canPc[k] = "canceled" =>
          diamondFinal = {[state |-> "canceled", bundle |-> NoBundle, splits |-> {}]}

\* The step removes or changes no metadata object that was written, nor what
\* a done split or a published bundle reads as.
KeepsObjects ==
    /\ diamondRunning => diamondRunning'
    /\ diamondFinal # {} => diamondFinal' = diamondFinal
    /\ \A d \in splitDone :
          /\ {e \in splitDone' : e.split = d.split} = {d}
          /\ SplitContent(d)' = SplitContent(d)
    /\ \A d \in bundleDesc :
          /\ {e \in bundleDesc' : e.bundle = d.bundle} = {d}
          /\ BundleContent(d)' = BundleContent(d)

\* No step of any run removes or changes a metadata object that was written,
\* and none changes what a done split or a published bundle reads as.
NothingOverwritten == [][KeepsObjects]_vars

-----------------------------------------------------------------------------
(***************************************************************************)
(* The inductive invariant behind the properties above.                    *)
(***************************************************************************)

\* What the splits in ds are made of.
ContentOf(ds) == UNION {SplitContent(d) : d \in ds}

\* What a split run has listed and what it has left make up its input.
AddInv ==
    \A a \in Adders :
       /\ addPc[a] \in {"idle", "create"} => splitIndex[a] = <<>>
       /\ addPc[a] = "create" => addTodo[a] = input[a] /\ addSplit[a] \in Splits
       /\ addPc[a] = "upload" =>
             /\ Listed(splitIndex[a], Len(splitIndex[a])) \cup addTodo[a] = input[a]
             /\ addSplit[a] \in Splits

\* A done split belongs to a run that has ended, and is done once.
DoneInv ==
    /\ \A d \in splitDone : /\ addPc[d.gen] \in {"done", "failed"}
                            /\ d.count = Len(splitIndex[d.gen])
    /\ \A d, e \in splitDone : d.split = e.split => d = e

\* A commit works on descriptors of done splits; what it has packed and what
\* it has left make up the splits it has downloaded.
ComOK(c) ==
    /\ collected[c] \subseteq splitDone
    /\ unread[c] \subseteq collected[c]
    /\ comPc[c] = "idle" => collected[c] = {}
    /\ comPc[c] \in {"idle", "list"} => comTodo[c] = {} /\ comCount[c] = 0
    /\ comPc[c] \in {"merge", "drain", "published", "committed"} =>
          comBundle[c] \in Bundles
    /\ comPc[c] \in {"merge", "drain"} =>
          /\ comCount[c] > 0 => Len(bundleIndex[comBundle[c]]) = comCount[c]
          /\ Listed(bundleIndex[comBundle[c]], comCount[c]) \cup comTodo[c]
               = ContentOf(collected[c] \ unread[c])
    /\ comPc[c] = "merge" /\ unread[c] # {} => comCount[c] = 0
    /\ comPc[c] \in {"published", "committed"} =>
          \E d \in bundleDesc : /\ d.bundle = comBundle[c]
                                /\ d.contributors = SplitsOf(collected[c])

ComInv == \A c \in Committers : ComOK(c)

\* Of the commits with the same bundle ID only one writes index files.
OneWriter ==
    \A c, x \in Committers :
       /\ c # x
       /\ comPc[c] \in {"merge", "drain"}
       /\ comPc[x] \in {"merge", "drain"}
       /\ comBundle[c] = comBundle[x]
       => comCount[c] = 0 \/ comCount[x] = 0

\* A bundle descriptor names index files that exist and splits that are done.
PublishedInv ==
    /\ \A d \in bundleDesc : /\ d.count <= Len(bundleIndex[d.bundle])
                             /\ d.contributors \subseteq SplitsOf(splitDone)
    /\ \A d, e \in bundleDesc : d.bundle = e.bundle => d = e

IndInv ==
    /\ TypeOK
    /\ AddInv
    /\ DoneInv
    /\ SplitComplete
    /\ ComInv
    /\ OneWriter
    /\ PublishedInv
    /\ BundleComplete
    /\ DoneIsReadable
=============================================================================
