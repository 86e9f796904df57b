--------------------------- MODULE DiamondPipeline ---------------------------
(***************************************************************************)
(* The goroutines of a diamond commit between the splits that were         *)
(* collected and the descriptor of the bundle (implCommit and mergeSplits  *)
(* in pkg/core/diamond_commit.go, unpack and pack in index.go, the         *)
(* iterators in index_iterators.go):                                       *)
(*                                                                         *)
(*   downloadAll -> unpack -> output -> merger -> filePackedC -> pack      *)
(*                     \_______________ errorC _______________/            *)
(*                                                                         *)
(* downloadAll starts a goroutine per index file, unpack routes what they  *)
(* read to the merger of DiamondMerge, and pack writes the merged index to *)
(* the file lists of the bundle.  errorC has no buffer and pack receives   *)
(* from it once.  The channel to the merger holds 100,000 index files      *)
(* (bufferingFactor * defaultBundleEntriesPerFile) and is unbounded here.  *)
(***************************************************************************)
EXTENDS DiamondMerge, Sequences, SequencesExt, FiniteSetsExt

CONSTANTS
    Inputs,             \* the splits to commit: sequences of [id, lists]
    Concurrency,        \* concurrency: index files downloaded at a time
    Capacity,           \* capacity of filePackedC
    EntriesPerFile,     \* entriesPerFile
    MaxFaults           \* bound on store calls that fail

ASSUME PipelineAssumption ==
    /\ Concurrency \in Nat \ {0} /\ EntriesPerFile \in Nat \ {0}
    /\ Capacity \in Nat \ {0} /\ MaxFaults \in Nat

VARIABLES
    splits,         \* DiamondDescriptor.Splits, with their index files
    iter,           \* [split, list]: the iterators of downloadAll
    tasks,          \* downloadIndex goroutines: [split, list, st]
    unpacked,       \* unpack: "run", or how it ended
    output,         \* index files on their way to the merger
    batch,          \* what is left of the index file the merger is at
    interrupt,      \* the signal to the merger
    dump,           \* what the merger still has to send
    merger,         \* "run", "end"
    mergeSplits,    \* "download", "error", "wait", "end"
    filePackedC,    \* merged entries on their way to pack
    closed,         \* filePackedC has been closed
    pack,           \* [pc, fileList]
    bundle,         \* the file lists of the bundle
    commit,         \* implCommit: "pack", "descriptor", "failing", then its result
    faults          \* store calls that failed

mergeVars == <<received, mergeIndex, conflicts, status>>
downVars == <<iter, tasks, unpacked, output>>
packVars == <<pack, bundle, commit>>
pipeVars == <<mode, mergeVars, splits, downVars, batch, interrupt, dump, merger,
              mergeSplits, filePackedC, closed, packVars, faults>>

\* What a store call may do to a run.
Fails == faults < MaxFaults /\ faults' = faults + 1
Works == UNCHANGED faults
-----------------------------------------------------------------------------
(* downloadAll and unpack                                                  *)

\* downloadIndexIterator: the next index file of the split the outer iterator
\* is at.
NextList == iter.split > 0 /\ iter.list < Len(splits[iter.split].lists)

\* downloadAllSplitsIterator: the next split.
NextSplit == ~NextList /\ iter.split < Len(splits)

\* downloadAll: a goroutine per index file, throttled.
DownloadAll ==
    /\ unpacked = "run"
    /\ \/ /\ NextList /\ Cardinality(tasks) < Concurrency
          /\ tasks' = tasks \cup {[split |-> iter.split, list |-> iter.list + 1, st |-> "get"]}
          /\ iter' = [iter EXCEPT !.list = @ + 1]
       \/ /\ NextSplit
          /\ iter' = [split |-> iter.split + 1, list |-> 0]
          /\ UNCHANGED tasks
    /\ UNCHANGED <<mode, mergeVars, splits, unpacked, output, batch, interrupt, dump, merger,
                   mergeSplits, filePackedC, closed, packVars, faults>>

\* downloadIndex reads one index file, then waits for unpack with it.
DownloadIndex(t) ==
    /\ unpacked = "run" /\ t.st = "get"
    /\ \/ Works /\ tasks' = (tasks \ {t}) \cup {[t EXCEPT !.st = "got"]}
       \/ Fails /\ tasks' = (tasks \ {t}) \cup {[t EXCEPT !.st = "failed"]}
    /\ UNCHANGED <<mode, mergeVars, splits, iter, unpacked, output, batch, interrupt, dump,
                   merger, mergeSplits, filePackedC, closed, packVars>>

\* unpack routes an index file to the merger, returns the first error, or is
\* done; in the end output is closed.
Unpack ==
    /\ unpacked = "run"
    /\ \/ \E t \in tasks :
             /\ t.st # "get"
             /\ tasks' = tasks \ {t}
             /\ IF t.st = "got"
                THEN output' = Append(output, splits[t.split].lists[t.list]) /\ UNCHANGED unpacked
                ELSE unpacked' = "error" /\ UNCHANGED output
       \/ /\ ~NextList /\ ~NextSplit /\ tasks = {}
          /\ unpacked' = "ok"
          /\ UNCHANGED <<tasks, output>>
    /\ UNCHANGED <<mode, mergeVars, splits, iter, batch, interrupt, dump, merger,
                   mergeSplits, filePackedC, closed, packVars, faults>>
-----------------------------------------------------------------------------
(* The merger, and mergeSplits which waits for it                          *)

TakeBatch ==
    /\ merger = "run" /\ status = "merging" /\ batch = <<>> /\ output # <<>>
    /\ batch' = Head(output) /\ output' = Tail(output)
    /\ UNCHANGED <<mode, mergeVars, splits, iter, tasks, unpacked, interrupt, dump, merger,
                   mergeSplits, filePackedC, closed, packVars, faults>>

\* An interrupt is looked for before every entry.
MergeNext ==
    /\ merger = "run" /\ status = "merging" /\ batch # <<>>
    /\ IF interrupt
       THEN merger' = "end" /\ UNCHANGED <<mode, mergeVars, batch>>
       ELSE Merge(Head(batch)) /\ batch' = Tail(batch) /\ UNCHANGED merger
    /\ UNCHANGED <<splits, downVars, interrupt, dump, mergeSplits, filePackedC, closed,
                   packVars, faults>>

\* The input is closed: also after a failed download, if that comes before the
\* interrupt is seen.
StartDump ==
    /\ merger = "run" /\ batch = <<>> /\ output = <<>> /\ unpacked # "run"
    /\ Dump
    /\ dump' = SetToSeq(mergeIndex)
    /\ UNCHANGED <<splits, downVars, batch, interrupt, merger, mergeSplits, filePackedC,
                   closed, packVars, faults>>

\* output <- mergeEntryToFilePacked(existing), which blocks on a full channel.
SendMerged ==
    /\ merger = "run" /\ status = "dumped"
    /\ \/ /\ dump # <<>> /\ Len(filePackedC) < Capacity
          /\ filePackedC' = Append(filePackedC, Head(dump))
          /\ dump' = Tail(dump)
          /\ UNCHANGED merger
       \/ /\ dump = <<>>
          /\ merger' = "end"
          /\ UNCHANGED <<filePackedC, dump>>
    /\ UNCHANGED <<mode, mergeVars, splits, downVars, batch, interrupt, mergeSplits, closed,
                   packVars, faults>>

\* Mutant: nobody is told of a failed download.
DownloadedQuietly ==
    /\ mergeSplits = "download" /\ unpacked # "run"
    /\ mergeSplits' = "wait"
    /\ interrupt' = (unpacked = "error")
    /\ UNCHANGED <<mode, mergeVars, splits, downVars, batch, dump, merger, filePackedC,
                   closed, packVars, faults>>

\* Download has returned.  After an error the merger is interrupted, and the
\* error is to be sent before anything else.
Downloaded ==
    /\ mergeSplits = "download" /\ unpacked # "run"
    /\ mergeSplits' = IF unpacked = "ok" THEN "wait" ELSE "error"
    /\ interrupt' = (unpacked = "error")
    /\ UNCHANGED <<mode, mergeVars, splits, downVars, batch, dump, merger, filePackedC,
                   closed, packVars, faults>>

\* wg.Wait: filePackedC is closed unless there was an error.
MergeSplitsEnd ==
    /\ mergeSplits = "wait" /\ merger = "end"
    /\ mergeSplits' = "end"
    /\ closed' = (unpacked = "ok")
    /\ UNCHANGED <<mode, mergeVars, splits, downVars, batch, interrupt, dump, merger,
                   filePackedC, packVars, faults>>
-----------------------------------------------------------------------------
(* pack, and implCommit which calls it                                     *)

\* uploadIndex: the file list is written, or pack fails.
UploadIndex(fileList, pc) ==
    \/ /\ Works
       /\ bundle' = Append(bundle, fileList)
       /\ pack' = [pc |-> pc, fileList |-> <<>>]
       /\ UNCHANGED commit
    \/ /\ Fails
       /\ pack' = [pc |-> "end", fileList |-> <<>>]
       /\ commit' = "failing"
       /\ UNCHANGED bundle

PackFile ==
    LET fileList == Append(pack.fileList, Head(filePackedC)) IN
    /\ pack.pc = "run" /\ filePackedC # <<>>
    /\ filePackedC' = Tail(filePackedC)
    /\ IF Len(fileList) = EntriesPerFile THEN UploadIndex(fileList, "run")
       ELSE pack' = [pack EXCEPT !.fileList = fileList] /\ UNCHANGED <<bundle, commit, faults>>
    /\ UNCHANGED <<mode, mergeVars, splits, downVars, batch, interrupt, dump, merger,
                   mergeSplits, closed>>

\* case e := <-errorC: from the merger that met a forbidden conflict, or from
\* mergeSplits.
PackError ==
    /\ pack.pc = "run"
    /\ \/ /\ status = "error" /\ merger = "run"
          /\ merger' = "end" /\ UNCHANGED mergeSplits
       \/ /\ mergeSplits = "error"
          /\ mergeSplits' = "wait" /\ UNCHANGED merger
    /\ pack' = [pack EXCEPT !.pc = "end"]
    /\ commit' = "failing"
    /\ UNCHANGED <<mode, mergeVars, splits, downVars, batch, interrupt, dump, filePackedC,
                   closed, bundle, faults>>

\* Mutant: the end of the merger is taken for the end of its output.
PackClosedEarly ==
    /\ pack.pc = "run" /\ merger = "end" /\ status = "dumped" /\ unpacked = "ok"
    /\ pack' = [pack EXCEPT !.pc = "last"]
    /\ UNCHANGED <<mode, mergeVars, splits, downVars, batch, interrupt, dump, merger,
                   mergeSplits, filePackedC, closed, bundle, commit, faults>>

\* The channel is closed and drained.
PackClosed ==
    /\ pack.pc = "run" /\ closed /\ filePackedC = <<>>
    /\ pack' = [pack EXCEPT !.pc = "last"]
    /\ UNCHANGED <<mode, mergeVars, splits, downVars, batch, interrupt, dump, merger,
                   mergeSplits, filePackedC, closed, bundle, commit, faults>>

PackLast ==
    /\ pack.pc = "last"
    /\ IF pack.fileList # <<>> THEN UploadIndex(pack.fileList, "last")
       ELSE /\ pack' = [pack EXCEPT !.pc = "end"] /\ commit' = "descriptor"
            /\ UNCHANGED <<bundle, faults>>
    /\ UNCHANGED <<mode, mergeVars, splits, downVars, batch, interrupt, dump, merger,
                   mergeSplits, filePackedC, closed>>

\* The descriptor of the bundle, then defer wg.Wait().
ImplCommit ==
    /\ \/ /\ commit = "descriptor"
          /\ \/ Works /\ commit' = "done"
             \/ Fails /\ commit' = "failing"
       \/ /\ commit \in {"done", "failing"} /\ mergeSplits = "end"
          /\ Works
          /\ commit' = IF commit = "done" THEN "ok" ELSE "error"
    /\ UNCHANGED <<mode, mergeVars, splits, downVars, batch, interrupt, dump, merger,
                   mergeSplits, filePackedC, closed, pack, bundle>>
-----------------------------------------------------------------------------
PipeInit ==
    /\ Init
    /\ splits \in Inputs
    /\ iter = [split |-> 0, list |-> 0] /\ tasks = {} /\ unpacked = "run" /\ output = <<>>
    /\ batch = <<>> /\ interrupt = FALSE /\ dump = <<>> /\ merger = "run"
    /\ mergeSplits = "download" /\ filePackedC = <<>> /\ closed = FALSE
    /\ pack = [pc |-> "run", fileList |-> <<>>] /\ bundle = <<>>
    /\ commit = "pack" /\ faults = 0

PipeNext ==
    \/ DownloadAll \/ (\E t \in tasks : DownloadIndex(t)) \/ Unpack
    \/ TakeBatch \/ MergeNext \/ StartDump \/ SendMerged \/ Downloaded \/ MergeSplitsEnd
    \/ PackFile \/ PackError \/ PackClosed \/ PackLast \/ ImplCommit

\* Every goroutine that can go on does so in the end.
PipeSpec == PipeInit /\ [][PipeNext]_pipeVars /\ WF_pipeVars(PipeNext)
-----------------------------------------------------------------------------
(* Properties                                                              *)

\* The entries of all the index files of all the splits.
Committed == UNION {UNION {Range(splits[i].lists[k]) : k \in DOMAIN splits[i].lists} :
                       i \in DOMAIN splits}

\* A commit that succeeds has merged every entry of every index file of its
\* splits, and the file lists of the bundle hold each merged entry once, full
\* but for the last: whichever of a failing download, the end of the input, the
\* interrupt of the merger and the close of its output comes first.
CommitWhole ==
    commit = "ok" =>
        /\ received = Committed
        /\ UNION {Range(bundle[i]) : i \in DOMAIN bundle} = mergeIndex
        /\ FoldLeft(LAMBDA n, l : n + Len(l), 0, bundle) = Cardinality(mergeIndex)
        /\ \A i \in DOMAIN bundle : i < Len(bundle) => Len(bundle[i]) = EntriesPerFile

\* A commit that ended before its goroutines were done with errorC, or with
\* more to send than filePackedC takes, leaves them blocked, and waits for them.
Stuck ==
    \/ faults + (IF status = "error" THEN 1 ELSE 0) > 1
    \/ Cardinality(mergeIndex) > Capacity /\ commit = "failing"

\* The commit of a diamond returns, with success or with an error, when at most
\* one thing goes wrong (a store call or a forbidden conflict) and, if that is
\* an upload of pack, when the merged index fits in the channel.
PipelineEnds == commit \notin {"ok", "error"} ~> (commit \in {"ok", "error"} \/ Stuck)
=============================================================================
