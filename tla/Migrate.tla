------------------------------ MODULE Migrate -------------------------------
(***************************************************************************)
(* The migration tool (cmd/backup2blobs/cmd): "generate" walks a directory *)
(* with a pool of goroutines and writes the list of its files,             *)
(* "upload2blob" puts the listed files into the blob store and an entry    *)
(* for each into a backup store, "filelist-actions" removes the old ones   *)
(* among the files, and "blob2file" restores files from their entries.     *)
(* Here the four commands run one after the other on the same list.        *)
(*                                                                         *)
(* The name of a file stands for its content; CafsWriter and CafsReader    *)
(* are about what becomes of that.                                         *)
(***************************************************************************)
EXTENDS Integers, Sequences, SequencesExt, FiniteSets, FiniteSetsExt, Functions

CONSTANTS
    Trees,          \* what there may be: dir -> [dirs |-> subdirectories, files |-> files]
    TopDir,         \* the directory that is walked
    Settings,       \* flags: [dirRoutines, maxC, workers, start]
    Included,       \* files with the prefix of blob2file
    OldFiles,       \* files the filter of filelist-actions lets through
    ToolFaults      \* bound: calls that fail

VARIABLES
    stage,      \* the command that runs, "off", "end" or "panic"
    tree, flags,
    walk,       \* generate: its tasks, its channels and the collected files
    walker,     \* w -> a processDir goroutine
    fileList,   \* the list that generate wrote
    pool,       \* w -> an UploadToBlob or downloadFromBlob goroutine
    lines,      \* what publishFiles has not handed out
    acting,     \* file -> where it is in filelist-actions
    backup,     \* files with an entry in the backup store
    restored,   \* files in the destination
    counted,    \* stage -> errors that were counted
    skipped,    \* stage -> files that were left out without being counted
    misses      \* calls that failed

toolVars == <<stage, tree, flags, walk, walker, fileList, pool, lines, acting, backup,
              restored, counted, skipped, misses>>
walkVars == <<walk, walker, fileList>>
poolVars == <<pool, lines, backup, restored, counted, skipped>>

Misses == misses < ToolFaults /\ misses' = misses + 1
-----------------------------------------------------------------------------
(* generate                                                                *)

NewTask(dirs, parent) == [dirs |-> dirs, ops |-> 0, children |-> 0, parent |-> parent, signal |-> 0]

NewWalk == [tasks |-> <<NewTask(<<TopDir>>, 0)>>, dirChannel |-> <<1>>, closed |-> FALSE, files |-> {}]

IdleWalker == [pc |-> "idle", task |-> 0, i |-> 1, subs |-> <<>>, triggered |-> FALSE]

\* task.done, and childDone of its ancestors: a task whose directories have all
\* been read and that has no child left tells its parent and is signalled.
RECURSIVE TaskDone(_, _)
TaskDone(tasks, t) ==
    LET k == tasks[t]
        up == IF k.parent = 0 THEN tasks
              ELSE TaskDone([tasks EXCEPT ![k.parent].children = @ - 1], k.parent) IN
    IF k.ops = Len(k.dirs) /\ k.children = 0 THEN [up EXCEPT ![t].signal = @ + 1] ELSE tasks

\* Unlocking signal twice ends the program.
Fatal(tasks) == \E t \in DOMAIN tasks : tasks[t].signal > 1

\* The directory a goroutine is at.
At(w) == tree[walk.tasks[walker[w].task].dirs[walker[w].i]]

TakeTask(w) ==
    /\ stage = "generate" /\ walker[w].pc = "idle" /\ walk.dirChannel # <<>>
    /\ walker' = [walker EXCEPT ![w] = [IdleWalker EXCEPT !.pc = "read", !.task = Head(walk.dirChannel)]]
    /\ walk' = [walk EXCEPT !.dirChannel = Tail(@)]
    /\ UNCHANGED <<stage, tree, flags, fileList, poolVars, acting, misses>>

\* ReadDirents, counted at once; an error is logged and the directory is left out.
ReadDirents(w) ==
    /\ stage = "generate" /\ walker[w].pc = "read"
    /\ walker[w].i <= Len(walk.tasks[walker[w].task].dirs)
    /\ walk' = [walk EXCEPT !.tasks[walker[w].task].ops = @ + 1]
    /\ \/ walker' = [walker EXCEPT ![w].pc = "files"] /\ UNCHANGED <<skipped, misses>>
       \/ /\ Misses
          /\ walker' = [walker EXCEPT ![w].i = @ + 1]
          /\ skipped' = [skipped EXCEPT !.generate = @ + 1]
    /\ UNCHANGED <<stage, tree, flags, fileList, pool, lines, backup, restored, counted, acting>>

\* The files go to processFiles; a send on a closed channel panics.
SendFiles(w) ==
    /\ stage = "generate" /\ walker[w].pc = "files"
    /\ IF walk.closed /\ At(w).files # {}
       THEN stage' = "panic" /\ UNCHANGED <<walk, walker>>
       ELSE /\ walk' = [walk EXCEPT !.files = @ \cup At(w).files]
            /\ walker' = [walker EXCEPT ![w].pc = "split"]
            /\ UNCHANGED stage
    /\ UNCHANGED <<tree, flags, fileList, poolVars, acting, misses>>

\* The subdirectories are dealt out to at most dirRoutines tasks.
Batches(dirs) ==
    LET n == Min({Len(dirs), flags.dirRoutines}) IN
    [i \in 1..n |-> LET m == (Len(dirs) - i) \div n IN [k \in 1..m + 1 |-> dirs[i + (k - 1) * n]]]

\* Mutant: a task does not count its children.
SplitDirsUncounted(w) ==
    /\ stage = "generate" /\ walker[w].pc = "split"
    /\ LET subs == IF At(w).dirs = <<>> THEN <<>> ELSE Batches(At(w).dirs) IN
       walker' = [walker EXCEPT ![w].pc = "send", ![w].subs = subs,
                                ![w].triggered = @ \/ subs # <<>>]
    /\ UNCHANGED <<stage, tree, flags, walk, fileList, poolVars, acting, misses>>

\* incChildTasks comes before the tasks can run.
SplitDirs(w) ==
    /\ stage = "generate" /\ walker[w].pc = "split"
    /\ LET subs == IF At(w).dirs = <<>> THEN <<>> ELSE Batches(At(w).dirs) IN
       /\ walker' = [walker EXCEPT ![w].pc = "send", ![w].subs = subs,
                                   ![w].triggered = @ \/ subs # <<>>]
       /\ walk' = [walk EXCEPT !.tasks[walker[w].task].children = @ + Len(subs)]
    /\ UNCHANGED <<stage, tree, flags, fileList, poolVars, acting, misses>>

SendTask(w) ==
    LET k == walker[w] IN
    /\ stage = "generate" /\ k.pc = "send"
    /\ \/ /\ k.subs = <<>>
          /\ walker' = [walker EXCEPT ![w].pc = "read", ![w].i = @ + 1]
          /\ UNCHANGED <<stage, walk>>
       \/ /\ k.subs # <<>> /\ walk.closed
          /\ stage' = "panic"
          /\ UNCHANGED <<walk, walker>>
       \/ /\ k.subs # <<>> /\ ~walk.closed
          /\ walk' = [walk EXCEPT !.tasks = Append(@, NewTask(Head(k.subs), k.task)),
                                  !.dirChannel = Append(@, Len(walk.tasks) + 1)]
          /\ walker' = [walker EXCEPT ![w].subs = Tail(@)]
          /\ UNCHANGED stage
    /\ UNCHANGED <<tree, flags, fileList, poolVars, acting, misses>>

\* A task that has children is finished by the last of them.
EndTask(w) ==
    LET k == walker[w]
        tasks == IF k.triggered THEN walk.tasks ELSE TaskDone(walk.tasks, k.task) IN
    /\ stage = "generate" /\ k.pc = "read" /\ k.i > Len(walk.tasks[k.task].dirs)
    /\ walk' = [walk EXCEPT !.tasks = tasks]
    /\ walker' = [walker EXCEPT ![w] = IdleWalker]
    /\ stage' = IF Fatal(tasks) THEN "panic" ELSE stage
    /\ UNCHANGED <<tree, flags, fileList, poolVars, acting, misses>>

\* walkDirConcurrently has waited for the task of the root.
CloseWalk ==
    /\ stage = "generate" /\ ~walk.closed /\ walk.tasks[1].signal = 1
    /\ walk' = [walk EXCEPT !.closed = TRUE, !.tasks[1].signal = 0]
    /\ UNCHANGED <<stage, tree, flags, walker, fileList, poolVars, acting, misses>>
-----------------------------------------------------------------------------
(* upload2blob and blob2file                                               *)

Waiting == [pc |-> "idle", file |-> 0]

FromLine(list, n) == IF n > Len(list) THEN <<>> ELSE SubSeq(list, n, Len(list))

\* publishFiles opens the list, goes to the line to start from, and hands out
\* the others; if it cannot, it says so in the log.
Publish(next, list) ==
    LET from == FromLine(list, flags.start + 1) IN
    /\ stage' = next
    /\ pool' = [w \in 1..flags.maxC - 1 |-> Waiting]
    /\ \/ lines' = from /\ UNCHANGED <<skipped, misses>>
       \/ Misses /\ lines' = <<>> /\ skipped' = [skipped EXCEPT ![next] = @ + Len(from)]

\* processFiles writes what was collected, in order.
ProcessFiles ==
    LET list == SetToSortSeq(walk.files, LAMBDA a, b : a < b) IN
    /\ stage = "generate" /\ walk.closed
    /\ fileList' = list
    /\ walk' = NewWalk
    /\ walker' = [w \in DOMAIN walker |-> IdleWalker]
    /\ Publish("upload", list)
    /\ UNCHANGED <<tree, flags, acting, backup, restored, counted>>

TakeLine(w) ==
    /\ stage \in {"upload", "restore"} /\ pool[w].pc = "idle" /\ lines # <<>>
    /\ lines' = Tail(lines)
    /\ pool' = [pool EXCEPT ![w] =
           IF stage = "upload" THEN [pc |-> "source", file |-> Head(lines)]
           ELSE IF Head(lines) \in Included THEN [pc |-> "entry", file |-> Head(lines)]
           ELSE Waiting]
    /\ UNCHANGED <<stage, tree, flags, walkVars, acting, backup, restored, counted, skipped, misses>>

\* The goroutine goes on with pc, or drops the file and its error is counted.
GoesOn(w, pc) ==
    /\ pool' = [pool EXCEPT ![w] = IF pc = "idle" THEN Waiting ELSE [@ EXCEPT !.pc = pc]]
    /\ UNCHANGED <<stage, tree, flags, walkVars, lines, acting>>
Counts == counted' = [counted EXCEPT ![stage] = @ + 1]

\* UploadToBlob: the source is read, the blob is put, the entry is put.
UploadToBlob(w) ==
    /\ stage = "upload" /\ pool[w].pc # "idle"
    /\ UNCHANGED <<restored, skipped>>
    /\ \/ /\ pool[w].pc # "backup"
          /\ GoesOn(w, IF pool[w].pc = "source" THEN "cafs" ELSE "backup")
          /\ UNCHANGED <<backup, counted, misses>>
       \/ /\ pool[w].pc = "backup"
          /\ GoesOn(w, "idle")
          /\ backup' = backup \cup {pool[w].file}
          /\ UNCHANGED <<counted, misses>>
       \/ Misses /\ GoesOn(w, "idle") /\ Counts /\ UNCHANGED backup

\* downloadFromBlob: the entry is fetched and read, the blob is opened and
\* copied.  An entry that cannot be read is not counted.
DownloadFromBlob(w) ==
    LET pc == pool[w].pc
        next == CASE pc = "entry" -> "read" [] pc = "read" -> "cafs" [] OTHER -> "dest" IN
    /\ stage = "restore" /\ pc # "idle"
    /\ UNCHANGED backup
    /\ \/ /\ pc = "entry" /\ pool[w].file \notin backup
          /\ GoesOn(w, "idle") /\ Counts
          /\ UNCHANGED <<restored, skipped, misses>>
       \/ /\ pc # "entry" \/ pool[w].file \in backup
          /\ GoesOn(w, IF pc = "dest" THEN "idle" ELSE next)
          /\ restored' = IF pc = "dest" THEN restored \cup {pool[w].file} ELSE restored
          /\ UNCHANGED <<counted, skipped, misses>>
       \/ /\ Misses
          /\ GoesOn(w, "idle")
          /\ IF pc = "read" THEN skipped' = [skipped EXCEPT !.restore = @ + 1] /\ UNCHANGED counted
             ELSE Counts /\ UNCHANGED skipped
          /\ UNCHANGED restored

\* wg.Wait: maxC goroutines, of which publishFiles is one.
PoolDone == lines = <<>> /\ \A w \in DOMAIN pool : pool[w].pc = "idle"

UploadEnds ==
    /\ stage = "upload" /\ PoolDone
    /\ stage' = "act"
    /\ pool' = <<>>
    /\ UNCHANGED <<tree, flags, walkVars, lines, acting, backup, restored, counted, skipped, misses>>

DownloadEnds ==
    /\ stage = "restore" /\ PoolDone
    /\ stage' = "end"
    /\ pool' = <<>>
    /\ UNCHANGED <<tree, flags, walkVars, lines, acting, backup, restored, counted, skipped, misses>>
-----------------------------------------------------------------------------
(* filelist-actions                                                        *)

\* A stage of the pipeline has room for a file.
Room(st) == Cardinality({f \in DOMAIN acting : acting[f] = st}) < flags.workers

Pass(f, st) == acting' = [g \in DOMAIN acting \cup {f} |-> IF g = f THEN st ELSE acting[g]]

Scan ==
    LET f == fileList[Cardinality(DOMAIN acting) + 1] IN
    /\ stage = "act" /\ Cardinality(DOMAIN acting) < Len(fileList) /\ Room("build")
    /\ Pass(f, "build")
    /\ UNCHANGED <<stage, tree, flags, walkVars, poolVars, misses>>

BuildFilelistEntries(f) ==
    /\ stage = "act" /\ acting[f] = "build"
    /\ \/ Room("filter") /\ Pass(f, "filter") /\ UNCHANGED misses
       \/ Misses /\ Pass(f, "error")
    /\ UNCHANGED <<stage, tree, flags, walkVars, poolVars>>

FilterFilelistEntries(f) ==
    /\ stage = "act" /\ acting[f] = "filter"
    /\ \/ f \in OldFiles /\ Room("act") /\ Pass(f, "act") /\ UNCHANGED misses
       \/ f \notin OldFiles /\ Pass(f, "filtered") /\ UNCHANGED misses
       \/ Misses /\ Pass(f, "error")
    /\ UNCHANGED <<stage, tree, flags, walkVars, poolVars>>

ActOnFilelistEntries(f) ==
    /\ stage = "act" /\ acting[f] = "act"
    /\ \/ Pass(f, "removed") /\ UNCHANGED misses
       \/ Misses /\ Pass(f, "error")
    /\ UNCHANGED <<stage, tree, flags, walkVars, poolVars>>

\* All lines were scanned and every file has its result.
ActOnFilelist ==
    /\ stage = "act" /\ Cardinality(DOMAIN acting) = Len(fileList)
    /\ \A f \in DOMAIN acting : acting[f] \in {"removed", "filtered", "error"}
    /\ Publish("restore", fileList)
    /\ UNCHANGED <<tree, flags, walkVars, acting, backup, restored, counted>>
-----------------------------------------------------------------------------
\* The commands start on a tree, or nobody migrates anything.
ToolInit(st) ==
    /\ stage = st
    /\ tree \in Trees /\ flags \in Settings
    /\ walk = NewWalk /\ walker = [w \in 1..flags.dirRoutines |-> IdleWalker]
    /\ fileList = <<>> /\ pool = <<>> /\ lines = <<>> /\ acting = <<>>
    /\ backup = {} /\ restored = {}
    /\ counted = [upload |-> 0, restore |-> 0]
    /\ skipped = [generate |-> 0, upload |-> 0, restore |-> 0]
    /\ misses = 0

ToolStep ==
    \/ \E w \in DOMAIN walker :
          \/ TakeTask(w) \/ ReadDirents(w) \/ SendFiles(w) \/ SplitDirs(w) \/ SendTask(w)
          \/ EndTask(w)
    \/ CloseWalk \/ ProcessFiles
    \/ \E w \in DOMAIN pool : TakeLine(w) \/ UploadToBlob(w) \/ DownloadFromBlob(w)
    \/ UploadEnds \/ DownloadEnds \/ Scan \/ ActOnFilelist
    \/ \E f \in DOMAIN acting :
          BuildFilelistEntries(f) \/ FilterFilelistEntries(f) \/ ActOnFilelistEntries(f)
-----------------------------------------------------------------------------
(* Properties                                                              *)

AllFiles == UNION {tree[d].files : d \in DOMAIN tree}

\* The files that upload2blob and blob2file start from.
FromStart == Range(FromLine(fileList, flags.start + 1))

\* What the commands are given: a task of generate has one directory, there is
\* a goroutine for every kind of work.
Served ==
    /\ \A d \in DOMAIN tree : Len(tree[d].dirs) <= flags.dirRoutines
    /\ flags.maxC > 1 /\ flags.workers > 0

\* The list is complete but for directories that could not be read, and no file
\* is lost on the way to the blob store and back but for those that the two
\* commands count as errors or log.
Migrated ==
    /\ skipped.generate = 0 => Range(fileList) = AllFiles
    /\ Cardinality(FromStart \ backup) = counted.upload + skipped.upload
    /\ Cardinality((FromStart \cap Included) \ restored) <= counted.restore + skipped.restore
    /\ \A f \in Range(fileList) : acting[f] = "removed" => f \in OldFiles

\* Invariant: the commands are never stuck before they have migrated the files,
\* whatever fails and however their goroutines interleave: the walk is not over
\* before the last directory was read and is over then, every line of the list
\* is handed to a worker and every result received.  As each step takes a file,
\* a directory or a task further, the commands end.  Claimed only for the trees
\* and flags that Served admits: no directory has more subdirectories than there
\* are walkers, uploads have more than one goroutine and actions a worker.
MigrationNotStuck ==
    stage = "off" \/ ~Served \/ (stage = "end" /\ Migrated) \/ ENABLED ToolStep
=============================================================================
