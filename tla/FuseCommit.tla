----------------------------- MODULE FuseCommit -----------------------------
(***************************************************************************)
(* The commit of a mutable mount, which Unmount runs: the tree is walked   *)
(* from the root by one goroutine per directory, at most MaxDirUploadTasks *)
(* of which read their directory at once; every file found is uploaded by  *)
(* a goroutine of its own; commitImpl gathers the bundle entries they send *)
(* until the walk closes the channel, then uploads the file lists and the  *)
(* descriptor.  The first error ends the commit: it closes doneC, for the  *)
(* other goroutines not to stay blocked.                                   *)
(*                                                                         *)
(* Abstractions: a content is known by the inode it was read from; the     *)
(* upload of the metadata is one step, which may fail.                     *)
(***************************************************************************)
EXTENDS FuseMutable

CONSTANTS
    MaxDirUploadTasks, \* directories read at once (maxDirUploadTasks)
    MaxPutFaults       \* bound on the uploads that fail

ASSUME CommitAssumption == MaxDirUploadTasks \in Nat \ {0} /\ MaxPutFaults \in Nat

VARIABLES
    commit,    \* what commitImpl does: "no", "recv", "metadata", "ok", "error"
    dirTasks,  \* the goroutines of commitUploadDir
    fileTasks, \* the goroutines of commitFileUpload
    closed,    \* the channel of the bundle entries was closed by the walk
    fileList,  \* the entries received
    putFaults, \* uploads that failed so far
    uploaded   \* the entries of the bundle, once it is uploaded

commitVars == <<commit, dirTasks, fileTasks, closed, fileList, putFaults, uploaded>>

NoBundle == <<[NameWithPath |-> <<>>, content |-> None, Size |-> 0]>>
Task(i, path) == [inode |-> i, name |-> path]
DirTask(i, path, stage, todo) == [task |-> Task(i, path), stage |-> stage, todo |-> todo]
\* The walk of the root takes the first token of the semaphore.
StartCommit ==
    /\ Unmount
    /\ commit' = "recv"
    /\ dirTasks' = {DirTask(RootInodeID, <<>>, "read", {})}
    /\ UNCHANGED <<fileTasks, closed, fileList, putFaults, uploaded>>

doneC == commit \in {"ok", "error"}
Tokens == Cardinality({t \in dirTasks : t.stage = "read"})

\* A directory is read: its files get a goroutine each, its directories are
\* kept for later, and the token is given back.
ReadDirectory(t) ==
    /\ t.stage = "read"
    /\ LET i == t.task.inode
           tasks(dir) == {Task(c, Append(t.task.name, readDirMap[i][c].name)) :
                            c \in {c \in DOMAIN Children(i) : readDirMap[i][c].dir = dir}}
       IN /\ fileTasks' = fileTasks \cup {[task |-> f, stage |-> "open"] : f \in tasks(FALSE)}
          /\ dirTasks' = (dirTasks \ {t}) \cup
                           {[t EXCEPT !.stage = "spawn", !.todo = tasks(TRUE)]}
    /\ UNCHANGED <<fsVars, commit, closed, fileList, putFaults, uploaded>>

\* A goroutine for the next directory, once there is a token for it.
SpawnDirectory(t) ==
    /\ t.stage = "spawn"
    /\ \/ /\ t.todo # {}
          /\ Tokens < MaxDirUploadTasks
          /\ \E d \in t.todo :
                dirTasks' = (dirTasks \ {t})
                              \cup {[t EXCEPT !.todo = @ \ {d}],
                                    [task |-> d, stage |-> "read", todo |-> {}]}
       \/ /\ t.todo = {} \/ doneC
          /\ dirTasks' = dirTasks \ {t}
    /\ UNCHANGED <<fsVars, commit, fileTasks, closed, fileList, putFaults, uploaded>>

\* The backing file is opened and put in the blob store.
UploadFile(t) ==
    /\ t.stage = "open"
    /\ \E ok \in BOOLEAN :
          /\ ok => t.task.inode \in DOMAIN localCache
          /\ putFaults' = IF ok \/ t.task.inode \notin DOMAIN localCache
                          THEN putFaults ELSE putFaults + 1
          /\ putFaults' <= MaxPutFaults
          /\ fileTasks' = (fileTasks \ {t})
                            \cup {[t EXCEPT !.stage = IF ok THEN "entry" ELSE "error"]}
    /\ UNCHANGED <<fsVars, commit, dirTasks, closed, fileList, uploaded>>

\* Mutant: the error waits to be received, although nobody receives any more.
SendErrorBlocks(t) ==
    /\ t.stage = "error"
    /\ commit = "recv" /\ commit' = "error"
    /\ fileTasks' = fileTasks \ {t}
    /\ UNCHANGED <<fsVars, dirTasks, closed, fileList, putFaults, uploaded>>

\* The channels are not buffered: an entry or an error is handed to commitImpl,
\* or given up once doneC is closed.
SendError(t) ==
    /\ t.stage = "error"
    /\ fileTasks' = fileTasks \ {t}
    /\ \/ commit = "recv" /\ commit' = "error"
       \/ doneC /\ UNCHANGED commit
    /\ UNCHANGED <<fsVars, dirTasks, closed, fileList, putFaults, uploaded>>

SendEntry(t) ==
    /\ t.stage = "entry"
    /\ fileTasks' = fileTasks \ {t}
    /\ \/ /\ commit = "recv"
          /\ fileList' = Append(fileList, [NameWithPath |-> t.task.name,
                                           content |-> t.task.inode,
                                           Size |-> localCache[t.task.inode]])
       \/ doneC /\ UNCHANGED fileList
    /\ UNCHANGED <<fsVars, commit, dirTasks, closed, putFaults, uploaded>>

\* Mutant: the walk does not wait for the uploads.
CloseEntriesEarly ==
    /\ commit # "no" /\ ~ closed
    /\ dirTasks = {}
    /\ closed' = TRUE
    /\ UNCHANGED <<fsVars, commit, dirTasks, fileTasks, fileList, putFaults, uploaded>>

\* The walk waits for the directories, then for the uploads.
CloseEntries ==
    /\ commit # "no" /\ ~ closed
    /\ dirTasks = {} /\ fileTasks = {}
    /\ closed' = TRUE
    /\ UNCHANGED <<fsVars, commit, dirTasks, fileTasks, fileList, putFaults, uploaded>>

\* All entries were received: the metadata of the bundle is uploaded.
CommitReceived ==
    /\ commit = "recv" /\ closed
    /\ commit' = "metadata"
    /\ UNCHANGED <<fsVars, dirTasks, fileTasks, closed, fileList, putFaults, uploaded>>

UploadMetadata ==
    /\ commit = "metadata"
    /\ \/ commit' = "ok" /\ uploaded' = fileList /\ UNCHANGED putFaults
       \/ /\ putFaults < MaxPutFaults
          /\ putFaults' = putFaults + 1
          /\ commit' = "error" /\ UNCHANGED uploaded
    /\ UNCHANGED <<fsVars, dirTasks, fileTasks, closed, fileList>>

CommitInit ==
    /\ commit = "no" /\ dirTasks = {} /\ fileTasks = {} /\ closed = FALSE
    /\ fileList = <<>> /\ putFaults = 0 /\ uploaded = NoBundle

CommitStep ==
    \/ \E t \in dirTasks : ReadDirectory(t) \/ SpawnDirectory(t)
    \/ \E t \in fileTasks : UploadFile(t) \/ SendError(t) \/ SendEntry(t)
    \/ CloseEntries
    \/ CommitReceived
    \/ UploadMetadata

-----------------------------------------------------------------------------
(* Properties.                                                             *)

\* The files below directory d, by path.
RECURSIVE FilesBelow(_, _, _)
FilesBelow(d, path, depth) ==
    IF depth = 0 THEN {}
    ELSE UNION {LET e == readDirMap[d][c]
                    p == Append(path, e.name)
                IN IF e.dir THEN FilesBelow(c, p, depth - 1) ELSE {<<p, c>>} :
                c \in DOMAIN Children(d)}

TreeFiles == FilesBelow(RootInodeID, <<>>, MaxCreates + 1)

\* A bundle is there only when Commit reports success, and it has every file of
\* the tree, once, under its path and with its length: no upload is missed when
\* the walk ends, no error is lost, no directory is skipped for want of a token.
CommitComplete ==
    uploaded # NoBundle =>
      /\ commit = "ok"
      /\ {<<e.NameWithPath, e.content>> : e \in Range(uploaded)} = TreeFiles
      /\ Len(uploaded) = Cardinality(TreeFiles)
      /\ \A e \in Range(uploaded) : e.Size = localCache[e.content]

\* Commit returns, and every goroutine it has started ends, after an error too.
CommitEnds ==
    commit = "recv" ~> doneC /\ closed /\ dirTasks = {} /\ fileTasks = {}

=============================================================================
