---------------------------- MODULE FuseMutable ----------------------------
(***************************************************************************)
(* The mutable mount (pkg/fuse/fs_rw_ops.go, inode.go): the operations the *)
(* kernel sends to a file system kept in three in-memory structures, the   *)
(* lookup tree, the node store and the directory map, with one backing     *)
(* file per inode in the staging area.                                     *)
(*                                                                         *)
(* Operations run concurrently.  What is done under fs.lock is one step;   *)
(* what is not is split where another operation may come in between: the   *)
(* count of LookUpInode, the two checks of ForgetInode, the write and the  *)
(* stat of WriteFile, the truncation and the size of SetInodeAttributes.   *)
(*                                                                         *)
(* The kernel is external: it sends operations about inodes it knows, on   *)
(* names it has looked up, holds a directory while it changes it, and      *)
(* forgets an inode once, when it drops it from its cache.                 *)
(*                                                                         *)
(* Abstractions: the content of a file is its length; times, modes, owners *)
(* and the link counts, which no operation reads (a file keeps Nlink 1),   *)
(* are left out, and so are the operations that change nothing.            *)
(***************************************************************************)
EXTENDS Naturals, Sequences, FiniteSets, Functions

CONSTANTS
    Names,           \* the names of directory entries
    FirstINode,      \* the numbers of inodes come after it (firstINode)
    MaxCreates,      \* bound on the nodes created
    MaxSize,         \* bound on the lengths of files
    Writable,        \* bound on the files written: their inodes
    MaxFaults,       \* bound on the faults after which operations go on
    MaxCreateFaults  \* bound on the backing files that cannot be created

\* A name has no slash.
ASSUME FuseAssumption ==
    /\ "/" \notin Names
    /\ FirstINode \in Nat \ {0, 1}
    /\ {MaxCreates, MaxSize, MaxFaults, MaxCreateFaults} \subseteq Nat

VARIABLES
    mount,        \* "mounted", then "unmounting" once Unmount was called
    lookupTree,   \* <<parent, name>> |-> inode
    iNodeStore,   \* inode |-> its nodeEntry
    readDirMap,   \* directory |-> its entries, by inode
    localCache,   \* inode |-> length of its backing file, when there is one
    backingFiles, \* the inodes with an open backing file
    gen,          \* the generator of inode numbers
    known,        \* the inodes the kernel has references to
    looking,      \* the LookUpInode between its lookup and its count
    forgetting,   \* the ForgetInode sent or between its two checks
    writing,      \* the WriteFile between its write and its stat
    truncating,   \* the SetInodeAttributes between its truncation and its size
    created,      \* nodes created so far
    notCreated,   \* the inodes whose backing file was not created
    panicked,     \* the operation whose panic stopped the server
    faults        \* what went wrong in the structures so far

tree == <<lookupTree, readDirMap>>
files == <<localCache, backingFiles>>
flight == <<looking, forgetting, writing, truncating>>
ghosts == <<created, notCreated>>
fsVars == <<mount, tree, iNodeStore, files, gen, known, flight, ghosts, panicked, faults>>

RootInodeID == 1
None == 0
NoLookup == [parent |-> None, inode |-> None, refCount |-> 0]
NoForget == [inode |-> None, stage |-> "sent"]
NoTruncation == [inode |-> None, size |-> 0]
INodes == {RootInodeID} \cup (FirstINode .. FirstINode + MaxCreates)

Drop(f, k) == Restrict(f, DOMAIN f \ {k})
With(f, k, v) == [x \in DOMAIN f \cup {k} |-> IF x = k THEN v ELSE f[x]]

\* A parent that is not a key has no entries, as a nil map has none.
Children(p) == IF p \in DOMAIN readDirMap THEN readDirMap[p] ELSE <<>>

IsDir(i) == iNodeStore[i].dir
Linked(i) == i \in Range(lookupTree)

\* d and what is below it: what is in every set that has d, and the entries of
\* the directories that it has.
Below(d) ==
    LET closed == {S \in SUBSET INodes :
                     d \in S /\ \A c \in S : DOMAIN Children(c) \subseteq S}
    IN {i \in INodes : \A S \in closed : i \in S}

-----------------------------------------------------------------------------
(* The generator of inode numbers.                                         *)

AllocINode(g) ==
    IF g.freeInodes = <<>>
    THEN [n |-> g.highestInode + 1,
          g |-> [g EXCEPT !.highestInode = @ + 1]]
    ELSE LET last == Len(g.freeInodes)
         IN [n |-> g.freeInodes[last],
             g |-> [highestInode |-> IF last = 1 THEN FirstINode ELSE g.highestInode,
                    freeInodes |-> SubSeq(g.freeInodes, 1, last - 1)]]

FreeINode(g, i) ==
    IF g.highestInode = i
    THEN [g EXCEPT !.highestInode = @ - 1]
    ELSE [g EXCEPT !.freeInodes = Append(@, i)]

-----------------------------------------------------------------------------
(* What the kernel does before it sends an operation.                      *)

Mounted == mount = "mounted" /\ panicked = "" /\ Cardinality(faults) <= MaxFaults

Knows(i) == i = RootInodeID \/ i \in known

\* The kernel holds the directory: no lookup is in progress in it.
Holds(p) == /\ Knows(p) /\ p \in DOMAIN readDirMap
            /\ looking = NoLookup \/ looking.parent # p

Known(p, n) == <<p, n>> \in DOMAIN lookupTree /\ Knows(lookupTree[<<p, n>>])

\* Bounds: one operation of each kind in progress at once, and those about
\* references apart from those about contents, which are other fields of a node.
MayCount == writing = None /\ truncating = NoTruncation
MayWrite == looking = NoLookup /\ forgetting = NoForget

Panic(op) == panicked' = op

-----------------------------------------------------------------------------
(* Changes of the name space, under fs.lock.                               *)

\* The structures after deleteNSEntry, or the error it returns.
DeleteNSEntry(p, n) ==
    LET i == lookupTree[<<p, n>>]
        rest == [readDirMap EXCEPT ![p] = Drop(@, i)]
    IN IF IsDir(i) /\ Children(i) # <<>>
       THEN [err |-> "ENOTEMPTY", lookupTree |-> lookupTree, readDirMap |-> readDirMap]
       ELSE [err |-> "",
             lookupTree |-> Drop(lookupTree, <<p, n>>),
             readDirMap |-> IF IsDir(i) THEN Drop(rest, i) ELSE rest]

PreCreateCheck(p, n) ==
    /\ p \in DOMAIN iNodeStore
    /\ IsDir(p)
    /\ <<p, n>> \notin DOMAIN lookupTree

\* createNode: every structure gets the new node, a number still in use or not.
CreateNode(p, n, dir, ok) ==
    LET a == AllocINode(gen)
        i == a.n
        dirs == IF dir THEN With(readDirMap, i, <<>>) ELSE readDirMap
    IN /\ created < MaxCreates
       /\ created' = created + 1
       /\ gen' = a.g
       /\ lookupTree' = With(lookupTree, <<p, n>>, i)
       /\ readDirMap' = With(dirs, p, With(dirs[p], i, [name |-> n, dir |-> dir]))
       /\ iNodeStore' = With(iNodeStore, i, [dir |-> dir, refCount |-> 1, Size |-> 0])
       /\ known' = known \cup {i}
       /\ faults' = faults \cup (IF i \in DOMAIN iNodeStore THEN {"reused"} ELSE {})
       /\ IF dir THEN UNCHANGED <<files, notCreated>>
          ELSE IF ok
          THEN /\ localCache' = With(localCache, i, 0)
               /\ backingFiles' = backingFiles \cup {i}
               /\ notCreated' = notCreated \ {i}
          ELSE /\ notCreated' = notCreated \cup {i}
               /\ UNCHANGED files

\* MkDir unlocks twice when the check fails.
MkDir(p, n) ==
    /\ Mounted /\ Holds(p)
    /\ <<p, n>> \notin DOMAIN lookupTree
    /\ IF PreCreateCheck(p, n)
       THEN CreateNode(p, n, TRUE, TRUE) /\ UNCHANGED panicked
       ELSE /\ Panic("MkDir")
            /\ UNCHANGED <<tree, iNodeStore, files, gen, known, ghosts, faults>>
    /\ UNCHANGED <<mount, flight>>

CreateFile(p, n, ok) ==
    /\ Mounted /\ Holds(p)
    /\ <<p, n>> \notin DOMAIN lookupTree
    /\ PreCreateCheck(p, n)
    /\ ok \/ Cardinality(notCreated) < MaxCreateFaults
    /\ CreateNode(p, n, FALSE, ok)
    /\ UNCHANGED <<mount, flight, panicked>>

RmDir(p, n) ==
    /\ Mounted /\ Holds(p) /\ Known(p, n) /\ IsDir(lookupTree[<<p, n>>])
    /\ LET d == DeleteNSEntry(p, n)
       IN d.err = "" /\ lookupTree' = d.lookupTree /\ readDirMap' = d.readDirMap
    /\ UNCHANGED <<mount, iNodeStore, files, gen, known, flight, ghosts, panicked, faults>>

\* Mutant: the entry stays in the directory map.
UnlinkLookupOnly(p, n) ==
    /\ Mounted /\ Holds(p) /\ Known(p, n) /\ ~ IsDir(lookupTree[<<p, n>>])
    /\ lookupTree' = Drop(lookupTree, <<p, n>>)
    /\ UNCHANGED <<mount, readDirMap, iNodeStore, files, gen, known, flight, ghosts,
                   panicked, faults>>

Unlink(p, n) ==
    /\ Mounted /\ Holds(p) /\ Known(p, n) /\ ~ IsDir(lookupTree[<<p, n>>])
    /\ LET d == DeleteNSEntry(p, n)
       IN lookupTree' = d.lookupTree /\ readDirMap' = d.readDirMap
    /\ UNCHANGED <<mount, iNodeStore, files, gen, known, flight, ghosts, panicked, faults>>

\* The kernel renames within one kind of node, and never a directory into
\* itself.  The mode of a lookupEntry is never set, so that a directory in the
\* way is not told from a file; the error of its removal is ignored.
Rename(p, n, q, m) ==
    /\ Mounted /\ Holds(p) /\ Holds(q) /\ <<p, n>> # <<q, m>> /\ Known(p, n)
    /\ LET i == lookupTree[<<p, n>>]
           taken == <<q, m>> \in DOMAIN lookupTree
           kept == IF taken THEN DeleteNSEntry(q, m)
                   ELSE [err |-> "", lookupTree |-> lookupTree, readDirMap |-> readDirMap]
           old == [kept.readDirMap EXCEPT ![p] = Drop(@, i)]
           new == [name |-> m, dir |-> IsDir(i)]
       IN /\ q \notin Below(i)
          /\ taken => Known(q, m) /\ IsDir(lookupTree[<<q, m>>]) = IsDir(i)
          /\ lookupTree' = With(Drop(kept.lookupTree, <<p, n>>), <<q, m>>, i)
          /\ readDirMap' = With(old, q, With(old[q], i, new))
          /\ faults' = faults \cup (IF kept.err # "" THEN {"renamed over"} ELSE {})
    /\ UNCHANGED <<mount, iNodeStore, files, gen, known, flight, ghosts, panicked>>

-----------------------------------------------------------------------------
(* References of the kernel.                                               *)

\* The kernel looks up a name it does not know.  The node is read outside of
\* fs.lock, from the trees as they were; a node that is not there is a panic.
LookUpInode(p, n) ==
    /\ Mounted /\ MayCount /\ Holds(p) /\ looking = NoLookup
    /\ <<p, n>> \in DOMAIN lookupTree /\ ~ Known(p, n)
    /\ LET i == lookupTree[<<p, n>>]
       IN IF i \in DOMAIN iNodeStore
          THEN /\ looking' = [parent |-> p, inode |-> i,
                              refCount |-> iNodeStore[i].refCount]
               /\ UNCHANGED panicked
          ELSE Panic("LookUpInode") /\ UNCHANGED looking
    /\ UNCHANGED <<mount, tree, iNodeStore, files, gen, known, forgetting, writing,
                   truncating, ghosts, faults>>

\* Mutant: the reference is not counted.
LookUpNoCount ==
    /\ Mounted /\ looking # NoLookup
    /\ known' = known \cup {looking.inode}
    /\ looking' = NoLookup
    /\ UNCHANGED <<mount, tree, iNodeStore, files, gen, forgetting, writing, truncating,
                   ghosts, panicked, faults>>

\* refCount++ without the lock of the node: when a ForgetInode has counted in
\* between, either update may be lost.
LookUpCount ==
    /\ Mounted /\ looking # NoLookup
    /\ LET i == looking.inode
           c == iNodeStore[i].refCount
       IN /\ i \in DOMAIN iNodeStore
          /\ \E new \in {c + 1} \cup (IF c # looking.refCount
                                      THEN {looking.refCount + 1, c} ELSE {}) :
                /\ iNodeStore' = [iNodeStore EXCEPT ![i].refCount = new]
                /\ faults' = faults \cup (IF new # c + 1 THEN {"lost count"} ELSE {})
          /\ known' = known \cup {i}
    /\ looking' = NoLookup
    /\ UNCHANGED <<mount, tree, files, gen, forgetting, writing, truncating, ghosts,
                   panicked>>

\* The kernel drops from its cache an inode that is not in use, and whose
\* entries, if it is a directory, it has dropped before.
KernelForgets(i) ==
    /\ Mounted /\ MayCount /\ i \in known /\ forgetting = NoForget
    /\ writing # i /\ truncating.inode # i /\ looking.parent # i
    /\ known \cap DOMAIN Children(i) = {}
    /\ known' = known \ {i}
    /\ forgetting' = [inode |-> i, stage |-> "sent"]
    /\ UNCHANGED <<mount, tree, iNodeStore, files, gen, looking, writing, truncating,
                   ghosts, panicked, faults>>

\* Mutant: a file without references is deleted too.
ShouldDeleteAny(i) == iNodeStore[i].refCount = 0

\* A file keeps its link: only directories are deleted from the node store.
ShouldDelete(i) == IsDir(i) /\ iNodeStore[i].refCount = 0

\* The first half of ForgetInode, under the lock of the node.
ForgetInode(i) ==
    /\ Mounted /\ forgetting = [inode |-> i, stage |-> "sent"]
    /\ IF i \notin DOMAIN iNodeStore \/ iNodeStore[i].refCount = 0
       THEN Panic("ForgetInode") /\ UNCHANGED <<iNodeStore, forgetting>>
       ELSE /\ iNodeStore' = [iNodeStore EXCEPT ![i].refCount = @ - 1]
            /\ forgetting' = IF ShouldDelete(i)' THEN [forgetting EXCEPT !.stage = "delete"]
                             ELSE NoForget
            /\ UNCHANGED panicked
    /\ UNCHANGED <<mount, tree, files, gen, known, looking, writing, truncating, ghosts,
                   faults>>

\* The second half, under fs.lock: the number is freed in any case, also when
\* the directory is still linked, or was looked up in between.
ForgetDelete(i) ==
    /\ Mounted /\ forgetting = [inode |-> i, stage |-> "delete"]
    /\ IF i \in DOMAIN iNodeStore
       THEN /\ iNodeStore' = IF ShouldDelete(i) THEN Drop(iNodeStore, i) ELSE iNodeStore
            /\ gen' = FreeINode(gen, i)
       ELSE UNCHANGED <<iNodeStore, gen>>
    /\ forgetting' = NoForget
    /\ faults' = faults \cup (IF Linked(i) /\ i \in DOMAIN readDirMap
                              THEN {"forgotten"} ELSE {})
    /\ UNCHANGED <<mount, tree, files, known, looking, writing, truncating, ghosts,
                   panicked>>

-----------------------------------------------------------------------------
(* Files.                                                                  *)

Opened(i) == i \in Writable /\ i \in known /\ i \in DOMAIN iNodeStore /\ ~ IsDir(i)

\* A file whose backing file was not created is never created by the others:
\* reading and writing it fail.
ReadFile(i) ==
    /\ Mounted /\ Opened(i) /\ writing = None
    /\ i \in DOMAIN localCache
    /\ backingFiles' = backingFiles \cup {i}
    /\ UNCHANGED <<mount, tree, iNodeStore, localCache, gen, known, flight, ghosts,
                   panicked, faults>>

\* The write, to byte e, under lockBackingFiles.
WriteFile(i, e) ==
    /\ Mounted /\ MayWrite /\ Opened(i) /\ writing = None
    /\ i \in DOMAIN localCache
    /\ backingFiles' = backingFiles \cup {i}
    /\ localCache' = [localCache EXCEPT ![i] = IF e > @ THEN e ELSE @]
    /\ writing' = i
    /\ UNCHANGED <<mount, tree, iNodeStore, gen, known, looking, forgetting, truncating,
                   ghosts, panicked, faults>>

\* Mutant: the stat does not take the lock of the node.
WriteStatNoLock ==
    /\ Mounted /\ writing # None
    /\ iNodeStore' = [iNodeStore EXCEPT ![writing].Size = localCache[writing]]
    /\ writing' = None
    /\ UNCHANGED <<mount, tree, files, gen, known, looking, forgetting, truncating,
                   ghosts, panicked, faults>>

\* Then the stat, under the lock of the node.
WriteStat ==
    /\ Mounted /\ writing # None /\ truncating.inode # writing
    /\ IF writing \in DOMAIN iNodeStore
       THEN /\ iNodeStore' = [iNodeStore EXCEPT ![writing].Size = localCache[writing]]
            /\ UNCHANGED panicked
       ELSE Panic("WriteFile") /\ UNCHANGED iNodeStore
    /\ writing' = None
    /\ UNCHANGED <<mount, tree, files, gen, known, looking, forgetting, truncating,
                   ghosts, faults>>

\* The truncation to s, the lock of the node taken and kept.
SetInodeAttributes(i, s) ==
    /\ Mounted /\ MayWrite /\ Opened(i) /\ truncating = NoTruncation
    /\ i \in DOMAIN localCache
    /\ localCache' = [localCache EXCEPT ![i] = s]
    /\ truncating' = [inode |-> i, size |-> s]
    /\ UNCHANGED <<mount, tree, iNodeStore, backingFiles, gen, known, looking, forgetting,
                   writing, ghosts, panicked, faults>>

\* Then the size asked for.
SetSize ==
    /\ Mounted /\ truncating # NoTruncation
    /\ iNodeStore' = [iNodeStore EXCEPT ![truncating.inode].Size = truncating.size]
    /\ truncating' = NoTruncation
    /\ UNCHANGED <<mount, tree, files, gen, known, looking, forgetting, writing, ghosts,
                   panicked, faults>>

\* SyncFile reads the open file without asking whether there is one.
SyncFile(i) ==
    /\ Mounted /\ Opened(i)
    /\ i \notin backingFiles
    /\ Panic("SyncFile")
    /\ UNCHANGED <<mount, tree, iNodeStore, files, gen, known, flight, ghosts, faults>>

-----------------------------------------------------------------------------
Init ==
    /\ mount = "mounted"
    /\ lookupTree = [k \in {<<RootInodeID, "/">>} |-> RootInodeID]
    /\ readDirMap = [d \in {RootInodeID} |-> <<>>]
    /\ iNodeStore = [i \in {RootInodeID} |-> [dir |-> TRUE, refCount |-> 1, Size |-> 0]]
    /\ localCache = <<>> /\ backingFiles = {}
    /\ gen = [highestInode |-> FirstINode, freeInodes |-> <<>>]
    /\ known = {} /\ looking = NoLookup /\ forgetting = NoForget
    /\ writing = None /\ truncating = NoTruncation
    /\ created = 0 /\ notCreated = {}
    /\ panicked = "" /\ faults = {}

AtRest == /\ looking = NoLookup /\ forgetting = NoForget
          /\ writing = None /\ truncating = NoTruncation

\* Unmount commits the tree before the mount goes away.  No operation follows:
\* what only operations read is dropped.
Unmount ==
    /\ Mounted /\ AtRest
    /\ mount' = "unmounting"
    /\ lookupTree' = <<>> /\ iNodeStore' = <<>> /\ backingFiles' = {}
    /\ gen' = [highestInode |-> FirstINode, freeInodes |-> <<>>]
    /\ known' = {} /\ created' = 0 /\ notCreated' = {}
    /\ UNCHANGED <<readDirMap, localCache, flight, panicked, faults>>

NameStep ==
    \E p \in DOMAIN readDirMap, n \in Names :
        \/ MkDir(p, n)
        \/ \E ok \in BOOLEAN : CreateFile(p, n, ok)
        \/ RmDir(p, n)
        \/ Unlink(p, n)
        \/ LookUpInode(p, n)
        \/ \E q \in DOMAIN readDirMap, m \in Names : Rename(p, n, q, m)

INodeStep ==
    \E i \in INodes \ {RootInodeID} :
        \/ KernelForgets(i)
        \/ ForgetInode(i)
        \/ ForgetDelete(i)
        \/ ReadFile(i)
        \/ \E e \in 1 .. MaxSize : WriteFile(i, e)
        \/ \E s \in 0 .. MaxSize : SetInodeAttributes(i, s)
        \/ SyncFile(i)

MountStep == NameStep \/ INodeStep \/ LookUpCount \/ WriteStat \/ SetSize

MountSpec == Init /\ [][MountStep \/ Unmount]_fsVars

-----------------------------------------------------------------------------
(* Properties.                                                             *)

Sound == faults = {} /\ mount = "mounted"

\* The lookup tree and the directory map, updated separately by every operation
\* of the name space (createNode, deleteNSEntry, Rename), describe one tree: the
\* same entries, an inode in one place only, all of it below the root.
NamespaceAgrees ==
    Sound =>
      LET entries == {<<k[1], k[2], lookupTree[k]>> : k \in DOMAIN lookupTree}
          dirents == UNION {{<<d, readDirMap[d][i].name, i>> : i \in DOMAIN readDirMap[d]} :
                            d \in DOMAIN readDirMap}
      IN /\ entries = dirents \cup {<<RootInodeID, "/", RootInodeID>>}
         /\ IsInjective(lookupTree)
         /\ Range(lookupTree) \subseteq Below(RootInodeID)
         /\ \A i \in Range(lookupTree) :
               /\ i \in DOMAIN iNodeStore
               /\ IsDir(i) <=> i \in DOMAIN readDirMap

\* The references to an inode: the one the kernel has, and the one it has given
\* back in a ForgetInode that is not served yet.
Sent(i) == forgetting = [inode |-> i, stage |-> "sent"]
References(i) == (IF i \in known THEN 1 ELSE 0) + (IF Sent(i) THEN 1 ELSE 0)

\* The references counted by LookUpInode, createNode and ForgetInode are those
\* the kernel has or is giving back, so that a node is deleted neither too early
\* nor never.
ReferencesAgree ==
    Sound =>
      \A i \in DOMAIN iNodeStore \ {RootInodeID} :
        /\ iNodeStore[i].refCount = References(i)
        /\ iNodeStore[i].refCount > 0 \/ Linked(i) \/ ~ IsDir(i) \/ i = forgetting.inode

\* WriteFile and SetInodeAttributes may overlap: once both are through, the size
\* in the attributes is the length of the backing file.
SizesAgree ==
    Sound =>
      \A i \in DOMAIN localCache \cap DOMAIN iNodeStore :
        i # writing /\ i # truncating.inode => iNodeStore[i].Size = localCache[i]

\* No operation panics while the structures are sound, but SyncFile on a file
\* whose backing file could not be created.
NoPanic ==
    faults = {} => \/ panicked = ""
                   \/ panicked = "SyncFile" /\ notCreated # {}

=============================================================================
