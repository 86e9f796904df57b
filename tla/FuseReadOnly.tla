---------------------------- MODULE FuseReadOnly ----------------------------
(***************************************************************************)
(* The read-only mount of a bundle (pkg/fuse/fs_ro_ops.go), here of the    *)
(* bundle that a mutable mount has committed.  populateFS builds the       *)
(* directories out of the paths of the bundle entries, in their order,     *)
(* with a fresh inode per node; then the kernel looks nodes up, lists      *)
(* directories in as many calls as its buffer asks for, and reads files.   *)
(***************************************************************************)
EXTENDS FuseCommit, SequencesExt

CONSTANTS
    MaxDirents  \* entries that fit in the buffer of a ReadDir

VARIABLES
    ro,      \* the file system built by populateFS
    listing  \* a directory being listed: the offset reached, the entries got

roVars == <<ro, listing>>

Empty == [err |-> FALSE, iNode |-> FirstINode, dirStore |-> <<>>, lookupTree |-> <<>>,
          fsEntryStore |-> RootInodeID :> [dir |-> TRUE, content |-> None, Size |-> 0],
          readDirMap |-> <<>>]
NotMounted == [Empty EXCEPT !.iNode = 0]
NoListing == [dir |-> None, offset |-> 0, got |-> <<>>, done |-> FALSE]

RoChildren(r, d) == IF d \in DOMAIN r.readDirMap THEN r.readDirMap[d] ELSE <<>>

\* Mutant: the offset of an entry skips the next one.
InsertNodeOffset(r, n) ==
    LET key == <<n.parent, Last(n.path)>>
        children == RoChildren(r, n.parent)
    IN [r EXCEPT !.dirStore = IF n.dir THEN (n.path :> n.inode) @@ @ ELSE @,
                 !.fsEntryStore = (n.inode :> [dir |-> n.dir, content |-> n.content,
                                               Size |-> n.Size]) @@ @,
                 !.lookupTree = (key :> n.inode) @@ @,
                 !.readDirMap = (n.parent :>
                     Append(children, [Offset |-> Len(children) + 2, Inode |-> n.inode,
                                       Name |-> Last(n.path)])) @@ @]

\* insertDirEntry and insertFsEntry: nothing may be there already.
InsertNode(r, n) ==
    LET key == <<n.parent, Last(n.path)>>
        children == RoChildren(r, n.parent)
    IN IF \/ r.err
          \/ n.dir /\ n.path \in DOMAIN r.dirStore
          \/ n.inode \in DOMAIN r.fsEntryStore
          \/ key \in DOMAIN r.lookupTree
       THEN [r EXCEPT !.err = TRUE]
       ELSE [r EXCEPT !.dirStore = IF n.dir THEN (n.path :> n.inode) @@ @ ELSE @,
                      !.fsEntryStore = (n.inode :> [dir |-> n.dir, content |-> n.content,
                                                    Size |-> n.Size]) @@ @,
                      !.lookupTree = (key :> n.inode) @@ @,
                      !.readDirMap = (n.parent :>
                          Append(children, [Offset |-> Len(children) + 1,
                                            Inode |-> n.inode,
                                            Name |-> Last(n.path)])) @@ @]

\* Mutant: every node is put under the root.
NodesFromEntryFlat(r, e) ==
    LET m == Len(e.NameWithPath)
        prefix(k) == SubSeq(e.NameWithPath, 1, k)
        found == Max({0} \cup {k \in 1 .. m - 1 : prefix(k) \in DOMAIN r.dirStore})
    IN [j \in 1 .. m - found |->
          [path |-> prefix(m + 1 - j), inode |-> r.iNode + j, parent |-> RootInodeID,
           dir |-> j > 1,
           content |-> IF j > 1 THEN None ELSE e.content,
           Size |-> IF j > 1 THEN 0 ELSE e.Size]]

\* The entry, then those of its parents that were not visited yet, up to the
\* first that was or to the root: each gets the next inode, and the inode of the
\* node after it as its parent.
NodesFromEntry(r, e) ==
    LET m == Len(e.NameWithPath)
        prefix(k) == SubSeq(e.NameWithPath, 1, k)
        found == Max({0} \cup {k \in 1 .. m - 1 : prefix(k) \in DOMAIN r.dirStore})
    IN [j \in 1 .. m - found |->
          [path |-> prefix(m + 1 - j),
           inode |-> r.iNode + j,
           parent |-> IF j < m - found THEN r.iNode + j + 1
                      ELSE IF found = 0 THEN RootInodeID
                      ELSE r.dirStore[prefix(found)],
           dir |-> j > 1,
           content |-> IF j > 1 THEN None ELSE e.content,
           Size |-> IF j > 1 THEN 0 ELSE e.Size]]

AddEntry(r, e) ==
    LET nodes == NodesFromEntry(r, e)
    IN FoldLeft(InsertNode, [r EXCEPT !.iNode = @ + Len(nodes)], nodes)

PopulateFS(entries) == FoldLeft(AddEntry, Empty, entries)

MountReadOnly ==
    /\ commit = "ok" /\ closed
    /\ ro = NotMounted
    /\ ro' = PopulateFS(uploaded)
    /\ UNCHANGED <<fsVars, commitVars, listing>>

-----------------------------------------------------------------------------
(* Operations.                                                             *)

OpenDir(d) ==
    /\ ro # NotMounted /\ ~ ro.err /\ listing = NoListing
    /\ d \in DOMAIN ro.fsEntryStore /\ ro.fsEntryStore[d].dir
    /\ listing' = [NoListing EXCEPT !.dir = d]
    /\ UNCHANGED <<fsVars, commitVars, ro>>

\* One call, with room for some entries: it goes on from the offset of the last
\* entry got.  A directory without entries is not in the map: it is an error,
\* and so is an offset past the end.
ReadDir(room) ==
    LET children == RoChildren(ro, listing.dir)
        n == Min({room, Len(children) - listing.offset})
        read == SubSeq(children, listing.offset + 1, listing.offset + n)
    IN /\ listing # NoListing /\ ~ listing.done
       /\ IF children = <<>> \/ listing.offset > Len(children) \/ n = 0
          THEN listing' = [listing EXCEPT !.done = TRUE]
          ELSE listing' = [listing EXCEPT !.got = @ \o read, !.offset = Last(read).Offset]
       /\ UNCHANGED <<fsVars, commitVars, ro>>

ReleaseDirHandle ==
    /\ listing.done
    /\ listing' = NoListing
    /\ UNCHANGED <<fsVars, commitVars, ro>>

\* The inode that the kernel gets to by looking up the names of a path.
LookUpPath(r, path) ==
    FoldLeft(LAMBDA i, n : IF <<i, n>> \in DOMAIN r.lookupTree
                           THEN r.lookupTree[<<i, n>>] ELSE None,
             RootInodeID, path)

\* What is read from the file at a path: the content its entry refers to.
ReadPath(r, path) == r.fsEntryStore[LookUpPath(r, path)]

RoInit == ro = NotMounted /\ listing = NoListing

RoStep ==
    \/ MountReadOnly
    \/ \E d \in DOMAIN ro.fsEntryStore : OpenDir(d)
    \/ \E room \in 1 .. MaxDirents : ReadDir(room)
    \/ ReleaseDirHandle

-----------------------------------------------------------------------------
(* Properties.                                                             *)

\* What was written through the mutable mount is what the read-only mount of the
\* committed bundle serves: the mount succeeds, every file is found under its
\* path with its content, there is no other file, and the directories are those
\* of the paths of files.
RoundTrip ==
    ro # NotMounted /\ faults = {} =>
      LET found == {f \in DOMAIN ro.fsEntryStore : ~ ro.fsEntryStore[f].dir}
          dirs == UNION {{SubSeq(f[1], 1, k) : k \in 1 .. Len(f[1]) - 1} : f \in TreeFiles}
      IN /\ ~ ro.err
         /\ \A f \in TreeFiles :
               /\ LookUpPath(ro, f[1]) # None
               /\ ReadPath(ro, f[1]) = [dir |-> FALSE, content |-> f[2],
                                        Size |-> localCache[f[2]]]
         /\ Cardinality(found) = Cardinality(TreeFiles)
         /\ DOMAIN ro.dirStore = dirs
         /\ \A d \in dirs : LookUpPath(ro, d) = ro.dirStore[d]

\* A directory listed in several calls, whatever the room of each, is listed
\* whole: each entry the kernel can look up in it, once.
ListedWhole ==
    listing.done =>
      LET names == {e.Name : e \in Range(listing.got)}
      IN /\ Cardinality(names) = Len(listing.got)
         /\ names = {k[2] : k \in {k \in DOMAIN ro.lookupTree : k[1] = listing.dir}}

=============================================================================
