----------------------------- MODULE FuseProofs -----------------------------
(***************************************************************************)
(* Proofs about FuseMutable, for any names, any number of nodes and any    *)
(* interleaving of the operations: the operations on names keep the        *)
(* invariant of FuseNodes, and what follows from it.                       *)
(***************************************************************************)
EXTENDS FuseNodes

-----------------------------------------------------------------------------
(* Forgotten inodes.                                                      *)

\* A number that comes back to the generator is one it gave.
LEMMA FreeNumber ==
  ASSUME GenInv, NEW i \in Numbers, gen' = FreeINode(gen, i), UNCHANGED created
  PROVE  GenInv'
<1>1. /\ gen.highestInode \in FirstINode .. FirstINode + created /\ gen.freeInodes \in Seq(Numbers)
      /\ created \in 0 .. MaxCreates
      /\ gen = [highestInode |-> gen.highestInode, freeInodes |-> gen.freeInodes]
  BY DEF GenInv
<1>2. CASE gen.highestInode = i
  <2>1. gen' = [highestInode |-> gen.highestInode - 1, freeInodes |-> gen.freeInodes]
    BY <1>1, <1>2 DEF FreeINode
  <2>2. gen.highestInode - 1 \in FirstINode .. FirstINode + created
    BY <1>1, <1>2, FuseAssumption DEF Numbers
  <2> QED BY <1>1, <2>1, <2>2 DEF GenInv
<1>3. CASE gen.highestInode # i
  <2>1. gen' = [highestInode |-> gen.highestInode, freeInodes |-> Append(gen.freeInodes, i)]
    BY ZenonT(30), <1>1, <1>3 DEF FreeINode
  <2>2. Append(gen.freeInodes, i) \in Seq(Numbers)
    BY <1>1
  <2> QED BY <1>1, <2>1, <2>2 DEF GenInv
<1> QED BY <1>2, <1>3

\* The second half of ForgetInode, on a directory that is not linked: it goes, and
\* its number is free.
LEMMA ForgetDeleteStep ==
  ASSUME StoresInv, NEW i \in INodes, ForgetDelete(i), faults' = {}
  PROVE  StoresInv' /\ NoPanic'
<1>0. FuseTypes /\ GenInv /\ TreeInv /\ ReachInv /\ RefInv /\ FileInv
  BY DEF StoresInv
<1>1. /\ UNCHANGED <<mount, lookupTree, readDirMap, localCache, backingFiles, known>>
      /\ UNCHANGED <<looking, writing, truncating, created, notCreated, panicked>>
      /\ forgetting = [inode |-> i, stage |-> "delete"] /\ forgetting' = NoForget
  BY DEF ForgetDelete, tree, files, ghosts
<1>2. forgetting.inode = i /\ forgetting.stage = "delete"
  BY <1>1
<1>3. i \in DOMAIN iNodeStore \ {RootInodeID} /\ i \in Numbers
  BY <1>0, <1>2, NumberFacts DEF RefInv, NoForget, FuseTypes
<1>4. /\ iNodeStore' = (IF ShouldDelete(i) THEN Drop(iNodeStore, i) ELSE iNodeStore)
      /\ gen' = FreeINode(gen, i)
  BY <1>3 DEF ForgetDelete
<1>5. GenInv'
  BY <1>0, <1>1, <1>3, <1>4, FreeNumber
<1>6. ShouldDelete(i) => ~ Linked(i)
  <2> SUFFICES ASSUME ShouldDelete(i), Linked(i) PROVE FALSE
    OBVIOUS
  <2>1. i \notin DOMAIN readDirMap
    BY DEF ForgetDelete
  <2>2. i \in Dirs
    BY <1>3 DEF ShouldDelete, Dirs
  <2>3. PICK k \in DOMAIN lookupTree : lookupTree[k] = i
    BY DEF Linked, Range
  <2> QED BY <1>0, <2>1, <2>2, <2>3 DEF TreeInv, TreeOf
<1>7. ShouldDelete(i) => i \notin known /\ i \notin DOMAIN localCache
  BY <1>0, <1>3 DEF ShouldDelete, RefInv, References, FileInv
<1>8. \A k \in DOMAIN lookupTree : ShouldDelete(i) => lookupTree[k] # i
  BY <1>6 DEF Linked, Range
<1>9. /\ DOMAIN iNodeStore' = IF ShouldDelete(i) THEN DOMAIN iNodeStore \ {i} ELSE DOMAIN iNodeStore
      /\ \A j \in DOMAIN iNodeStore' : iNodeStore'[j] = iNodeStore[j] /\ IsDir(j)' = IsDir(j)
  BY <1>4 DEF Drop, Restrict, IsDir
<1>10. FuseTypes'
  BY <1>0, <1>1, <1>3, <1>8, <1>9 DEF FuseTypes
<1>11. TreeInv' /\ ReachInv'
  <2>1. \A k \in DOMAIN lookupTree : lookupTree[k] \in Dirs' <=> lookupTree[k] \in Dirs
    BY <1>0, <1>8, <1>9 DEF Dirs, FuseTypes
  <2>2. TreeOf(lookupTree, readDirMap, Dirs')
    BY <1>0, <2>1 DEF TreeInv, TreeOf
  <2> QED BY <1>0, <1>1, <2>2 DEF TreeInv, ReachInv
<1>12. FileInv'
  <2>1. (DOMAIN localCache \subseteq {j \in DOMAIN iNodeStore : ~ IsDir(j)})'
    BY <1>0, <1>1, <1>7, <1>9 DEF FileInv
  <2>2. (\A j \in DOMAIN localCache :
            j # writing /\ j # truncating.inode => iNodeStore[j].Size = localCache[j])'
    BY <1>0, <1>1, <1>9, <2>1 DEF FileInv
  <2>3. (\A j \in DOMAIN iNodeStore : ~ IsDir(j) => j \in backingFiles \cup notCreated)'
    BY <1>0, <1>1, <1>9 DEF FileInv
  <2> QED BY <1>0, <1>1, <2>1, <2>2, <2>3 DEF FileInv
<1>13. RefInv'
  <2>1. \A j : ~ Sent(j)
    BY <1>2 DEF Sent
  <2>2. None \notin DOMAIN iNodeStore
    BY <1>0, NumberFacts DEF FuseTypes
  <2>3. \A j \in DOMAIN iNodeStore : ~ Sent(j)'
    BY <1>1, <2>2 DEF Sent, NoForget
  <2>4. ASSUME NEW j \in DOMAIN iNodeStore' \ {RootInodeID}
        PROVE  /\ iNodeStore'[j].refCount = References(j)'
               /\ iNodeStore'[j].refCount > 0 \/ Linked(j)' \/ ~ IsDir(j)' \/ j = forgetting'.inode
    <3>1. j \in DOMAIN iNodeStore \ {RootInodeID} /\ (ShouldDelete(i) => j # i)
      BY <1>9
    <3>2. References(j)' = References(j)
      BY <1>1, <2>1, <2>3, <3>1 DEF References
    <3>3. Linked(j)' = Linked(j) /\ IsDir(j)' = IsDir(j) /\ iNodeStore'[j] = iNodeStore[j]
      BY <1>1, <1>9 DEF Linked
    <3>4. iNodeStore[j].refCount = References(j) /\ References(j) \in Nat
      BY <1>0, <3>1 DEF RefInv, References
    <3>5. j = i => iNodeStore[j].refCount > 0 \/ ~ IsDir(j)
      BY <3>1, <3>4 DEF ShouldDelete
    <3> QED BY <1>0, <1>2, <3>1, <3>2, <3>3, <3>4, <3>5 DEF RefInv
  <2>5. (known \subseteq DOMAIN iNodeStore \ {RootInodeID})'
    BY <1>0, <1>1, <1>7, <1>9 DEF RefInv
  <2>6. (looking = NoLookup \/ \E n \in Names :
              /\ <<looking.parent, n>> \in DOMAIN lookupTree
              /\ lookupTree[<<looking.parent, n>>] = looking.inode
              /\ looking.inode \notin known)'
    BY ZenonT(30), <1>0, <1>1 DEF RefInv
  <2> QED BY <1>1, <2>4, <2>5, <2>6 DEF RefInv
<1>14. NoPanic'
  BY ZenonT(30), <1>1 DEF NoPanic, Mounted, ForgetDelete
<1> QED BY <1>5, <1>10, <1>11, <1>12, <1>13, <1>14 DEF StoresInv

-----------------------------------------------------------------------------
(* Names.                                                                  *)

\* The structures that deleteNSEntry leaves, when it returns no error.
LEMMA Deleted ==
  ASSUME FuseTypes, TreeInv, ReachInv, NEW p \in DOMAIN readDirMap, NEW n \in Names,
         NEW k, k = <<p, n>>, k \in DOMAIN lookupTree, NEW j, j = lookupTree[k],
         NEW d, d = DeleteNSEntry(p, n), d.err = ""
  PROVE  /\ TreeOf(d.lookupTree, d.readDirMap, Dirs) /\ ReachOf(d.lookupTree, d.readDirMap)
         /\ Without(lookupTree, readDirMap, k, d.lookupTree, d.readDirMap)
         /\ j \in DOMAIN readDirMap => DOMAIN readDirMap[j] = {}
<1> DEFINE rest == [readDirMap EXCEPT ![p] = Drop(@, j)]
<1>1. k \in DOMAIN lookupTree \ {Root} /\ j \in DOMAIN iNodeStore
  BY ZenonT(30), EntryFacts
<1>2. ~ (IsDir(j) /\ Children(j) # <<>>)
  BY ZenonT(30) DEF DeleteNSEntry
<1>3. /\ d.lookupTree = Drop(lookupTree, k)
      /\ d.readDirMap = IF IsDir(j) THEN Drop(rest, j) ELSE rest
  BY ZenonT(30), <1>2 DEF DeleteNSEntry
<1>4. IsDir(j) <=> j \in Dirs
  BY ZenonT(30), <1>1 DEF Dirs
<1>5. lookupTree[k] \in DOMAIN readDirMap => DOMAIN readDirMap[lookupTree[k]] = {}
  <2> SUFFICES ASSUME j \in DOMAIN readDirMap PROVE DOMAIN readDirMap[j] = {}
    BY ZenonT(30)
  <2>1. j \in Dirs
    BY ZenonT(30), <1>1 DEF TreeInv, TreeOf
  <2>2. readDirMap[j] = <<>>
    BY ZenonT(30), <1>2, <1>4, <2>1 DEF Children
  <2>3. DOMAIN <<>> = {}
    BY ZenonT(30), NoEntries
  <2> QED BY ZenonT(30), <2>2, <2>3
<1>6. Unlisted(readDirMap, k[1], j, rest)
  <2>1. k[1] = p
    BY ZenonT(30)
  <2> QED BY ZenonT(30), <2>1 DEF Unlisted
<1> HIDE DEF rest
<1>7. Without(lookupTree, readDirMap, k, d.lookupTree, d.readDirMap)
  <2>1. TreeOf(lookupTree, readDirMap, Dirs)
    BY ZenonT(30) DEF TreeInv
  <2>2. d.readDirMap = IF j \in Dirs THEN Drop(rest, j) ELSE rest
    BY ZenonT(30), <1>3, <1>4
  <2>3. d.lookupTree = Drop(lookupTree, k)
    BY ZenonT(30), <1>3
  <2> QED BY ZenonT(30), <1>1, <1>6, <2>1, <2>2, <2>3, RemoveEffect
<1>8. TreeOf(d.lookupTree, d.readDirMap, Dirs) /\ ReachOf(d.lookupTree, d.readDirMap)
  BY ZenonT(30), <1>1, <1>5, <1>7, EntryRemoved DEF TreeInv, ReachInv
<1> QED BY ZenonT(30), <1>5, <1>7, <1>8

\* What a removed entry leaves of the references: the kernel has its inode, and
\* looks up no name in its directory.
LEMMA RefRemoved ==
  ASSUME FuseTypes, TreeInv, RefInv, NEW p \in DOMAIN readDirMap, NEW n \in Names,
         NEW k, k = <<p, n>>, Known(p, n), Holds(p),
         UNCHANGED <<iNodeStore, known, forgetting, looking>>,
         DOMAIN lookupTree' = DOMAIN lookupTree \ {k},
         \A l \in DOMAIN lookupTree \ {k} : lookupTree'[l] = lookupTree[l]
  PROVE  RefInv'
<1>1. /\ lookupTree[k] \in DOMAIN iNodeStore \ {RootInodeID} /\ lookupTree[k] \in known
      /\ k \in DOMAIN lookupTree
  BY EntryFacts DEF Known, Knows
<1>2. ASSUME NEW i \in DOMAIN iNodeStore, Linked(i), i # lookupTree[k] PROVE Linked(i)'
  <2>1. PICK l \in DOMAIN lookupTree : lookupTree[l] = i
    BY <1>2 DEF Linked, Range
  <2>2. l \in DOMAIN lookupTree' /\ lookupTree'[l] = i
    BY <1>2, <2>1
  <2> QED BY <2>2 DEF Linked, Range
<1>3. \A i : References(i)' = References(i) /\ IsDir(i)' = IsDir(i)
  BY DEF References, Sent, IsDir
<1>4. ASSUME NEW i \in DOMAIN iNodeStore \ {RootInodeID}
      PROVE  /\ iNodeStore'[i].refCount = References(i)'
             /\ iNodeStore'[i].refCount > 0 \/ Linked(i)' \/ ~ IsDir(i)' \/ i = forgetting'.inode
  <2>1. iNodeStore[i].refCount = References(i)
    BY DEF RefInv
  <2>2. CASE i = lookupTree[k]
    <3>1. References(i) > 0
      BY <1>1, <2>2 DEF References
    <3> QED BY <1>3, <2>1, <3>1
  <2>3. CASE i # lookupTree[k]
    BY <1>2, <1>3, <2>1, <2>3 DEF RefInv
  <2> QED BY <2>2, <2>3
<1>5. (looking = NoLookup \/ \E m \in Names :
          /\ <<looking.parent, m>> \in DOMAIN lookupTree
          /\ lookupTree[<<looking.parent, m>>] = looking.inode
          /\ looking.inode \notin known)'
  <2>1. CASE looking = NoLookup
    BY <2>1
  <2>2. CASE looking # NoLookup
    <3>1. PICK m \in Names :
            /\ <<looking.parent, m>> \in DOMAIN lookupTree
            /\ lookupTree[<<looking.parent, m>>] = looking.inode
            /\ looking.inode \notin known
      BY <2>2 DEF RefInv
    <3>2. <<looking.parent, m>> # k
      BY <2>2 DEF Holds
    <3> QED BY <3>1, <3>2
  <2> QED BY <2>1, <2>2
<1>6. (/\ known \subseteq DOMAIN iNodeStore \ {RootInodeID}
       /\ forgetting = NoForget \/ \E i \in DOMAIN iNodeStore \ {RootInodeID} :
            forgetting \in [inode : {i}, stage : {"sent", "delete"}])'
  BY DEF RefInv
<1> QED BY ZenonT(30), <1>4, <1>5, <1>6 DEF RefInv

\* A step of RmDir or Unlink that removes the entry.
LEMMA RemoveStep ==
  ASSUME StoresInv, NEW p \in DOMAIN readDirMap, NEW n \in Names, Holds(p), Known(p, n),
         DeleteNSEntry(p, n).err = "",
         lookupTree' = DeleteNSEntry(p, n).lookupTree, readDirMap' = DeleteNSEntry(p, n).readDirMap,
         UNCHANGED <<iNodeStore, localCache, backingFiles, gen, known, looking, forgetting>>,
         UNCHANGED <<writing, truncating, created, notCreated>>
  PROVE  StoresInv'
<1>0. FuseTypes /\ GenInv /\ TreeInv /\ ReachInv /\ RefInv /\ FileInv
  BY ZenonT(30) DEF StoresInv
<1>1. PICK d, k, j : d = DeleteNSEntry(p, n) /\ k = <<p, n>> /\ j = lookupTree[k]
  BY ZenonT(30)
<1>2. k \in DOMAIN lookupTree /\ d.err = "" /\ lookupTree' = d.lookupTree /\ readDirMap' = d.readDirMap
  BY ZenonT(30), <1>1 DEF Known
<1>a. /\ TreeOf(d.lookupTree, d.readDirMap, Dirs) /\ ReachOf(d.lookupTree, d.readDirMap)
      /\ Without(lookupTree, readDirMap, k, d.lookupTree, d.readDirMap)
  BY ZenonT(30), <1>0, <1>1, <1>2, Deleted
<1>3. /\ TreeOf(lookupTree', readDirMap', Dirs) /\ ReachOf(lookupTree', readDirMap')
      /\ DOMAIN lookupTree' = DOMAIN lookupTree \ {k}
      /\ \A l \in DOMAIN lookupTree \ {k} : lookupTree'[l] = lookupTree[l]
  BY ZenonT(30), <1>2, <1>a DEF Without
<1>4. FuseTypes'
  BY ZenonT(30), <1>0, <1>3 DEF FuseTypes
<1>5. Dirs' = Dirs
  BY ZenonT(30) DEF Dirs, IsDir
<1>6. TreeInv' /\ ReachInv'
  BY ZenonT(30), <1>3, <1>5 DEF TreeInv, ReachInv
<1>7. RefInv'
  BY ZenonT(30), <1>0, <1>1, <1>3, RefRemoved
<1>8. GenInv' /\ FileInv'
  BY ZenonT(30), <1>0, GenFrame, FileFrame DEF IsDir
<1> QED BY ZenonT(30), <1>4, <1>6, <1>7, <1>8 DEF StoresInv

\* RmDir removes a directory without entries.
LEMMA RmDirStep ==
  ASSUME StoresInv, NEW p \in DOMAIN readDirMap, NEW n \in Names, RmDir(p, n)
  PROVE  StoresInv' /\ NoPanic'
<1>1. StoresInv'
  BY ZenonT(30), RemoveStep DEF RmDir, files, flight, ghosts
<1> QED BY ZenonT(30), <1>1 DEF RmDir, Mounted, NoPanic

\* Unlink removes a file, which deleteNSEntry never refuses.
LEMMA UnlinkStep ==
  ASSUME StoresInv, NEW p \in DOMAIN readDirMap, NEW n \in Names, Unlink(p, n)
  PROVE  StoresInv' /\ NoPanic'
<1>1. DeleteNSEntry(p, n).err = ""
  BY DEF Unlink, DeleteNSEntry
<1>2. StoresInv'
  BY ZenonT(30), <1>1, RemoveStep DEF Unlink, files, flight, ghosts
<1> QED BY ZenonT(30), <1>2 DEF Unlink, Mounted, NoPanic

\* The generator gives numbers of its range, new ones or those that came back.
LEMMA AllocNumber ==
  ASSUME GenInv, created < MaxCreates, gen' = AllocINode(gen).g, created' = created + 1
  PROVE  GenInv' /\ AllocINode(gen).n \in Numbers
<1>1. /\ gen.highestInode \in FirstINode .. FirstINode + created /\ gen.freeInodes \in Seq(Numbers)
      /\ created \in 0 .. MaxCreates
      /\ gen = [highestInode |-> gen.highestInode, freeInodes |-> gen.freeInodes]
  BY DEF GenInv
<1>2. created' \in 0 .. MaxCreates
  BY <1>1, FuseAssumption
<1>3. CASE gen.freeInodes = <<>>
  <2>1. /\ gen' = [highestInode |-> gen.highestInode + 1, freeInodes |-> gen.freeInodes]
        /\ AllocINode(gen).n = gen.highestInode + 1
    BY <1>1, <1>3 DEF AllocINode
  <2>2. /\ gen.highestInode + 1 \in FirstINode .. FirstINode + created'
        /\ gen.highestInode + 1 \in Numbers
    BY <1>1, FuseAssumption DEF Numbers
  <2> QED BY <1>1, <1>2, <2>1, <2>2 DEF GenInv
<1>4. CASE gen.freeInodes # <<>>
  <2> DEFINE last == Len(gen.freeInodes)
  <2>1. PICK h : /\ h \in {FirstINode, gen.highestInode}
                 /\ gen' = [highestInode |-> h, freeInodes |-> SubSeq(gen.freeInodes, 1, last - 1)]
                 /\ AllocINode(gen).n = gen.freeInodes[last]
    BY ZenonT(30), <1>4 DEF AllocINode
  <2>2. h \in FirstINode .. FirstINode + created'
    BY <1>1, <2>1, FuseAssumption
  <2>3. SubSeq(gen.freeInodes, 1, last - 1) \in Seq(Numbers) /\ gen.freeInodes[last] \in Numbers
    BY <1>1, <1>4
  <2> QED BY <1>2, <2>1, <2>2, <2>3 DEF GenInv
<1> QED BY <1>3, <1>4

\* createNode with a number that is not in use.
LEMMA CreateNodeStep ==
  ASSUME StoresInv, NEW p \in DOMAIN readDirMap, NEW n \in Names,
         NEW t, t = <<p, n>>, t \notin DOMAIN lookupTree,
         NEW dir \in BOOLEAN, NEW ok \in BOOLEAN, CreateNode(p, n, dir, ok),
         faults' = {}, UNCHANGED flight
  PROVE  StoresInv'
<1>0. FuseTypes /\ GenInv /\ TreeInv /\ ReachInv /\ RefInv /\ FileInv
  BY DEF StoresInv
<1>i. PICK i : i = AllocINode(gen).n
  OBVIOUS
<1>r. PICK r : r = [dir |-> dir, refCount |-> 1, Size |-> 0]
  BY ZenonT(30)
<1>1. /\ created < MaxCreates /\ created' = created + 1 /\ gen' = AllocINode(gen).g
      /\ UNCHANGED <<looking, forgetting, writing, truncating>>
      /\ lookupTree' = With(lookupTree, t, i)
      /\ iNodeStore' = With(iNodeStore, i, r)
      /\ known' = known \cup {i}
      /\ i \notin DOMAIN iNodeStore
  BY <1>i, <1>r DEF CreateNode, flight
<1>2. GenInv' /\ i \in Numbers
  BY <1>0, <1>1, <1>i, AllocNumber
<1>3. i \in INodes /\ i # RootInodeID /\ i # None
  BY <1>2, NumberFacts
<1>4. /\ DOMAIN lookupTree' = DOMAIN lookupTree \cup {t} /\ lookupTree'[t] = i
      /\ \A l \in DOMAIN lookupTree : lookupTree'[l] = lookupTree[l]
  BY <1>1 DEF With
<1>5. /\ DOMAIN iNodeStore' = DOMAIN iNodeStore \cup {i} /\ iNodeStore'[i] = r
      /\ \A j \in DOMAIN iNodeStore : iNodeStore'[j] = iNodeStore[j] /\ IsDir(j)' = IsDir(j)
  BY <1>1 DEF With, IsDir
<1>6. r \in NodeRecord /\ r.dir = dir /\ r.refCount = 1 /\ r.Size = 0 /\ IsDir(i)' = dir
  BY <1>5, <1>r DEF NodeRecord, IsDir
<1>7. /\ DOMAIN localCache' = DOMAIN localCache \cup (IF ~ dir /\ ok THEN {i} ELSE {})
      /\ \A j \in DOMAIN localCache : j # i => localCache'[j] = localCache[j]
      /\ ~ dir /\ ok => localCache'[i] = 0
      /\ backingFiles \subseteq backingFiles' /\ notCreated \subseteq notCreated' \cup {i}
      /\ ~ dir => i \in backingFiles' \cup notCreated'
      /\ dir => UNCHANGED <<backingFiles, notCreated>>
  <2>1. CASE dir
    BY <2>1 DEF CreateNode, files
  <2>2. CASE ~ dir /\ ok
    <3>1. localCache' = With(localCache, i, 0)
      BY <1>i, <2>2 DEF CreateNode
    <3>2. /\ DOMAIN localCache' = DOMAIN localCache \cup {i} /\ localCache'[i] = 0
          /\ \A j \in DOMAIN localCache : j # i => localCache'[j] = localCache[j]
      BY <3>1 DEF With
    <3>3. backingFiles' = backingFiles \cup {i} /\ notCreated' = notCreated \ {i}
      BY <1>i, <2>2 DEF CreateNode
    <3> QED BY <2>2, <3>2, <3>3
  <2>3. CASE ~ dir /\ ~ ok
    BY <1>i, <2>3 DEF CreateNode, files
  <2> QED BY <2>1, <2>2, <2>3
<1>8. FuseTypes'
  <2>1. \A j \in DOMAIN iNodeStore' : iNodeStore'[j] \in NodeRecord
    BY <1>0, <1>5, <1>6 DEF FuseTypes
  <2>2. \A l \in DOMAIN lookupTree' : lookupTree'[l] \in DOMAIN iNodeStore'
    BY <1>0, <1>4, <1>5 DEF FuseTypes
  <2>3. \A j \in DOMAIN localCache' : localCache'[j] \in Nat
    <3>1. i \notin DOMAIN localCache
      BY <1>0, <1>1 DEF FileInv
    <3> QED BY <1>0, <1>7, <3>1 DEF FuseTypes
  <2> QED BY <1>0, <1>2, <1>5, <2>1, <2>2, <2>3 DEF FuseTypes
<1>9. TreeInv' /\ ReachInv'
  <2>1. i \notin Range(lookupTree) /\ i \notin Dirs
    BY <1>0, <1>1 DEF FuseTypes, Range, Dirs
  <2>2. PICK P, e : /\ P = (IF dir THEN With(readDirMap, i, <<>>) ELSE readDirMap)
                    /\ e = [name |-> n, dir |-> dir]
    BY ZenonT(30)
  <2>3. readDirMap' = With(P, p, With(P[p], i, e)) /\ e.name = n
    BY <1>i, <2>2 DEF CreateNode
  <2>4. TreeOf(lookupTree, readDirMap, Dirs) /\ ReachOf(lookupTree, readDirMap)
    BY <1>0 DEF TreeInv, ReachInv
  <2>5. WithEntry(lookupTree, readDirMap, t, i, dir, lookupTree', readDirMap')
    BY <1>1, <2>1, <2>2, <2>3, <2>4, AddEffect
  <2>6. Dirs' = IF dir THEN Dirs \cup {i} ELSE Dirs
    BY <1>5, <1>6 DEF Dirs
  <2>7. TreeOf(lookupTree', readDirMap', Dirs') /\ ReachOf(lookupTree', readDirMap')
    BY <1>3, <2>1, <2>4, <2>5, <2>6, EntryAdded
  <2> QED BY <2>7 DEF TreeInv, ReachInv
<1>10. FileInv'
  <2>0. i \notin DOMAIN localCache
    BY <1>0, <1>1 DEF FileInv
  <2>1. (DOMAIN localCache \subseteq {j \in DOMAIN iNodeStore : ~ IsDir(j)})'
    BY <1>0, <1>5, <1>6, <1>7 DEF FileInv
  <2>2. (writing = None \/ writing \in DOMAIN localCache)'
    BY <1>0, <1>1, <1>7 DEF FileInv
  <2>3. (truncating = NoTruncation \/
          /\ truncating.inode \in DOMAIN localCache /\ truncating.size \in Nat
          /\ writing = truncating.inode \/ localCache[truncating.inode] = truncating.size)'
    <3>1. CASE truncating = NoTruncation
      BY <1>1, <3>1
    <3>2. CASE truncating # NoTruncation
      <4>1. /\ truncating.inode \in DOMAIN localCache /\ truncating.size \in Nat
            /\ writing = truncating.inode \/ localCache[truncating.inode] = truncating.size
        BY <1>0, <3>2 DEF FileInv
      <4> QED BY <1>1, <1>7, <2>0, <4>1
    <3> QED BY <3>1, <3>2
  <2>4. (\A j \in DOMAIN localCache :
            j # writing /\ j # truncating.inode => iNodeStore[j].Size = localCache[j])'
    <3> SUFFICES ASSUME NEW j \in DOMAIN localCache', j # writing, j # truncating.inode
                 PROVE  iNodeStore'[j].Size = localCache'[j]
      BY <1>1
    <3>1. CASE j = i
      BY <1>5, <1>6, <1>7, <2>0, <3>1
    <3>2. CASE j # i
      <4>1. j \in DOMAIN localCache /\ j \in DOMAIN iNodeStore
        BY <1>0, <1>7, <3>2 DEF FileInv
      <4>2. iNodeStore[j].Size = localCache[j]
        BY <1>0, <4>1 DEF FileInv
      <4> QED BY <1>5, <1>7, <3>2, <4>1, <4>2
    <3> QED BY <3>1, <3>2
  <2>5. (\A j \in DOMAIN iNodeStore : ~ IsDir(j) => j \in backingFiles \cup notCreated)'
    <3> SUFFICES ASSUME NEW j \in DOMAIN iNodeStore', ~ IsDir(j)'
                 PROVE  j \in backingFiles' \cup notCreated'
      OBVIOUS
    <3>1. CASE j = i
      BY <1>6, <1>7, <3>1
    <3>2. CASE j # i
      <4>1. j \in backingFiles \cup notCreated
        BY <1>0, <1>5, <3>2 DEF FileInv
      <4> QED BY <1>7, <3>2, <4>1
    <3> QED BY <3>1, <3>2
  <2> QED BY <2>1, <2>2, <2>3, <2>4, <2>5 DEF FileInv
<1>11. RefInv'
  <2>1. ~ Sent(i)
    <3>1. forgetting.inode # i
      BY <1>0, <1>1, <1>3 DEF RefInv, NoForget
    <3> QED BY <3>1 DEF Sent
  <2>2. i \notin known
    BY <1>0, <1>1 DEF RefInv
  <2>3. References(i)' = 1
    BY <1>1, <2>1 DEF References, Sent
  <2>4. \A j : j # i => References(j)' = References(j)
    BY <1>1 DEF References, Sent
  <2>5. \A j : Linked(j) => Linked(j)'
    BY <1>4 DEF Linked, Range
  <2>6. ASSUME NEW j \in DOMAIN iNodeStore' \ {RootInodeID}
        PROVE  /\ iNodeStore'[j].refCount = References(j)'
               /\ iNodeStore'[j].refCount > 0 \/ Linked(j)' \/ ~ IsDir(j)' \/ j = forgetting'.inode
    <3>1. CASE j = i
      BY <1>5, <1>6, <2>3, <3>1
    <3>2. CASE j # i
      <4>1. /\ j \in DOMAIN iNodeStore \ {RootInodeID} /\ iNodeStore'[j] = iNodeStore[j]
            /\ IsDir(j)' = IsDir(j) /\ forgetting' = forgetting
        BY <1>1, <1>5, <3>2
      <4> QED BY <1>0, <2>4, <2>5, <3>2, <4>1 DEF RefInv
    <3> QED BY <3>1, <3>2
  <2>7. (known \subseteq DOMAIN iNodeStore \ {RootInodeID})'
    BY <1>0, <1>1, <1>3, <1>5 DEF RefInv
  <2>8. (forgetting = NoForget \/ \E j \in DOMAIN iNodeStore \ {RootInodeID} :
              forgetting \in [inode : {j}, stage : {"sent", "delete"}])'
    BY <1>0, <1>1, <1>5 DEF RefInv
  <2>9. (looking = NoLookup \/ \E m \in Names :
              /\ <<looking.parent, m>> \in DOMAIN lookupTree
              /\ lookupTree[<<looking.parent, m>>] = looking.inode
              /\ looking.inode \notin known)'
    <3>1. CASE looking = NoLookup
      BY <1>1, <3>1
    <3>2. CASE looking # NoLookup
      <4>1. PICK m \in Names :
              /\ <<looking.parent, m>> \in DOMAIN lookupTree
              /\ lookupTree[<<looking.parent, m>>] = looking.inode
        BY <1>0, <3>2 DEF RefInv
      <4>2. looking.inode \notin known /\ looking.inode # i
        BY <1>1, <3>2, LookingFacts
      <4> QED BY <1>1, <1>4, <4>1, <4>2
    <3> QED BY ZenonT(30), <3>1, <3>2
  <2> QED BY <2>6, <2>7, <2>8, <2>9 DEF RefInv
<1> QED BY <1>2, <1>8, <1>9, <1>10, <1>11 DEF StoresInv

\* MkDir: the directory the kernel names is there, so that the check passes.
LEMMA MkDirStep ==
  ASSUME StoresInv, NEW p \in DOMAIN readDirMap, NEW n \in Names, MkDir(p, n), faults' = {}
  PROVE  StoresInv' /\ NoPanic'
<1>1. p \in DOMAIN iNodeStore /\ IsDir(p)
  BY DirFacts DEF StoresInv
<1>2. PreCreateCheck(p, n)
  BY <1>1 DEF MkDir, PreCreateCheck
<1>3. CreateNode(p, n, TRUE, TRUE) /\ UNCHANGED <<panicked, flight>> /\ panicked = ""
  BY ZenonT(30), <1>2 DEF MkDir, Mounted
<1>4. <<p, n>> \notin DOMAIN lookupTree
  BY DEF MkDir
<1>5. StoresInv'
  BY ZenonT(30), <1>3, <1>4, CreateNodeStep
<1> QED BY ZenonT(30), <1>3, <1>5 DEF NoPanic

\* CreateFile, whether or not the backing file is created.
LEMMA CreateFileStep ==
  ASSUME StoresInv, NEW p \in DOMAIN readDirMap, NEW n \in Names, NEW ok \in BOOLEAN,
         CreateFile(p, n, ok), faults' = {}
  PROVE  StoresInv' /\ NoPanic'
<1>1. /\ CreateNode(p, n, FALSE, ok) /\ UNCHANGED <<panicked, flight>> /\ panicked = ""
      /\ <<p, n>> \notin DOMAIN lookupTree
  BY ZenonT(30) DEF CreateFile, Mounted
<1>2. StoresInv'
  BY ZenonT(30), <1>1, CreateNodeStep
<1> QED BY ZenonT(30), <1>1, <1>2 DEF NoPanic

\* What is below an inode, in the tree as it is.
LEMMA BelowUnder ==
  ASSUME NEW i
  PROVE  Below(i) = Under(KidsOf(readDirMap), i)
<1>1. \A c \in INodes : KidsOf(readDirMap)[c] = DOMAIN Children(c)
  BY NoEntries DEF KidsOf, Children
<1>2. \A S \in SUBSET INodes :
         ClosedUnder(KidsOf(readDirMap), S) <=> \A c \in S : DOMAIN Children(c) \subseteq S
  BY <1>1 DEF ClosedUnder
<1> QED BY <1>2 DEF Below, Under

\* With fewer entries there is no more below an inode.
LEMMA UnderShrinks ==
  ASSUME NEW K, NEW N, NEW i, \A d \in INodes : N[d] \subseteq K[d]
  PROVE  Under(N, i) \subseteq Under(K, i)
<1>1. \A S \in SUBSET INodes : ClosedUnder(K, S) => ClosedUnder(N, S)
  BY DEF ClosedUnder
<1> QED BY <1>1 DEF Under

\* L and R are the structures in which Rename moves the entry k to t, in q: those
\* that it found without an entry in the way.
Moves(L, R, P, k, q, t, i, e) ==
    /\ TreeOf(L, R, Dirs) /\ ReachOf(L, R)
    /\ k \in DOMAIN L \ {Root} /\ L[k] = i /\ q \in DOMAIN R
    /\ q \notin Under(KidsOf(R), i)
    /\ DOMAIN L = DOMAIN lookupTree \ {t} /\ \A l \in DOMAIN L : L[l] = lookupTree[l]
    /\ lookupTree' = With(Drop(L, k), t, i)
    /\ Unlisted(R, k[1], i, P) /\ readDirMap' = With(P, q, With(P[q], i, e))

\* The lookup tree with the entry k at t.
LinkedAt(k, t) ==
    /\ t \in DOMAIN lookupTree' /\ lookupTree'[t] = lookupTree[k]
    /\ \A l \in DOMAIN lookupTree \ {k, t} :
          l \in DOMAIN lookupTree' /\ lookupTree'[l] = lookupTree[l]

\* Rename moves its entry in the structures that it found, or in those that
\* deleteNSEntry leaves of them.
LEMMA Kept ==
  ASSUME StoresInv, NEW p \in DOMAIN readDirMap, NEW n \in Names,
         NEW q \in DOMAIN readDirMap, NEW m \in Names, Rename(p, n, q, m), faults' = {},
         NEW k, k = <<p, n>>, NEW t, t = <<q, m>>, NEW i, i = lookupTree[k],
         NEW e, e = [name |-> m, dir |-> IsDir(i)]
  PROVE  \E L, R, P : Moves(L, R, P, k, q, t, i, e)
<1>0. FuseTypes /\ TreeInv /\ ReachInv
  BY DEF StoresInv
<1>1. k # t /\ k \in DOMAIN lookupTree /\ q \notin Below(i)
  BY ZenonT(30) DEF Rename, Known
<1>2. k # Root
  BY <1>0, <1>1, EntryFacts
<1>3. q \notin Under(KidsOf(readDirMap), i)
  BY <1>1, BelowUnder
<1>6. k[1] = p
  OBVIOUS
<1>4. CASE t \in DOMAIN lookupTree
  <2>1. PICK d : d = DeleteNSEntry(q, m)
    OBVIOUS
  <2>2. PICK j : j = lookupTree[t]
    OBVIOUS
  <2>3. d.err = ""
    <3>1. faults' = faults \cup (IF d.err # "" THEN {"renamed over"} ELSE {})
      BY ZenonT(30), <1>4, <2>1 DEF Rename
    <3> QED BY ZenonT(30), <3>1
  <2>4. /\ TreeOf(d.lookupTree, d.readDirMap, Dirs) /\ ReachOf(d.lookupTree, d.readDirMap)
        /\ Without(lookupTree, readDirMap, t, d.lookupTree, d.readDirMap)
        /\ j \in DOMAIN readDirMap => DOMAIN readDirMap[j] = {}
    BY ZenonT(30), <1>0, <1>4, <2>1, <2>2, <2>3, Deleted
  <2>5. /\ DOMAIN d.lookupTree = DOMAIN lookupTree \ {t}
        /\ \A l \in DOMAIN d.lookupTree : d.lookupTree[l] = lookupTree[l]
        /\ DOMAIN d.readDirMap = DOMAIN readDirMap \ {j}
        /\ \A x \in DOMAIN d.readDirMap : DOMAIN d.readDirMap[x] = DOMAIN readDirMap[x] \ {j}
    BY ZenonT(30), <2>2, <2>4 DEF Without
  <2>6. j \in DOMAIN readDirMap[q]
    BY <1>0, <1>4, <2>2, EntryFacts
  <2>7. q \in DOMAIN d.readDirMap
    BY ZenonT(30), <2>4, <2>5, <2>6
  <2>8. q \notin Under(KidsOf(d.readDirMap), i)
    <3>1. \A x \in INodes : KidsOf(d.readDirMap)[x] \subseteq KidsOf(readDirMap)[x]
      BY <2>5 DEF KidsOf
    <3> QED BY <1>3, <3>1, UnderShrinks
  <2>p. PICK P : P = [d.readDirMap EXCEPT ![p] = Drop(@, i)]
    BY ZenonT(30)
  <2>9. /\ lookupTree' = With(Drop(d.lookupTree, k), t, i)
        /\ readDirMap' = With(P, q, With(P[q], i, e))
    BY ZenonT(30), <1>4, <2>1, <2>p DEF Rename
  <2>u. Unlisted(d.readDirMap, k[1], i, P)
    BY <1>6, <2>p DEF Unlisted
  <2>10. k \in DOMAIN d.lookupTree \ {Root} /\ d.lookupTree[k] = i
    BY <1>1, <1>2, <2>5
  <2>11. Moves(d.lookupTree, d.readDirMap, P, k, q, t, i, e)
    BY ZenonT(30), <2>4, <2>5, <2>7, <2>8, <2>9, <2>10, <2>u DEF Moves
  <2> QED BY <2>11
<1>5. CASE t \notin DOMAIN lookupTree
  <2>p. PICK P : P = [readDirMap EXCEPT ![p] = Drop(@, i)]
    BY ZenonT(30)
  <2>1. /\ lookupTree' = With(Drop(lookupTree, k), t, i)
        /\ readDirMap' = With(P, q, With(P[q], i, e))
    BY <1>5, <2>p DEF Rename
  <2>u. Unlisted(readDirMap, k[1], i, P)
    BY <1>6, <2>p DEF Unlisted
  <2>2. DOMAIN lookupTree = DOMAIN lookupTree \ {t}
    BY ZenonT(30), <1>5
  <2>3. Moves(lookupTree, readDirMap, P, k, q, t, i, e)
    BY ZenonT(30), <1>0, <1>1, <1>2, <1>3, <2>1, <2>2, <2>u DEF TreeInv, ReachInv, Moves
  <2> QED BY <2>3
<1> QED BY <1>4, <1>5

\* What a move leaves of the references: the inode that was in the way is one the
\* kernel has, and it looks up no name in the two directories.
LEMMA RefRenamed ==
  ASSUME FuseTypes, TreeInv, RefInv, NEW p \in DOMAIN readDirMap, NEW n \in Names,
         NEW q \in DOMAIN readDirMap, NEW m \in Names, Holds(p), Holds(q),
         NEW k, k = <<p, n>>, NEW t, t = <<q, m>>, k \in DOMAIN lookupTree,
         t \in DOMAIN lookupTree => Known(q, m),
         UNCHANGED <<iNodeStore, known, forgetting, looking>>,
         LinkedAt(k, t)
  PROVE  RefInv'
<1>1. ASSUME NEW j, t \in DOMAIN lookupTree, j = lookupTree[t] PROVE j \in known
  BY ZenonT(30), <1>1, EntryFacts DEF Known, Knows
<1>2. ASSUME NEW j \in DOMAIN iNodeStore, Linked(j), j \notin known PROVE Linked(j)'
  <2>1. PICK l \in DOMAIN lookupTree : lookupTree[l] = j
    BY <1>2 DEF Linked, Range
  <2>2. l # t
    BY <1>1, <1>2, <2>1
  <2>3. \E x \in DOMAIN lookupTree' : lookupTree'[x] = j
    BY <2>1, <2>2 DEF LinkedAt
  <2> QED BY <2>3 DEF Linked, Range
<1>3. \A j : References(j)' = References(j) /\ IsDir(j)' = IsDir(j)
  BY DEF References, Sent, IsDir
<1>4. ASSUME NEW j \in DOMAIN iNodeStore \ {RootInodeID}
      PROVE  /\ iNodeStore'[j].refCount = References(j)'
             /\ iNodeStore'[j].refCount > 0 \/ Linked(j)' \/ ~ IsDir(j)' \/ j = forgetting'.inode
  <2>1. iNodeStore[j].refCount = References(j)
    BY DEF RefInv
  <2>2. CASE j \in known
    <3>1. References(j) > 0
      BY <2>2 DEF References
    <3> QED BY <1>3, <2>1, <3>1
  <2>3. CASE j \notin known
    BY <1>2, <1>3, <2>1, <2>3 DEF RefInv
  <2> QED BY <2>2, <2>3
<1>5. (looking = NoLookup \/ \E x \in Names :
          /\ <<looking.parent, x>> \in DOMAIN lookupTree
          /\ lookupTree[<<looking.parent, x>>] = looking.inode
          /\ looking.inode \notin known)'
  <2>1. CASE looking = NoLookup
    BY <2>1
  <2>2. CASE looking # NoLookup
    <3>1. PICK x \in Names :
            /\ <<looking.parent, x>> \in DOMAIN lookupTree
            /\ lookupTree[<<looking.parent, x>>] = looking.inode
            /\ looking.inode \notin known
      BY <2>2 DEF RefInv
    <3>2. <<looking.parent, x>> # k /\ <<looking.parent, x>> # t
      BY ZenonT(30), <2>2 DEF Holds
    <3> QED BY <3>1, <3>2 DEF LinkedAt
  <2> QED BY ZenonT(30), <2>1, <2>2
<1>6. (/\ known \subseteq DOMAIN iNodeStore \ {RootInodeID}
       /\ forgetting = NoForget \/ \E i \in DOMAIN iNodeStore \ {RootInodeID} :
            forgetting \in [inode : {i}, stage : {"sent", "delete"}])'
  BY DEF RefInv
<1> QED BY ZenonT(30), <1>4, <1>5, <1>6 DEF RefInv

\* Rename, when the removal of an entry in its way returned no error.
LEMMA RenameStep ==
  ASSUME StoresInv, NEW p \in DOMAIN readDirMap, NEW n \in Names,
         NEW q \in DOMAIN readDirMap, NEW m \in Names, Rename(p, n, q, m), faults' = {}
  PROVE  StoresInv' /\ NoPanic'
<1>0. FuseTypes /\ GenInv /\ TreeInv /\ ReachInv /\ RefInv /\ FileInv
  BY DEF StoresInv
<1>1. PICK k, t, i, e : /\ k = <<p, n>> /\ t = <<q, m>> /\ i = lookupTree[k]
                        /\ e = [name |-> m, dir |-> IsDir(i)]
  BY ZenonT(30)
<1>2. PICK L, R, P : Moves(L, R, P, k, q, t, i, e)
  BY <1>1, Kept
<1>3. /\ TreeOf(L, R, Dirs) /\ ReachOf(L, R)
      /\ k \in DOMAIN L \ {Root} /\ L[k] = i /\ q \in DOMAIN R
      /\ q \notin Under(KidsOf(R), L[k])
      /\ DOMAIN L = DOMAIN lookupTree \ {t} /\ t \notin DOMAIN L
      /\ \A l \in DOMAIN L : L[l] = lookupTree[l]
  BY <1>2 DEF Moves
<1>4. /\ lookupTree' = With(Drop(L, k), t, i)
      /\ Unlisted(R, k[1], i, P) /\ readDirMap' = With(P, q, With(P[q], i, e))
      /\ e.name = m
  BY <1>1, <1>2 DEF Moves
<1>7. MovedTo(L, R, k, t, lookupTree', readDirMap')
  BY <1>1, <1>3, <1>4, MoveEffect
<1>8. TreeOf(lookupTree', readDirMap', Dirs) /\ ReachOf(lookupTree', readDirMap')
  BY ZenonT(30), <1>1, <1>3, <1>7, EntryMoved
<1>9. /\ UNCHANGED <<mount, iNodeStore, localCache, backingFiles, gen, known, looking, forgetting>>
      /\ UNCHANGED <<writing, truncating, created, notCreated, panicked>>
      /\ Holds(p) /\ Holds(q)
      /\ t \in DOMAIN lookupTree => Known(q, m)
  BY ZenonT(30), <1>1 DEF Rename, files, flight, ghosts
<1>10. TreeInv' /\ ReachInv'
  <2>1. Dirs' = Dirs
    BY <1>9 DEF Dirs, IsDir
  <2> QED BY <1>8, <2>1 DEF TreeInv, ReachInv
<1>11. /\ DOMAIN lookupTree' = (DOMAIN L \ {k}) \cup {t} /\ lookupTree'[t] = i
       /\ \A l \in DOMAIN L \ {k} : lookupTree'[l] = L[l]
  BY ZenonT(30), <1>3, <1>7 DEF MovedTo
<1>12. /\ k \in DOMAIN lookupTree /\ lookupTree'[t] = lookupTree[k]
       /\ \A l \in DOMAIN lookupTree' \ {t} : l \in DOMAIN lookupTree /\ lookupTree'[l] = lookupTree[l]
  BY ZenonT(30), <1>1, <1>3, <1>11
<1>a. LinkedAt(k, t)
  BY ZenonT(30), <1>1, <1>3, <1>11 DEF LinkedAt
<1>13. FuseTypes'
  <2>1. \A l \in DOMAIN lookupTree' : lookupTree'[l] \in DOMAIN iNodeStore'
    BY <1>0, <1>9, <1>12 DEF FuseTypes
  <2> QED BY ZenonT(30), <1>0, <1>9, <2>1 DEF FuseTypes
<1>14. RefInv'
  BY ZenonT(30), <1>0, <1>1, <1>9, <1>12, <1>a, RefRenamed
<1>15. GenInv' /\ FileInv'
  BY <1>0, <1>9, GenFrame, FileFrame DEF IsDir
<1>16. NoPanic'
  BY ZenonT(30), <1>9 DEF NoPanic, Rename, Mounted
<1> QED BY <1>10, <1>13, <1>14, <1>15, <1>16 DEF StoresInv

-----------------------------------------------------------------------------
(* The inductive invariant and what it implies.                            *)

\* A fault stays: where there is none after a step there was none before.
LEMMA FaultsStay ==
  ASSUME MountStep \/ Unmount, faults' = {}
  PROVE  faults = {} /\ Mounted
<1>1. CASE NameStep
  <2>1. PICK p, n :
           \/ MkDir(p, n)
           \/ \E ok : CreateFile(p, n, ok)
           \/ RmDir(p, n) \/ Unlink(p, n) \/ LookUpInode(p, n)
           \/ \E q, m : Rename(p, n, q, m)
    BY ZenonT(30), <1>1 DEF NameStep
  <2>2. CASE MkDir(p, n)
    BY <2>2 DEF MkDir, CreateNode
  <2>3. ASSUME NEW ok, CreateFile(p, n, ok) PROVE faults = {} /\ Mounted
    BY ZenonT(30), <2>3 DEF CreateFile, CreateNode
  <2>4. CASE RmDir(p, n) \/ Unlink(p, n) \/ LookUpInode(p, n)
    BY ZenonT(30), <2>4 DEF RmDir, Unlink, LookUpInode
  <2>5. ASSUME NEW q, NEW m, Rename(p, n, q, m) PROVE faults = {} /\ Mounted
    BY ZenonT(30), <2>5 DEF Rename
  <2> QED BY <2>1, <2>2, <2>3, <2>4, <2>5
<1>2. CASE INodeStep
  BY <1>2 DEF INodeStep, KernelForgets, ForgetInode, ForgetDelete, ReadFile, WriteFile,
              SetInodeAttributes, SyncFile
<1>3. CASE LookUpCount \/ WriteStat \/ SetSize \/ Unmount
  BY ZenonT(30), <1>3 DEF LookUpCount, WriteStat, SetSize, Unmount
<1> QED BY <1>1, <1>2, <1>3 DEF MountStep

\* The operations on a name in a directory: they keep the structures in
\* agreement, and report no panic.
LEMMA NameStepKeeps ==
  ASSUME StoresInv, NameStep, faults' = {}
  PROVE  StoresInv' /\ NoPanic'
<1>1. PICK p \in DOMAIN readDirMap, n \in Names :
         \/ MkDir(p, n)
         \/ \E ok \in BOOLEAN : CreateFile(p, n, ok)
         \/ RmDir(p, n)
         \/ Unlink(p, n)
         \/ LookUpInode(p, n)
         \/ \E q \in DOMAIN readDirMap, m \in Names : Rename(p, n, q, m)
  BY DEF NameStep
<1>2. CASE MkDir(p, n)
  BY <1>2, MkDirStep
<1>3. CASE \E ok \in BOOLEAN : CreateFile(p, n, ok)
  BY <1>3, CreateFileStep
<1>4. CASE RmDir(p, n)
  BY <1>4, RmDirStep
<1>5. CASE Unlink(p, n)
  BY <1>5, UnlinkStep
<1>6. CASE LookUpInode(p, n)
  BY <1>6, LookUpInodeStep
<1>7. CASE \E q \in DOMAIN readDirMap, m \in Names : Rename(p, n, q, m)
  BY <1>7, RenameStep
<1> QED BY <1>1, <1>2, <1>3, <1>4, <1>5, <1>6, <1>7

\* The operations on an inode keep them in agreement too.
LEMMA INodeStepKeeps ==
  ASSUME StoresInv, INodeStep, faults' = {}
  PROVE  StoresInv' /\ NoPanic'
<1>1. PICK i \in INodes \ {RootInodeID} :
         \/ KernelForgets(i)
         \/ ForgetInode(i)
         \/ ForgetDelete(i)
         \/ ReadFile(i)
         \/ \E e \in 1 .. MaxSize : WriteFile(i, e)
         \/ \E s \in 0 .. MaxSize : SetInodeAttributes(i, s)
         \/ SyncFile(i)
  BY DEF INodeStep
<1>2. CASE KernelForgets(i)
  BY <1>2, KernelForgetsStep
<1>3. CASE ForgetInode(i)
  BY <1>3, ForgetInodeStep
<1>4. CASE ForgetDelete(i)
  BY <1>4, ForgetDeleteStep
<1>5. CASE ReadFile(i)
  BY <1>5, ReadFileStep
<1>6. CASE \E e \in 1 .. MaxSize : WriteFile(i, e)
  BY <1>6, WriteFileStep
<1>7. CASE \E s \in 0 .. MaxSize : SetInodeAttributes(i, s)
  BY <1>7, SetInodeAttributesStep
<1>8. CASE SyncFile(i)
  BY <1>8, SyncFileStep
<1> QED BY <1>1, <1>2, <1>3, <1>4, <1>5, <1>6, <1>7, <1>8

\* The mount starts with the root only.
LEMMA FuseInit == Init => FuseInv
<1> SUFFICES ASSUME Init PROVE FuseInv
  OBVIOUS
<1> DEFINE r == [dir |-> TRUE, refCount |-> 1, Size |-> 0]
<1>1. /\ DOMAIN lookupTree = {Root} /\ lookupTree[Root] = RootInodeID
      /\ DOMAIN readDirMap = {RootInodeID} /\ readDirMap[RootInodeID] = <<>>
      /\ DOMAIN iNodeStore = {RootInodeID} /\ iNodeStore[RootInodeID] = r
      /\ localCache = <<>> /\ known = {} /\ looking = NoLookup /\ forgetting = NoForget
      /\ writing = None /\ truncating = NoTruncation /\ created = 0 /\ panicked = ""
  BY ZenonT(30) DEF Init, Root
<1>2. DOMAIN localCache = {} /\ DOMAIN readDirMap[RootInodeID] = {}
  BY ZenonT(30), <1>1, NoEntries
<1>3. r \in NodeRecord /\ r.dir
  BY DEF NodeRecord
<1>4. FuseTypes
  BY ZenonT(30), <1>1, <1>2, <1>3 DEF FuseTypes
<1>5. GenInv
  <2>0. MaxCreates \in Nat /\ FirstINode \in Nat
    BY FuseAssumption
  <2>a. created = 0
    BY ZenonT(30), <1>1
  <2>1. <<>> \in Seq(Numbers) /\ FirstINode \in FirstINode .. FirstINode + created
    BY <2>0, <2>a
  <2>2. gen = [highestInode |-> FirstINode, freeInodes |-> <<>>]
    BY ZenonT(30) DEF Init
  <2>3. created \in 0 .. MaxCreates
    BY <2>0, <2>a
  <2> QED BY <2>1, <2>2, <2>3 DEF GenInv
<1>6. Dirs = {RootInodeID}
  BY ZenonT(30), <1>1, <1>3 DEF Dirs, IsDir
<1>7. TreeInv
  BY ZenonT(30), <1>1, <1>2, <1>6, NumberFacts DEF TreeInv, TreeOf
<1>8. ReachInv
  <2>1. Range(lookupTree) = {RootInodeID}
    BY ZenonT(30), <1>1 DEF Range
  <2> QED BY <2>1 DEF ReachInv, ReachOf, Reaches
<1>9. RefInv
  BY ZenonT(30), <1>1 DEF RefInv
<1>10. FileInv
  BY ZenonT(30), <1>1, <1>2, <1>3 DEF FileInv, IsDir
<1> QED BY ZenonT(30), <1>1, <1>4, <1>5, <1>7, <1>8, <1>9, <1>10 DEF FuseInv, StoresInv, NoPanic

\* Every operation keeps the invariant.
LEMMA FuseNext ==
  ASSUME FuseInv, [MountStep \/ Unmount]_fsVars
  PROVE  FuseInv'
<1>1. CASE UNCHANGED fsVars
  <2>1. /\ UNCHANGED <<mount, lookupTree, readDirMap, iNodeStore, localCache, backingFiles, gen>>
        /\ UNCHANGED <<known, looking, forgetting, writing, truncating, created, notCreated>>
        /\ UNCHANGED <<panicked, faults>>
    BY <1>1 DEF fsVars, tree, files, flight, ghosts
  <2>2. StoresInv => StoresInv'
    BY <2>1, TypesFrame, TreeFrame, GenFrame, RefFrame, FileFrame DEF StoresInv, tree, IsDir
  <2>3. NoPanic' = NoPanic /\ Sound' = Sound
    BY <2>1 DEF NoPanic, Sound
  <2> QED BY <2>2, <2>3 DEF FuseInv
<1>2. CASE MountStep \/ Unmount
  <2>1. CASE faults' # {}
    BY ZenonT(30), <2>1 DEF FuseInv, Sound, NoPanic
  <2>2. CASE faults' = {}
    <3>1. faults = {} /\ Mounted
      BY <1>2, <2>2, FaultsStay
    <3>2. StoresInv
      BY ZenonT(30), <3>1 DEF FuseInv, Sound, Mounted
    <3>3. CASE NameStep
      BY <2>2, <3>2, <3>3, NameStepKeeps DEF FuseInv
    <3>4. CASE INodeStep
      BY <2>2, <3>2, <3>4, INodeStepKeeps DEF FuseInv
    <3>5. CASE LookUpCount
      BY <2>2, <3>2, <3>5, LookUpCountStep DEF FuseInv
    <3>6. CASE WriteStat
      BY <3>2, <3>6, WriteStatStep DEF FuseInv
    <3>7. CASE SetSize
      BY <3>2, <3>7, SetSizeStep DEF FuseInv
    <3>8. CASE Unmount
      <4>1. mount' # "mounted" /\ panicked' = ""
        BY ZenonT(30), <3>8 DEF Unmount, Mounted
      <4> QED BY ZenonT(30), <4>1 DEF FuseInv, Sound, NoPanic
    <3> QED BY <1>2, <3>3, <3>4, <3>5, <3>6, <3>7, <3>8 DEF MountStep
  <2> QED BY <2>1, <2>2
<1> QED BY <1>1, <1>2

\* While the mount is in place and nothing went wrong in the structures, the tree,
\* the references, the files and the generator are as FuseInv says.
THEOREM FuseInvariance == MountSpec => []FuseInv
<1>1. Init => FuseInv
  BY FuseInit
<1>2. FuseInv /\ [MountStep \/ Unmount]_fsVars => FuseInv'
  BY FuseNext
<1> QED BY <1>1, <1>2, PTL DEF MountSpec

\* createNode, deleteNSEntry and Rename keep the lookup tree and the directory map
\* one tree below the root.
THEOREM NamespaceIsOneTree == MountSpec => []NamespaceAgrees
<1>1. FuseInv => NamespaceAgrees
  <2> SUFFICES ASSUME FuseInv, Sound PROVE NamespaceAgrees
    BY DEF NamespaceAgrees
  <2>0. FuseTypes /\ TreeInv /\ ReachInv
    BY DEF FuseInv, StoresInv
  <2> DEFINE entries == {<<k[1], k[2], lookupTree[k]>> : k \in DOMAIN lookupTree}
             dirents == UNION {{<<d, readDirMap[d][i].name, i>> : i \in DOMAIN readDirMap[d]} :
                               d \in DOMAIN readDirMap}
             root == <<RootInodeID, "/", RootInodeID>>
  <2>1. entries \subseteq dirents \cup {root}
    <3> SUFFICES ASSUME NEW k \in DOMAIN lookupTree
                 PROVE  <<k[1], k[2], lookupTree[k]>> \in dirents \cup {root}
      OBVIOUS
    <3>1. CASE k = Root
      BY <2>0, <3>1 DEF TreeInv, TreeOf, Root
    <3>2. CASE k # Root
      <4>1. /\ k[1] \in DOMAIN readDirMap /\ lookupTree[k] \in DOMAIN readDirMap[k[1]]
            /\ readDirMap[k[1]][lookupTree[k]].name = k[2]
        BY <2>0, <3>2 DEF TreeInv, TreeOf
      <4> QED BY <4>1
    <3> QED BY <3>1, <3>2
  <2>2. dirents \cup {root} \subseteq entries
    <3>1. root \in entries
      <4>1. Root \in DOMAIN lookupTree /\ lookupTree[Root] = RootInodeID
        BY <2>0 DEF TreeInv, TreeOf
      <4>2. Root[1] = RootInodeID /\ Root[2] = "/"
        BY DEF Root
      <4> QED BY <4>1, <4>2
    <3>2. ASSUME NEW d \in DOMAIN readDirMap, NEW i \in DOMAIN readDirMap[d]
          PROVE  <<d, readDirMap[d][i].name, i>> \in entries
      <4>1. PICK k : k = <<d, readDirMap[d][i].name>>
        BY ZenonT(30)
      <4>2. k \in DOMAIN lookupTree /\ lookupTree[k] = i
        BY <2>0, <4>1 DEF TreeInv, TreeOf
      <4>3. k[1] = d /\ k[2] = readDirMap[d][i].name
        BY <4>1
      <4> QED BY <4>2, <4>3
    <3> QED BY <3>1, <3>2
  <2>3. IsInjective(lookupTree)
    BY <2>0 DEF TreeInv, TreeOf, IsInjective
  <2>4. Range(lookupTree) \subseteq Below(RootInodeID)
    <3>1. Range(lookupTree) \subseteq INodes
      BY <2>0, TreeKids DEF TreeInv
    <3>2. Range(lookupTree) \subseteq Under(KidsOf(readDirMap), RootInodeID)
      BY <2>0, <3>1 DEF ReachInv, ReachOf, Reaches, Under
    <3> QED BY <3>2, BelowUnder
  <2>5. ASSUME NEW i \in Range(lookupTree)
        PROVE  i \in DOMAIN iNodeStore /\ (IsDir(i) <=> i \in DOMAIN readDirMap)
    <3>1. PICK k \in DOMAIN lookupTree : lookupTree[k] = i
      BY DEF Range
    <3>2. i \in DOMAIN iNodeStore /\ (i \in Dirs <=> i \in DOMAIN readDirMap)
      BY <2>0, <3>1 DEF TreeInv, TreeOf, FuseTypes
    <3> QED BY <3>2 DEF Dirs
  <2>6. entries = dirents \cup {root}
    BY <2>1, <2>2
  <2> QED BY <2>3, <2>4, <2>5, <2>6 DEF NamespaceAgrees
<1> QED BY <1>1, FuseInvariance, PTL

\* LookUpInode, createNode and ForgetInode count the references the kernel has or
\* gives back, and a directory without any is linked or being deleted.
THEOREM CountsAreReferences == MountSpec => []ReferencesAgree
<1>1. FuseInv => ReferencesAgree
  BY DEF FuseInv, StoresInv, RefInv, ReferencesAgree
<1> QED BY <1>1, FuseInvariance, PTL

\* Whatever the overlap of WriteFile and SetInodeAttributes, the size is the length
\* once both are through.
THEOREM SizesAreLengths == MountSpec => []SizesAgree
<1>1. FuseInv => SizesAgree
  BY DEF FuseInv, StoresInv, FileInv, SizesAgree
<1> QED BY <1>1, FuseInvariance, PTL

\* MkDir, LookUpInode, ForgetInode and WriteFile find the nodes they panic without.
THEOREM OperationsDoNotPanic == MountSpec => []NoPanic
<1>1. FuseInv => NoPanic
  BY DEF FuseInv
<1> QED BY <1>1, FuseInvariance, PTL
=============================================================================
