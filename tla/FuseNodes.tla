----------------------------- MODULE FuseNodes -----------------------------
(***************************************************************************)
(* The inductive invariant of FuseMutable, and proofs that the operations  *)
(* on an inode keep it: on files, lookups, and forgotten inodes.           *)
(***************************************************************************)
EXTENDS FuseTree

NodeRecord == [dir : BOOLEAN, refCount : Nat, Size : Nat]

\* The numbers the generator may give.
Numbers == FirstINode + 1 .. FirstINode + MaxCreates

\* The structures have their types, and the numbers come from the generator.
FuseTypes ==
    /\ \A i \in DOMAIN iNodeStore : iNodeStore[i] \in NodeRecord
    /\ RootInodeID \in DOMAIN iNodeStore
    /\ DOMAIN iNodeStore \subseteq {RootInodeID} \cup Numbers
    /\ \A k \in DOMAIN lookupTree : lookupTree[k] \in DOMAIN iNodeStore
    /\ \A i \in DOMAIN localCache : localCache[i] \in Nat

GenInv ==
    /\ created \in 0 .. MaxCreates
    /\ gen \in [highestInode : FirstINode .. FirstINode + created, freeInodes : Seq(Numbers)]

Dirs == {i \in DOMAIN iNodeStore : IsDir(i)}

TreeInv == TreeOf(lookupTree, readDirMap, Dirs)
ReachInv == ReachOf(lookupTree, readDirMap)

\* A reference is one the kernel has or gives back.  The directory in which a
\* name is looked up keeps the name, and the kernel does not have its inode yet.
RefInv ==
    /\ known \subseteq DOMAIN iNodeStore \ {RootInodeID}
    /\ forgetting = NoForget \/ \E i \in DOMAIN iNodeStore \ {RootInodeID} :
          forgetting \in [inode : {i}, stage : {"sent", "delete"}]
    /\ \A i \in DOMAIN iNodeStore \ {RootInodeID} :
          /\ iNodeStore[i].refCount = References(i)
          /\ iNodeStore[i].refCount > 0 \/ Linked(i) \/ ~ IsDir(i) \/ i = forgetting.inode
    /\ looking = NoLookup \/ \E n \in Names :
          /\ <<looking.parent, n>> \in DOMAIN lookupTree
          /\ lookupTree[<<looking.parent, n>>] = looking.inode
          /\ looking.inode \notin known

\* Only files have a backing file, of the size in their attributes unless an
\* operation on it is not through.
FileInv ==
    /\ DOMAIN localCache \subseteq {i \in DOMAIN iNodeStore : ~ IsDir(i)}
    /\ writing = None \/ writing \in DOMAIN localCache
    /\ truncating = NoTruncation \/
          /\ truncating.inode \in DOMAIN localCache /\ truncating.size \in Nat
          /\ writing = truncating.inode \/ localCache[truncating.inode] = truncating.size
    /\ \A i \in DOMAIN localCache :
          i # writing /\ i # truncating.inode => iNodeStore[i].Size = localCache[i]
    /\ \A i \in DOMAIN iNodeStore : ~ IsDir(i) => i \in backingFiles \cup notCreated

StoresInv == FuseTypes /\ GenInv /\ TreeInv /\ ReachInv /\ RefInv /\ FileInv

FuseInv == (Sound => StoresInv) /\ NoPanic

-----------------------------------------------------------------------------
(* Frames and changes of one field.                                        *)

\* A step that leaves the tree alone, and the kinds of the nodes in it.
LEMMA TreeFrame ==
  ASSUME TreeInv, ReachInv, UNCHANGED tree, Dirs' = Dirs
  PROVE  TreeInv' /\ ReachInv'
BY DEF TreeInv, ReachInv, tree

\* refCount of one node.
LEMMA CountSet ==
  ASSUME FuseTypes, NEW i \in DOMAIN iNodeStore, NEW c \in Nat,
         iNodeStore' = [iNodeStore EXCEPT ![i].refCount = c]
  PROVE  /\ DOMAIN iNodeStore' = DOMAIN iNodeStore
         /\ \A j \in DOMAIN iNodeStore : j # i => iNodeStore'[j] = iNodeStore[j]
         /\ iNodeStore'[i].refCount = c
         /\ iNodeStore'[i].Size = iNodeStore[i].Size
         /\ \A j \in DOMAIN iNodeStore : IsDir(j)' = IsDir(j)
         /\ \A j \in DOMAIN iNodeStore : iNodeStore'[j] \in NodeRecord
         /\ Dirs' = Dirs
<1>1. iNodeStore[i] \in NodeRecord
  BY DEF FuseTypes
<1>2. DOMAIN iNodeStore' = DOMAIN iNodeStore
  OBVIOUS
<1>3. \A j \in DOMAIN iNodeStore : j # i => iNodeStore'[j] = iNodeStore[j]
  OBVIOUS
<1>4. iNodeStore'[i] = [iNodeStore[i] EXCEPT !.refCount = c]
  OBVIOUS
<1>5. /\ iNodeStore'[i].refCount = c /\ iNodeStore'[i].Size = iNodeStore[i].Size
      /\ iNodeStore'[i].dir = iNodeStore[i].dir /\ iNodeStore'[i] \in NodeRecord
  BY <1>1, <1>4 DEF NodeRecord
<1>6. \A j \in DOMAIN iNodeStore : IsDir(j)' = IsDir(j) /\ iNodeStore'[j] \in NodeRecord
  BY <1>3, <1>5 DEF IsDir, FuseTypes
<1>7. Dirs' = Dirs
  BY <1>2, <1>6 DEF Dirs
<1> QED BY <1>2, <1>3, <1>5, <1>6, <1>7

\* Size of one node.
LEMMA SizeSet ==
  ASSUME FuseTypes, NEW i \in DOMAIN iNodeStore, NEW c \in Nat,
         iNodeStore' = [iNodeStore EXCEPT ![i].Size = c]
  PROVE  /\ DOMAIN iNodeStore' = DOMAIN iNodeStore
         /\ \A j \in DOMAIN iNodeStore : j # i => iNodeStore'[j] = iNodeStore[j]
         /\ iNodeStore'[i].Size = c
         /\ \A j \in DOMAIN iNodeStore : iNodeStore'[j].refCount = iNodeStore[j].refCount
         /\ \A j \in DOMAIN iNodeStore : IsDir(j)' = IsDir(j)
         /\ \A j \in DOMAIN iNodeStore : iNodeStore'[j] \in NodeRecord
         /\ Dirs' = Dirs
<1>1. iNodeStore[i] \in NodeRecord
  BY DEF FuseTypes
<1>2. DOMAIN iNodeStore' = DOMAIN iNodeStore
  OBVIOUS
<1>3. \A j \in DOMAIN iNodeStore : j # i => iNodeStore'[j] = iNodeStore[j]
  OBVIOUS
<1>4. iNodeStore'[i] = [iNodeStore[i] EXCEPT !.Size = c]
  OBVIOUS
<1>5. /\ iNodeStore'[i].refCount = iNodeStore[i].refCount /\ iNodeStore'[i].Size = c
      /\ iNodeStore'[i].dir = iNodeStore[i].dir /\ iNodeStore'[i] \in NodeRecord
  BY <1>1, <1>4 DEF NodeRecord
<1>6. \A j \in DOMAIN iNodeStore :
         /\ IsDir(j)' = IsDir(j) /\ iNodeStore'[j] \in NodeRecord
         /\ iNodeStore'[j].refCount = iNodeStore[j].refCount
  BY <1>3, <1>5 DEF IsDir, FuseTypes
<1>7. Dirs' = Dirs
  BY <1>2, <1>6 DEF Dirs
<1> QED BY <1>2, <1>3, <1>5, <1>6, <1>7

\* What the inodes are: the root and the numbers of the generator, none of them
\* the value for no inode.
LEMMA NumberFacts ==
  /\ None \notin INodes /\ RootInodeID \notin Numbers
  /\ Numbers \subseteq INodes /\ RootInodeID \in INodes
BY FuseAssumption DEF None, INodes, Numbers, RootInodeID

\* An entry is at one place, and none is at the place of the root.
LEMMA EntryFacts ==
  ASSUME FuseTypes, TreeInv, NEW p \in DOMAIN readDirMap, NEW n \in Names,
         <<p, n>> \in DOMAIN lookupTree
  PROVE  /\ <<p, n>> # Root
         /\ lookupTree[<<p, n>>] \in DOMAIN iNodeStore \ {RootInodeID}
         /\ lookupTree[<<p, n>>] \in DOMAIN readDirMap[p]
         /\ readDirMap[p][lookupTree[<<p, n>>]].name = n
         /\ Linked(lookupTree[<<p, n>>])
<1>1. <<p, n>> # Root
  BY FuseAssumption DEF Root
<1>2. lookupTree[<<p, n>>] # RootInodeID
  BY <1>1 DEF TreeInv, TreeOf
<1>3. lookupTree[<<p, n>>] \in DOMAIN iNodeStore
  BY DEF FuseTypes
<1>4. LET k == <<p, n>>
      IN lookupTree[k] \in DOMAIN readDirMap[k[1]] /\ readDirMap[k[1]][lookupTree[k]].name = k[2]
  BY <1>1 DEF TreeInv, TreeOf
<1>5. Linked(lookupTree[<<p, n>>])
  BY DEF Linked, Range
<1> QED BY <1>1, <1>2, <1>3, <1>4, <1>5

\* A directory of the map is linked, and a directory of the store.
LEMMA DirFacts ==
  ASSUME FuseTypes, TreeInv, NEW p \in DOMAIN readDirMap
  PROVE  Linked(p) /\ p \in DOMAIN iNodeStore /\ IsDir(p)
<1>1. PICK k \in DOMAIN lookupTree : lookupTree[k] = p
  BY DEF TreeInv, TreeOf
<1>2. p \in Dirs
  BY <1>1 DEF TreeInv, TreeOf
<1> QED BY <1>1, <1>2 DEF Dirs, Linked, Range

\* A step that changes no name, no reference and no count.
LEMMA RefFrame ==
  ASSUME RefInv, UNCHANGED <<lookupTree, known, forgetting, looking>>,
         DOMAIN iNodeStore' = DOMAIN iNodeStore,
         \A j \in DOMAIN iNodeStore : iNodeStore'[j].refCount = iNodeStore[j].refCount,
         \A j \in DOMAIN iNodeStore : IsDir(j)' = IsDir(j)
  PROVE  RefInv'
<1>1. \A j : References(j)' = References(j) /\ Linked(j)' = Linked(j)
  BY DEF References, Sent, Linked
<1>2. \A j \in DOMAIN iNodeStore' \ {RootInodeID} :
         /\ iNodeStore'[j].refCount = References(j)'
         /\ iNodeStore'[j].refCount > 0 \/ Linked(j)' \/ ~ IsDir(j)' \/ j = forgetting'.inode
  BY <1>1 DEF RefInv
<1>3. /\ (known \subseteq DOMAIN iNodeStore \ {RootInodeID})'
      /\ (forgetting = NoForget \/ \E i \in DOMAIN iNodeStore \ {RootInodeID} :
            forgetting \in [inode : {i}, stage : {"sent", "delete"}])'
      /\ (looking = NoLookup \/ \E n \in Names :
            /\ <<looking.parent, n>> \in DOMAIN lookupTree
            /\ lookupTree[<<looking.parent, n>>] = looking.inode
            /\ looking.inode \notin known)'
  BY ZenonT(30) DEF RefInv
<1> QED BY <1>2, <1>3 DEF RefInv

\* A step that changes no content and no size.
LEMMA FileFrame ==
  ASSUME FileInv, UNCHANGED <<localCache, backingFiles, writing, truncating, notCreated>>,
         DOMAIN iNodeStore' = DOMAIN iNodeStore,
         \A j \in DOMAIN iNodeStore : iNodeStore'[j].Size = iNodeStore[j].Size,
         \A j \in DOMAIN iNodeStore : IsDir(j)' = IsDir(j)
  PROVE  FileInv'
<1>1. (DOMAIN localCache \subseteq {i \in DOMAIN iNodeStore : ~ IsDir(i)})'
  BY DEF FileInv
<1>2. (\A i \in DOMAIN localCache :
          i # writing /\ i # truncating.inode => iNodeStore[i].Size = localCache[i])'
  BY DEF FileInv
<1>3. (\A i \in DOMAIN iNodeStore : ~ IsDir(i) => i \in backingFiles \cup notCreated)'
  BY DEF FileInv
<1> QED BY <1>1, <1>2, <1>3 DEF FileInv

\* A step that does not touch the node store, the lookup tree or the lengths.
LEMMA TypesFrame ==
  ASSUME FuseTypes, UNCHANGED <<iNodeStore, lookupTree, localCache>>
  PROVE  FuseTypes' /\ Dirs' = Dirs
BY DEF FuseTypes, Dirs, IsDir

\* A change of the counts or the sizes only.
LEMMA TypesStore ==
  ASSUME FuseTypes, UNCHANGED <<lookupTree, localCache>>,
         DOMAIN iNodeStore' = DOMAIN iNodeStore,
         \A j \in DOMAIN iNodeStore : iNodeStore'[j] \in NodeRecord
  PROVE  FuseTypes'
BY DEF FuseTypes

\* A step that does not give or take a number.
LEMMA GenFrame ==
  ASSUME GenInv, UNCHANGED <<gen, created>>
  PROVE  GenInv'
BY DEF GenInv

-----------------------------------------------------------------------------
(* Files.                                                                  *)

\* ReadFile opens a backing file that is there.
LEMMA ReadFileStep ==
  ASSUME StoresInv, NEW i, ReadFile(i)
  PROVE  StoresInv' /\ NoPanic'
<1> USE DEF StoresInv, ReadFile
<1>1. /\ UNCHANGED <<mount, lookupTree, readDirMap, iNodeStore, localCache, gen, known>>
      /\ UNCHANGED <<looking, forgetting, writing, truncating, created, notCreated, panicked>>
  BY DEF tree, flight, ghosts
<1>2. FuseTypes' /\ TreeInv' /\ ReachInv' /\ GenInv'
  BY <1>1, TypesFrame, TreeFrame, GenFrame DEF tree
<1>3. RefInv'
  BY <1>1, RefFrame DEF IsDir
<1>4. FileInv'
  <2>1. backingFiles' = backingFiles \cup {i}
    OBVIOUS
  <2> QED BY <1>1, <2>1 DEF FileInv, IsDir
<1>5. NoPanic'
  BY ZenonT(30), <1>1 DEF NoPanic, Mounted
<1> QED BY <1>2, <1>3, <1>4, <1>5

\* WriteFile makes the backing file longer or leaves it; until its stat the size
\* need not be its length.
LEMMA WriteFileStep ==
  ASSUME StoresInv, NEW i, NEW e \in 1 .. MaxSize, WriteFile(i, e)
  PROVE  StoresInv' /\ NoPanic'
<1>0. FuseTypes /\ GenInv /\ TreeInv /\ ReachInv /\ RefInv /\ FileInv /\ e \in Nat
  BY FuseAssumption DEF StoresInv
<1>1. /\ UNCHANGED <<mount, lookupTree, readDirMap, iNodeStore, gen, known>>
      /\ UNCHANGED <<looking, forgetting, truncating, created, notCreated, panicked>>
  BY DEF WriteFile, tree, flight, ghosts
<1>2. TreeInv' /\ ReachInv' /\ GenInv'
  BY <1>0, <1>1, TreeFrame, GenFrame DEF tree, Dirs, IsDir
<1>3. RefInv'
  BY <1>0, <1>1, RefFrame DEF IsDir
<1>4. /\ i \in DOMAIN localCache /\ writing = None /\ writing' = i
      /\ backingFiles' = backingFiles \cup {i}
  BY DEF WriteFile
<1>5. /\ DOMAIN localCache' = DOMAIN localCache
      /\ localCache'[i] = IF e > localCache[i] THEN e ELSE localCache[i]
      /\ \A j \in DOMAIN localCache : j # i => localCache'[j] = localCache[j]
  BY DEF WriteFile
<1>6. FuseTypes'
  <2>1. localCache'[i] \in Nat
    BY <1>0, <1>4, <1>5 DEF FuseTypes
  <2>2. \A j \in DOMAIN localCache' : localCache'[j] \in Nat
    BY <1>0, <1>5, <2>1 DEF FuseTypes
  <2> QED BY <1>0, <1>1, <2>2 DEF FuseTypes
<1>7. FileInv'
  <2>1. (DOMAIN localCache \subseteq {j \in DOMAIN iNodeStore : ~ IsDir(j)})'
    BY <1>0, <1>1, <1>5 DEF FileInv, IsDir
  <2>2. (truncating = NoTruncation \/
          /\ truncating.inode \in DOMAIN localCache /\ truncating.size \in Nat
          /\ writing = truncating.inode \/ localCache[truncating.inode] = truncating.size)'
    <3>1. CASE truncating = NoTruncation
      BY <1>1, <3>1
    <3>2. CASE truncating # NoTruncation
      <4>0. None \notin DOMAIN localCache
        BY <1>0, NumberFacts DEF FileInv, FuseTypes
      <4>1. /\ truncating.inode \in DOMAIN localCache /\ truncating.size \in Nat
            /\ localCache[truncating.inode] = truncating.size
        BY <1>0, <1>4, <3>2, <4>0 DEF FileInv
      <4>2. CASE truncating.inode = i
        BY <1>1, <1>4, <1>5, <4>1, <4>2
      <4>3. CASE truncating.inode # i
        BY <1>1, <1>5, <4>1, <4>3
      <4> QED BY <4>2, <4>3
    <3> QED BY <3>1, <3>2
  <2>3. (\A j \in DOMAIN localCache :
            j # writing /\ j # truncating.inode => iNodeStore[j].Size = localCache[j])'
    <3> SUFFICES ASSUME NEW j \in DOMAIN localCache, j # i, j # truncating.inode
                 PROVE  iNodeStore[j].Size = localCache[j]
      BY <1>1, <1>4, <1>5
    <3>1. j # None
      BY <1>0, NumberFacts DEF FileInv, FuseTypes
    <3> QED BY <1>0, <1>4, <3>1 DEF FileInv
  <2>4. (\A j \in DOMAIN iNodeStore : ~ IsDir(j) => j \in backingFiles \cup notCreated)'
    BY <1>0, <1>1, <1>4 DEF FileInv, IsDir
  <2>5. (writing = None \/ writing \in DOMAIN localCache)'
    BY <1>4, <1>5
  <2> QED BY <2>1, <2>2, <2>3, <2>4, <2>5 DEF FileInv
<1>8. NoPanic'
  BY ZenonT(30), <1>1 DEF NoPanic, Mounted, WriteFile
<1> QED BY <1>2, <1>3, <1>6, <1>7, <1>8 DEF StoresInv

\* The stat of WriteFile: the size is the length, also when a truncation came in
\* between.
LEMMA WriteStatStep ==
  ASSUME StoresInv, WriteStat
  PROVE  StoresInv' /\ NoPanic'
<1>0. FuseTypes /\ GenInv /\ TreeInv /\ ReachInv /\ RefInv /\ FileInv
  BY DEF StoresInv
<1>1. /\ UNCHANGED <<mount, lookupTree, readDirMap, localCache, backingFiles, gen, known>>
      /\ UNCHANGED <<looking, forgetting, truncating, created, notCreated>>
      /\ writing # None /\ truncating.inode # writing /\ writing' = None
  BY DEF WriteStat, tree, files, flight, ghosts
<1>2. /\ writing \in DOMAIN localCache /\ writing \in DOMAIN iNodeStore
      /\ localCache[writing] \in Nat
  BY <1>0, <1>1 DEF FileInv, FuseTypes
<1>3. /\ iNodeStore' = [iNodeStore EXCEPT ![writing].Size = localCache[writing]]
      /\ UNCHANGED panicked
  BY <1>2 DEF WriteStat
<1>4. /\ DOMAIN iNodeStore' = DOMAIN iNodeStore
      /\ \A j \in DOMAIN iNodeStore : j # writing => iNodeStore'[j] = iNodeStore[j]
      /\ iNodeStore'[writing].Size = localCache[writing]
      /\ \A j \in DOMAIN iNodeStore : iNodeStore'[j].refCount = iNodeStore[j].refCount
      /\ \A j \in DOMAIN iNodeStore : IsDir(j)' = IsDir(j)
      /\ \A j \in DOMAIN iNodeStore : iNodeStore'[j] \in NodeRecord
      /\ Dirs' = Dirs
  BY ZenonT(30), <1>0, <1>2, <1>3, SizeSet
<1>5. FuseTypes' /\ TreeInv' /\ ReachInv' /\ GenInv' /\ RefInv'
  BY <1>0, <1>1, <1>4, TypesStore, TreeFrame, GenFrame, RefFrame DEF tree
<1>6. FileInv'
  <2>1. (DOMAIN localCache \subseteq {j \in DOMAIN iNodeStore : ~ IsDir(j)})'
    BY <1>0, <1>1, <1>4 DEF FileInv
  <2>2. (truncating = NoTruncation \/
          /\ truncating.inode \in DOMAIN localCache /\ truncating.size \in Nat
          /\ writing = truncating.inode \/ localCache[truncating.inode] = truncating.size)'
    BY <1>0, <1>1 DEF FileInv
  <2>3. (\A j \in DOMAIN localCache :
            j # writing /\ j # truncating.inode => iNodeStore[j].Size = localCache[j])'
    <3> SUFFICES ASSUME NEW j \in DOMAIN localCache, j # truncating.inode
                 PROVE  iNodeStore'[j].Size = localCache[j]
      BY <1>1
    <3>1. CASE j = writing
      BY <1>4, <3>1
    <3>2. CASE j # writing
      <4>1. j \in DOMAIN iNodeStore
        BY <1>0 DEF FileInv
      <4> QED BY <1>0, <1>4, <3>2, <4>1 DEF FileInv
    <3> QED BY <3>1, <3>2
  <2>4. (\A j \in DOMAIN iNodeStore : ~ IsDir(j) => j \in backingFiles \cup notCreated)'
    BY <1>0, <1>1, <1>4 DEF FileInv
  <2> QED BY <1>1, <2>1, <2>2, <2>3, <2>4 DEF FileInv
<1>7. NoPanic'
  BY ZenonT(30), <1>1, <1>3 DEF NoPanic, Mounted, WriteStat
<1> QED BY <1>5, <1>6, <1>7 DEF StoresInv

\* The truncation of SetInodeAttributes: until the size is set, a write may make
\* the file longer.
LEMMA SetInodeAttributesStep ==
  ASSUME StoresInv, NEW i, NEW s \in 0 .. MaxSize, SetInodeAttributes(i, s)
  PROVE  StoresInv' /\ NoPanic'
<1>0. FuseTypes /\ GenInv /\ TreeInv /\ ReachInv /\ RefInv /\ FileInv /\ s \in Nat
  BY FuseAssumption DEF StoresInv
<1>1. /\ UNCHANGED <<mount, lookupTree, readDirMap, iNodeStore, backingFiles, gen, known>>
      /\ UNCHANGED <<looking, forgetting, writing, created, notCreated, panicked>>
      /\ i \in DOMAIN localCache /\ truncating = NoTruncation
  BY DEF SetInodeAttributes, tree, ghosts
<1>2. /\ TreeInv' /\ ReachInv' /\ GenInv' /\ RefInv'
  BY <1>0, <1>1, TreeFrame, GenFrame, RefFrame DEF tree, Dirs, IsDir
<1>3. /\ DOMAIN localCache' = DOMAIN localCache /\ localCache'[i] = s
      /\ \A j \in DOMAIN localCache : j # i => localCache'[j] = localCache[j]
  BY <1>1 DEF SetInodeAttributes
<1>4. truncating'.inode = i /\ truncating'.size = s
  BY DEF SetInodeAttributes
<1>5. FuseTypes'
  <2>1. \A j \in DOMAIN localCache' : localCache'[j] \in Nat
    BY <1>0, <1>3 DEF FuseTypes
  <2> QED BY <1>0, <1>1, <2>1 DEF FuseTypes
<1>6. FileInv'
  <2>1. (DOMAIN localCache \subseteq {j \in DOMAIN iNodeStore : ~ IsDir(j)})'
    BY <1>0, <1>1, <1>3 DEF FileInv, IsDir
  <2>2. (/\ truncating.inode \in DOMAIN localCache /\ truncating.size \in Nat
         /\ writing = truncating.inode \/ localCache[truncating.inode] = truncating.size)'
    BY <1>0, <1>1, <1>3, <1>4
  <2>3. (\A j \in DOMAIN localCache :
            j # writing /\ j # truncating.inode => iNodeStore[j].Size = localCache[j])'
    <3> SUFFICES ASSUME NEW j \in DOMAIN localCache, j # writing, j # i
                 PROVE  iNodeStore[j].Size = localCache[j]
      BY <1>1, <1>3, <1>4
    <3>1. j # truncating.inode
      BY <1>0, <1>1, NumberFacts DEF FileInv, FuseTypes, NoTruncation
    <3> QED BY <1>0, <3>1 DEF FileInv
  <2>4. (\A j \in DOMAIN iNodeStore : ~ IsDir(j) => j \in backingFiles \cup notCreated)'
    BY <1>0, <1>1 DEF FileInv, IsDir
  <2>5. (writing = None \/ writing \in DOMAIN localCache)'
    BY <1>0, <1>1, <1>3 DEF FileInv
  <2> QED BY <2>1, <2>2, <2>3, <2>4, <2>5 DEF FileInv
<1>7. NoPanic'
  BY ZenonT(30), <1>1 DEF NoPanic, Mounted, SetInodeAttributes
<1> QED BY <1>2, <1>5, <1>6, <1>7 DEF StoresInv

\* Then the size asked for: the length, unless a write is not through.
LEMMA SetSizeStep ==
  ASSUME StoresInv, SetSize
  PROVE  StoresInv' /\ NoPanic'
<1> DEFINE t == truncating.inode
<1>0. FuseTypes /\ GenInv /\ TreeInv /\ ReachInv /\ RefInv /\ FileInv
  BY DEF StoresInv
<1>1. /\ UNCHANGED <<mount, lookupTree, readDirMap, localCache, backingFiles, gen, known>>
      /\ UNCHANGED <<looking, forgetting, writing, created, notCreated, panicked>>
      /\ truncating # NoTruncation /\ truncating' = NoTruncation
      /\ iNodeStore' = [iNodeStore EXCEPT ![t].Size = truncating.size]
  BY DEF SetSize, tree, files, ghosts
<1>2. /\ t \in DOMAIN localCache /\ truncating.size \in Nat /\ t \in DOMAIN iNodeStore
      /\ writing = t \/ localCache[t] = truncating.size
  BY <1>0, <1>1 DEF FileInv
<1> HIDE DEF t
<1>4. /\ DOMAIN iNodeStore' = DOMAIN iNodeStore
      /\ \A j \in DOMAIN iNodeStore : j # t => iNodeStore'[j] = iNodeStore[j]
      /\ iNodeStore'[t].Size = truncating.size
      /\ \A j \in DOMAIN iNodeStore : iNodeStore'[j].refCount = iNodeStore[j].refCount
      /\ \A j \in DOMAIN iNodeStore : IsDir(j)' = IsDir(j)
      /\ \A j \in DOMAIN iNodeStore : iNodeStore'[j] \in NodeRecord
      /\ Dirs' = Dirs
  BY ZenonT(30), <1>0, <1>1, <1>2, SizeSet
<1>5. FuseTypes' /\ TreeInv' /\ ReachInv' /\ GenInv' /\ RefInv'
  BY <1>0, <1>1, <1>4, TypesStore, TreeFrame, GenFrame, RefFrame DEF tree
<1>6. FileInv'
  <2>1. (DOMAIN localCache \subseteq {j \in DOMAIN iNodeStore : ~ IsDir(j)})'
    BY <1>0, <1>1, <1>4 DEF FileInv
  <2>3. (\A j \in DOMAIN localCache :
            j # writing /\ j # truncating.inode => iNodeStore[j].Size = localCache[j])'
    <3> SUFFICES ASSUME NEW j \in DOMAIN localCache, j # writing
                 PROVE  iNodeStore'[j].Size = localCache[j]
      BY <1>1
    <3>1. CASE j = t
      BY <1>2, <1>4, <3>1
    <3>2. CASE j # t
      <4>1. j \in DOMAIN iNodeStore
        BY <1>0 DEF FileInv
      <4> QED BY <1>0, <1>4, <3>2, <4>1 DEF FileInv, t
    <3> QED BY <3>1, <3>2
  <2>4. (\A j \in DOMAIN iNodeStore : ~ IsDir(j) => j \in backingFiles \cup notCreated)'
    BY <1>0, <1>1, <1>4 DEF FileInv
  <2>5. (writing = None \/ writing \in DOMAIN localCache)'
    BY <1>0, <1>1 DEF FileInv
  <2> QED BY <1>1, <2>1, <2>3, <2>4, <2>5 DEF FileInv
<1>7. NoPanic'
  BY ZenonT(30), <1>1 DEF NoPanic, Mounted, SetSize
<1> QED BY <1>5, <1>6, <1>7 DEF StoresInv

\* SyncFile panics on a file without an open backing file: it was not created.
LEMMA SyncFileStep ==
  ASSUME StoresInv, NEW i, SyncFile(i)
  PROVE  StoresInv' /\ NoPanic'
<1>0. FuseTypes /\ GenInv /\ TreeInv /\ ReachInv /\ RefInv /\ FileInv
  BY DEF StoresInv
<1>1. /\ UNCHANGED <<mount, lookupTree, readDirMap, iNodeStore, localCache, backingFiles, gen>>
      /\ UNCHANGED <<known, looking, forgetting, writing, truncating, created, notCreated>>
  BY DEF SyncFile, tree, files, flight, ghosts
<1>2. StoresInv'
  BY <1>0, <1>1, TypesFrame, TreeFrame, GenFrame, RefFrame, FileFrame DEF tree, IsDir, StoresInv
<1>3. i \in notCreated /\ panicked' = "SyncFile"
  BY <1>0 DEF SyncFile, Opened, FileInv, Panic
<1> QED BY <1>1, <1>2, <1>3 DEF NoPanic

-----------------------------------------------------------------------------
(* References.                                                             *)

\* LookUpInode finds the node of a linked inode.
LEMMA LookUpInodeStep ==
  ASSUME StoresInv, NEW p \in DOMAIN readDirMap, NEW n \in Names, LookUpInode(p, n)
  PROVE  StoresInv' /\ NoPanic'
<1> DEFINE i == lookupTree[<<p, n>>]
<1>0. FuseTypes /\ GenInv /\ TreeInv /\ ReachInv /\ RefInv /\ FileInv
  BY DEF StoresInv
<1>1. /\ UNCHANGED <<mount, lookupTree, readDirMap, iNodeStore, localCache, backingFiles, gen>>
      /\ UNCHANGED <<known, forgetting, writing, truncating, created, notCreated, faults>>
      /\ <<p, n>> \in DOMAIN lookupTree /\ i \notin known
  BY DEF LookUpInode, tree, files, ghosts, Known, Knows
<1>2. i \in DOMAIN iNodeStore
  BY <1>0, <1>1, EntryFacts
<1>3. looking'.parent = p /\ looking'.inode = i /\ UNCHANGED panicked
  BY <1>2 DEF LookUpInode
<1>4. FuseTypes' /\ TreeInv' /\ ReachInv' /\ GenInv' /\ FileInv'
  BY <1>0, <1>1, TypesFrame, TreeFrame, GenFrame, FileFrame DEF tree, IsDir
<1>5. RefInv'
  <2>1. (\E m \in Names :
            /\ <<looking.parent, m>> \in DOMAIN lookupTree
            /\ lookupTree[<<looking.parent, m>>] = looking.inode
            /\ looking.inode \notin known)'
    BY <1>1, <1>3
  <2>2. \A j : References(j)' = References(j) /\ Linked(j)' = Linked(j) /\ IsDir(j)' = IsDir(j)
    BY <1>1 DEF References, Sent, Linked, IsDir
  <2>3. (\A j \in DOMAIN iNodeStore \ {RootInodeID} :
          /\ iNodeStore[j].refCount = References(j)
          /\ iNodeStore[j].refCount > 0 \/ Linked(j) \/ ~ IsDir(j) \/ j = forgetting.inode)'
    BY <1>0, <1>1, <2>2 DEF RefInv
  <2>4. (/\ known \subseteq DOMAIN iNodeStore \ {RootInodeID}
         /\ forgetting = NoForget \/ \E j \in DOMAIN iNodeStore \ {RootInodeID} :
              forgetting \in [inode : {j}, stage : {"sent", "delete"}])'
    BY <1>0, <1>1 DEF RefInv
  <2> QED BY <2>1, <2>3, <2>4 DEF RefInv
<1>6. NoPanic'
  BY ZenonT(30), <1>1, <1>3 DEF NoPanic, Mounted, LookUpInode
<1> QED BY <1>4, <1>5, <1>6 DEF StoresInv

\* What a lookup in progress is about.
LEMMA LookingFacts ==
  ASSUME StoresInv, looking # NoLookup
  PROVE  /\ looking.inode \in DOMAIN iNodeStore \ {RootInodeID}
         /\ looking.inode \notin known
<1>1. PICK n \in Names :
         /\ <<looking.parent, n>> \in DOMAIN lookupTree
         /\ lookupTree[<<looking.parent, n>>] = looking.inode
         /\ looking.inode \notin known
  BY DEF StoresInv, RefInv
<1>2. <<looking.parent, n>> # Root
  BY FuseAssumption DEF Root
<1>3. lookupTree[<<looking.parent, n>>] # RootInodeID
  BY <1>1, <1>2 DEF StoresInv, TreeInv, TreeOf
<1> QED BY <1>1, <1>3 DEF StoresInv, FuseTypes

\* The count of LookUpInode, when no update is lost.
LEMMA LookUpCountStep ==
  ASSUME StoresInv, LookUpCount, faults' = {}
  PROVE  StoresInv' /\ NoPanic'
<1>i. PICK i : i = looking.inode
  OBVIOUS
<1>c. PICK c : c = iNodeStore[i].refCount
  OBVIOUS
<1>0. FuseTypes /\ GenInv /\ TreeInv /\ ReachInv /\ RefInv /\ FileInv
  BY DEF StoresInv
<1>1. /\ UNCHANGED <<mount, lookupTree, readDirMap, localCache, backingFiles, gen>>
      /\ UNCHANGED <<forgetting, writing, truncating, created, notCreated, panicked>>
      /\ looking # NoLookup /\ looking' = NoLookup /\ known' = known \cup {i}
  BY ZenonT(30), <1>i DEF LookUpCount, tree, files, ghosts
<1>2. i \in DOMAIN iNodeStore \ {RootInodeID} /\ i \notin known
  BY <1>i, <1>1, LookingFacts
<1>3. c \in Nat /\ c + 1 \in Nat
  BY <1>c, <1>0, <1>2 DEF FuseTypes, NodeRecord
<1>4. iNodeStore' = [iNodeStore EXCEPT ![i].refCount = c + 1]
  <2>1. PICK new : /\ iNodeStore' = [iNodeStore EXCEPT ![i].refCount = new]
                   /\ faults' = faults \cup (IF new # c + 1 THEN {"lost count"} ELSE {})
    BY ZenonT(30), <1>i, <1>c DEF LookUpCount
  <2>2. new = c + 1
    BY ZenonT(30), <2>1
  <2> QED BY <2>1, <2>2
<1>5. /\ DOMAIN iNodeStore' = DOMAIN iNodeStore
      /\ \A j \in DOMAIN iNodeStore : j # i => iNodeStore'[j] = iNodeStore[j]
      /\ iNodeStore'[i].refCount = c + 1
      /\ iNodeStore'[i].Size = iNodeStore[i].Size
      /\ \A j \in DOMAIN iNodeStore : IsDir(j)' = IsDir(j)
      /\ \A j \in DOMAIN iNodeStore : iNodeStore'[j] \in NodeRecord
      /\ Dirs' = Dirs
  BY ZenonT(30), <1>0, <1>2, <1>3, <1>4, CountSet
<1>6. FuseTypes' /\ TreeInv' /\ ReachInv' /\ GenInv'
  BY <1>0, <1>1, <1>5, TypesStore, TreeFrame, GenFrame DEF tree
<1>7. FileInv'
  <2>1. \A j \in DOMAIN iNodeStore : iNodeStore'[j].Size = iNodeStore[j].Size
    BY <1>5
  <2> QED BY <1>0, <1>1, <1>5, <2>1, FileFrame
<1>8. RefInv'
  <2>1. \A j : j # i => References(j)' = References(j)
    BY <1>1 DEF References, Sent
  <2>2. References(i)' = References(i) + 1
    BY <1>1, <1>2 DEF References, Sent
  <2>3. c = References(i)
    BY <1>c, <1>0, <1>2 DEF RefInv
  <2>4. ASSUME NEW j \in DOMAIN iNodeStore \ {RootInodeID}
        PROVE  /\ iNodeStore'[j].refCount = References(j)'
               /\ iNodeStore'[j].refCount > 0 \/ Linked(j)' \/ ~ IsDir(j)' \/ j = forgetting'.inode
    <3>1. CASE j = i
      BY <1>3, <1>5, <2>2, <2>3, <3>1
    <3>2. CASE j # i
      <4>1. iNodeStore'[j].refCount = iNodeStore[j].refCount /\ IsDir(j)' = IsDir(j)
        BY <1>5, <3>2
      <4>2. Linked(j)' = Linked(j) /\ forgetting'.inode = forgetting.inode
        BY <1>1 DEF Linked
      <4> QED BY <1>0, <2>1, <3>2, <4>1, <4>2 DEF RefInv
    <3> QED BY <3>1, <3>2
  <2>5. (/\ known \subseteq DOMAIN iNodeStore \ {RootInodeID}
         /\ forgetting = NoForget \/ \E j \in DOMAIN iNodeStore \ {RootInodeID} :
              forgetting \in [inode : {j}, stage : {"sent", "delete"}])'
    BY <1>0, <1>1, <1>2, <1>5 DEF RefInv
  <2> QED BY <1>1, <1>5, <2>4, <2>5 DEF RefInv
<1>9. NoPanic'
  BY ZenonT(30), <1>1 DEF NoPanic, Mounted, LookUpCount
<1> QED BY <1>6, <1>7, <1>8, <1>9 DEF StoresInv

\* A reference the kernel had is one it gives back.
LEMMA KernelForgetsStep ==
  ASSUME StoresInv, NEW i, KernelForgets(i)
  PROVE  StoresInv' /\ NoPanic'
<1>0. FuseTypes /\ GenInv /\ TreeInv /\ ReachInv /\ RefInv /\ FileInv
  BY DEF StoresInv
<1>1. /\ UNCHANGED <<mount, lookupTree, readDirMap, iNodeStore, localCache, backingFiles, gen>>
      /\ UNCHANGED <<looking, writing, truncating, created, notCreated, panicked>>
      /\ i \in known /\ forgetting = NoForget /\ known' = known \ {i}
      /\ forgetting' = [inode |-> i, stage |-> "sent"]
  BY DEF KernelForgets, tree, files, ghosts
<1>2. FuseTypes' /\ TreeInv' /\ ReachInv' /\ GenInv' /\ FileInv'
  BY <1>0, <1>1, TypesFrame, TreeFrame, GenFrame, FileFrame DEF tree, IsDir
<1>3. RefInv'
  <2>0. i \in DOMAIN iNodeStore \ {RootInodeID} /\ None \notin DOMAIN iNodeStore
    BY <1>0, <1>1, NumberFacts DEF RefInv, FuseTypes
  <2>1. \A j \in DOMAIN iNodeStore : ~ Sent(j) /\ (Sent(j)' <=> j = i)
    <3>1. forgetting.inode = None /\ forgetting'.inode = i
      BY <1>1 DEF NoForget
    <3>2. \A j : Sent(j) => forgetting.inode = j
      BY DEF Sent
    <3>3. \A j : Sent(j)' => forgetting'.inode = j
      BY DEF Sent
    <3>4. Sent(i)'
      BY <1>1 DEF Sent
    <3> QED BY <2>0, <3>1, <3>2, <3>3, <3>4
  <2>2. \A j \in DOMAIN iNodeStore : References(j)' = References(j)
    BY <1>1, <2>1 DEF References
  <2>3. \A j \in DOMAIN iNodeStore : j # forgetting.inode /\ Linked(j)' = Linked(j) /\ IsDir(j)' = IsDir(j)
    BY <1>1, <2>0 DEF NoForget, Linked, IsDir
  <2>4. (\A j \in DOMAIN iNodeStore \ {RootInodeID} :
          /\ iNodeStore[j].refCount = References(j)
          /\ iNodeStore[j].refCount > 0 \/ Linked(j) \/ ~ IsDir(j) \/ j = forgetting.inode)'
    BY <1>0, <1>1, <2>2, <2>3 DEF RefInv
  <2>5. (\E j \in DOMAIN iNodeStore \ {RootInodeID} :
              forgetting \in [inode : {j}, stage : {"sent", "delete"}])'
    BY <1>1, <2>0
  <2>6. (/\ known \subseteq DOMAIN iNodeStore \ {RootInodeID}
         /\ looking = NoLookup \/ \E n \in Names :
              /\ <<looking.parent, n>> \in DOMAIN lookupTree
              /\ lookupTree[<<looking.parent, n>>] = looking.inode
              /\ looking.inode \notin known)'
    BY ZenonT(30), <1>0, <1>1 DEF RefInv
  <2> QED BY ZenonT(30), <2>4, <2>5, <2>6 DEF RefInv
<1>4. NoPanic'
  BY ZenonT(30), <1>1 DEF NoPanic, Mounted, KernelForgets
<1> QED BY <1>2, <1>3, <1>4 DEF StoresInv

\* The first half of ForgetInode takes off a reference that is counted.
LEMMA ForgetInodeStep ==
  ASSUME StoresInv, NEW i \in INodes, ForgetInode(i)
  PROVE  StoresInv' /\ NoPanic'
<1>0. FuseTypes /\ GenInv /\ TreeInv /\ ReachInv /\ RefInv /\ FileInv
  BY DEF StoresInv
<1>1. /\ UNCHANGED <<mount, lookupTree, readDirMap, localCache, backingFiles, gen, known>>
      /\ UNCHANGED <<looking, writing, truncating, created, notCreated, faults>>
      /\ forgetting = [inode |-> i, stage |-> "sent"]
  BY DEF ForgetInode, tree, files, ghosts
<1>2. Sent(i) /\ forgetting.inode = i
  BY <1>1 DEF Sent
<1>4. i \in DOMAIN iNodeStore \ {RootInodeID}
  BY <1>0, <1>2, NumberFacts DEF RefInv, NoForget
<1>c. PICK c : c = iNodeStore[i].refCount
  OBVIOUS
<1>5. c = References(i) /\ c >= 1 /\ c - 1 \in Nat /\ c \in Nat
  BY <1>0, <1>2, <1>4, <1>c DEF RefInv, References
<1>6. /\ iNodeStore' = [iNodeStore EXCEPT ![i].refCount = c - 1]
      /\ forgetting' = IF ShouldDelete(i)' THEN [forgetting EXCEPT !.stage = "delete"]
                       ELSE NoForget
      /\ UNCHANGED panicked
  BY <1>4, <1>5, <1>c DEF ForgetInode
<1>7. /\ DOMAIN iNodeStore' = DOMAIN iNodeStore
      /\ \A j \in DOMAIN iNodeStore : j # i => iNodeStore'[j] = iNodeStore[j]
      /\ iNodeStore'[i].refCount = c - 1
      /\ iNodeStore'[i].Size = iNodeStore[i].Size
      /\ \A j \in DOMAIN iNodeStore : IsDir(j)' = IsDir(j)
      /\ \A j \in DOMAIN iNodeStore : iNodeStore'[j] \in NodeRecord
      /\ Dirs' = Dirs
  BY ZenonT(30), <1>0, <1>4, <1>5, <1>6, CountSet
<1>8. FuseTypes' /\ TreeInv' /\ ReachInv' /\ GenInv'
  BY <1>0, <1>1, <1>7, TypesStore, TreeFrame, GenFrame DEF tree
<1>9. FileInv'
  <2>1. \A j \in DOMAIN iNodeStore : iNodeStore'[j].Size = iNodeStore[j].Size
    BY <1>7
  <2> QED BY <1>0, <1>1, <1>7, <2>1, FileFrame
<1>10. RefInv'
  <2>1. \A j : ~ Sent(j)' \/ j = None
    <3>1. CASE ShouldDelete(i)'
      <4>1. forgetting'.stage = "delete"
        BY <1>1, <1>6, <3>1
      <4> QED BY <4>1 DEF Sent
    <3>2. CASE ~ ShouldDelete(i)'
      <4>1. forgetting'.inode = None
        BY <1>6, <3>2 DEF NoForget
      <4> QED BY <4>1 DEF Sent
    <3> QED BY <3>1, <3>2
  <2>2. \A j : j # i => ~ Sent(j)
    BY <1>2 DEF Sent
  <2>3. None \notin DOMAIN iNodeStore
    BY <1>0, NumberFacts DEF FuseTypes
  <2>4. ASSUME NEW j \in DOMAIN iNodeStore \ {RootInodeID}
        PROVE  /\ iNodeStore'[j].refCount = References(j)'
               /\ iNodeStore'[j].refCount > 0 \/ Linked(j)' \/ ~ IsDir(j)' \/ j = forgetting'.inode
    <3>1. CASE j = i
      <4>1. References(i)' = References(i) - 1
        BY <1>1, <1>2, <1>4, <2>1, <2>3 DEF References
      <4>2. iNodeStore'[i].refCount > 0 \/ ~ IsDir(i)' \/ i = forgetting'.inode
        <5>1. CASE ShouldDelete(i)'
          BY <1>1, <1>6, <5>1
        <5>2. CASE ~ ShouldDelete(i)'
          BY <1>5, <1>7, <5>2 DEF ShouldDelete
        <5> QED BY <5>1, <5>2
      <4> QED BY <1>5, <1>7, <3>1, <4>1, <4>2
    <3>2. CASE j # i
      <4>1. iNodeStore'[j].refCount = iNodeStore[j].refCount /\ IsDir(j)' = IsDir(j)
        BY <1>7, <3>2
      <4>2. Linked(j)' = Linked(j) /\ j # forgetting.inode
        BY <1>1, <1>2, <3>2 DEF Linked
      <4>3. References(j)' = References(j)
        BY <1>1, <2>1, <2>2, <2>3, <3>2 DEF References
      <4> QED BY <1>0, <4>1, <4>2, <4>3 DEF RefInv
    <3> QED BY <3>1, <3>2
  <2>5. (forgetting = NoForget \/ \E j \in DOMAIN iNodeStore \ {RootInodeID} :
              forgetting \in [inode : {j}, stage : {"sent", "delete"}])'
    <3>1. CASE ShouldDelete(i)'
      <4>1. forgetting' = [inode |-> i, stage |-> "delete"]
        BY <1>1, <1>6, <3>1
      <4> QED BY <1>4, <1>7, <4>1
    <3>2. CASE ~ ShouldDelete(i)'
      BY <1>6, <3>2
    <3> QED BY <3>1, <3>2
  <2>6. (/\ known \subseteq DOMAIN iNodeStore \ {RootInodeID}
         /\ looking = NoLookup \/ \E n \in Names :
              /\ <<looking.parent, n>> \in DOMAIN lookupTree
              /\ lookupTree[<<looking.parent, n>>] = looking.inode
              /\ looking.inode \notin known)'
    BY ZenonT(30), <1>0, <1>1, <1>7 DEF RefInv
  <2> QED BY <1>7, <2>4, <2>5, <2>6 DEF RefInv
<1>11. NoPanic'
  BY ZenonT(30), <1>1, <1>6 DEF NoPanic, Mounted, ForgetInode
<1> QED BY <1>8, <1>9, <1>10, <1>11 DEF StoresInv

=============================================================================
