------------------------ MODULE DiamondMergeProofs -------------------------
(***************************************************************************)
(* Proofs about DiamondMerge, for any splits, paths, contents, times and   *)
(* number of entries, and for every order in which the entries arrive.     *)
(***************************************************************************)
EXTENDS DiamondMerge, TLAPS

\* A record of the merger's index.
Located == [folder : Splits \cup {NoSplit}, path : Paths, hash : Hashes,
            time : Times, ID : Splits]

\* What the merger has received and indexed has its type.
MergeTypes ==
    /\ mode \in Modes
    /\ received \subseteq Entry
    /\ mergeIndex \subseteq Located
    /\ status \in {"merging", "dumped", "error"}

\* The index holds one version per location.  The one at a path was received,
\* a hidden folder holds a path only if its split sent that path, and every
\* path that was received has a version.
IndexInv ==
    /\ \A x, y \in mergeIndex : x.folder = y.folder /\ x.path = y.path => x = y
    /\ \A x \in mergeIndex : x.folder = NoSplit => \E e \in received : x = AtPath(e)
    /\ \A x \in mergeIndex : x.folder # NoSplit =>
          \E e \in received : e.split = x.folder /\ e.path = x.path
    /\ \A e \in received : Existing(e) # {}

MergeInv == MergeTypes /\ IndexInv

-----------------------------------------------------------------------------
(* The index.                                                              *)

\* The parts of a record of the index.
LEMMA Parts ==
  /\ \A e \in Entry : /\ AtPath(e) \in Located
                      /\ AtPath(e).folder = NoSplit /\ AtPath(e).path = e.path
                      /\ AtPath(e).hash = e.hash /\ AtPath(e).time = e.time
                      /\ AtPath(e).ID = e.split
  /\ \A s \in Splits, x \in Located :
        /\ deconflicter(s, x) \in Located
        /\ deconflicter(s, x).folder = s /\ deconflicter(s, x).path = x.path
        /\ deconflicter(s, x).hash = x.hash
  /\ \A e \in Entry : e.split \in Splits /\ e.path \in Paths /\ e.time \in Nat
<1>1. ASSUME NEW e \in Entry
      PROVE  /\ AtPath(e) \in Located
             /\ AtPath(e).folder = NoSplit /\ AtPath(e).path = e.path
             /\ AtPath(e).hash = e.hash /\ AtPath(e).time = e.time
             /\ AtPath(e).ID = e.split
  BY DEF AtPath, Located, Entry
<1>2. ASSUME NEW s \in Splits, NEW x \in Located
      PROVE  /\ deconflicter(s, x) \in Located
             /\ deconflicter(s, x).folder = s /\ deconflicter(s, x).path = x.path
             /\ deconflicter(s, x).hash = x.hash
  BY DEF deconflicter, Located
<1>3. \A e \in Entry : e.split \in Splits /\ e.path \in Paths /\ e.time \in Nat
  BY ZenonT(60), TimesAssumption DEF Entry
<1> QED BY <1>1, <1>2, <1>3

\* What the index holds after an insertion.
LEMMA Inserted ==
  ASSUME NEW index, NEW x
  PROVE  \A y : y \in Insert(index, x) <=>
                   y = x \/ (y \in index /\ (y.folder # x.folder \/ y.path # x.path))
BY DEF Insert

\* The version found at the path of an entry.
LEMMA Found ==
  ASSUME MergeInv, NEW e \in Entry, NEW x \in Existing(e)
  PROVE  /\ x \in mergeIndex /\ x \in Located /\ x.folder = NoSplit /\ x.path = e.path
         /\ \E f \in received : /\ f \in Entry /\ x = AtPath(f) /\ f.path = e.path
                                /\ f.hash = x.hash /\ f.time = x.time /\ f.split = x.ID
         /\ \A y \in Existing(e) : y = x
<1>1. x \in mergeIndex /\ x \in Located /\ x.folder = NoSplit /\ x.path = e.path
  BY DEF MergeInv, MergeTypes, Existing
<1>2. PICK f \in received : x = AtPath(f)
  BY <1>1 DEF MergeInv, IndexInv
<1>3. f \in Entry
  BY DEF MergeInv, MergeTypes
<1>4. f.path = e.path /\ f.hash = x.hash /\ f.time = x.time /\ f.split = x.ID
  BY <1>1, <1>2, <1>3, Parts
<1>5. \A y \in Existing(e) : y = x
  BY <1>1 DEF MergeInv, IndexInv, Existing
<1> QED BY <1>1, <1>2, <1>3, <1>4, <1>5

\* The three ways in which the index changes: not at all, by a version that
\* takes the path, or by one in the hidden folder of the split of the entry.
Kept(e) == mergeIndex' = mergeIndex /\ Existing(e) # {}
Taken(e) == mergeIndex' = Insert(mergeIndex, AtPath(e))
Filed(e, z) == mergeIndex' = Insert(mergeIndex, deconflicter(e.split, z))
TakenAndFiled(e, x) ==
    mergeIndex' = Insert(Insert(mergeIndex, deconflicter(e.split, x)), AtPath(e))

\* Whatever the mode and the versions found, the merger changes its index in
\* one of these ways.
LEMMA MergeShapes ==
  ASSUME NEW e \in Entry, Merge(e)
  PROVE  \/ Kept(e)
         \/ Taken(e)
         \/ Filed(e, AtPath(e)) /\ Existing(e) # {}
         \/ \E x \in Existing(e) : TakenAndFiled(e, x)
BY DEF Merge, MergeNew, MergeSame, MergeNewer, MergeOlder, MergeForbidden, Kept, Taken,
       Filed, TakenAndFiled

\* An entry that takes its path, or is filed, keeps the invariant of the index.
LEMMA IndexMerge ==
  ASSUME MergeInv, NEW e \in Entry, Merge(e)
  PROVE  MergeInv'
<1>1. received' = received \cup {e} /\ mode' = mode /\ status' \in {"merging", "error"}
  BY DEF Merge, MergeNew, MergeSame, MergeNewer, MergeOlder, MergeForbidden
<1>2. /\ AtPath(e) \in Located
      /\ AtPath(e).folder = NoSplit /\ AtPath(e).path = e.path
      /\ e.split \in Splits /\ e.split # NoSplit
  BY Parts, FolderAssumption
<1> DEFINE a == AtPath(e)
<1>3. ASSUME NEW z \in Located, z.path = e.path
      PROVE  /\ deconflicter(e.split, z) \in Located
             /\ deconflicter(e.split, z).folder = e.split
             /\ deconflicter(e.split, z).path = e.path
  BY <1>2, <1>3, Parts
<1>4. CASE Kept(e)
  BY <1>1, <1>4 DEF Kept, MergeInv, MergeTypes, IndexInv, Existing
<1>5. CASE Taken(e)
  <2>1. \A y : y \in mergeIndex' <=>
                 y = a \/ (y \in mergeIndex /\ (y.folder # NoSplit \/ y.path # e.path))
    BY <1>2, <1>5, Inserted DEF Taken
  <2> HIDE DEF a
  <2> QED BY <1>1, <1>2, <2>1 DEF MergeInv, MergeTypes, IndexInv, Existing, a
<1>6. ASSUME NEW z \in Located, z.path = e.path, Filed(e, z), Existing(e) # {}
      PROVE  MergeInv'
  <2> DEFINE h == deconflicter(e.split, z)
  <2>1. h \in Located /\ h.folder = e.split /\ h.path = e.path
    BY <1>3, <1>6
  <2>2. \A y : y \in mergeIndex' <=>
                 y = h \/ (y \in mergeIndex /\ (y.folder # e.split \/ y.path # e.path))
    BY <1>6, <2>1, Inserted DEF Filed
  <2> HIDE DEF h
  <2>3. Existing(e)' # {}
    BY <1>2, <1>6, <2>2 DEF Existing
  <2> QED BY <1>1, <1>2, <2>1, <2>2, <2>3 DEF MergeInv, MergeTypes, IndexInv, Existing
<1>7. ASSUME NEW x \in Existing(e), TakenAndFiled(e, x) PROVE MergeInv'
  <2> DEFINE h == deconflicter(e.split, x)
  <2>1. h \in Located /\ h.folder = e.split /\ h.path = e.path
    BY <1>3, <1>7, Found
  <2>2. \A y : y \in mergeIndex' <=>
                 \/ y = a
                 \/ /\ y.folder # NoSplit \/ y.path # e.path
                    /\ \/ y = h
                       \/ y \in mergeIndex /\ (y.folder # e.split \/ y.path # e.path)
    <3>1. \A y : y \in Insert(mergeIndex, h) <=>
                   y = h \/ (y \in mergeIndex /\ (y.folder # e.split \/ y.path # e.path))
      BY <2>1, Inserted
    <3>2. \A y : y \in mergeIndex' <=>
                   \/ y = a
                   \/ y \in Insert(mergeIndex, h) /\ (y.folder # NoSplit \/ y.path # e.path)
      BY <1>2, <1>7, Inserted DEF TakenAndFiled
    <3> QED BY <3>1, <3>2
  <2> HIDE DEF h, a
  <2>3. a \in Located /\ a.folder = NoSplit /\ a.path = e.path
    BY <1>2 DEF a
  <2>4. MergeTypes'
    BY <1>1, <2>1, <2>2, <2>3 DEF MergeInv, MergeTypes
  <2>5. \A y, z \in mergeIndex' : y.folder = z.folder /\ y.path = z.path => y = z
    BY <1>2, <2>1, <2>2, <2>3 DEF MergeInv, IndexInv
  <2>6. \A y \in mergeIndex' : y.folder = NoSplit => \E f \in received' : y = AtPath(f)
    BY <1>1, <1>2, <2>1, <2>2 DEF MergeInv, IndexInv, a
  <2>7. \A y \in mergeIndex' : y.folder # NoSplit =>
           \E f \in received' : f.split = y.folder /\ f.path = y.path
    BY <1>1, <2>1, <2>2, <2>3 DEF MergeInv, IndexInv
  <2>8. \A f \in received' : Existing(f)' # {}
    BY <1>1, <1>2, <2>2, <2>3 DEF MergeInv, IndexInv, Existing
  <2> QED BY <2>4, <2>5, <2>6, <2>7, <2>8 DEF MergeInv, IndexInv
<1> QED BY <1>2, <1>4, <1>5, <1>6, <1>7, MergeShapes

\* The invariant of the index holds in every reachable state.
LEMMA MergeInvariance == Spec => []MergeInv
<1>1. Init => MergeInv
  BY DEF Init, MergeInv, MergeTypes, IndexInv
<1>2. MergeInv /\ [Next]_vars => MergeInv'
  <2> SUFFICES ASSUME MergeInv, [Next]_vars PROVE MergeInv'
    OBVIOUS
  <2>1. CASE Dump \/ UNCHANGED vars
    BY <2>1 DEF Dump, vars, MergeInv, MergeTypes, IndexInv, Existing
  <2>2. ASSUME NEW e \in Entry \ received, Merge(e) PROVE MergeInv'
    BY <2>2, IndexMerge
  <2> QED BY <2>1, <2>2 DEF Next
<1> QED BY <1>1, <1>2, PTL DEF Spec

\* A split that lists no path twice sent nothing before at the path of an entry
\* that has just arrived, so that the version there is of another split and
\* the hidden folder of the split has no version of that path.
LEMMA FirstOfSplit ==
  ASSUME MergeInv, NEW e \in Entry \ received, Merge(e), OncePerSplit'
  PROVE  /\ OncePerSplit
         /\ \A x \in Existing(e) : x.ID # e.split
         /\ \A y \in mergeIndex : y.folder # e.split \/ y.path # e.path
<1>1. received' = received \cup {e}
  BY DEF Merge
<1>2. \A f \in received : f.split # e.split \/ f.path # e.path
  BY <1>1 DEF OncePerSplit
<1>3. ASSUME NEW x \in Existing(e) PROVE x.ID # e.split
  BY <1>2, Found
<1>4. e.split # NoSplit
  BY Parts, FolderAssumption
<1>5. \A y \in mergeIndex : y.folder # e.split \/ y.path # e.path
  BY <1>2, <1>4 DEF MergeInv, IndexInv
<1>6. OncePerSplit
  BY <1>1 DEF OncePerSplit
<1> QED BY <1>3, <1>5, <1>6

-----------------------------------------------------------------------------
(* The theorems.                                                           *)

\* Unless conflicts are ignored or forbidden, every content received for a path
\* is in the bundle, at the path or in a hidden folder, in whatever order the
\* index files arrive: the folder that a displaced version is moved to is empty.
THEOREM NoVersionLost == Spec => []NothingLost
<1>1. Init => NothingLost
  BY DEF Init, NothingLost
<1>2. ASSUME MergeInv, NothingLost, NEW e \in Entry \ received, Merge(e)
      PROVE  NothingLost'
  <2> SUFFICES ASSUME mode \in {"EnableConflicts", "EnableCheckpoints"}, OncePerSplit',
                      NEW g \in received'
               PROVE  \E y \in mergeIndex' : y.path = g.path /\ y.hash = g.hash
    BY <1>2 DEF NothingLost, Merge
  <2>1. /\ OncePerSplit
        /\ \A x \in Existing(e) : x.ID # e.split
        /\ \A y \in mergeIndex : y.folder # e.split \/ y.path # e.path
    BY <1>2, FirstOfSplit
  <2>2. received' = received \cup {e}
    BY <1>2 DEF Merge
  <2>3. \A f \in received : \E y \in mergeIndex : y.path = f.path /\ y.hash = f.hash
    BY <1>2, <2>1 DEF NothingLost
  <2>4. AtPath(e).folder = NoSplit /\ AtPath(e).path = e.path /\ AtPath(e).hash = e.hash
    BY Parts
  <2>5. CASE MergeNew(e)
    <3>1. \A y : y \in mergeIndex' <=>
                   y = AtPath(e) \/ (y \in mergeIndex /\ (y.folder # NoSplit \/ y.path # e.path))
      BY <2>4, <2>5, Inserted DEF MergeNew
    <3>2. mergeIndex \subseteq mergeIndex' /\ AtPath(e) \in mergeIndex'
      BY <2>5, <3>1 DEF MergeNew, Existing
    <3> QED BY <2>2, <2>3, <2>4, <3>2
  <2>6. ASSUME NEW x \in Existing(e), MergeSame(e, x)
        PROVE  \E y \in mergeIndex' : y.path = g.path /\ y.hash = g.hash
    BY <1>2, <2>2, <2>3, <2>6, Found DEF MergeSame
  <2>7. ASSUME NEW x \in Existing(e), MergeNewer(e, x)
        PROVE  \E y \in mergeIndex' : y.path = g.path /\ y.hash = g.hash
    <3> DEFINE h == deconflicter(e.split, x)
    <3>1. mergeIndex' = Insert(Insert(mergeIndex, h), AtPath(e))
      BY <2>1, <2>7 DEF MergeNewer
    <3>2. /\ x \in Located /\ x.path = e.path
          /\ \A y \in mergeIndex : y.folder = NoSplit /\ y.path = e.path => y = x
      BY <1>2, <2>7, Found DEF Existing
    <3>3. h.folder = e.split /\ h.path = e.path /\ h.hash = x.hash /\ e.split # NoSplit
      BY <3>2, Parts, FolderAssumption
    <3> HIDE DEF h
    <3>4. \A y \in mergeIndex : y \in Insert(mergeIndex, h)
      BY <2>1, <3>3, Inserted
    <3>5. h \in Insert(mergeIndex, h)
      BY Inserted
    <3>6. /\ AtPath(e) \in mergeIndex'
          /\ \A y \in Insert(mergeIndex, h) :
                y.folder # NoSplit \/ y.path # e.path => y \in mergeIndex'
      BY <2>4, <3>1, Inserted
    <3>7. h \in mergeIndex' /\ \A y \in mergeIndex : y = x \/ y \in mergeIndex'
      BY <3>2, <3>3, <3>4, <3>5, <3>6
    <3> QED BY <2>2, <2>3, <2>4, <3>2, <3>3, <3>6, <3>7
  <2>8. ASSUME NEW x \in Existing(e), MergeOlder(e, x)
        PROVE  \E y \in mergeIndex' : y.path = g.path /\ y.hash = g.hash
    <3> DEFINE h == deconflicter(e.split, AtPath(e))
    <3>1. mergeIndex' = Insert(mergeIndex, h)
      BY <2>1, <2>8 DEF MergeOlder
    <3>2. h.folder = e.split /\ h.path = e.path /\ h.hash = e.hash
      BY Parts
    <3> HIDE DEF h
    <3>3. h \in mergeIndex' /\ \A y \in mergeIndex : y \in mergeIndex'
      BY <2>1, <3>1, <3>2, Inserted
    <3> QED BY <2>2, <2>3, <3>2, <3>3
  <2>9. \A x \in Existing(e) : ~MergeForbidden(e, x)
    BY DEF MergeForbidden
  <2> QED BY <1>2, <2>5, <2>6, <2>7, <2>8, <2>9 DEF Merge
<1>3. MergeInv /\ NothingLost /\ [Next]_vars => NothingLost'
  <2>1. CASE Dump \/ UNCHANGED vars
    BY <2>1 DEF Dump, vars, NothingLost, OncePerSplit
  <2> QED BY <1>2, <2>1 DEF Next
<1> QED BY <1>1, <1>3, MergeInvariance, PTL DEF Spec

\* While conflicts are forbidden and none was met, all the versions of a path
\* have the content at the path; an error is sent for a conflict only.
AllTheSame ==
    /\ status = "error" => mode = "ForbidConflicts" /\ \E e, f \in received : Conflict(e, f)
    /\ mode = "ForbidConflicts" /\ status # "error" /\ OncePerSplit =>
          \A e \in received : \A x \in Existing(e) : x.hash = e.hash

\* A commit that forbids conflicts fails if and only if distinct splits uploaded
\* different data at the same path, whichever of them arrives first.
THEOREM ConflictsDetected == Spec => []ConflictDetected
<1>1. Init => AllTheSame
  BY DEF Init, AllTheSame
<1>2. ASSUME MergeInv, AllTheSame, NEW e \in Entry \ received, Merge(e)
      PROVE  AllTheSame'
  <2>1. received' = received \cup {e} /\ mode' = mode /\ status = "merging"
    BY <1>2 DEF Merge
  <2>2. ASSUME NEW x \in Existing(e), MergeForbidden(e, x) PROVE AllTheSame'
    <3>1. PICK f \in received : f.path = e.path /\ f.hash = x.hash /\ f.split = x.ID
      BY <1>2, <2>2, Found
    <3>2. Conflict(e, f)
      BY <2>2, <3>1 DEF MergeForbidden, Conflict
    <3>3. status' = "error" /\ mode = "ForbidConflicts"
      BY <2>2 DEF MergeForbidden
    <3> QED BY <2>1, <3>2, <3>3 DEF AllTheSame
  <2>3. CASE status' # "error"
    <3> SUFFICES ASSUME mode = "ForbidConflicts", OncePerSplit',
                        NEW g \in received', NEW y \in Existing(g)'
                 PROVE  y.hash = g.hash
      BY <2>1, <2>3 DEF AllTheSame
    <3>1. OncePerSplit /\ \A x \in Existing(e) : x.ID # e.split
      BY <1>2, FirstOfSplit
    <3>2. \A f \in received : \A x \in Existing(f) : x.hash = f.hash
      BY <1>2, <2>1, <3>1 DEF AllTheSame
    <3>3. CASE MergeNew(e)
      <4>1. AtPath(e).folder = NoSplit /\ AtPath(e).path = e.path /\ AtPath(e).hash = e.hash
        BY Parts
      <4>2. y = AtPath(e) \/ (y \in mergeIndex /\ (y.folder # NoSplit \/ y.path # e.path))
        BY <3>3, <4>1, Inserted DEF MergeNew, Existing
      <4>3. \A f \in received : f.path # e.path
        BY <1>2, <3>3 DEF MergeNew, MergeInv, IndexInv, Existing
      <4> QED BY <2>1, <3>2, <4>1, <4>2, <4>3 DEF Existing
    <3>4. ASSUME NEW x \in Existing(e), MergeSame(e, x) PROVE y.hash = g.hash
      <4>1. mergeIndex' = mergeIndex /\ e.hash = x.hash /\ \A z \in Existing(e) : z = x
        BY <1>2, <3>4, Found DEF MergeSame
      <4> QED BY <2>1, <3>2, <4>1 DEF Existing
    <3>5. \A x \in Existing(e) : ~MergeNewer(e, x) /\ ~MergeOlder(e, x)
      BY <3>1 DEF MergeNewer, MergeOlder
    <3>6. \A x \in Existing(e) : ~MergeForbidden(e, x)
      BY <2>3 DEF MergeForbidden
    <3> QED BY <1>2, <3>3, <3>4, <3>5, <3>6 DEF Merge
  <2>4. CASE ~ \E x \in Existing(e) : MergeForbidden(e, x)
    <3>1. status' # "error"
      BY <1>2, <2>1, <2>4 DEF Merge, MergeNew, MergeSame, MergeNewer, MergeOlder
    <3> QED BY <2>3, <3>1
  <2> QED BY <2>2, <2>4
<1>3. MergeInv /\ AllTheSame /\ [Next]_vars => AllTheSame'
  <2>1. CASE Dump \/ UNCHANGED vars
    BY <2>1 DEF Dump, vars, AllTheSame, OncePerSplit, Existing
  <2> QED BY <1>2, <2>1 DEF Next
<1>4. MergeInv /\ AllTheSame => ConflictDetected
  <2> SUFFICES ASSUME MergeInv, AllTheSame, status = "dumped", mode = "ForbidConflicts",
                      OncePerSplit, NEW e \in received, NEW f \in received, e.path = f.path
               PROVE  e.hash = f.hash
    BY DEF ConflictDetected, AllTheSame, Conflict
  <2>1. PICK x \in Existing(e) : TRUE
    BY DEF MergeInv, IndexInv
  <2>2. x \in Existing(f)
    BY DEF Existing
  <2> QED BY <2>1, <2>2 DEF AllTheSame
<1> QED BY <1>1, <1>3, <1>4, MergeInvariance, PTL DEF Spec

\* Where all the versions of a path differ, none is more recent than the one
\* at the path.
Distinct(e) == \A f, g \in Versions(e) : f.hash = g.hash => f = g
LatestAtPath ==
    status # "error" =>
       \A e \in received : Distinct(e) => \A x \in Existing(e) : e.time <= x.time

\* When all the versions of a path differ the latest is the one at the path,
\* in whatever order they arrive and however conflicts are handled.
THEOREM LatestOfDistinct == Spec => []LatestOfDistinctWins
<1>1. Init => LatestAtPath
  BY DEF Init, LatestAtPath
<1>2. ASSUME MergeInv, LatestAtPath, NEW e \in Entry \ received, Merge(e)
      PROVE  LatestAtPath'
  <2> SUFFICES ASSUME status' # "error", NEW g \in received', Distinct(g)',
                      NEW y \in Existing(g)'
               PROVE  g.time <= y.time
    BY DEF LatestAtPath
  <2>1. received' = received \cup {e} /\ status = "merging" /\ e \notin received
    BY <1>2 DEF Merge
  <2>2. g \in received => Distinct(g)
    BY <2>1 DEF Distinct, Versions
  <2>3. \A x \in Existing(g) : g \in received => g.time <= x.time
    BY <1>2, <2>1, <2>2 DEF LatestAtPath
  <2>4. g \in Entry /\ g.time \in Nat /\ e.time \in Nat
    BY <1>2, <2>1, Parts DEF MergeInv, MergeTypes
  <2>5. /\ AtPath(e).folder = NoSplit /\ AtPath(e).path = e.path
        /\ AtPath(e).time = e.time
    BY Parts
  <2>6. y \in mergeIndex' /\ y.folder = NoSplit /\ y.path = g.path
    BY DEF Existing
  <2>7. CASE g.path # e.path
    <3>1. g \in received
      BY <2>1, <2>7
    <3>2. y \in mergeIndex
      <4>1. ASSUME Taken(e) PROVE y \in mergeIndex
        BY <2>5, <2>6, <2>7, <4>1, Inserted DEF Taken
      <4>2. ASSUME NEW z \in Located, z.path = e.path,
                   \/ mergeIndex' = Insert(mergeIndex, deconflicter(e.split, z))
                   \/ TakenAndFiled(e, z)
            PROVE  y \in mergeIndex
        <5>1. deconflicter(e.split, z).path = e.path
          BY <4>2, Parts
        <5> QED BY <2>5, <2>6, <2>7, <4>2, <5>1, Inserted DEF TakenAndFiled
      <4>3. AtPath(e) \in Located
        BY Parts
      <4>4. \A x \in Existing(e) : x \in Located /\ x.path = e.path
        BY <1>2, Found
      <4> QED BY <1>2, <2>5, <2>6, <4>1, <4>2, <4>3, <4>4, MergeShapes DEF Kept, Filed
    <3> QED BY <2>3, <2>6, <3>1, <3>2 DEF Existing
  <2>8. CASE g.path = e.path
    <3>1. CASE MergeNew(e)
      <4>1. y = AtPath(e)
        BY <2>5, <2>6, <2>8, <3>1, Inserted DEF MergeNew
      <4>2. \A f \in received : f.path # e.path
        BY <1>2, <3>1 DEF MergeNew, MergeInv, IndexInv, Existing
      <4> QED BY <2>1, <2>4, <2>5, <2>8, <4>1, <4>2
    <3>2. ASSUME NEW x \in Existing(e), MergeSame(e, x) PROVE FALSE
      <4>1. PICK f \in received : f.path = e.path /\ f.hash = x.hash
        BY <1>2, <3>2, Found
      <4> QED BY <2>1, <2>8, <3>2, <4>1 DEF MergeSame, Distinct, Versions
    <3>3. ASSUME NEW x \in Existing(e), MergeNewer(e, x) PROVE g.time <= y.time
      <4>1. y = AtPath(e)
        BY <2>5, <2>6, <2>8, <3>3, Inserted DEF MergeNewer
      <4>2. x.time \in Nat /\ x.time < e.time
        <5>1. x.time \in Nat
          BY <1>2, <3>3, Found, TimesAssumption DEF Located
        <5> QED BY <2>4, <3>3, <5>1 DEF MergeNewer
      <4>3. g \in received => g.time <= x.time
        BY <2>3, <2>8, <3>3 DEF Existing
      <4> QED BY <2>1, <2>4, <2>5, <4>1, <4>2, <4>3
    <3>4. ASSUME NEW x \in Existing(e), MergeOlder(e, x) PROVE g.time <= y.time
      <4>1. e.split # NoSplit /\ deconflicter(e.split, AtPath(e)).folder = e.split
        BY Parts, FolderAssumption
      <4>2. y \in mergeIndex
        BY <2>6, <3>4, <4>1, Inserted DEF MergeOlder
      <4>3. y = x
        BY <1>2, <2>6, <2>8, <3>4, <4>2, Found DEF Existing
      <4>4. g \in received => g.time <= x.time
        BY <2>3, <2>8, <3>4 DEF Existing
      <4> QED BY <2>1, <3>4, <4>3, <4>4 DEF MergeOlder
    <3>5. \A x \in Existing(e) : ~MergeForbidden(e, x)
      BY DEF MergeForbidden
    <3> QED BY <1>2, <3>1, <3>2, <3>3, <3>4, <3>5 DEF Merge
  <2> QED BY <2>7, <2>8
<1>3. MergeInv /\ LatestAtPath /\ [Next]_vars => LatestAtPath'
  <2>1. CASE Dump \/ UNCHANGED vars
    BY <2>1 DEF Dump, vars, LatestAtPath, Distinct, Versions, Existing
  <2> QED BY <1>2, <2>1 DEF Next
<1>4. MergeInv /\ LatestAtPath => LatestOfDistinctWins
  <2> SUFFICES ASSUME MergeInv, LatestAtPath, status = "dumped", NEW e \in received,
                      Latest(e), Distinct(e)
               PROVE  \E x \in mergeIndex : x.folder = NoSplit /\ x.path = e.path /\ x.hash = e.hash
    BY DEF LatestOfDistinctWins, Distinct
  <2>1. e \in Entry
    BY DEF MergeInv, MergeTypes
  <2>2. PICK x \in Existing(e) : TRUE
    BY DEF MergeInv, IndexInv
  <2>3. PICK f \in received : f \in Entry /\ f.path = e.path /\ f.hash = x.hash /\ f.time = x.time
    BY <2>1, <2>2, Found
  <2>4. e.time <= f.time
    BY <2>2, <2>3 DEF LatestAtPath
  <2>5. f = e
    <3>1. e.time \in Nat /\ f.time \in Nat
      BY <2>1, <2>3, Parts
    <3>2. f # e => f.time < e.time
      BY <2>3 DEF Latest, Versions
    <3> QED BY <2>4, <3>1, <3>2
  <2> QED BY <2>2, <2>3, <2>5 DEF Existing
<1> QED BY <1>1, <1>3, <1>4, MergeInvariance, PTL DEF Spec
=============================================================================
