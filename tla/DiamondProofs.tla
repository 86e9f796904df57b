--------------------------- MODULE DiamondProofs ---------------------------
(***************************************************************************)
(* Proofs about Diamond, for any number of splits, files, bundles and runs. *)
(***************************************************************************)
EXTENDS DiamondRefinement, FiniteSetTheorems, TLAPS

-----------------------------------------------------------------------------
(* Type correctness.                                                       *)

\* A step of a split run keeps the types: the descriptor it writes names a split.
LEMMA TypeSplitStep ==
  ASSUME TypeOK, AddInv, NEW a \in Adders, SplitStep(a)
  PROVE  TypeOK'
<1> USE DEF TypeOK, store, addVars, comVars, SplitDescriptor
<1>1. ASSUME NEW s \in Splits, NEW F \in SUBSET Files, StartSplit(a, s, F)
      PROVE  TypeOK'
  BY <1>1 DEF StartSplit
<1>2. CASE CreateSplit(a)
  BY <1>2 DEF CreateSplit, AddInv
<1>3. ASSUME NEW C \in SUBSET Files, PackSplit(a, C)
      PROVE  TypeOK'
  BY <1>3 DEF PackSplit
<1>4. CASE FinishSplit(a)
  BY <1>4 DEF FinishSplit, AddInv
<1>5. CASE AbortSplit(a)
  BY <1>5 DEF AbortSplit
<1> QED BY ZenonT(60), <1>1, <1>2, <1>3, <1>4, <1>5 DEF SplitStep

\* A step of a commit run keeps the types: the bundle it packs has an ID by then.
LEMMA TypeCommitStep ==
  ASSUME TypeOK, ComInv, NEW c \in Committers, CommitStep(c)
  PROVE  TypeOK'
<1> USE DEF TypeOK, store, addVars, comVars
<1>1. ASSUME NEW b \in Bundles \cup {NoBundle}, StartCommit(c, b)
      PROVE  TypeOK'
  BY <1>1 DEF StartCommit
<1>2. ASSUME NEW d \in splitDone \ collected[c], ListSplit(c, d)
      PROVE  TypeOK'
  BY <1>2 DEF ListSplit
<1>3. ASSUME NEW b \in Bundles, CollectSplits(c, b)
      PROVE  TypeOK'
  BY <1>3 DEF CollectSplits
<1>4. ASSUME NEW d \in unread[c], DownloadSplit(c, d)
      PROVE  TypeOK'
  <2>1. SplitContent(d) \in SUBSET Files
    BY <1>4 DEF DownloadSplit, SplitContent, Listed, SplitDescriptor
  <2> QED BY <1>4, <2>1 DEF DownloadSplit
<1>5. CASE FailDownload(c)
  BY <1>5 DEF FailDownload
<1>6. ASSUME NEW C \in SUBSET Files, PackBundle(c, C)
      PROVE  TypeOK'
  <2>1. comBundle[c] \in Bundles
    BY ZenonT(60), <1>6 DEF PackBundle, ComInv, ComOK
  <2>2. Append(bundleIndex[comBundle[c]], C) \in Seq(SUBSET Files)
    BY <2>1
  <2>3. bundleIndex' \in [Bundles -> Seq(SUBSET Files)]
    BY <1>6, <2>1, <2>2 DEF PackBundle
  <2>4. comTodo' \in [Committers -> SUBSET Files] /\ comCount' \in [Committers -> Nat]
    BY <1>6 DEF PackBundle
  <2> QED BY <1>6, <2>3, <2>4 DEF PackBundle
<1>7. CASE PublishBundle(c)
  <2>1. comBundle[c] \in Bundles
    BY ZenonT(60), <1>7 DEF PublishBundle, ComInv, ComOK
  <2>2. SplitsOf(collected[c]) \in SUBSET Splits
    BY DEF SplitsOf, SplitDescriptor
  <2> QED BY <1>7, <2>1, <2>2 DEF PublishBundle, BundleDescriptor
<1>8. CASE ConcludeCommit(c)
  <2>1. SplitsOf(collected[c]) \in SUBSET Splits
    BY DEF SplitsOf, SplitDescriptor
  <2> QED BY <1>8, <2>1 DEF ConcludeCommit, DiamondDescriptor
<1>9. CASE AbortCommit(c)
  BY <1>9 DEF AbortCommit
<1> QED
  BY ZenonT(60), <1>1, <1>2, <1>3, <1>4, <1>5, <1>6, <1>7, <1>8, <1>9 DEF CommitStep

\* A step of a cancel run keeps the types.
LEMMA TypeCancelStep ==
  ASSUME TypeOK, NEW k \in Cancelers, CancelStep(k)
  PROVE  TypeOK'
<1> USE DEF TypeOK, store, addVars, comVars
<1>1. CASE StartCancel(k)
  BY <1>1 DEF StartCancel
<1>2. CASE FinishCancel(k)
  BY <1>2 DEF FinishCancel, DiamondDescriptor
<1>3. CASE AbortCancel(k)
  BY <1>3 DEF AbortCancel
<1> QED BY <1>1, <1>2, <1>3 DEF CancelStep

-----------------------------------------------------------------------------
(* Index files are only ever appended.                                     *)

\* An index file that is appended adds its entries to what is listed.
LEMMA ListedAppend ==
  ASSUME NEW q \in Seq(SUBSET Files), NEW e \in SUBSET Files
  PROVE  /\ Append(q, e) \in Seq(SUBSET Files)
         /\ Len(Append(q, e)) = Len(q) + 1
         /\ Listed(Append(q, e), Len(q) + 1) = Listed(q, Len(q)) \cup e
         /\ \A n \in 0 .. Len(q) : Listed(Append(q, e), n) = Listed(q, n)
<1>1. /\ Len(Append(q, e)) = Len(q) + 1
      /\ \A i \in 1 .. Len(q) : Append(q, e)[i] = q[i]
      /\ Append(q, e)[Len(q) + 1] = e
      /\ Len(q) \in Nat
  OBVIOUS
<1>2. Listed(Append(q, e), Len(q) + 1) = Listed(q, Len(q)) \cup e
  BY <1>1 DEF Listed
<1>3. \A n \in 0 .. Len(q) : Listed(Append(q, e), n) = Listed(q, n)
  BY <1>1 DEF Listed
<1>4. Append(q, e) \in Seq(SUBSET Files)
  OBVIOUS
<1> QED BY <1>1, <1>2, <1>3, <1>4

-----------------------------------------------------------------------------
(* Split runs.                                                             *)

\* Packing moves entries from what a split run has left to what it has listed.
LEMMA AddInvSplitStep ==
  ASSUME TypeOK, AddInv, NEW a \in Adders, SplitStep(a)
  PROVE  AddInv'
<1> USE DEF TypeOK, AddInv
<1>1. ASSUME NEW s \in Splits, NEW F \in SUBSET Files, StartSplit(a, s, F)
      PROVE  AddInv'
  BY <1>1 DEF StartSplit, store
<1>2. CASE CreateSplit(a)
  <2>1. splitIndex[a] = <<>> /\ addTodo[a] = input[a]
    BY <1>2 DEF CreateSplit
  <2>2. Listed(splitIndex[a], Len(splitIndex[a])) = {}
    BY <2>1 DEF Listed
  <2> QED BY <1>2, <2>1, <2>2 DEF CreateSplit
<1>3. ASSUME NEW C \in SUBSET Files, PackSplit(a, C)
      PROVE  AddInv'
  <2>1. C \subseteq addTodo[a]
    BY <1>3 DEF PackSplit, Chunks
  <2>2. splitIndex'[a] = Append(splitIndex[a], C)
    BY <1>3 DEF PackSplit
  <2>3. Len(splitIndex'[a]) = Len(splitIndex[a]) + 1
    BY <2>2
  <2>4. Listed(splitIndex'[a], Len(splitIndex'[a]))
          = Listed(splitIndex[a], Len(splitIndex[a])) \cup C
    <3>1. splitIndex[a] \in Seq(SUBSET Files)
      OBVIOUS
    <3>2. Listed(Append(splitIndex[a], C), Len(splitIndex[a]) + 1)
            = Listed(splitIndex[a], Len(splitIndex[a])) \cup C
      BY ZenonT(60), <3>1, ListedAppend
    <3> QED BY <2>2, <2>3, <3>2
  <2>5. addTodo'[a] = addTodo[a] \ C
    BY <1>3 DEF PackSplit
  <2>6. addPc[a] = "upload" /\ addPc' = addPc /\ input' = input /\ addSplit' = addSplit
    BY <1>3 DEF PackSplit
  <2>7. Listed(splitIndex'[a], Len(splitIndex'[a])) \cup addTodo'[a] = input'[a]
    BY <2>1, <2>4, <2>5, <2>6
  <2>8. \A x \in Adders \ {a} : splitIndex'[x] = splitIndex[x] /\ addTodo'[x] = addTodo[x]
    BY <1>3 DEF PackSplit
  <2> QED BY ZenonT(60), <2>6, <2>7, <2>8
<1>4. CASE FinishSplit(a)
  BY <1>4 DEF FinishSplit
<1>5. CASE AbortSplit(a)
  BY <1>5 DEF AbortSplit, store
<1> QED BY ZenonT(60), <1>1, <1>2, <1>3, <1>4, <1>5 DEF SplitStep

\* A split run leaves the bundles, the commits and the done splits alone; it
\* may make its own split done, if that split was not.
LEMMA SplitStepFrame ==
  ASSUME TypeOK, DoneInv, NEW a \in Adders, SplitStep(a)
  PROVE  /\ UNCHANGED <<diamondFinal, bundleIndex, bundleDesc, comVars, canPc>>
         /\ splitDone \subseteq splitDone'
         /\ \A d \in splitDone : splitIndex'[d.gen] = splitIndex[d.gen]
         /\ \A d \in splitDone : addPc'[d.gen] = addPc[d.gen]
         /\ \A d \in splitDone : input'[d.gen] = input[d.gen]
         /\ \A d \in splitDone' \ splitDone : d.split \notin SplitsOf(splitDone)
<1> USE DEF TypeOK, DoneInv, store, SplitDescriptor
<1>1. ASSUME NEW s \in Splits, NEW F \in SUBSET Files, StartSplit(a, s, F)
      PROVE  /\ \A d \in splitDone : addPc'[d.gen] = addPc[d.gen]
             /\ \A d \in splitDone : input'[d.gen] = input[d.gen]
             /\ UNCHANGED <<diamondFinal, bundleIndex, bundleDesc, comVars, canPc>>
             /\ UNCHANGED <<splitDone, splitIndex>>
  BY ZenonT(60), <1>1 DEF StartSplit
<1>2. CASE CreateSplit(a)
  BY ZenonT(60), <1>2 DEF CreateSplit
<1>3. ASSUME NEW C \in SUBSET Files, PackSplit(a, C)
      PROVE  /\ \A d \in splitDone : splitIndex'[d.gen] = splitIndex[d.gen]
             /\ UNCHANGED <<diamondFinal, bundleIndex, bundleDesc, comVars, canPc>>
             /\ UNCHANGED <<splitDone, addPc, input>>
  BY ZenonT(60), <1>3 DEF PackSplit
<1>4. CASE FinishSplit(a)
  <2>1. \A d \in splitDone : d.gen # a
    BY ZenonT(60), <1>4 DEF FinishSplit
  <2>2. \A d \in splitDone : addPc'[d.gen] = addPc[d.gen]
    BY <1>4, <2>1 DEF FinishSplit
  <2>3. \A d \in splitDone' \ splitDone : d.split = addSplit[a]
    BY <1>4 DEF FinishSplit
  <2>4. addSplit[a] \notin SplitsOf(splitDone)
    BY <1>4 DEF FinishSplit, IsDone, SplitsOf
  <2> QED BY ZenonT(60), <1>4, <2>2, <2>3, <2>4 DEF FinishSplit
<1>5. CASE AbortSplit(a)
  BY <1>5 DEF AbortSplit
<1> QED BY <1>1, <1>2, <1>3, <1>4, <1>5 DEF SplitStep

\* A split is made done once, by a run that listed all of its input.
LEMMA DoneInvSplitStep ==
  ASSUME TypeOK, AddInv, DoneInv, SplitComplete, NEW a \in Adders, SplitStep(a)
  PROVE  DoneInv' /\ SplitComplete'
<1>1. CASE FinishSplit(a)
  <2> DEFINE new == [split |-> addSplit[a], gen |-> a, count |-> Len(splitIndex[a])]
  <2>1. /\ splitDone' = splitDone \cup {new}
        /\ splitIndex' = splitIndex
        /\ input' = input
    BY <1>1 DEF FinishSplit
  <2>2. \A d \in splitDone : d.split # addSplit[a] /\ d.gen # a
    BY <1>1 DEF FinishSplit, IsDone, DoneInv
  <2>3. addPc'[a] \in {"done", "failed"}
    BY <1>1 DEF FinishSplit, TypeOK
  <2>4. \A d \in splitDone : addPc'[d.gen] = addPc[d.gen]
    BY ZenonT(60), <1>1, <2>2 DEF FinishSplit, TypeOK, SplitDescriptor
  <2>5. new.gen = a /\ new.count = Len(splitIndex[a]) /\ new.split = addSplit[a]
    OBVIOUS
  <2>6. Listed(splitIndex'[new.gen], new.count) = input'[new.gen]
    <3>1. Listed(splitIndex[a], Len(splitIndex[a])) \cup addTodo[a] = input[a]
      BY ZenonT(60), <1>1 DEF FinishSplit, AddInv
    <3>2. addTodo[a] = {}
      BY <1>1 DEF FinishSplit
    <3> QED BY <2>1, <2>5, <3>1, <3>2
  <2>7. \A d \in splitDone : Listed(splitIndex'[d.gen], d.count) = input'[d.gen]
    BY <2>1 DEF SplitContent, SplitComplete
  <2> HIDE DEF new
  <2>8. SplitComplete'
    BY <2>1, <2>6, <2>7 DEF SplitComplete, SplitContent
  <2>9. DoneInv'
    BY <2>1, <2>2, <2>3, <2>4, <2>5 DEF DoneInv
  <2> QED BY <2>8, <2>9
<1>2. CASE ~FinishSplit(a)
  <2>1. splitDone' = splitDone
    BY <1>2 DEF SplitStep, StartSplit, CreateSplit, PackSplit, AbortSplit, store
  <2>2. /\ \A d \in splitDone : splitIndex'[d.gen] = splitIndex[d.gen]
        /\ \A d \in splitDone : addPc'[d.gen] = addPc[d.gen]
        /\ \A d \in splitDone : input'[d.gen] = input[d.gen]
    BY SplitStepFrame
  <2>3. DoneInv'
    BY <2>1, <2>2 DEF DoneInv
  <2>4. SplitComplete'
    BY <2>1, <2>2 DEF SplitComplete, SplitContent
  <2> QED BY <2>3, <2>4
<1> QED BY <1>1, <1>2

\* What the commits and the bundles are made of does not change under a split run.
LEMMA ComInvSplitStep ==
  ASSUME IndInv, NEW a \in Adders, SplitStep(a)
  PROVE  ComInv' /\ OneWriter' /\ PublishedInv' /\ BundleComplete' /\ DoneIsReadable'
<1> USE DEF IndInv
<1>1. /\ UNCHANGED <<diamondFinal, bundleIndex, bundleDesc, comVars, canPc>>
      /\ splitDone \subseteq splitDone'
      /\ \A d \in splitDone : splitIndex'[d.gen] = splitIndex[d.gen]
      /\ \A d \in splitDone' \ splitDone : d.split \notin SplitsOf(splitDone)
  BY SplitStepFrame
<1>2. \A d \in splitDone : SplitContent(d)' = SplitContent(d)
  BY <1>1 DEF SplitContent
<1>3. \A ds \in SUBSET splitDone : ContentOf(ds)' = ContentOf(ds)
  BY <1>2 DEF ContentOf
<1>4. SplitsOf(splitDone) \subseteq SplitsOf(splitDone')
  BY <1>1 DEF SplitsOf
<1>5. ComInv'
  <2>1. \A c \in Committers : ContentOf(collected[c] \ unread[c])' = ContentOf(collected[c] \ unread[c])
    BY <1>1, <1>3 DEF ComInv, ComOK, comVars
  <2> QED BY <1>1, <2>1 DEF ComInv, ComOK, comVars
<1>6. OneWriter'
  BY <1>1 DEF OneWriter, comVars
<1>7. PublishedInv'
  BY <1>1, <1>4 DEF PublishedInv
<1>8. BundleComplete'
  <2> SUFFICES ASSUME NEW d \in bundleDesc
               PROVE  BundleContent(d)' = UNION {SplitContent(e)' :
                        e \in {x \in splitDone' : x.split \in d.contributors}}
    BY <1>1 DEF BundleComplete
  <2>1. {x \in splitDone' : x.split \in d.contributors}
          = {x \in splitDone : x.split \in d.contributors}
    BY <1>1 DEF PublishedInv
  <2>2. BundleContent(d)' = BundleContent(d)
    BY <1>1 DEF BundleContent
  <2>3. {SplitContent(e)' : e \in {x \in splitDone : x.split \in d.contributors}}
          = {SplitContent(e) : e \in {x \in splitDone : x.split \in d.contributors}}
    BY <1>2
  <2> QED BY ZenonT(60), <2>1, <2>2, <2>3 DEF BundleComplete
<1>9. DoneIsReadable'
  BY <1>1, <1>4 DEF DoneIsReadable
<1> QED BY <1>5, <1>6, <1>7, <1>8, <1>9

-----------------------------------------------------------------------------
(* Commit runs.                                                            *)

\* A commit leaves the split runs and what they wrote alone.
LEMMA CommitStepFrame ==
  ASSUME NEW c \in Committers, CommitStep(c)
  PROVE  UNCHANGED <<splitDone, splitIndex, addVars, canPc, diamondRunning>>
BY ZenonT(60) DEF CommitStep, StartCommit, ListSplit, CollectSplits, DownloadSplit,
       FailDownload, PackBundle, PublishBundle, ConcludeCommit, AbortCommit, store

\* Steps that leave the split runs and what they wrote alone keep their invariants.
LEMMA SplitSideUnchanged ==
  ASSUME UNCHANGED <<splitDone, splitIndex, addVars>>, AddInv, DoneInv, SplitComplete
  PROVE  AddInv' /\ DoneInv' /\ SplitComplete'
BY ZenonT(60) DEF AddInv, DoneInv, SplitComplete, SplitContent, addVars

\* A run other than the one that takes the step keeps its invariant as long
\* as the index files it wrote keep their content.
LEMMA OtherCommit ==
  ASSUME NEW x \in Committers, ComOK(x),
         UNCHANGED <<splitDone, splitIndex>>,
         UNCHANGED <<comPc[x], comBundle[x], collected[x], unread[x], comTodo[x],
                     comCount[x]>>,
         bundleDesc \subseteq bundleDesc',
         comPc[x] \in {"merge", "drain"} =>
            /\ comCount[x] > 0 => UNCHANGED Len(bundleIndex[comBundle[x]])
            /\ UNCHANGED Listed(bundleIndex[comBundle[x]], comCount[x])
  PROVE  ComOK(x)'
<1>1. ContentOf(collected[x] \ unread[x])' = ContentOf(collected[x] \ unread[x])
  BY ZenonT(60) DEF ContentOf, SplitContent
<1> QED BY ZenonT(60), <1>1 DEF ComOK

\* The run that takes the step keeps its own invariant, and stays the only one
\* to write index files of its bundle.
LEMMA OwnCommit ==
  ASSUME IndInv, NEW c \in Committers, CommitStep(c)
  PROVE  ComOK(c)' /\ OneWriter'
<1> USE DEF IndInv
<1>1. UNCHANGED <<splitDone, splitIndex>>
  BY CommitStepFrame
<1>3. ComOK(c)
  BY DEF ComInv
<1>4. ASSUME NEW b \in Bundles \cup {NoBundle}, StartCommit(c, b)
      PROVE  ComOK(c)' /\ OneWriter'
  <2>1. /\ comPc[c] = "idle" /\ comPc' = [comPc EXCEPT ![c] = "list"]
        /\ UNCHANGED <<collected, unread, comTodo, comCount, bundleIndex>>
        /\ comBundle' = [comBundle EXCEPT ![c] = b]
    BY <1>4 DEF StartCommit, store
  <2>2. comPc'[c] = "list"
    BY <2>1 DEF TypeOK
  <2>3. ComOK(c)'
    BY ZenonT(60), <1>1, <1>3, <2>1, <2>2 DEF ComOK
  <2>4. OneWriter'
    BY <2>1 DEF OneWriter, TypeOK
  <2> QED BY <2>3, <2>4
<1>5. ASSUME NEW d \in splitDone \ collected[c], ListSplit(c, d)
      PROVE  ComOK(c)' /\ OneWriter'
  <2>1. /\ comPc[c] = "list"
        /\ UNCHANGED <<comPc, comBundle, unread, comTodo, comCount>>
        /\ collected' = [collected EXCEPT ![c] = @ \cup {d}]
    BY <1>5 DEF ListSplit
  <2>2. collected'[c] = collected[c] \cup {d}
    BY <2>1 DEF TypeOK
  <2>3. ComOK(c)'
    BY <1>1, <1>3, <2>1, <2>2 DEF ComOK
  <2>4. OneWriter'
    BY <2>1 DEF OneWriter, TypeOK
  <2> QED BY <2>3, <2>4
<1>6. ASSUME NEW b \in Bundles, CollectSplits(c, b)
      PROVE  ComOK(c)' /\ OneWriter'
  <2>1. /\ comPc[c] = "list"
        /\ UNCHANGED <<collected, comTodo, comCount>>
        /\ comPc'[c] = "merge"
        /\ comBundle'[c] = b
        /\ unread'[c] = collected[c]
        /\ \A x \in Committers \ {c} : comPc'[x] = comPc[x] /\ comBundle'[x] = comBundle[x]
    BY <1>6 DEF CollectSplits, TypeOK
  <2>2. comTodo[c] = {} /\ comCount[c] = 0
    BY <1>3, <2>1 DEF ComOK
  <2>3. Listed(bundleIndex[comBundle[c]], comCount[c])' = {}
    BY <2>1, <2>2 DEF Listed
  <2>4. ContentOf(collected[c] \ unread[c])' = {}
    BY <2>1 DEF ContentOf
  <2>5. comCount'[c] = 0 /\ comTodo'[c] = {} /\ collected'[c] \subseteq splitDone'
    BY <1>1, <1>3, <2>1, <2>2 DEF ComOK
  <2>6. ComOK(c)'
    <3>1. unread'[c] \subseteq collected'[c] /\ comBundle'[c] \in Bundles
      BY <2>1
    <3>2. (Listed(bundleIndex[comBundle[c]], comCount[c]) \cup comTodo[c]
             = ContentOf(collected[c] \ unread[c]))'
      BY ZenonT(60), <2>3, <2>4, <2>5
    <3>3. comPc'[c] = "merge"
      BY <2>1
    <3> QED BY <2>5, <3>1, <3>2, <3>3 DEF ComOK
  <2>7. OneWriter'
    BY <2>1, <2>2 DEF OneWriter
  <2> QED BY <2>6, <2>7
<1>7. ASSUME NEW d \in unread[c], DownloadSplit(c, d)
      PROVE  ComOK(c)' /\ OneWriter'
  <2>1. /\ comPc[c] = "merge"
        /\ UNCHANGED <<comPc, comBundle, collected, comCount, bundleIndex>>
        /\ unread'[c] = unread[c] \ {d}
        /\ comTodo'[c] = comTodo[c] \cup SplitContent(d)
    BY <1>7 DEF DownloadSplit, TypeOK, store
  <2>2. d \in collected[c]
    BY ZenonT(60), <1>3 DEF ComOK
  <2>3. ContentOf(collected[c] \ unread[c])'
          = ContentOf(collected[c] \ unread[c]) \cup SplitContent(d)
    BY <1>1, <2>1, <2>2 DEF ContentOf, SplitContent
  <2>4. Listed(bundleIndex[comBundle[c]], comCount[c])' \cup comTodo'[c]
          = ContentOf(collected[c] \ unread[c])'
    BY ZenonT(60), <1>3, <2>1, <2>3 DEF ComOK
  <2>5. ComOK(c)'
    BY ZenonT(60), <1>1, <1>3, <2>1, <2>4 DEF ComOK
  <2>6. OneWriter'
    BY ZenonT(60), <2>1 DEF OneWriter
  <2> QED BY <2>5, <2>6
<1>8. CASE FailDownload(c)
  <2>1. /\ comPc[c] = "merge"
        /\ comPc'[c] = "drain"
        /\ \A x \in Committers \ {c} : comPc'[x] = comPc[x]
        /\ UNCHANGED <<comBundle, collected, unread, comTodo, comCount, bundleIndex>>
    BY <1>8 DEF FailDownload, TypeOK, store
  <2>2. ContentOf(collected[c] \ unread[c])' = ContentOf(collected[c] \ unread[c])
    BY <1>1, <2>1 DEF ContentOf, SplitContent
  <2>3. ComOK(c)'
    BY ZenonT(60), <1>1, <1>3, <2>1, <2>2 DEF ComOK
  <2>4. OneWriter'
    BY ZenonT(60), <2>1 DEF OneWriter
  <2> QED BY <2>3, <2>4
<1>9. CASE AbortCommit(c)
  <2>1. /\ comPc'[c] = "failed"
        /\ collected'[c] = {}
        /\ unread'[c] = {}
        /\ \A x \in Committers \ {c} :
              comPc'[x] = comPc[x] /\ comCount'[x] = comCount[x]
        /\ UNCHANGED comBundle
    BY <1>9 DEF AbortCommit, TypeOK
  <2>2. ComOK(c)'
    BY <2>1 DEF ComOK
  <2>3. OneWriter'
    BY <2>1 DEF OneWriter
  <2> QED BY <2>2, <2>3
<1>10. ASSUME NEW C \in SUBSET Files, PackBundle(c, C)
       PROVE  ComOK(c)' /\ OneWriter'
  <2> DEFINE b == comBundle[c]
  <2>1. /\ comPc[c] \in {"merge", "drain"}
        /\ C \subseteq comTodo[c]
        /\ Len(bundleIndex[b]) = comCount[c]
        /\ comPc[c] = "merge" => unread[c] = {}
        /\ UNCHANGED <<comPc, comBundle, collected, unread, bundleDesc>>
        /\ comTodo'[c] = comTodo[c] \ C
        /\ comCount'[c] = comCount[c] + 1
        /\ \A x \in Committers \ {c} : comCount'[x] = comCount[x]
    BY <1>10 DEF PackBundle, TypeOK, Chunks
  <2>2. b \in Bundles
    BY ZenonT(60), <1>3, <2>1 DEF ComOK
  <2>3. bundleIndex'[b] = Append(bundleIndex[b], C) /\ bundleIndex[b] \in Seq(SUBSET Files)
    BY <1>10, <2>2 DEF PackBundle, TypeOK
  <2>4. Listed(Append(bundleIndex[b], C), Len(bundleIndex[b]) + 1)
          = Listed(bundleIndex[b], Len(bundleIndex[b])) \cup C
    BY <2>3, ListedAppend
  <2>5. Listed(bundleIndex'[b], comCount'[c]) \cup comTodo'[c]
          = Listed(bundleIndex[b], comCount[c]) \cup comTodo[c]
    BY <2>1, <2>3, <2>4
  <2>6. ContentOf(collected[c] \ unread[c])' = ContentOf(collected[c] \ unread[c])
    BY <1>1, <2>1 DEF ContentOf, SplitContent
  <2>7. Len(bundleIndex'[b]) = comCount'[c]
    <3>1. Len(Append(bundleIndex[b], C)) = Len(bundleIndex[b]) + 1
      BY <2>3, ListedAppend
    <3> QED BY <2>1, <2>3, <3>1
  <2>8. ComOK(c)'
    BY ZenonT(60), <1>1, <1>3, <2>1, <2>5, <2>6, <2>7 DEF ComOK
  <2>9. \A x \in Committers \ {c} :
           comPc[x] \in {"merge", "drain"} /\ comBundle[x] = b => comCount[x] = 0
    <3> SUFFICES ASSUME NEW x \in Committers \ {c}, comPc[x] \in {"merge", "drain"},
                        comBundle[x] = b, comCount[x] # 0
                 PROVE  FALSE
      OBVIOUS
    <3>1. comCount[x] \in Nat /\ comCount[c] \in Nat
      BY DEF TypeOK
    <3>2. Len(bundleIndex[b]) = comCount[x]
      <4>1. ComOK(x) /\ comCount[x] > 0
        BY <3>1 DEF ComInv
      <4> QED BY <4>1 DEF ComOK
    <3>3. comCount[c] = 0
      BY <2>1 DEF OneWriter
    <3> QED BY ZenonT(60), <2>1, <3>2, <3>3
  <2>10. OneWriter'
    BY <2>1, <2>9 DEF OneWriter
  <2> QED BY <2>8, <2>10
<1>11. CASE PublishBundle(c)
  <2>1. /\ comPc[c] = "merge"
        /\ comPc'[c] = "published"
        /\ \A x \in Committers \ {c} : comPc'[x] = comPc[x]
        /\ UNCHANGED <<comBundle, collected, unread, comTodo, comCount>>
    BY <1>11 DEF PublishBundle, TypeOK
  <2>2. \E d \in bundleDesc' : /\ d.bundle = comBundle[c]
                               /\ d.contributors = SplitsOf(collected[c])
    <3> DEFINE new == [bundle |-> comBundle[c], count |-> comCount[c],
                       contributors |-> SplitsOf(collected[c])]
    <3>1. new \in bundleDesc'
      BY ZenonT(60), <1>11 DEF PublishBundle
    <3>2. new.bundle = comBundle[c] /\ new.contributors = SplitsOf(collected[c])
      OBVIOUS
    <3> QED BY <3>1, <3>2
  <2>3. ComOK(c)'
    BY ZenonT(60), <1>1, <1>3, <2>1, <2>2 DEF ComOK, SplitsOf
  <2>4. OneWriter'
    BY ZenonT(60), <2>1 DEF OneWriter
  <2> QED BY <2>3, <2>4
<1>12. CASE ConcludeCommit(c)
  <2>1. /\ comPc[c] = "published"
        /\ comPc'[c] \in {"committed", "failed"}
        /\ \A x \in Committers \ {c} : comPc'[x] = comPc[x]
        /\ UNCHANGED <<comBundle, collected, unread, comTodo, comCount, bundleDesc>>
    BY <1>12 DEF ConcludeCommit, TypeOK
  <2>2. ComOK(c)'
    BY ZenonT(60), <1>1, <1>3, <2>1 DEF ComOK, SplitsOf
  <2>3. OneWriter'
    BY ZenonT(60), <2>1 DEF OneWriter
  <2> QED BY <2>2, <2>3
<1> QED
  BY ZenonT(60), <1>4, <1>5, <1>6, <1>7, <1>8, <1>9, <1>10, <1>11, <1>12 DEF CommitStep

\* A step of a commit run keeps the invariant of every commit run.
LEMMA ComInvCommitStep ==
  ASSUME IndInv, NEW c \in Committers, CommitStep(c)
  PROVE  ComInv' /\ OneWriter'
<1> USE DEF IndInv
<1>1. UNCHANGED <<splitDone, splitIndex>>
  BY CommitStepFrame
<1>2. \A x \in Committers \ {c} :
         UNCHANGED <<comPc[x], comBundle[x], collected[x], unread[x], comTodo[x],
                     comCount[x]>>
  <2>1. /\ comPc \in [Committers -> {"idle", "list", "merge", "drain", "published",
                                   "committed", "failed"}]
        /\ comBundle \in [Committers -> Bundles \cup {NoBundle}]
        /\ collected \in [Committers -> SUBSET SplitDescriptor]
        /\ unread \in [Committers -> SUBSET SplitDescriptor]
        /\ comTodo \in [Committers -> SUBSET Files]
        /\ comCount \in [Committers -> Nat]
    BY DEF TypeOK
  <2> QED
    BY ZenonT(60), <2>1 DEF CommitStep, StartCommit, ListSplit, CollectSplits, DownloadSplit,
       FailDownload, PackBundle, PublishBundle, ConcludeCommit, AbortCommit
<1>3. bundleDesc \subseteq bundleDesc'
  BY ZenonT(60) DEF CommitStep, StartCommit, ListSplit, CollectSplits, DownloadSplit,
         FailDownload, PackBundle, PublishBundle, ConcludeCommit, AbortCommit, store
<1>4. ASSUME NEW x \in Committers \ {c}, comPc[x] \in {"merge", "drain"}
      PROVE  /\ comCount[x] > 0 => UNCHANGED Len(bundleIndex[comBundle[x]])
             /\ UNCHANGED Listed(bundleIndex[comBundle[x]], comCount[x])
  <2>1. CASE UNCHANGED bundleIndex
    BY ZenonT(60), <1>2, <2>1
  <2>2. ASSUME NEW C \in SUBSET Files, PackBundle(c, C)
        PROVE  /\ comCount[x] > 0 => UNCHANGED Len(bundleIndex[comBundle[x]])
               /\ UNCHANGED Listed(bundleIndex[comBundle[x]], comCount[x])
    <3>1. CASE comBundle[x] # comBundle[c]
      BY <1>2, <2>2, <3>1 DEF PackBundle, TypeOK
    <3>2. CASE comBundle[x] = comBundle[c]
      <4>1. comCount[x] = 0
        <5>1. comCount[x] \in Nat /\ comCount[c] \in Nat
          BY DEF TypeOK
        <5>2. Len(bundleIndex[comBundle[c]]) = comCount[c] /\ comPc[c] \in {"merge", "drain"}
          BY <2>2 DEF PackBundle
        <5>3. comCount[x] > 0 => Len(bundleIndex[comBundle[x]]) = comCount[x]
          BY ZenonT(60), <1>4 DEF ComInv, ComOK
        <5>4. comCount[c] = 0 \/ comCount[x] = 0
          BY <1>4, <3>2, <5>2 DEF OneWriter
        <5>5. SUFFICES ASSUME comCount[x] > 0 PROVE FALSE
          BY <5>1
        <5>6. comCount[x] = comCount[c]
          BY <3>2, <5>2, <5>3, <5>5
        <5> QED BY <5>1, <5>4, <5>5, <5>6
      <4>2. comCount'[x] = 0
        BY <1>2, <4>1
      <4>3. \A index : Listed(index, 0) = {}
        BY DEF Listed
      <4>4. Listed(bundleIndex[comBundle[x]], comCount[x]) = {}
        BY <4>1, <4>3
      <4>5. Listed(bundleIndex'[comBundle'[x]], comCount'[x]) = {}
        BY <4>2, <4>3
      <4>6. ~(comCount[x] > 0)
        BY <4>1
      <4> QED BY ZenonT(60), <4>4, <4>5, <4>6
    <3> QED BY ZenonT(60), <3>1, <3>2
  <2> QED
    BY ZenonT(60), <2>1, <2>2 DEF CommitStep, StartCommit, ListSplit, CollectSplits,
       DownloadSplit, FailDownload, PublishBundle, ConcludeCommit, AbortCommit, store
<1>5. \A x \in Committers \ {c} : ComOK(x)'
  BY <1>1, <1>2, <1>3, <1>4, OtherCommit DEF ComInv
<1>6. ComOK(c)' /\ OneWriter'
  BY OwnCommit
<1> QED BY <1>5, <1>6 DEF ComInv

\* A commit publishes only a bundle that it packed in full, and concludes the
\* diamond only with a bundle that it published.
LEMMA BundleInvCommitStep ==
  ASSUME IndInv, NEW c \in Committers, CommitStep(c)
  PROVE  PublishedInv' /\ BundleComplete' /\ DoneIsReadable'
<1> USE DEF IndInv
<1>1. UNCHANGED <<splitDone, splitIndex>>
  BY CommitStepFrame
<1>2. ASSUME UNCHANGED <<bundleIndex, bundleDesc, diamondFinal>>
      PROVE  PublishedInv' /\ BundleComplete' /\ DoneIsReadable'
  BY <1>1, <1>2 DEF PublishedInv, BundleComplete, DoneIsReadable, BundleContent,
                    SplitContent, SplitsOf
<1>3. ASSUME NEW C \in SUBSET Files, PackBundle(c, C)
      PROVE  PublishedInv' /\ BundleComplete' /\ DoneIsReadable'
  <2>1. UNCHANGED <<bundleDesc, diamondFinal>>
    BY ZenonT(60), <1>3 DEF PackBundle
  <2>2. comBundle[c] \in Bundles
    BY ZenonT(60), <1>3 DEF PackBundle, ComInv, ComOK
  <2>3. \A b \in Bundles :
           \/ bundleIndex'[b] = bundleIndex[b]
           \/ bundleIndex'[b] = Append(bundleIndex[b], C)
    BY <1>3, <2>2 DEF PackBundle, TypeOK
  <2>4. \A b \in Bundles :
           /\ Len(bundleIndex'[b]) >= Len(bundleIndex[b])
           /\ \A n \in 0 .. Len(bundleIndex[b]) :
                 Listed(bundleIndex'[b], n) = Listed(bundleIndex[b], n)
    <3> SUFFICES ASSUME NEW b \in Bundles
                 PROVE  /\ Len(bundleIndex'[b]) >= Len(bundleIndex[b])
                        /\ \A n \in 0 .. Len(bundleIndex[b]) :
                              Listed(bundleIndex'[b], n) = Listed(bundleIndex[b], n)
      OBVIOUS
    <3>1. bundleIndex[b] \in Seq(SUBSET Files)
      BY DEF TypeOK
    <3>2. Len(Append(bundleIndex[b], C)) >= Len(bundleIndex[b])
      BY <3>1
    <3>3. \A n \in 0 .. Len(bundleIndex[b]) :
             Listed(Append(bundleIndex[b], C), n) = Listed(bundleIndex[b], n)
      BY <3>1, ListedAppend
    <3>4. CASE bundleIndex'[b] = bundleIndex[b]
      <4>1. Len(bundleIndex[b]) \in Nat
        BY <3>1
      <4> QED BY <3>4, <4>1
    <3>5. CASE bundleIndex'[b] = Append(bundleIndex[b], C)
      BY <3>2, <3>3, <3>5
    <3> QED BY ZenonT(60), <2>3, <3>4, <3>5
  <2>5. \A d \in bundleDesc : d.bundle \in Bundles /\ d.count \in 0 .. Len(bundleIndex[d.bundle])
    BY DEF PublishedInv, TypeOK, BundleDescriptor
  <2>6. PublishedInv'
    <3>1. SplitsOf(splitDone)' = SplitsOf(splitDone)
      BY ZenonT(60), <1>1 DEF SplitsOf
    <3>2. ASSUME NEW d \in bundleDesc
          PROVE  d.count <= Len(bundleIndex'[d.bundle])
      <4>1. /\ d.bundle \in Bundles
            /\ d.count \in Nat
            /\ d.count <= Len(bundleIndex[d.bundle])
        BY <2>5
      <4>2. Len(bundleIndex'[d.bundle]) >= Len(bundleIndex[d.bundle])
        BY <2>4, <4>1
      <4>3. Len(bundleIndex[d.bundle]) \in Nat /\ Len(bundleIndex'[d.bundle]) \in Nat
        <5>1. bundleIndex[d.bundle] \in Seq(SUBSET Files)
          BY <4>1 DEF TypeOK
        <5>2. Append(bundleIndex[d.bundle], C) \in Seq(SUBSET Files)
          BY <5>1, ListedAppend
        <5>3. \/ bundleIndex'[d.bundle] = bundleIndex[d.bundle]
              \/ bundleIndex'[d.bundle] = Append(bundleIndex[d.bundle], C)
          BY <2>3, <4>1
        <5>4. bundleIndex'[d.bundle] \in Seq(SUBSET Files)
          BY ZenonT(60), <5>1, <5>2, <5>3
        <5> QED BY <5>1, <5>4
      <4> QED BY <4>1, <4>2, <4>3
    <3> QED BY <2>1, <3>1, <3>2 DEF PublishedInv
  <2>7. \A d \in bundleDesc : BundleContent(d)' = BundleContent(d)
    BY <2>4, <2>5 DEF BundleContent
  <2>8. BundleComplete'
    <3>1. \A e : SplitContent(e)' = SplitContent(e)
      BY <1>1 DEF SplitContent
    <3> QED BY <1>1, <2>1, <2>7, <3>1 DEF BundleComplete
  <2>9. DoneIsReadable'
    BY <1>1, <2>1 DEF DoneIsReadable, SplitsOf
  <2> QED BY <2>6, <2>8, <2>9
<1>4. CASE PublishBundle(c)
  <2> DEFINE new == [bundle |-> comBundle[c], count |-> comCount[c],
                     contributors |-> SplitsOf(collected[c])]
  <2>1. /\ bundleDesc' = bundleDesc \cup {new}
        /\ UNCHANGED <<bundleIndex, diamondFinal>>
        /\ comPc[c] = "merge"
        /\ unread[c] = {}
        /\ comTodo[c] = {}
        /\ \A d \in bundleDesc : d.bundle # comBundle[c]
    BY ZenonT(60), <1>4 DEF PublishBundle, IsPublished
  <2>2. /\ new.bundle = comBundle[c]
        /\ new.count = comCount[c]
        /\ new.contributors = SplitsOf(collected[c])
    BY ZenonT(60)
  <2>3. ComOK(c)
    BY DEF ComInv
  <2>4. comBundle[c] \in Bundles
    BY ZenonT(60), <2>1, <2>3 DEF ComOK
  <2>5. comCount[c] <= Len(bundleIndex[comBundle[c]])
    <3>1. comCount[c] \in Nat /\ Len(bundleIndex[comBundle[c]]) \in Nat
      BY <2>4 DEF TypeOK
    <3>2. comCount[c] > 0 => Len(bundleIndex[comBundle[c]]) = comCount[c]
      BY ZenonT(60), <2>1, <2>3 DEF ComOK
    <3> QED BY <3>1, <3>2
  <2>6. SplitsOf(collected[c]) \subseteq SplitsOf(splitDone)
    BY ZenonT(60), <2>3 DEF ComOK, SplitsOf
  <2>7. {x \in splitDone : x.split \in SplitsOf(collected[c])} = collected[c]
    <3>1. collected[c] \subseteq splitDone
      BY <2>3 DEF ComOK
    <3>2. \A d, e \in splitDone : d.split = e.split => d = e
      BY DEF DoneInv
    <3> QED BY ZenonT(60), <3>1, <3>2 DEF SplitsOf
  <2>8. Listed(bundleIndex[comBundle[c]], comCount[c]) = ContentOf(collected[c])
    BY ZenonT(60), <2>1, <2>3 DEF ComOK
  <2>9. BundleContent(new) =
           UNION {SplitContent(e) : e \in {x \in splitDone : x.split \in new.contributors}}
    BY ZenonT(60), <2>2, <2>7, <2>8 DEF BundleContent, ContentOf
  <2> HIDE DEF new
  <2>10. PublishedInv'
    BY ZenonT(60), <1>1, <2>1, <2>2, <2>5, <2>6 DEF PublishedInv, SplitsOf
  <2>11. BundleComplete'
    BY <1>1, <2>1, <2>9 DEF BundleComplete, BundleContent, SplitContent
  <2>12. DoneIsReadable'
    BY <1>1, <2>1 DEF DoneIsReadable, SplitsOf
  <2> QED BY <2>10, <2>11, <2>12
<1>5. CASE ConcludeCommit(c)
  <2> DEFINE new == [state |-> "done", bundle |-> comBundle[c],
                     splits |-> SplitsOf(collected[c])]
  <2>1. /\ comPc[c] = "published"
        /\ diamondFinal' = {new}
        /\ UNCHANGED <<bundleIndex, bundleDesc>>
    BY <1>5 DEF ConcludeCommit
  <2>2. new.bundle = comBundle[c] /\ new.splits = SplitsOf(collected[c])
    OBVIOUS
  <2>3. ComOK(c)
    BY DEF ComInv
  <2>4. SplitsOf(collected[c]) \subseteq SplitsOf(splitDone)
    BY <2>3 DEF ComOK, SplitsOf
  <2>5. \E d \in bundleDesc : d.bundle = new.bundle /\ d.contributors = new.splits
    BY ZenonT(60), <2>1, <2>3 DEF ComOK
  <2> HIDE DEF new
  <2>6. DoneIsReadable'
    BY ZenonT(60), <1>1, <2>1, <2>2, <2>4, <2>5 DEF DoneIsReadable, SplitsOf
  <2>7. PublishedInv' /\ BundleComplete'
    BY <1>1, <2>1 DEF PublishedInv, BundleComplete, BundleContent, SplitContent, SplitsOf
  <2> QED BY <2>6, <2>7
<1> QED
  BY ZenonT(60), <1>2, <1>3, <1>4, <1>5 DEF CommitStep, StartCommit, ListSplit, CollectSplits,
     DownloadSplit, FailDownload, AbortCommit, store

\* A cancel run touches nothing that a split or a bundle is made of.
LEMMA InvCancelStep ==
  ASSUME IndInv, NEW k \in Cancelers, CancelStep(k)
  PROVE  IndInv'
<1> USE DEF IndInv
<1>1. /\ UNCHANGED <<splitDone, splitIndex, addVars, bundleIndex, bundleDesc, comVars>>
      /\ diamondFinal' = diamondFinal \/ \A f \in diamondFinal' : f.state # "done"
  BY DEF CancelStep, StartCancel, FinishCancel, AbortCancel, store
<1>2. TypeOK'
  BY TypeCancelStep
<1>3. AddInv' /\ DoneInv' /\ SplitComplete'
  BY <1>1, SplitSideUnchanged
<1>4. ComInv' /\ OneWriter'
  <2>1. \A c \in Committers : ContentOf(collected[c] \ unread[c])' = ContentOf(collected[c] \ unread[c])
    BY ZenonT(60), <1>1 DEF ContentOf, SplitContent, comVars
  <2> QED BY ZenonT(60), <1>1, <2>1 DEF ComInv, ComOK, OneWriter, comVars
<1>5. /\ PublishedInv'
      /\ BundleComplete'
  <2>1. PublishedInv'
    BY <1>1 DEF PublishedInv, SplitsOf
  <2>2. BundleComplete'
    BY <1>1 DEF BundleComplete, BundleContent, SplitContent
  <2> QED BY <2>1, <2>2
<1>6. DoneIsReadable'
  BY <1>1 DEF DoneIsReadable, SplitsOf
<1> QED BY <1>2, <1>3, <1>4, <1>5, <1>6

-----------------------------------------------------------------------------
(* The invariant is inductive.                                             *)

\* The invariant holds when the diamond does not exist yet.
LEMMA InvInit == Init => IndInv
<1> SUFFICES ASSUME Init PROVE IndInv
  OBVIOUS
<1>1. TypeOK
  <2>1. <<>> \in Seq(SUBSET Files) /\ 0 \in Nat
    OBVIOUS
  <2>2. /\ splitIndex \in [Adders -> Seq(SUBSET Files)]
        /\ bundleIndex \in [Bundles -> Seq(SUBSET Files)]
        /\ comCount \in [Committers -> Nat]
    BY <2>1 DEF Init
  <2> QED BY ZenonT(60), <2>2 DEF Init, TypeOK
<1>2. AddInv /\ DoneInv /\ SplitComplete /\ PublishedInv /\ BundleComplete /\ DoneIsReadable
  BY ZenonT(60) DEF Init, AddInv, DoneInv, SplitComplete, PublishedInv, BundleComplete, DoneIsReadable
<1>3. ComInv /\ OneWriter
  BY DEF Init, ComInv, ComOK, OneWriter
<1> QED BY <1>1, <1>2, <1>3 DEF IndInv

\* Every step of every run keeps the invariant.
LEMMA InvNext == IndInv /\ [Next]_vars => IndInv'
<1> SUFFICES ASSUME IndInv, [Next]_vars PROVE IndInv'
  OBVIOUS
<1>1. CASE CreateDiamond
  <2>1. /\ UNCHANGED <<diamondFinal, splitRunning, splitDone, splitIndex, addVars,
                       bundleIndex, bundleDesc, comVars, canPc>>
        /\ diamondRunning' \in BOOLEAN
    BY <1>1 DEF CreateDiamond
  <2>2. TypeOK'
    BY <2>1 DEF IndInv, TypeOK, addVars, comVars
  <2>3. AddInv' /\ DoneInv' /\ SplitComplete'
    BY <2>1, SplitSideUnchanged DEF IndInv
  <2>4. \A c \in Committers : ContentOf(collected[c] \ unread[c])' = ContentOf(collected[c] \ unread[c])
    BY ZenonT(60), <2>1 DEF ContentOf, SplitContent, comVars
  <2>5. ComInv' /\ OneWriter'
    BY ZenonT(60), <2>1, <2>4 DEF IndInv, ComInv, ComOK, OneWriter, comVars
  <2>6. PublishedInv' /\ BundleComplete' /\ DoneIsReadable'
    BY <2>1 DEF IndInv, PublishedInv, BundleComplete, DoneIsReadable, BundleContent,
                SplitContent, SplitsOf
  <2> QED BY <2>2, <2>3, <2>5, <2>6 DEF IndInv
<1>2. ASSUME NEW a \in Adders, SplitStep(a) PROVE IndInv'
  BY <1>2, TypeSplitStep, AddInvSplitStep, DoneInvSplitStep, ComInvSplitStep DEF IndInv
<1>3. ASSUME NEW c \in Committers, CommitStep(c) PROVE IndInv'
  BY <1>3, TypeCommitStep, CommitStepFrame, SplitSideUnchanged, ComInvCommitStep,
     BundleInvCommitStep DEF IndInv
<1>4. ASSUME NEW k \in Cancelers, CancelStep(k) PROVE IndInv'
  BY <1>4, InvCancelStep
<1>5. CASE UNCHANGED vars
  <2>1. UNCHANGED <<store, addVars, comVars, canPc>>
    BY <1>5 DEF vars
  <2>2. TypeOK'
    BY <2>1 DEF IndInv, TypeOK, store, addVars, comVars
  <2>3. AddInv' /\ DoneInv' /\ SplitComplete'
    BY <2>1, SplitSideUnchanged DEF IndInv, store
  <2>4. \A c \in Committers : ContentOf(collected[c] \ unread[c])' = ContentOf(collected[c] \ unread[c])
    BY ZenonT(60), <2>1 DEF ContentOf, SplitContent, comVars, store
  <2>5. ComInv' /\ OneWriter'
    BY ZenonT(60), <2>1, <2>4 DEF IndInv, ComInv, ComOK, OneWriter, comVars, store
  <2>6. PublishedInv' /\ BundleComplete' /\ DoneIsReadable'
    BY <2>1 DEF IndInv, PublishedInv, BundleComplete, DoneIsReadable, BundleContent,
                SplitContent, SplitsOf, store
  <2> QED BY <2>2, <2>3, <2>5, <2>6 DEF IndInv
<1> QED BY <1>1, <1>2, <1>3, <1>4, <1>5 DEF Next

\* The invariant holds in every reachable state.
LEMMA Invariance == Spec => []IndInv
<1> QED BY InvInit, InvNext, PTL DEF Spec

-----------------------------------------------------------------------------
(* The theorems.                                                           *)

\* The metadata objects and the runs of a diamond always have their types.
THEOREM TypeCorrect == Spec => []TypeOK
<1>1. IndInv => TypeOK
  BY DEF IndInv
<1> QED BY <1>1, Invariance, PTL

\* Whatever runs of a split are started, restarted, lost or raced, a split that
\* is done lists exactly the files given to the run that completed it.
THEOREM SplitsAreComplete == Spec => []SplitComplete
<1>1. IndInv => SplitComplete
  BY DEF IndInv
<1> QED BY <1>1, Invariance, PTL

\* A visible bundle lists exactly the files of its done splits: neither a
\* failed download, nor a crash, nor commits racing on one bundle ID leave a
\* partial or mixed bundle behind a descriptor.
THEOREM BundlesAreComplete == Spec => []BundleComplete
<1>1. IndInv => BundleComplete
  BY DEF IndInv
<1> QED BY <1>1, Invariance, PTL

\* A diamond marked done names a published bundle made of the splits it records.
THEOREM DoneDiamondsAreReadable == Spec => []DoneIsReadable
<1>1. IndInv => DoneIsReadable
  BY DEF IndInv
<1> QED BY <1>1, Invariance, PTL

-----------------------------------------------------------------------------
(* Only one run concludes the diamond.                                     *)

Committed == {c \in Committers : comPc[c] = "committed"}
Canceled == {k \in Cancelers : canPc[k] = "canceled"}

\* A run that reported success finds its descriptor in place, and is the only one.
ConclusionInv ==
    /\ \A c \in Committed :
          diamondFinal = {[state |-> "done", bundle |-> comBundle[c],
                           splits |-> SplitsOf(collected[c])]}
    /\ \A k \in Canceled :
          diamondFinal = {[state |-> "canceled", bundle |-> NoBundle, splits |-> {}]}
    /\ \A c, x \in Committed : c = x
    /\ \A k, x \in Canceled : k = x

\* The first commit or cancel that writes the final descriptor is the only one
\* that ever reports success.
LEMMA ConclusionNext == TypeOK /\ ConclusionInv /\ [Next]_vars => ConclusionInv'
<1> SUFFICES ASSUME TypeOK, ConclusionInv, [Next]_vars PROVE ConclusionInv'
  OBVIOUS
<1> USE DEF Committed, Canceled
<1>1. CASE CreateDiamond \/ UNCHANGED vars \/ \E a \in Adders : SplitStep(a)
  <2>1. UNCHANGED <<diamondFinal, comPc, comBundle, collected, canPc>>
    BY ZenonT(60), <1>1 DEF CreateDiamond, vars, SplitStep, StartSplit, CreateSplit, PackSplit,
                FinishSplit, AbortSplit, store, comVars
  <2> QED BY <2>1 DEF ConclusionInv, SplitsOf
<1>2. ASSUME NEW c \in Committers, CommitStep(c) PROVE ConclusionInv'
  <2>1. CASE ConcludeCommit(c)
    <3>1. /\ diamondFinal = {}
          /\ diamondFinal' = {[state |-> "done", bundle |-> comBundle[c],
                               splits |-> SplitsOf(collected[c])]}
          /\ \A x \in Committers \ {c} : comPc'[x] = comPc[x]
          /\ UNCHANGED <<comBundle, collected, canPc>>
      BY ZenonT(60), <2>1 DEF ConcludeCommit, TypeOK
    <3>2. Committed = {} /\ Canceled = {}
      BY ZenonT(60), <3>1 DEF ConclusionInv
    <3>3. Committed' \subseteq {c} /\ Canceled' = {}
      BY ZenonT(60), <3>1, <3>2
    <3> QED BY ZenonT(60), <3>1, <3>3 DEF ConclusionInv, SplitsOf
  <2>2. CASE ~ConcludeCommit(c)
    <3>1. /\ UNCHANGED <<diamondFinal, canPc>>
          /\ comPc[c] # "committed" /\ comPc'[c] # "committed"
          /\ \A x \in Committers \ {c} :
                UNCHANGED <<comPc[x], comBundle[x], collected[x]>>
      BY ZenonT(60), <1>2, <2>2 DEF TypeOK, CommitStep, StartCommit, ListSplit, CollectSplits,
         DownloadSplit, FailDownload, PackBundle, PublishBundle, AbortCommit, store
    <3>2. Committed' = Committed /\ Canceled' = Canceled
      BY <3>1
    <3>3. \A x \in Committed : UNCHANGED <<comBundle[x], collected[x]>>
      BY <3>1
    <3> QED BY ZenonT(60), <3>1, <3>2, <3>3 DEF ConclusionInv, SplitsOf
  <2> QED BY <2>1, <2>2
<1>3. ASSUME NEW k \in Cancelers, CancelStep(k) PROVE ConclusionInv'
  <2>1. CASE FinishCancel(k)
    <3>1. /\ diamondFinal = {}
          /\ diamondFinal' = {[state |-> "canceled", bundle |-> NoBundle, splits |-> {}]}
          /\ \A x \in Cancelers \ {k} : canPc'[x] = canPc[x]
          /\ UNCHANGED comPc
      BY ZenonT(60), <2>1 DEF FinishCancel, TypeOK, comVars
    <3>2. Committed = {} /\ Canceled = {}
      BY ZenonT(60), <3>1 DEF ConclusionInv
    <3>3. Committed' = {} /\ Canceled' \subseteq {k}
      BY ZenonT(60), <3>1, <3>2
    <3> QED BY ZenonT(60), <3>1, <3>3 DEF ConclusionInv
  <2>2. CASE ~FinishCancel(k)
    <3>1. UNCHANGED <<diamondFinal, comPc, comBundle, collected>> /\ Canceled' = Canceled
      BY <1>3, <2>2 DEF TypeOK, CancelStep, StartCancel, AbortCancel, store, comVars
    <3> QED BY ZenonT(60), <3>1 DEF ConclusionInv, SplitsOf
  <2> QED BY <2>1, <2>2
<1> QED BY <1>1, <1>2, <1>3 DEF Next

\* A set without two distinct elements has at most one.
LEMMA AtMostOne ==
  ASSUME NEW S, \A x, y \in S : x = y
  PROVE  Cardinality(S) \in {0, 1} /\ (S = {} => Cardinality(S) = 0)
<1>1. CASE S = {}
  BY <1>1, FS_EmptySet
<1>2. ASSUME NEW x \in S PROVE Cardinality(S) = 1
  <2>1. S = {x}
    OBVIOUS
  <2> QED BY <2>1, FS_Singleton
<1> QED BY <1>1, <1>2

\* Of all the commit and cancel runs of a diamond at most one reports success,
\* and the final descriptor is the one it wrote.
THEOREM ConcludedOnce == Spec => []OneConclusion
<1>1. Init => ConclusionInv
  BY ZenonT(60) DEF Init, ConclusionInv, Committed, Canceled
<1>2. ConclusionInv => OneConclusion
  <2> SUFFICES ASSUME ConclusionInv PROVE OneConclusion
    OBVIOUS
  <2>1. Committed = {} \/ Canceled = {}
    <3> SUFFICES ASSUME NEW c \in Committed, NEW k \in Canceled PROVE FALSE
      OBVIOUS
    <3> DEFINE f == [state |-> "done", bundle |-> comBundle[c],
                     splits |-> SplitsOf(collected[c])]
               g == [state |-> "canceled", bundle |-> NoBundle, splits |-> {}]
    <3>1. {f} = {g}
      BY ZenonT(60) DEF ConclusionInv
    <3>2. f.state = "done" /\ g.state = "canceled"
      OBVIOUS
    <3> QED BY ZenonT(60), <3>1, <3>2
  <2>2. (\A c, x \in Committed : c = x) /\ (\A k, x \in Canceled : k = x)
    BY ZenonT(60) DEF ConclusionInv
  <2>3. Cardinality(Committed) \in {0, 1} /\ (Committed = {} => Cardinality(Committed) = 0)
    BY <2>2, AtMostOne
  <2>4. Cardinality(Canceled) \in {0, 1} /\ (Canceled = {} => Cardinality(Canceled) = 0)
    BY <2>2, AtMostOne
  <2>5. Cardinality(Committed) + Cardinality(Canceled) <= 1
    BY <2>1, <2>3, <2>4
  <2> QED BY ZenonT(60), <2>5 DEF OneConclusion, ConclusionInv, Committed, Canceled
<1> QED BY <1>1, <1>2, ConclusionNext, TypeCorrect, PTL DEF Spec
=============================================================================
