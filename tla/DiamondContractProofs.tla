----------------------- MODULE DiamondContractProofs -----------------------
(***************************************************************************)
(* Proofs about the steps of a diamond, for any number of splits, files,   *)
(* bundle IDs and runs: nothing that was written changes, and the whole    *)
(* implements DiamondContract.                                             *)
(***************************************************************************)
EXTENDS DiamondProofs, DiamondRefinement

-----------------------------------------------------------------------------
(* What steps leave in place.                                              *)

\* Only the steps of a commit touch bundles: they add index files after those
\* that a bundle descriptor names, and descriptors of other bundles.
LEMMA BundlesKept ==
  ASSUME IndInv, NEW c \in Committers, CommitStep(c)
  PROVE  \A d \in bundleDesc : d \in bundleDesc' /\ BundleContent(d)' = BundleContent(d)
<1>1. ASSUME NEW C \in SUBSET Files, PackBundle(c, C), NEW d \in bundleDesc
      PROVE  d \in bundleDesc' /\ BundleContent(d)' = BundleContent(d)
  <2>1. d \in bundleDesc'
    BY <1>1 DEF PackBundle
  <2>2. /\ d.bundle \in Bundles
        /\ d.count \in Nat
        /\ bundleIndex[d.bundle] \in Seq(SUBSET Files)
    BY DEF IndInv, TypeOK, BundleDescriptor
  <2>3. d.count \in 0 .. Len(bundleIndex[d.bundle])
    <3>1. d.count <= Len(bundleIndex[d.bundle])
      BY DEF IndInv, PublishedInv
    <3>2. Len(bundleIndex[d.bundle]) \in Nat
      BY <2>2
    <3> QED BY <2>2, <3>1, <3>2
  <2>4. \/ bundleIndex'[d.bundle] = bundleIndex[d.bundle]
        \/ bundleIndex'[d.bundle] = Append(bundleIndex[d.bundle], C)
    <3>1. bundleIndex' = [bundleIndex EXCEPT ![comBundle[c]] = Append(@, C)]
      BY <1>1 DEF PackBundle
    <3>2. bundleIndex \in [Bundles -> Seq(SUBSET Files)]
      BY DEF IndInv, TypeOK
    <3> QED BY <2>2, <3>1, <3>2
  <2>5. Listed(Append(bundleIndex[d.bundle], C), d.count)
          = Listed(bundleIndex[d.bundle], d.count)
    BY <2>2, <2>3, ListedAppend
  <2> QED BY ZenonT(40), <2>1, <2>4, <2>5 DEF BundleContent
<1>2. ASSUME UNCHANGED bundleIndex, bundleDesc \subseteq bundleDesc'
      PROVE  \A d \in bundleDesc : d \in bundleDesc' /\ BundleContent(d)' = BundleContent(d)
  BY <1>2 DEF BundleContent
<1> QED
  BY <1>1, <1>2 DEF CommitStep, StartCommit, ListSplit, CollectSplits, DownloadSplit,
     FailDownload, PublishBundle, ConcludeCommit, AbortCommit, store

\* Descriptors of done splits and of bundles stay, and so does what they name.
LEMMA ContentKept ==
  ASSUME IndInv, [Next]_vars
  PROVE  /\ \A d \in splitDone : d \in splitDone' /\ SplitContent(d)' = SplitContent(d)
         /\ \A d \in bundleDesc : d \in bundleDesc' /\ BundleContent(d)' = BundleContent(d)
<1>1. ASSUME UNCHANGED <<splitDone, splitIndex, bundleDesc, bundleIndex>>
      PROVE  /\ \A d \in splitDone : d \in splitDone' /\ SplitContent(d)' = SplitContent(d)
             /\ \A d \in bundleDesc : d \in bundleDesc' /\ BundleContent(d)' = BundleContent(d)
  BY <1>1 DEF SplitContent, BundleContent
<1>2. CASE CreateDiamond \/ UNCHANGED vars \/ \E k \in Cancelers : CancelStep(k)
  BY <1>1, <1>2 DEF CreateDiamond, vars, CancelStep, StartCancel, FinishCancel,
     AbortCancel, store
<1>3. ASSUME NEW a \in Adders, SplitStep(a)
      PROVE  /\ \A d \in splitDone : d \in splitDone' /\ SplitContent(d)' = SplitContent(d)
             /\ \A d \in bundleDesc : d \in bundleDesc' /\ BundleContent(d)' = BundleContent(d)
  <2>1. /\ UNCHANGED <<bundleIndex, bundleDesc>>
        /\ splitDone \subseteq splitDone'
        /\ \A d \in splitDone : splitIndex'[d.gen] = splitIndex[d.gen]
    BY <1>3, SplitStepFrame DEF IndInv
  <2> QED BY <2>1 DEF SplitContent, BundleContent
<1>4. ASSUME NEW c \in Committers, CommitStep(c)
      PROVE  /\ \A d \in splitDone : d \in splitDone' /\ SplitContent(d)' = SplitContent(d)
             /\ \A d \in bundleDesc : d \in bundleDesc' /\ BundleContent(d)' = BundleContent(d)
  <2>1. UNCHANGED <<splitDone, splitIndex>>
    BY <1>4, CommitStepFrame
  <2>2. \A d \in splitDone : d \in splitDone' /\ SplitContent(d)' = SplitContent(d)
    BY <2>1 DEF SplitContent
  <2> QED BY <1>4, <2>2, BundlesKept
<1> QED BY <1>2, <1>3, <1>4 DEF Next

\* A final descriptor of the diamond is written where there is none.
LEMMA FinalKept ==
  ASSUME [Next]_vars
  PROVE  /\ diamondRunning => diamondRunning'
         /\ diamondFinal # {} => diamondFinal' = diamondFinal
<1>1. ASSUME NEW a \in Adders, SplitStep(a) PROVE UNCHANGED <<diamondRunning, diamondFinal>>
  BY <1>1 DEF SplitStep, StartSplit, CreateSplit, PackSplit, FinishSplit, AbortSplit, store
<1>2. ASSUME NEW c \in Committers, CommitStep(c)
      PROVE  diamondRunning' = diamondRunning /\ (diamondFinal # {} => diamondFinal' = diamondFinal)
  BY ZenonT(60), <1>2 DEF CommitStep, StartCommit, ListSplit, CollectSplits, DownloadSplit,
     FailDownload, PackBundle, PublishBundle, ConcludeCommit, AbortCommit, store
<1>3. ASSUME NEW k \in Cancelers, CancelStep(k)
      PROVE  diamondRunning' = diamondRunning /\ (diamondFinal # {} => diamondFinal' = diamondFinal)
  BY <1>3 DEF CancelStep, StartCancel, FinishCancel, AbortCancel, store
<1>4. CASE CreateDiamond \/ UNCHANGED vars
  BY <1>4 DEF CreateDiamond, vars, store
<1> QED BY <1>1, <1>2, <1>3, <1>4 DEF Next

\* No step of any run removes or changes a descriptor that was written, and
\* none changes what a done split or a published bundle reads as.
THEOREM WrittenOnce == Spec => NothingOverwritten
<1>1. ASSUME IndInv, IndInv', [Next]_vars PROVE KeepsObjects
  <2>1. \A d \in splitDone : {e \in splitDone' : e.split = d.split} = {d}
    BY <1>1, ContentKept DEF IndInv, DoneInv
  <2>2. \A d \in bundleDesc : {e \in bundleDesc' : e.bundle = d.bundle} = {d}
    BY <1>1, ContentKept DEF IndInv, PublishedInv
  <2> QED BY <1>1, <2>1, <2>2, ContentKept, FinalKept DEF KeepsObjects
<1>2. IndInv /\ IndInv' /\ [Next]_vars => [KeepsObjects]_vars
  BY <1>1
<1> QED BY <1>2, Invariance, PTL DEF Spec, NothingOverwritten

-----------------------------------------------------------------------------
(* The implementation of the contract.                                     *)

\* Runs start on a diamond that exists, and commits go on with done splits only.
OpenInv ==
    /\ diamondFinal # {} => diamondRunning
    /\ \A a \in Adders : addPc[a] # "idle" => diamondRunning
    /\ \A k \in Cancelers : canPc[k] # "idle" => diamondRunning
    /\ \A c \in Committers :
          /\ comPc[c] # "idle" => diamondRunning
          /\ comPc[c] \in {"merge", "drain", "published"} => collected[c] # {}

\* The diamond stays once it exists, and every run but the first step of one
\* finds it there.
LEMMA OpenNext == TypeOK /\ OpenInv /\ [Next]_vars => OpenInv'
<1> SUFFICES ASSUME TypeOK, OpenInv, [Next]_vars PROVE OpenInv'
  OBVIOUS
<1>1. CASE CreateDiamond
  BY <1>1 DEF OpenInv, CreateDiamond, addVars, comVars
<1>2. CASE UNCHANGED vars
  BY <1>2 DEF OpenInv, vars, store, addVars, comVars
<1>3. ASSUME NEW a \in Adders, SplitStep(a) PROVE OpenInv'
  <2>1. /\ UNCHANGED <<diamondRunning, diamondFinal, comVars, canPc>>
        /\ \A x \in Adders \ {a} : addPc'[x] = addPc[x]
        /\ diamondRunning
    BY <1>3 DEF TypeOK, OpenInv, SplitStep, StartSplit, CreateSplit, PackSplit, FinishSplit,
                AbortSplit, store, diamondReady
  <2> QED BY <2>1 DEF OpenInv, comVars
<1>4. ASSUME NEW c \in Committers, CommitStep(c) PROVE OpenInv'
  <2>1. /\ UNCHANGED <<diamondRunning, addVars, canPc>>
        /\ \A x \in Committers \ {c} : UNCHANGED <<comPc[x], collected[x]>>
        /\ diamondRunning
    BY <1>4 DEF TypeOK, OpenInv, CommitStep, StartCommit, ListSplit, CollectSplits,
       DownloadSplit, FailDownload, PackBundle, PublishBundle, ConcludeCommit, AbortCommit,
       store, diamondReady
  <2>2. comPc'[c] \in {"merge", "drain", "published"} => collected'[c] # {}
    BY <1>4 DEF TypeOK, OpenInv, CommitStep, StartCommit, ListSplit, CollectSplits,
       DownloadSplit, FailDownload, PackBundle, PublishBundle, ConcludeCommit, AbortCommit
  <2> QED BY <2>1, <2>2 DEF OpenInv, addVars
<1>5. ASSUME NEW k \in Cancelers, CancelStep(k) PROVE OpenInv'
  <2>1. /\ UNCHANGED <<diamondRunning, addVars, comVars>>
        /\ diamondRunning
    BY <1>5 DEF TypeOK, OpenInv, CancelStep, StartCancel, FinishCancel, AbortCancel, store,
       diamondReady
  <2> QED BY <2>1 DEF OpenInv, addVars, comVars
<1> QED BY <1>1, <1>2, <1>3, <1>4, <1>5 DEF Next

\* The phase that readers see.
LEMMA PhaseSeen ==
  ASSUME TypeOK
  PROVE  /\ diamondFinal = {} => phaseSeen = IF diamondRunning THEN "open" ELSE "none"
         /\ \A f : diamondFinal = {f} => phaseSeen = f.state
         /\ diamondFinal # {} => phaseSeen \in {"done", "canceled"}
<1>1. diamondFinal # {} => (CHOOSE f \in diamondFinal : TRUE) \in diamondFinal
  OBVIOUS
<1>2. \A f \in diamondFinal : f.state \in {"done", "canceled"}
  BY DEF TypeOK, DiamondDescriptor
<1> QED BY <1>1, <1>2 DEF phaseSeen

\* The phase depends on the descriptors of the diamond only.
LEMMA PhaseKept ==
  ASSUME UNCHANGED <<diamondRunning, diamondFinal>>
  PROVE  UNCHANGED phaseSeen
BY DEF phaseSeen

\* The sealed splits that readers see are the done ones.
LEMMA SealedSeen ==
  /\ \A d \in splitDone : \E x \in sealedSeen : x.split = d.split /\ x.files = SplitContent(d)
  /\ \A x \in sealedSeen : \E d \in splitDone : x.split = d.split /\ x.files = SplitContent(d)
<1>1. ASSUME NEW d \in splitDone
      PROVE  \E x \in sealedSeen : x.split = d.split /\ x.files = SplitContent(d)
  <2>1. [split |-> d.split, files |-> SplitContent(d)] \in sealedSeen
    BY DEF sealedSeen
  <2> QED BY <2>1
<1>2. ASSUME NEW x \in sealedSeen
      PROVE  \E d \in splitDone : x.split = d.split /\ x.files = SplitContent(d)
  <2>1. PICK d \in splitDone : x = [split |-> d.split, files |-> SplitContent(d)]
    BY DEF sealedSeen
  <2> QED BY <2>1
<1> QED BY <1>1, <1>2

\* Steps that write no descriptor are not seen.
LEMMA Unseen ==
  ASSUME IndInv, [Next]_vars,
         UNCHANGED <<diamondRunning, diamondFinal, splitDone, bundleDesc>>
  PROVE  UNCHANGED <<phaseSeen, sealedSeen, publishedSeen, outcomeSeen>>
<1>1. UNCHANGED phaseSeen
  BY PhaseKept
<1>2. UNCHANGED sealedSeen
  BY ContentKept DEF sealedSeen
<1>3. \A d \in bundleDesc : AsSeen(d)' = AsSeen(d)
  BY ContentKept DEF AsSeen
<1>4. UNCHANGED publishedSeen
  BY <1>3 DEF publishedSeen
<1>5. UNCHANGED outcomeSeen
  BY <1>3 DEF outcomeSeen
<1> QED BY <1>1, <1>2, <1>4, <1>5

\* The final descriptor of a split seals it, with the files it was given.
LEMMA SplitIsSealed ==
  ASSUME IndInv, OpenInv, [Next]_vars, NEW a \in Adders, FinishSplit(a)
  PROVE  \E s \in Splits, F \in SUBSET Files : Contract!Seal(s, F)
<1>0. PICK new : new = [split |-> addSplit[a], gen |-> a, count |-> Len(splitIndex[a])]
  BY ZenonT(40)
<1>1. /\ splitDone' = splitDone \cup {new}
      /\ UNCHANGED <<diamondRunning, diamondFinal, splitIndex, bundleIndex, bundleDesc>>
      /\ addPc[a] = "upload"
      /\ \A d \in splitDone : d.split # addSplit[a]
  BY <1>0 DEF FinishSplit, IsDone
<1>2. /\ addSplit[a] \in Splits
      /\ splitIndex[a] \in Seq(SUBSET Files)
  BY <1>1 DEF IndInv, TypeOK, AddInv
<1>3. new.split = addSplit[a] /\ new.gen = a /\ new.count = Len(splitIndex[a])
  BY <1>0
<1>4. SplitContent(new) \in SUBSET Files
  <2>1. \A i \in 1 .. Len(splitIndex[a]) : splitIndex[a][i] \in SUBSET Files
    BY <1>2
  <2> QED BY <1>3, <2>1 DEF SplitContent, Listed
<1>5. SplitContent(new)' = SplitContent(new)
  BY ZenonT(60), <1>1 DEF SplitContent
<1>6. phaseSeen # "none" /\ UNCHANGED phaseSeen
  <2>1. diamondRunning
    BY <1>1 DEF OpenInv
  <2>2. phaseSeen # "none"
    BY <2>1, PhaseSeen DEF IndInv
  <2>3. UNCHANGED phaseSeen
    BY <1>1, PhaseKept
  <2> QED BY <2>2, <2>3
<1>7. sealedSeen' = sealedSeen \cup {[split |-> addSplit[a], files |-> SplitContent(new)]}
  BY <1>1, <1>3, <1>5, ContentKept DEF sealedSeen
<1>8. \A x \in sealedSeen : x.split # addSplit[a]
  BY <1>1 DEF sealedSeen
<1>9. UNCHANGED <<publishedSeen, outcomeSeen>>
  BY <1>1 DEF publishedSeen, outcomeSeen, AsSeen, BundleContent
<1>10. Contract!Seal(addSplit[a], SplitContent(new))
  BY <1>6, <1>7, <1>8, <1>9 DEF Contract!Seal
<1> QED BY <1>2, <1>4, <1>10

\* The descriptor of a bundle publishes all the files of its splits at once.
LEMMA BundleIsPublished ==
  ASSUME IndInv, IndInv', OpenInv, [Next]_vars, NEW c \in Committers, PublishBundle(c)
  PROVE  \E b \in Bundles, S \in SUBSET Splits : Contract!Publish(b, S)
<1>0. PICK new : new = [bundle |-> comBundle[c], count |-> comCount[c],
                        contributors |-> SplitsOf(collected[c])]
  BY ZenonT(40)
<1>1. /\ bundleDesc' = bundleDesc \cup {new}
      /\ UNCHANGED <<diamondRunning, diamondFinal, splitDone, splitIndex, bundleIndex>>
      /\ comPc[c] = "merge"
      /\ \A d \in bundleDesc : d.bundle # comBundle[c]
  BY <1>0 DEF PublishBundle, IsPublished
<1>2. new.bundle = comBundle[c] /\ new.contributors = SplitsOf(collected[c])
  BY <1>0
<1>3. /\ comBundle[c] \in Bundles
      /\ collected[c] \subseteq splitDone
  BY ZenonT(40), <1>1 DEF IndInv, ComInv, ComOK
<1> DEFINE S == SplitsOf(collected[c])
<1>4. S \in SUBSET Splits /\ S # {}
  <2>1. collected[c] # {}
    BY <1>1 DEF OpenInv
  <2>2. \A d \in collected[c] : d.split \in Splits
    BY <1>3 DEF IndInv, TypeOK, SplitDescriptor
  <2> QED BY <2>1, <2>2 DEF SplitsOf
<1>5. phaseSeen # "none" /\ UNCHANGED phaseSeen
  <2>1. diamondRunning
    BY <1>1 DEF OpenInv
  <2>2. phaseSeen # "none"
    BY <2>1, PhaseSeen DEF IndInv
  <2>3. UNCHANGED phaseSeen
    BY <1>1, PhaseKept
  <2> QED BY <2>2, <2>3
<1>6. S \subseteq {x.split : x \in sealedSeen}
  <2> SUFFICES ASSUME NEW s \in S PROVE \E x \in sealedSeen : s = x.split
    OBVIOUS
  <2>1. PICK d \in collected[c] : s = d.split
    BY DEF SplitsOf
  <2> QED BY <1>3, <2>1, SealedSeen
<1>7. \A x \in publishedSeen : x.bundle # comBundle[c]
  BY <1>1 DEF publishedSeen, AsSeen
<1>8. BundleContent(new)' = UNION {x.files : x \in {y \in sealedSeen : y.split \in S}}
  <2>1. new \in bundleDesc'
    BY <1>1
  <2>2. BundleContent(new)' =
           UNION {SplitContent(e)' : e \in {x \in splitDone' : x.split \in new.contributors}}
    BY <2>1 DEF IndInv, BundleComplete
  <2>3. \A e : SplitContent(e)' = SplitContent(e)
    BY <1>1 DEF SplitContent
  <2>4. BundleContent(new)' =
           UNION {SplitContent(e) : e \in {x \in splitDone : x.split \in S}}
    BY <1>1, <1>2, <2>2, <2>3
  <2>5. {x.files : x \in {y \in sealedSeen : y.split \in S}}
           = {SplitContent(e) : e \in {x \in splitDone : x.split \in S}}
    <3> HIDE DEF S
    <3> QED BY SealedSeen
  <2> QED BY <2>4, <2>5
<1>9. \A d \in bundleDesc : AsSeen(d)' = AsSeen(d)
  BY ContentKept DEF AsSeen
<1>10. AsSeen(new)' = [bundle |-> comBundle[c], splits |-> S,
                       files |-> UNION {x.files : x \in {y \in sealedSeen : y.split \in S}}]
  BY <1>2, <1>8 DEF AsSeen
<1>11. publishedSeen' = publishedSeen \cup
          {[bundle |-> comBundle[c], splits |-> S,
            files |-> UNION {x.files : x \in {y \in sealedSeen : y.split \in S}}]}
  BY ZenonT(40), <1>1, <1>9, <1>10 DEF publishedSeen
<1>12. UNCHANGED sealedSeen
  BY <1>1 DEF sealedSeen, SplitContent
<1>13. UNCHANGED outcomeSeen
  <2>1. ~ \E f \in diamondFinal : f.state = "done" /\ f.bundle = new.bundle
    BY <1>1, <1>2 DEF IndInv, DoneIsReadable
  <2> QED BY <1>1, <1>9, <2>1 DEF outcomeSeen
<1>14. Contract!Publish(comBundle[c], S)
  BY <1>4, <1>5, <1>6, <1>7, <1>11, <1>12, <1>13 DEF Contract!Publish
<1> QED BY <1>3, <1>4, <1>14

\* The final descriptor of a diamond concludes it with the bundle it names.
LEMMA CommitConcludes ==
  ASSUME IndInv, IndInv', OpenInv, [Next]_vars, NEW c \in Committers, ConcludeCommit(c)
  PROVE  \E x \in publishedSeen : Contract!Conclude(x)
<1>0. PICK f : f = [state |-> "done", bundle |-> comBundle[c],
                    splits |-> SplitsOf(collected[c])]
  BY ZenonT(40)
<1>1. /\ diamondFinal = {} /\ diamondFinal' = {f}
      /\ UNCHANGED <<diamondRunning, splitDone, splitIndex, bundleIndex, bundleDesc>>
      /\ comPc[c] = "published"
  BY <1>0 DEF ConcludeCommit
<1>2. f.state = "done" /\ f.bundle = comBundle[c]
  BY <1>0
<1>3. PICK d \in bundleDesc : d.bundle = comBundle[c]
  BY ZenonT(40), <1>1 DEF IndInv, ComInv, ComOK
<1>4. phaseSeen = "open" /\ phaseSeen' = "done"
  <2>1. phaseSeen = "open"
    BY <1>1, PhaseSeen DEF IndInv, OpenInv
  <2>2. phaseSeen' = "done"
    BY <1>1, <1>2 DEF phaseSeen
  <2> QED BY <2>1, <2>2
<1>5. UNCHANGED <<sealedSeen, publishedSeen>>
  BY <1>1 DEF sealedSeen, publishedSeen, AsSeen, SplitContent, BundleContent
<1>6. outcomeSeen' = {AsSeen(d)}
  <2> DEFINE named(x) == \E g \in diamondFinal' : g.state = "done" /\ g.bundle = x.bundle
  <2>0. \A x \in bundleDesc : x.bundle = d.bundle => x = d
    BY ZenonT(60), <1>3 DEF IndInv, PublishedInv
  <2>1. {x \in bundleDesc' : named(x)} = {d}
    <3>1. \A x : named(x) <=> x.bundle = d.bundle
      BY ZenonT(60), <1>1, <1>2, <1>3
    <3> HIDE DEF named
    <3> QED BY ZenonT(60), <1>1, <1>3, <2>0, <3>1
  <2>2. AsSeen(d)' = AsSeen(d)
    BY <1>1 DEF AsSeen, BundleContent
  <2> QED BY <2>1, <2>2 DEF outcomeSeen
<1>7. Contract!Conclude(AsSeen(d))
  BY <1>4, <1>5, <1>6 DEF Contract!Conclude
<1> QED BY <1>3, <1>7 DEF publishedSeen

\* A cancel that writes the final descriptor cancels the diamond.
LEMMA CancelCancels ==
  ASSUME IndInv, OpenInv, NEW k \in Cancelers, FinishCancel(k)
  PROVE  Contract!Cancel
<1>0. PICK f : f = [state |-> "canceled", bundle |-> NoBundle, splits |-> {}]
  BY ZenonT(40)
<1>1. /\ diamondFinal = {} /\ diamondFinal' = {f}
      /\ UNCHANGED <<diamondRunning, splitDone, splitIndex, bundleIndex, bundleDesc>>
      /\ canPc[k] = "cancel"
  BY <1>0 DEF FinishCancel
<1>2. f.state = "canceled"
  BY <1>0
<1>3. phaseSeen = "open" /\ phaseSeen' = "canceled"
  <2>1. phaseSeen = "open"
    BY <1>1, PhaseSeen DEF IndInv, OpenInv
  <2>2. phaseSeen' = "canceled"
    BY <1>1, <1>2 DEF phaseSeen
  <2> QED BY <2>1, <2>2
<1>4. UNCHANGED <<sealedSeen, publishedSeen>>
  BY <1>1 DEF sealedSeen, publishedSeen, AsSeen, SplitContent, BundleContent
<1>5. UNCHANGED outcomeSeen
  <2>1. outcomeSeen = {}
    BY <1>1 DEF outcomeSeen
  <2>2. outcomeSeen' = {}
    BY <1>1, <1>2 DEF outcomeSeen
  <2> QED BY <2>1, <2>2
<1> QED BY <1>3, <1>4, <1>5 DEF Contract!Cancel

\* Every step of a run is a step of the contract or is not seen.
LEMMA StepImplements ==
  ASSUME IndInv, IndInv', OpenInv, [Next]_vars
  PROVE  [Contract!CNext]_(Contract!cvars)
<1>1. ASSUME UNCHANGED <<diamondRunning, diamondFinal, splitDone, bundleDesc>>
      PROVE  [Contract!CNext]_(Contract!cvars)
  BY <1>1, Unseen DEF Contract!cvars
<1>2. CASE CreateDiamond
  <2>1. /\ diamondFinal = {} /\ diamondFinal' = {}
        /\ ~diamondRunning /\ diamondRunning'
        /\ UNCHANGED <<splitDone, splitIndex, bundleIndex, bundleDesc>>
    BY <1>2 DEF CreateDiamond, OpenInv
  <2>2. phaseSeen = "none" /\ phaseSeen' = "open"
    BY <2>1 DEF phaseSeen
  <2>3. UNCHANGED <<sealedSeen, publishedSeen, outcomeSeen>>
    BY <2>1 DEF sealedSeen, publishedSeen, outcomeSeen, AsSeen, SplitContent, BundleContent
  <2>4. Contract!Open
    BY <2>2, <2>3 DEF Contract!Open
  <2> QED BY <2>4 DEF Contract!CNext
<1>3. ASSUME NEW a \in Adders, SplitStep(a) PROVE [Contract!CNext]_(Contract!cvars)
  <2>1. CASE FinishSplit(a)
    BY <2>1, SplitIsSealed DEF Contract!CNext
  <2>2. CASE ~FinishSplit(a)
    <3>1. UNCHANGED <<diamondRunning, diamondFinal, splitDone, bundleDesc>>
      BY <1>3, <2>2 DEF SplitStep, StartSplit, CreateSplit, PackSplit, AbortSplit, store
    <3> QED BY <1>1, <3>1
  <2> QED BY <2>1, <2>2
<1>4. ASSUME NEW c \in Committers, CommitStep(c) PROVE [Contract!CNext]_(Contract!cvars)
  <2>1. CASE PublishBundle(c)
    BY <2>1, BundleIsPublished DEF Contract!CNext
  <2>2. CASE ConcludeCommit(c)
    BY <2>2, CommitConcludes DEF Contract!CNext
  <2>3. CASE ~PublishBundle(c) /\ ~ConcludeCommit(c)
    <3>1. UNCHANGED <<diamondRunning, diamondFinal, splitDone, bundleDesc>>
      BY ZenonT(60), <1>4, <2>3 DEF CommitStep, StartCommit, ListSplit, CollectSplits, DownloadSplit,
         FailDownload, PackBundle, AbortCommit, store
    <3> QED BY <1>1, <3>1
  <2> QED BY <2>1, <2>2, <2>3
<1>5. ASSUME NEW k \in Cancelers, CancelStep(k) PROVE [Contract!CNext]_(Contract!cvars)
  <2>1. CASE FinishCancel(k)
    BY <2>1, CancelCancels DEF Contract!CNext
  <2>2. CASE ~FinishCancel(k)
    <3>1. UNCHANGED <<diamondRunning, diamondFinal, splitDone, bundleDesc>>
      BY <1>5, <2>2 DEF CancelStep, StartCancel, AbortCancel, store
    <3> QED BY <1>1, <3>1
  <2> QED BY <2>1, <2>2
<1>6. CASE UNCHANGED vars
  <2>1. UNCHANGED <<diamondRunning, diamondFinal, splitDone, bundleDesc>>
    BY <1>6 DEF vars, store
  <2> QED BY <1>1, <2>1
<1> QED BY <1>2, <1>3, <1>4, <1>5, <1>6 DEF Next

\* What readers of the metadata store observe is a behaviour of the contract:
\* splits are sealed once, a bundle appears whole, and the diamond is concluded
\* once, with a bundle that has appeared or by a cancel.
THEOREM DiamondImplementsContract == Spec => ImplementsContract
<1>1. Init => OpenInv
  BY DEF Init, OpenInv
<1>2. Init => Contract!CInit
  BY DEF Init, Contract!CInit, phaseSeen, sealedSeen, publishedSeen, outcomeSeen
<1>3. Spec => []OpenInv
  <2>1. IndInv => TypeOK
    BY DEF IndInv
  <2> QED BY <1>1, <2>1, OpenNext, Invariance, PTL DEF Spec
<1>4. IndInv /\ IndInv' /\ OpenInv /\ [Next]_vars => [Contract!CNext]_(Contract!cvars)
  BY StepImplements
<1> QED BY <1>2, <1>3, <1>4, Invariance, PTL DEF Spec, ImplementsContract, Contract!CSpec
=============================================================================
