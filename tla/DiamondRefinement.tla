------------------------- MODULE DiamondRefinement -------------------------
(***************************************************************************)
(* Diamond implements DiamondContract.  The contract's state is what a     *)
(* reader of the metadata store sees: the descriptors, and the content of  *)
(* the index files they name.                                              *)
(***************************************************************************)
EXTENDS Diamond

phaseSeen ==
    IF diamondFinal # {} THEN (CHOOSE f \in diamondFinal : TRUE).state
    ELSE IF diamondRunning THEN "open" ELSE "none"

sealedSeen ==
    {[split |-> d.split, files |-> SplitContent(d)] : d \in splitDone}

AsSeen(d) ==
    [bundle |-> d.bundle, splits |-> d.contributors, files |-> BundleContent(d)]

publishedSeen == {AsSeen(d) : d \in bundleDesc}

outcomeSeen ==
    {AsSeen(d) : d \in {x \in bundleDesc :
        \E f \in diamondFinal : f.state = "done" /\ f.bundle = x.bundle}}

Contract == INSTANCE DiamondContract WITH
    phase <- phaseSeen, sealed <- sealedSeen,
    published <- publishedSeen, outcome <- outcomeSeen

\* What readers of the metadata store observe is a behaviour of the contract:
\* sealing, publishing and concluding are each one atomic step, although the
\* code takes many store operations, with failures, for each.
ImplementsContract == Contract!CSpec
=============================================================================
