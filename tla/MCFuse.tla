------------------------------- MODULE MCFuse -------------------------------
EXTENDS FuseReadOnly

vars == <<fsVars, commitVars, roVars>>

MCInit == Init /\ CommitInit /\ RoInit

Next == \/ MountStep /\ UNCHANGED <<commitVars, roVars>>
        \/ StartCommit /\ UNCHANGED roVars
        \/ CommitStep /\ UNCHANGED roVars
        \/ RoStep

Spec == MCInit /\ [][Next]_vars /\ WF_vars(CommitStep /\ UNCHANGED roVars)

=============================================================================
