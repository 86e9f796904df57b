-------------------------- MODULE DiamondContract --------------------------
(***************************************************************************)
(* What a diamond promises its users, without runs, index files, failures  *)
(* or retries: splits are sealed once, a bundle appears at once with all   *)
(* the files of the sealed splits it is made of, and the diamond is        *)
(* concluded once, by a cancel or with a bundle that has appeared.         *)
(***************************************************************************)
CONSTANTS Splits, Files, Bundles

VARIABLES
    phase,     \* "none", "open", "done" or "canceled"
    sealed,    \* the sealed splits, with their files
    published, \* the bundles that can be read, with their files and splits
    outcome    \* the bundle a done diamond stands for: none or one

cvars == <<phase, sealed, published, outcome>>

CInit ==
    /\ phase = "none"
    /\ sealed = {}
    /\ published = {}
    /\ outcome = {}

Open ==
    /\ phase = "none"
    /\ phase' = "open"
    /\ UNCHANGED <<sealed, published, outcome>>

\* A split may still be sealed after the diamond is concluded: it is ignored.
Seal(s, F) ==
    /\ phase # "none"
    /\ \A x \in sealed : x.split # s
    /\ sealed' = sealed \cup {[split |-> s, files |-> F]}
    /\ UNCHANGED <<phase, published, outcome>>

\* A commit that loses the race to conclude leaves its bundle behind.
Publish(b, S) ==
    /\ phase # "none"
    /\ S # {}
    /\ S \subseteq {x.split : x \in sealed}
    /\ \A x \in published : x.bundle # b
    /\ published' = published \cup
          {[bundle |-> b, splits |-> S,
            files |-> UNION {x.files : x \in {y \in sealed : y.split \in S}}]}
    /\ UNCHANGED <<phase, sealed, outcome>>

Conclude(x) ==
    /\ phase = "open"
    /\ phase' = "done"
    /\ outcome' = {x}
    /\ UNCHANGED <<sealed, published>>

Cancel ==
    /\ phase = "open"
    /\ phase' = "canceled"
    /\ UNCHANGED <<sealed, published, outcome>>

CNext ==
    \/ Open
    \/ \E s \in Splits, F \in SUBSET Files : Seal(s, F)
    \/ \E b \in Bundles, S \in SUBSET Splits : Publish(b, S)
    \/ \E x \in published : Conclude(x)
    \/ Cancel

CSpec == CInit /\ [][CNext]_cvars
=============================================================================
