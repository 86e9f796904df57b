-------------------------- MODULE MCDiamondPipeline --------------------------
(***************************************************************************)
(* Instances of DiamondPipeline for model checking.                        *)
(***************************************************************************)
EXTENDS DiamondPipeline

E(s, p, h, t) == [split |-> s, path |-> p, hash |-> h, time |-> t]

\* Three versions of one path: contents up to renaming, every order of their
\* times.
Contents == {<<"h1", "h1", "h1">>, <<"h1", "h1", "h2">>, <<"h1", "h2", "h1">>,
             <<"h1", "h2", "h2">>, <<"h1", "h2", "h3">>}
Orders == {t \in [1..3 -> 1..3] : t[1] <= t[2] /\ t[2] <= t[3]}
Ids == <<"s1", "s2", "s3">>

\* One index file per split.
OnePath ==
    {[i \in 1..3 |-> [id |-> Ids[i], lists |-> <<<<E(Ids[i], "p1", h[i], t[i])>>>>]] :
        h \in Contents, t \in Orders}

\* Several index files, several entries, and a split without any.
Several ==
    {<<[id |-> "s1", lists |-> <<<<E("s1", "p1", "h1", 1), E("s1", "p2", "h1", 1)>>,
                                 <<E("s1", "p3", "h2", 2)>>>>],
       [id |-> "s2", lists |-> <<>>],
       [id |-> "s3", lists |-> <<<<E("s3", "p2", h, 2)>>>>]>> : h \in {"h1", "h2"}}

MCInputs == OnePath \cup Several
=============================================================================
