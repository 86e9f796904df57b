----------------------------- MODULE MCBundles ------------------------------
(***************************************************************************)
(* Pairs of jobs on one metadata store.  The repo "r" holds bundle 1 with  *)
(* three entries in two file lists and bundle 3 with two in one; file      *)
(* lists have two entries.  Commands that are documented as not to be run  *)
(* concurrently (rename, delete, delete files) meet readers, and the       *)
(* rename a bundle whose deletion is under way or was interrupted.         *)
(***************************************************************************)
EXTENDS Commands

MCArchive ==
    (1 :> <<<<"x", "x1">>, <<"y", "y1">>, <<"z", "z1">>>>)
    @@ (3 :> <<<<"y", "y3">>, <<"w", "w3">>>>)

MCLabels == ("v1" :> 1) @@ ("new" :> 3)

MCNames == <<"new", "q", "r", "s", "v1", "v2">>

Spec0 ==
    [kind |-> "none", repo |-> "r", bundle |-> 0, to |-> "", label |-> "", local |-> 0,
     files |-> <<>>, missing |-> {}, skip |-> FALSE, preserve |-> FALSE, select |-> {},
     retain |-> 1, tags |-> {}, force |-> FALSE]

UploadOf(b, files) == [Spec0 EXCEPT !.kind = "upload", !.bundle = b, !.files = files]

TheUpload == UploadOf(4, <<<<"x", "x4">>, <<".datamon/3", "g">>, <<"y", "y4">>, <<"z", "z4">>>>)

\* Another client that preserves the id of its bundle.
Preserved(b) == [UploadOf(b, <<<<"x", "x5">>, <<"y", "y5">>>>) EXCEPT !.preserve = TRUE]

Lossy(skip) == [TheUpload EXCEPT !.missing = {"y"}, !.skip = skip]

PublishOf(b, l, sel) ==
    [Spec0 EXCEPT !.kind = "publish", !.bundle = b, !.label = l, !.select = sel]

FileOf(n) == [Spec0 EXCEPT !.kind = "file", !.bundle = 1, !.select = {n}]

Squash(tags) == [Spec0 EXCEPT !.kind = "squash", !.tags = tags]

KindOf(k) == [Spec0 EXCEPT !.kind = k]

Pair(s, t) == [j \in {"a", "b"} |-> IF j = "a" THEN s ELSE t]

MCPlans ==
    {Pair([TheUpload EXCEPT !.preserve = TRUE], Preserved(4)),
     Pair(Squash({"v1"}), TheUpload), Pair(Squash({}), Preserved(2)),
     Pair([Squash({"v1", "new"}) EXCEPT !.kind = "squashCommand"],
          [Spec0 EXCEPT !.kind = "label", !.bundle = 1, !.label = "v2"]),
     Pair(Squash({}), [KindOf("getBundle") EXCEPT !.label = "v1"]),
     Pair(Lossy(TRUE), PublishOf(0, "", {"x"})), Pair(Lossy(FALSE), FileOf("z")),
     Pair(FileOf("nope"), PublishOf(0, "gone", {})),
     Pair(PublishOf(1, "", {}), [KindOf("deleteBundle") EXCEPT !.bundle = 1]),
     Pair([KindOf("deleteBundle") EXCEPT !.bundle = 3], Squash({})),
     Pair([KindOf("update") EXCEPT !.bundle = 3, !.local = 1],
          [KindOf("getLabel") EXCEPT !.label = "v1"]),
     Pair([KindOf("rename") EXCEPT !.to = "s"], [KindOf("getBundle") EXCEPT !.bundle = 3]),
     Pair([KindOf("rename") EXCEPT !.to = "s"], [KindOf("deleteBundle") EXCEPT !.bundle = 3]),
     Pair(KindOf("deleteRepo"), [KindOf("files") EXCEPT !.bundle = 3]),
     Pair([KindOf("deleteEntries") EXCEPT !.select = {"x"}], PublishOf(1, "", {})),
     Pair([UploadOf(4, <<<<"x", "x4">>, <<"y", "y4">>>>) EXCEPT !.label = "v2"], KindOf("bundles")),
     Pair(KindOf("bundles"), [KindOf("deleteBundle") EXCEPT !.bundle = 1]),
     Pair(KindOf("labels"), [Spec0 EXCEPT !.kind = "label", !.bundle = 1, !.label = "v2"]),
     Pair(KindOf("labels"), [KindOf("deleteBundle") EXCEPT !.bundle = 3]),
     Pair([KindOf("repos") EXCEPT !.repo = ""], [KindOf("create") EXCEPT !.repo = "s"]),
     Pair([KindOf("repos") EXCEPT !.repo = ""], [KindOf("deleteRepo") EXCEPT !.repo = "q"]),
     Pair(KindOf("contextSquash"), [KindOf("getLabel") EXCEPT !.label = "v1"]),
     Pair(KindOf("getRepo"), [KindOf("deleteBundle") EXCEPT !.bundle = 1]),
     Pair([KindOf("diff") EXCEPT !.bundle = 3, !.local = 1], [KindOf("files") EXCEPT !.label = "v1"]),
     Pair(FileOf("y"), [PublishOf(3, "", {"w"}) EXCEPT !.force = TRUE, !.local = 1])}

Progress == \E j \in Jobs : CommandStep(j)

Next == Progress \/ \E j \in Jobs : FaultStep(j)

\* The goroutines of a process and the processes are scheduled fairly.
Spec == CommandsInit /\ [][Next]_cVars /\ WF_cVars(Progress)
=============================================================================
