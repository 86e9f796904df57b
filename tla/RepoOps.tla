------------------------------ MODULE RepoOps -------------------------------
(***************************************************************************)
(* The operations that change a repo as a whole: DeleteRepo, DeleteBundle, *)
(* DeleteLabel, DeleteEntriesFromRepo (pkg/core/delete.go), RenameRepo     *)
(* (rename.go), RepoSquash (repo_squash.go), CreateRepo (repo_create.go)   *)
(* and the upload of a label (label.go).                                   *)
(*                                                                         *)
(* Each is a sequence of calls to the metadata store.  job[j].ops is what  *)
(* job j has still to do: the first operation is one store call, or a      *)
(* listing that puts the operations for what it found in its place.        *)
(***************************************************************************)
EXTENDS BundleDownload

CONSTANT MaxDeletes     \* bound: file lists tried by a deletion until an error

Op(do, r, b, n) ==
    [do |-> do, repo |-> r, bundle |-> b, n |-> n, name |-> "", set |-> {}, ignore |-> FALSE]

Head1(j) == Head(job[j].ops)

Doing(j, do) == Running(j) /\ job[j].ops # <<>> /\ Head1(j).do = do

\* The head of the agenda is replaced by ops; a job with nothing left is done.
Becomes(j, ops) ==
    LET rest == ops \o Tail(job[j].ops) IN
    job' = [job EXCEPT ![j].ops = rest, ![j].pc = IF rest = <<>> THEN "ok" ELSE @]

Done(j) == Becomes(j, <<>>)

Fails(j) == job' = [job EXCEPT ![j].ops = <<>>, ![j].pc = "error"]

\* The sequence of f(x) for the numbers of S, smallest first.
InOrder(S, f(_)) ==
    LET s == SetToSortSeq(S, <) IN [i \in 1..Len(s) |-> f(s[i])]

\* The operations ops(n) for each label name n of S.
PerLabel(S, ops(_)) ==
    LET s == SetToSeq(S) IN FlattenSeq([i \in 1..Len(s) |-> ops(s[i])])

\* In touched: an error was ignored while objects of repo r were deleted.
Ignored(r) == <<r, 0>>

Others == <<up, restarts, dVars>>

\* The operations of each entry point.
DeleteRepo(r) ==
    <<Op("RepoExists", r, 0, 0), Op("DeleteBundles", r, 0, 0),
      Op("DeleteLabels", r, 0, 0), Op("DeleteRepoDescriptor", r, 0, 0)>>

RenameRepo(r, newRepo) ==
    <<Op("RepoExists", r, 0, 0), Op("RepoAbsent", newRepo, 0, 0), Op("GetRepo", r, 0, 0),
      Op("CreateRepo", newRepo, 0, 0), Op("CopyBundles", r, 0, 0),
      Op("CopyLabels", r, 0, 0)>> \o DeleteRepo(r)

\* UploadDescriptor of a label: checks the repo, overwrites, and asks nothing
\* of the bundle.
UploadLabel(r, n, b) ==
    <<Op("RepoExists", r, 0, 0), [Op("PutLabel", r, b, 0) EXCEPT !.name = n]>>

RepoSquash(r, retain) ==
    <<Op("RepoExists", r, 0, 0), Op("SquashList", r, 0, retain)>>

DeleteEntriesFromRepo(r) ==
    <<Op("RepoExists", r, 0, 0), Op("EntriesOfBundles", r, 0, 0)>>
-----------------------------------------------------------------------------
(* Repos and labels                                                        *)

\* RepoExists and GetRepo want the descriptor, RenameRepo none of the new name.
CheckRepo(j) ==
    LET o == Head1(j) IN
    /\ Doing(j, "RepoExists") \/ Doing(j, "RepoAbsent") \/ Doing(j, "GetRepo")
    /\ IF (o.repo \in repos) = (o.do # "RepoAbsent") THEN Done(j) ELSE Fails(j)
    /\ UNCHANGED <<meta, touched, faults, Others>>

CreateRepo(j) ==
    LET o == Head1(j) IN
    /\ Doing(j, "CreateRepo")
    /\ IF o.repo \in repos THEN Fails(j) ELSE Done(j)
    /\ repos' = repos \cup {o.repo}
    /\ UNCHANGED <<desc, list, label, strict, touched, faults, Others>>

DeleteRepoDescriptor(j) ==
    LET o == Head1(j) IN
    /\ Doing(j, "DeleteRepoDescriptor")
    /\ IF strict /\ o.repo \notin repos THEN Fails(j) ELSE Done(j)
    /\ repos' = repos \ {o.repo}
    /\ UNCHANGED <<desc, list, label, strict, touched, faults, Others>>

PutLabel(j) ==
    LET o == Head1(j) IN
    /\ Doing(j, "PutLabel")
    /\ label' = Put(label, <<o.repo, o.name>>, o.bundle)
    /\ Done(j)
    /\ UNCHANGED <<repos, desc, list, strict, touched, faults, Others>>

DeleteLabel(j) ==
    LET o == Head1(j)
        k == <<o.repo, o.name>> IN
    /\ Doing(j, "DeleteLabel")
    /\ IF strict /\ k \notin DOMAIN label /\ ~o.ignore THEN Fails(j) ELSE Done(j)
    /\ label' = Del(label, {k})
    /\ UNCHANGED <<repos, desc, list, strict, touched, faults, Others>>

\* ListLabels, then a DeleteLabel for each: all of the repo, those of one
\* bundle (DeleteBundle, which checks the repo each time), or those of no
\* bundle of a set (RepoSquash).
DeleteLabels(j) ==
    LET o == Head1(j)
        drop(n) == (IF o.do = "DeleteLabelsOf" THEN <<Op("RepoExists", o.repo, 0, 0)>> ELSE <<>>)
                   \o <<[Op("DeleteLabel", o.repo, 0, 0) EXCEPT !.name = n]>>
        of(n) == label[<<o.repo, n>>]
        found == {n \in LabelsOf(o.repo) :
                    CASE o.do = "DeleteLabels" -> TRUE
                      [] o.do = "DeleteLabelsOf" -> of(n) = o.bundle
                      [] OTHER -> of(n) \notin o.set} IN
    /\ \/ Doing(j, "DeleteLabels") \/ Doing(j, "DeleteLabelsOf")
       \/ Doing(j, "DeleteDanglingLabels")
    /\ IF o.repo \notin repos THEN Fails(j) ELSE Becomes(j, PerLabel(found, drop))
    /\ UNCHANGED <<meta, touched, faults, Others>>
-----------------------------------------------------------------------------
(* DeleteRepo and DeleteBundle                                             *)

\* The operation of DeleteBundle with the errors of the bundle ignored.
Quietly(r, b) == [Op("DeleteBundle", r, b, 0) EXCEPT !.ignore = TRUE]

\* DeleteRepo lists the bundles that have a descriptor.
DeleteBundles(j) ==
    LET r == Head1(j).repo
        each(b) == Quietly(r, b) IN
    /\ Doing(j, "DeleteBundles")
    /\ IF r \notin repos THEN Fails(j) ELSE Becomes(j, InOrder(ListedBundles(r), each))
    /\ UNCHANGED <<meta, touched, faults, Others>>

\* Mutant: the descriptor goes first.
DeleteDescriptorFirst(o, count) ==
    LET listOp(i) == [o EXCEPT !.do = "DeleteList", !.n = i] IN
    (IF o.ignore THEN <<>> ELSE <<[o EXCEPT !.do = "DeleteLabelsOf"]>>)
    \o <<[o EXCEPT !.do = "DeleteDescriptor"]>> \o InOrder(0..count - 1, listOp)

\* What DeleteBundle deletes, in this order: labels (unless the caller does
\* that), file lists, descriptor.  Without a count, when errors are ignored,
\* file lists are deleted until one cannot be.
DeleteParts(o, count) ==
    LET listOp(i) == [o EXCEPT !.do = "DeleteList", !.n = i] IN
    (IF o.ignore THEN <<>> ELSE <<[o EXCEPT !.do = "DeleteLabelsOf"]>>)
    \o (IF count = 0 /\ o.ignore THEN <<[o EXCEPT !.do = "DeleteListsUntil"]>>
        ELSE InOrder(0..count - 1, listOp))
    \o <<[o EXCEPT !.do = "DeleteDescriptor"]>>

\* downloadBundleDescriptor, whose error may be ignored.
DeleteBundle(j) ==
    LET o == Head1(j)
        k == <<o.repo, o.bundle>> IN
    /\ Doing(j, "DeleteBundle")
    /\ IF k \in DOMAIN desc THEN Becomes(j, DeleteParts(o, desc[k].count))
       ELSE IF o.ignore THEN Becomes(j, DeleteParts(o, 0))
       ELSE Fails(j)
    /\ touched' = touched \cup {k}
    /\ UNCHANGED <<meta, faults, Others>>

\* The Delete of a file list or of a descriptor; its error counts unless errors
\* are ignored, and then it may also be a passing one that leaves the object.
DeleteObject(j) ==
    LET o == Head1(j)
        lk == <<o.repo, o.bundle, o.n>>
        dk == <<o.repo, o.bundle>>
        isList == o.do = "DeleteList"
        missing == IF isList THEN lk \notin DOMAIN list ELSE dk \notin DOMAIN desc IN
    /\ Doing(j, "DeleteList") \/ Doing(j, "DeleteDescriptor")
    /\ \/ /\ IF strict /\ missing /\ ~o.ignore THEN Fails(j) ELSE Done(j)
          /\ list' = IF isList THEN Del(list, {lk}) ELSE list
          /\ desc' = IF isList THEN desc ELSE Del(desc, {dk})
          /\ UNCHANGED <<faults, touched>>
       \/ /\ o.ignore /\ faults < MaxFaults
          /\ Done(j)
          /\ faults' = faults + 1
          /\ touched' = touched \cup {Ignored(o.repo)}
          /\ UNCHANGED <<list, desc>>
    /\ UNCHANGED <<repos, label, strict, Others>>

\* for i := 0; e == nil; i++ : only a store that reports a missing object ends
\* the loop.  MaxDeletes exceeds the file lists there are, so that the loop
\* has nothing left to change when it reaches it.
DeleteListsUntil(j) ==
    LET o == Head1(j)
        k == <<o.repo, o.bundle, o.n>> IN
    /\ Doing(j, "DeleteListsUntil")
    /\ IF strict /\ k \notin DOMAIN list THEN Done(j)
       ELSE Becomes(j, <<[o EXCEPT !.n = Min({o.n + 1, MaxDeletes})]>>)
    /\ list' = Del(list, {k})
    /\ UNCHANGED <<repos, desc, label, strict, touched, faults, Others>>
-----------------------------------------------------------------------------
(* RenameRepo                                                              *)

\* The descriptor as it was listed goes to the new repo.
CopyDescriptorOp(r, new, b) ==
    [Op("CopyDescriptor", new, b, desc[<<r, b>>].count) EXCEPT !.name = desc[<<r, b>>].by]

\* Mutant: a bundle leaves the old repo as soon as its descriptor is copied.
CopyOpsMove(r, new, b) ==
    <<CopyDescriptorOp(r, new, b), Quietly(r, b)>>

\* What is copied of a bundle: its descriptor, then its file lists.
CopyOps(r, new, b) ==
    LET copyOp(i) == Op("CopyList", new, b, i) IN
    <<CopyDescriptorOp(r, new, b)>>
    \o InOrder(0..desc[<<r, b>>].count - 1, copyOp)

\* ListBundlesApply over the old repo.
CopyBundles(j) ==
    LET r == Head1(j).repo
        new == job[j].spec.to
        each(b) == CopyOps(r, new, b) IN
    /\ Doing(j, "CopyBundles")
    /\ IF r \notin repos THEN Fails(j)
       ELSE Becomes(j, FlattenSeq(InOrder(ListedBundles(r), each)))
    /\ UNCHANGED <<meta, touched, faults, Others>>

\* Copies are put without overwriting.  The bundle of the new repo can be found
\* from here on, its file lists follow.
CopyDescriptor(j) ==
    LET o == Head1(j)
        to == <<o.repo, o.bundle>> IN
    /\ Doing(j, "CopyDescriptor")
    /\ IF to \in DOMAIN desc THEN Fails(j) /\ UNCHANGED <<desc, touched>>
       ELSE /\ desc' = Put(desc, to, [count |-> o.n, by |-> o.name])
            /\ touched' = IF o.n = 0 THEN touched ELSE touched \cup {to}
            /\ Done(j)
    /\ UNCHANGED <<repos, list, label, strict, faults, Others>>

\* The error of the Get is tested under another name and so is not noticed;
\* there is nothing to read then, and the process dies.
CopyList(j) ==
    LET o == Head1(j)
        from == <<job[j].spec.repo, o.bundle, o.n>>
        to == <<o.repo, o.bundle, o.n>>
        last == o.n + 1 = desc[<<o.repo, o.bundle>>].count IN
    /\ Doing(j, "CopyList")
    /\ IF from \notin DOMAIN list
       THEN /\ job' = [job EXCEPT ![j].pc = "crashed", ![j].ops = <<>>]
            /\ UNCHANGED <<list, touched>>
       ELSE IF to \in DOMAIN list THEN Fails(j) /\ UNCHANGED <<list, touched>>
       ELSE /\ list' = Put(list, to, list[from])
            /\ touched' = IF last THEN touched \ {<<o.repo, o.bundle>>} ELSE touched
            /\ Done(j)
    /\ UNCHANGED <<repos, desc, label, strict, faults, Others>>

CopyLabels(j) ==
    LET r == Head1(j).repo
        new == job[j].spec.to
        copy(n) == UploadLabel(new, n, label[<<r, n>>]) IN
    /\ Doing(j, "CopyLabels")
    /\ IF r \notin repos THEN Fails(j) ELSE Becomes(j, PerLabel(LabelsOf(r), copy))
    /\ UNCHANGED <<meta, touched, faults, Others>>
-----------------------------------------------------------------------------
(* RepoSquash                                                              *)

\* The n newest of a set of bundle ids.
Newest(S, n) == {b \in S : Cardinality({c \in S : c > b}) < n}

\* Mutant: the newest bundles are counted among those with a label too.
SquashVictimsOff(listed, n, retained) == (listed \ Newest(listed, n - 1)) \ retained

\* bundles[:len - retainNLatest], without the labelled ones to retain.
SquashVictims(listed, n, retained) == (listed \ Newest(listed, n)) \ retained

\* ListBundles with minimal bundles: ids, whether or not there is a descriptor
\* yet.  kept records the whole bundles among those to retain.
SquashList(j) ==
    LET o == Head1(j)
        ids == BundleKeys(o.repo) IN
    /\ Doing(j, "SquashList")
    /\ IF o.repo \notin repos THEN Fails(j)
       ELSE IF Cardinality(ids) < o.n + 1 THEN Done(j)
       ELSE job' = [job EXCEPT
               ![j].ops = <<[o EXCEPT !.do = "SquashDelete", !.set = ids]>> \o Tail(@),
               ![j].kept = @ \cup {<<o.repo, b>> : b \in {c \in Newest(ids, o.n) : Whole(o.repo, c)}}]
    /\ UNCHANGED <<meta, touched, faults, Others>>

\* The labels to retain are listed, and then the other bundles deleted.
SquashDelete(j) ==
    LET o == Head1(j)
        s == job[j].spec
        retained == {label[<<o.repo, n>>] : n \in LabelsOf(o.repo) \cap s.tags}
        each(b) == Quietly(o.repo, b) IN
    /\ Doing(j, "SquashDelete")
    /\ IF o.repo \notin repos THEN Fails(j)
       ELSE job' = [job EXCEPT
               ![j].ops = InOrder(SquashVictims(o.set, o.n, retained), each)
                          \o <<[o EXCEPT !.do = "SquashRelist"]>> \o Tail(@),
               ![j].kept = @ \cup {<<o.repo, b>> : b \in {c \in retained : Whole(o.repo, c)}}]
    /\ UNCHANGED <<meta, touched, faults, Others>>

\* The ids that are left; labels of any other bundle are deleted.
SquashRelist(j) ==
    LET o == Head1(j) IN
    /\ Doing(j, "SquashRelist")
    /\ IF o.repo \notin repos THEN Fails(j)
       ELSE Becomes(j, <<[o EXCEPT !.do = "DeleteDanglingLabels", !.set = BundleKeys(o.repo)]>>)
    /\ UNCHANGED <<meta, touched, faults, Others>>
-----------------------------------------------------------------------------
(* DeleteEntriesFromRepo                                                   *)

EntriesOfBundles(j) ==
    LET r == Head1(j).repo
        each(b) == Op("EntriesOfBundle", r, b, 0) IN
    /\ Doing(j, "EntriesOfBundles")
    /\ IF r \notin repos THEN Fails(j) ELSE Becomes(j, InOrder(ListedBundles(r), each))
    /\ UNCHANGED <<meta, touched, faults, Others>>

EntriesOfBundle(j) ==
    LET o == Head1(j)
        k == <<o.repo, o.bundle>>
        each(i) == [o EXCEPT !.do = "RewriteList", !.n = i] IN
    /\ Doing(j, "EntriesOfBundle")
    /\ IF k \notin DOMAIN desc THEN Fails(j)
       ELSE Becomes(j, InOrder(0..desc[k].count - 1, each))
    /\ UNCHANGED <<meta, touched, faults, Others>>

\* A file list that holds a file to delete is overwritten with what is left.
RewriteList(j) ==
    LET o == Head1(j)
        k == <<o.repo, o.bundle, o.n>>
        left == SelectSeq(list[k], LAMBDA e : e[1] \notin job[j].spec.select) IN
    /\ Doing(j, "RewriteList")
    /\ IF k \notin DOMAIN list THEN Fails(j) /\ UNCHANGED <<list, touched>>
       ELSE /\ list' = [list EXCEPT ![k] = left]
            /\ touched' = IF left = list[k] THEN touched ELSE touched \cup {<<o.repo, o.bundle>>}
            /\ Done(j)
    /\ UNCHANGED <<repos, desc, label, strict, faults, Others>>

RepoStep(j) ==
    \/ CheckRepo(j) \/ CreateRepo(j) \/ DeleteRepoDescriptor(j)
    \/ PutLabel(j) \/ DeleteLabel(j) \/ DeleteLabels(j)
    \/ DeleteBundles(j) \/ DeleteBundle(j) \/ DeleteObject(j) \/ DeleteListsUntil(j)
    \/ CopyBundles(j) \/ CopyDescriptor(j) \/ CopyList(j) \/ CopyLabels(j)
    \/ SquashList(j) \/ SquashDelete(j) \/ SquashRelist(j)
    \/ EntriesOfBundles(j) \/ EntriesOfBundle(j) \/ RewriteList(j)
-----------------------------------------------------------------------------
(* Properties                                                              *)

\* Invariant: at every moment of a rename, interrupted or repeated as it may
\* be, every bundle of the repo is whole in the old repo or in the new one
\* (unless another command deletes just that bundle), and when it succeeds the
\* labels are too: all is copied before anything of the old repo is deleted.
RenameKeeps ==
    \A j \in Jobs : Kind(j) = "rename" =>
        LET s == job[j].spec IN
        /\ \A b \in DOMAIN Archive :
              \/ Whole(s.repo, b) \/ Whole(s.to, b)
              \/ \E i \in Jobs : Kind(i) = "deleteBundle" /\ job[i].spec.bundle = b
        /\ job[j].pc = "ok" /\ (\A i \in Jobs : Kind(i) # "deleteBundle") =>
              \A n \in DOMAIN Labels : <<s.to, n>> \in DOMAIN label /\ label[<<s.to, n>>] = Labels[n]

\* Invariant: a DeleteRepo or RenameRepo that succeeds leaves no object of the
\* repo, also when an earlier attempt died on the way, unless it ignored an
\* error of the store: what lists the objects is deleted after them.
DeleteComplete ==
    \A j \in Jobs :
        LET r == job[j].spec.repo IN
        Kind(j) \in {"deleteRepo", "rename"} /\ job[j].pc = "ok" /\ Ignored(r) \notin touched =>
            /\ r \notin repos /\ BundleKeys(r) = {} /\ LabelsOf(r) = {}

\* Invariant: a squash deletes neither the newest bundles nor those whose label
\* is retained, with uploads, labels and downloads going on meanwhile, unless
\* somebody else deletes them.  When it is done, with no label set meanwhile,
\* every label is of a bundle there is; this is lost when the squash was
\* interrupted after its deletions, since the next one finds nothing to squash
\* and returns before it looks at the labels.
SquashKeeps ==
    \A j \in Jobs : Kind(j) \in {"squash", "squashCommand", "contextSquash"} =>
        /\ \A k \in job[j].kept :
              \/ Whole(k[1], k[2])
              \/ \E i \in Jobs : Kind(i) = "deleteBundle" /\ job[i].spec.bundle = k[2]
        /\ job[j].pc = "ok" /\ restarts = 0 /\ (\A i \in Jobs : Kind(i) # "label") =>
              \A k \in DOMAIN label : label[k] \in BundleKeys(k[1])

\* Liveness: every job ends, successfully or not, on a store that reports a
\* missing object: no goroutine of a transfer waits for another forever, and
\* every agenda runs out.
JobsEnd ==
    (strict /\ \E j \in Jobs : Running(j)) ~> (\A j \in Jobs : ~Running(j))
=============================================================================
