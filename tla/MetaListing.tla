----------------------------- MODULE MetaListing -----------------------------
(***************************************************************************)
(* ListReposApply, ListBundlesApply and ListLabelsApply (pkg/core/         *)
(* repo_list.go, bundle_list.go, label_list.go, keys.go) on a store that   *)
(* others change meanwhile.                                                *)
(*                                                                         *)
(* fetchKeys reads the keys page by page; for each page a pool of workers  *)
(* fetches the descriptors, which are sorted and handed over, one by one,  *)
(* to the function to apply.  The function may itself take many steps,     *)
(* while the next pages are being read.  KeyListing has the capacities of  *)
(* the channels and the way a listing is interrupted; here it is the       *)
(* objects that come and go between the steps.                             *)
(***************************************************************************)
EXTENDS RepoOps

CONSTANTS
    Names,          \* the names of repos and labels, in lexicographic order
    BatchSize,      \* Settings.batchSize
    ConcurrentList  \* Settings.concurrentList

VARIABLE ls     \* j -> the goroutines of a listing

\* The key of a name is its place in Names, the key of a bundle its id.
KeyOf(n) == CHOOSE i \in DOMAIN Names : Names[i] = n

\* from: the objects there were at first; last: the key the next page starts
\* after; pages: keysChan; batch: fetching; todo and tasks: distributeKeys and
\* the workers; out: what apply has not been called with; seen: what it has.
NewList ==
    [st |-> "off", what |-> "", repo |-> "", from |-> {}, last |-> 0, more |-> TRUE,
     pages |-> <<>>, keyErr |-> FALSE, batch |-> FALSE, todo |-> {}, tasks |-> <<>>,
     werr |-> FALSE, got |-> {}, out |-> <<>>, seen |-> <<>>, missed |-> {}]

Listing(what, r) == <<[Op("List", r, 0, 0) EXCEPT !.name = what]>>

ListReposApply(r) == Listing("repos", r)

ListBundlesApply(r) == Listing("bundles", r)

ListLabelsApply(r) == Listing("labels", r)

\* What listReposChan and listLabelsChan iterate over; listBundlesChan finds a
\* bundle by any of its objects.
RepoKeys == {KeyOf(r) : r \in repos}

LabelKeys(r) == {KeyOf(n) : n \in LabelsOf(r)}

Keys(l) ==
    CASE l.what = "repos" -> RepoKeys
      [] l.what = "bundles" -> BundleKeys(l.repo)
      [] l.what = "labels" -> LabelKeys(l.repo)

\* The keys whose descriptor exists.
Present(l) == IF l.what = "bundles" THEN ListedBundles(l.repo) ELSE Keys(l)

\* listBundlesChan and listLabelsChan want the repo, listReposChan has none.
ListChan(j) ==
    LET o == Head1(j)
        l == [NewList EXCEPT !.st = "run", !.what = o.name, !.repo = o.repo] IN
    /\ Doing(j, "List") /\ ls[j].st = "off"
    /\ IF o.name # "repos" /\ o.repo \notin repos
       THEN Fails(j) /\ UNCHANGED ls
       ELSE ls' = [ls EXCEPT ![j] = [l EXCEPT !.from = Present(l)]] /\ UNCHANGED job
    /\ UNCHANGED <<meta, touched, faults, Others>>

\* A step of a goroutine of a listing.
ListStep(j, l) ==
    /\ ls' = [ls EXCEPT ![j] = l]
    /\ UNCHANGED <<meta, job, touched, Others>>

\* Mutant: the first key of the next page is taken for the last of this one.
NextPageSkips(keys, last) ==
    LET left == SetToSortSeq({k \in keys : k > last}, <) IN
    [keys |-> Range(SubSeq(left, 1, Min({Len(left), BatchSize}))),
     last |-> IF Len(left) <= BatchSize THEN 0 ELSE left[BatchSize + 1]]

\* A page of KeysPrefix: keys in order, and from where to go on, 0 at the end.
NextPage(keys, last) ==
    LET left == SetToSortSeq({k \in keys : k > last}, <) IN
    [keys |-> Range(SubSeq(left, 1, Min({Len(left), BatchSize}))),
     last |-> IF Len(left) <= BatchSize THEN 0 ELSE left[BatchSize]]

\* fetchKeys: keysChan holds one page, and the next may be waiting to be sent;
\* an error is sent like a page.
FetchKeys(j) ==
    LET l == ls[j]
        p == NextPage(Keys(l), l.last) IN
    /\ Running(j) /\ l.st = "run" /\ l.more /\ Len(l.pages) < 2
    /\ \/ /\ ListStep(j, [l EXCEPT !.last = p.last, !.more = p.last # 0,
                             !.pages = IF p.keys = {} THEN @ ELSE Append(@, p.keys)])
          /\ UNCHANGED faults
       \/ /\ faults < MaxFaults
          /\ ListStep(j, [l EXCEPT !.more = FALSE, !.keyErr = TRUE])
          /\ faults' = faults + 1

\* fetchRepos, fetchBundles, fetchLabels take the next page, or are done.
FetchBatch(j) ==
    LET l == ls[j] IN
    /\ Running(j) /\ l.st = "run" /\ ~l.batch
    /\ \/ /\ l.pages # <<>>
          /\ ListStep(j, [l EXCEPT !.pages = Tail(@), !.batch = TRUE, !.todo = Head(l.pages),
                             !.got = {}])
       \/ /\ l.pages = <<>> /\ ~l.more
          /\ ListStep(j, [l EXCEPT !.st = IF l.keyErr THEN "error" ELSE "ok"])
    /\ UNCHANGED faults

\* What the worker asks first.  Bundles are read at once, the others looked up.
FirstCall(l) == IF l.what = "bundles" THEN "get" ELSE "has"

\* distributeKeys gives the keys to the workers in order; once a worker has
\* failed it stops, or a worker may still be given a key.
DistributeKeys(j) ==
    LET l == ls[j] IN
    /\ Running(j) /\ l.batch /\ l.todo # {}
    /\ \/ /\ Cardinality(DOMAIN l.tasks) < ConcurrentList
          /\ ListStep(j, [l EXCEPT !.todo = @ \ {Min(@)},
                             !.tasks = Put(@, Min(l.todo), FirstCall(l))])
       \/ /\ l.werr
          /\ ListStep(j, [l EXCEPT !.todo = {}])
    /\ UNCHANGED faults

\* What becomes of a key whose object is not there when it is looked up or
\* read: getRepoAsync tells the two apart, and fails the listing on the first.
GetRepoAsync(call) == IF call = "has" THEN "err" ELSE "skip"

GetBundleAsync(call) == "skip"

\* DownloadDescriptor: either way there is no label to show.
GetLabelAsync(call) == "err"

Missing(l, call) ==
    CASE l.what = "repos" -> GetRepoAsync(call)
      [] l.what = "bundles" -> GetBundleAsync(call)
      [] l.what = "labels" -> GetLabelAsync(call)

\* A descriptor, and the bundle a label is on.
DescriptorOf(l, k) ==
    [key |-> k, on |-> IF l.what = "labels" THEN label[<<l.repo, Names[k]>>] ELSE 0]

\* A store call of a worker.  A key to leave out is dropped at once; a result
\* or an error is held until it is received.
FetchOne(j) ==
    LET l == ls[j] IN
    /\ Running(j) /\ l.batch
    /\ \E k \in DOMAIN l.tasks :
          LET call == l.tasks[k]
              there == k \in Present(l)
              to(st, got) ==
                 ListStep(j, [l EXCEPT !.got = @ \cup got,
                                       !.tasks = IF st = "skip" THEN Del(@, {k})
                                                 ELSE Put(@, k, st)]) IN
          /\ call \in {"has", "get"}
          /\ \/ /\ IF ~there THEN to(Missing(l, call), {})
                   ELSE IF call = "has" THEN to("get", {})
                   ELSE to("ok", {DescriptorOf(l, k)})
                /\ UNCHANGED faults
             \/ /\ faults < MaxFaults
                /\ to("err", {})
                /\ faults' = faults + 1

\* The results are received; the first error makes the rest not count.
Coalesce(j) ==
    LET l == ls[j] IN
    /\ Running(j) /\ l.batch
    /\ \E k \in DOMAIN l.tasks :
          /\ l.tasks[k] \in {"ok", "err"}
          /\ ListStep(j, [l EXCEPT !.tasks = Del(@, {k}),
                             !.werr = @ \/ l.tasks[k] = "err"])
    /\ UNCHANGED faults

\* The order of a batch: by the names of repos, by the ids of bundles, and for
\* labels by the bundles they are on.
FetchRepoBatch(got) == SetToSortSeq(got, LAMBDA a, b : a.key < b.key)

FetchBundleBatch(got) == SetToSortSeq(got, LAMBDA a, b : a.key < b.key)

FetchLabelBatch(got) ==
    SetToSortSeq(got, LAMBDA a, b : a.on < b.on \/ (a.on = b.on /\ a.key < b.key))

Batch(l) ==
    CASE l.what = "repos" -> FetchRepoBatch(l.got)
      [] l.what = "bundles" -> FetchBundleBatch(l.got)
      [] l.what = "labels" -> FetchLabelBatch(l.got)

\* The batch is returned once all workers are done.
EndBatch(j) ==
    LET l == ls[j] IN
    /\ Running(j) /\ l.batch /\ l.todo = {} /\ DOMAIN l.tasks = {}
    /\ ListStep(j, [l EXCEPT !.batch = FALSE, !.got = {},
                       !.st = IF l.werr THEN "error" ELSE @,
                       !.out = IF l.werr THEN @ ELSE @ \o Batch(l)])
    /\ UNCHANGED faults

\* All has been applied: the listing ends, with the error it met if any.
ListEnd(j) ==
    LET l == ls[j] IN
    /\ Doing(j, "List") /\ l.out = <<>> /\ l.st \in {"ok", "error"}
    /\ IF l.st = "ok" THEN Done(j) ELSE Fails(j)
    /\ ls' = [ls EXCEPT ![j].missed = (l.from \cap Present(l)) \ {d.key : d \in Range(l.seen)}]
    /\ UNCHANGED <<meta, touched, faults, Others>>

ListingStep(j) ==
    \/ ListChan(j) \/ FetchKeys(j) \/ FetchBatch(j) \/ DistributeKeys(j)
    \/ FetchOne(j) \/ Coalesce(j) \/ EndBatch(j) \/ ListEnd(j)
-----------------------------------------------------------------------------
(* Properties                                                              *)

\* Invariant: whatever comes and goes while repos, bundles or labels are
\* listed, a listing that succeeds has shown every object that was there from
\* its beginning to its end, each object once, repos and bundles in the order
\* of their keys; a bundle it has shown is whole unless it is being deleted,
\* never an upload under way; and a listing of bundles only fails when the
\* store does, never because a bundle was deleted between its key and its
\* descriptor.
ListingRight ==
    \A j \in Jobs :
        LET l == ls[j]
            keys == [i \in DOMAIN l.seen |-> l.seen[i].key] IN
        /\ l.missed = {} \/ l.st = "error"
        /\ \A i1, i2 \in DOMAIN keys :
              i1 < i2 => keys[i1] # keys[i2] /\ (l.what # "labels" => keys[i1] < keys[i2])
        /\ l.what = "bundles" =>
              /\ \A b \in Range(keys) : Whole(l.repo, b) \/ <<l.repo, b>> \in touched
              /\ l.st = "error" => faults > 0
=============================================================================
