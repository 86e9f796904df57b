---------------------------- MODULE BundleUpload ----------------------------
(***************************************************************************)
(* The metadata store of a context, and how a bundle gets into it          *)
(* (pkg/core/bundle.go, bundle_pack.go).                                   *)
(*                                                                         *)
(* A repo descriptor, a bundle descriptor, each file list of a bundle and  *)
(* each label are separate objects.  Every process of datamon works on     *)
(* them through single Get, Has, Put, Delete and KeysPrefix calls; nothing *)
(* else is atomic, and a process may die between any two of them.  A job   *)
(* is one invocation of one operation.                                     *)
(*                                                                         *)
(* Bundle ids are numbers, in the order of their ksuids.  An entry is a    *)
(* name with the hash of its content; CafsWriter shows what a hash is      *)
(* worth.                                                                  *)
(***************************************************************************)
EXTENDS Integers, Sequences, SequencesExt, FiniteSets, FiniteSetsExt, Functions

CONSTANTS
    Jobs,           \* the concurrent invocations
    Plans,          \* what they may be asked to do: a set of functions on Jobs
    Archive,        \* bundle id -> entries: what the repo Home holds at first
    Labels,         \* label name -> bundle id, in Home at first
    Home,           \* the repo that has bundles at first
    Bare,           \* repos without bundles
    PerFile,        \* defaultBundleEntriesPerFile
    MaxUploads,     \* bundle.concurrentFileUploads
    Generated,      \* names model.IsGeneratedFile recognises
    MaxFaults,      \* bound: store calls that fail, and crashes
    MaxRestarts     \* bound: jobs started over

ASSUME BundleAssumption ==
    /\ PerFile \in Nat \ {0} /\ MaxUploads \in Nat \ {0}
    /\ MaxFaults \in Nat /\ MaxRestarts \in Nat

VARIABLES
    repos,      \* repo descriptors
    desc,       \* <<repo, bundle>> -> [count, by]: bundle descriptors
    list,       \* <<repo, bundle, index>> -> entries: file lists
    label,      \* <<repo, name>> -> bundle: label descriptors
    strict,     \* Delete of a missing object fails (gcs), or not (localfs)
    job,        \* j -> [spec, pc, ops, kept]: the main goroutine of a job
    up,         \* j -> the goroutines of an upload
    touched,    \* bundles somebody deletes, rewrites or is copying
    faults,     \* faults so far
    restarts    \* restarts so far

meta == <<repos, desc, list, label, strict>>
bVars == <<meta, job, up, touched, faults, restarts>>

Ended == {"ok", "error", "crashed"}

Running(j) == job[j].pc \notin Ended

\* Job j goes on at pc.
Goto(j, pc) == job' = [job EXCEPT ![j].pc = pc]

Kind(j) == job[j].spec.kind

Put(f, k, v) == [x \in DOMAIN f \cup {k} |-> IF x = k THEN v ELSE f[x]]

Del(f, K) == [x \in DOMAIN f \ K |-> f[x]]

\* The ids under bundles/<repo>/: a delimited KeysPrefix returns a bundle as
\* soon as one object of it exists, its descriptor or a file list.
BundleKeys(r) ==
    {k[2] : k \in {x \in DOMAIN desc : x[1] = r} \cup {x \in DOMAIN list : x[1] = r}}

\* ListBundles: an id whose descriptor cannot be found is left out.
ListedBundles(r) == {b \in BundleKeys(r) : <<r, b>> \in DOMAIN desc}

LabelsOf(r) == {k[2] : k \in {x \in DOMAIN label : x[1] = r}}

\* UploadBundleEntries: the entries of a bundle, cut into file lists.
Chunks(entries) ==
    [i \in 0..((Len(entries) + PerFile - 1) \div PerFile) - 1 |->
        SubSeq(entries, i * PerFile + 1, Min({Len(entries), (i + 1) * PerFile}))]
-----------------------------------------------------------------------------
(* Upload                                                                  *)

NewUpload == [next |-> 1, failed |-> FALSE, tasks |-> <<>>, fileList |-> <<>>, count |-> 0]

SkipFile(s, e) == e[1] \in Generated \/ (s.skip /\ e[1] \in s.missing)

\* What the bundle of an upload contains.
Uploaded(s) == {e \in Range(s.files) : ~SkipFile(s, e)}

\* RepoExists; a preserved bundle id must not be taken.
ImplUpload(j) ==
    LET s == job[j].spec IN
    /\ Kind(j) = "upload" /\ job[j].pc = "start"
    /\ Goto(j, CASE s.repo \notin repos -> "error"
                 [] s.preserve -> "exists"
                 [] OTHER -> "loop")
    /\ up' = [up EXCEPT ![j] = NewUpload]
    /\ UNCHANGED <<meta, touched, faults, restarts>>

BundleExists(j) ==
    /\ Kind(j) = "upload" /\ job[j].pc = "exists"
    /\ Goto(j, IF <<job[j].spec.repo, job[j].spec.bundle>> \in DOMAIN desc
               THEN "error" ELSE "loop")
    /\ UNCHANGED <<meta, up, touched, faults, restarts>>

\* uploadBundleFiles: the next file is skipped, cannot be read, or gets a
\* goroutine once one of the concurrentFileUploads slots is free.
UploadBundleFiles(j) ==
    LET u == up[j]
        s == job[j].spec
        e == s.files[u.next] IN
    /\ job[j].pc = "loop" /\ ~u.failed /\ u.next <= Len(s.files)
    /\ \/ /\ SkipFile(s, e)
          /\ up' = [up EXCEPT ![j].next = @ + 1]
       \/ /\ ~SkipFile(s, e) /\ e[1] \in s.missing
          /\ up' = [up EXCEPT ![j].failed = TRUE]
       \/ /\ ~SkipFile(s, e) /\ e[1] \notin s.missing
          /\ Cardinality(DOMAIN u.tasks) < MaxUploads
          /\ up' = [up EXCEPT ![j].next = @ + 1, ![j].tasks = Put(@, e, "putting")]
    /\ UNCHANGED <<meta, job, touched, faults, restarts>>

\* uploadBundleFile: the content goes to the blob store, or fails to; the
\* goroutine then blocks until the main loop takes its result.
UploadBundleFile(j) ==
    \E e \in DOMAIN up[j].tasks :
        /\ job[j].pc = "loop" /\ up[j].tasks[e] = "putting"
        /\ \/ /\ up' = [up EXCEPT ![j].tasks[e] = "packed"]
              /\ UNCHANGED faults
           \/ /\ faults < MaxFaults
              /\ up' = [up EXCEPT ![j].tasks[e] = "failed"]
              /\ faults' = faults + 1
        /\ UNCHANGED <<meta, job, touched, restarts>>

\* Mutant: a file list replaces the one that is already there.
UploadListOverWrite(j, u, entries, pc) ==
    /\ list' = Put(list, <<job[j].spec.repo, job[j].spec.bundle, u.count>>, entries)
    /\ up' = [up EXCEPT ![j] = [u EXCEPT !.fileList = <<>>, !.count = @ + 1]]
    /\ Goto(j, pc)

\* uploadBundleEntriesFileList, NoOverWrite.
UploadBundleEntriesFileList(j, u, entries, pc) ==
    LET k == <<job[j].spec.repo, job[j].spec.bundle, u.count>> IN
    IF k \in DOMAIN list
    THEN /\ Goto(j, "error")
         /\ up' = [up EXCEPT ![j] = u]
         /\ UNCHANGED list
    ELSE /\ list' = Put(list, k, entries)
         /\ up' = [up EXCEPT ![j] = [u EXCEPT !.fileList = <<>>, !.count = @ + 1]]
         /\ Goto(j, pc)

\* uploadBundle, its main loop: a packed file is appended to the file list,
\* which is uploaded when it is full.
ReceivePacked(j) ==
    \E e \in DOMAIN up[j].tasks :
        LET u == [up[j] EXCEPT !.tasks = Del(@, {e}), !.fileList = Append(@, e)] IN
        /\ job[j].pc = "loop" /\ up[j].tasks[e] = "packed"
        /\ IF Len(u.fileList) = PerFile
           THEN UploadBundleEntriesFileList(j, u, u.fileList, "loop")
           ELSE /\ up' = [up EXCEPT ![j] = u]
                /\ UNCHANGED <<job, list>>
        /\ UNCHANGED <<repos, desc, label, strict, touched, faults, restarts>>

\* Mutant: nobody receives what the goroutines of the files report.
ReceiveErrorOfWalk(j) ==
    /\ job[j].pc = "loop" /\ up[j].failed
    /\ Goto(j, "error")
    /\ UNCHANGED <<meta, up, touched, faults, restarts>>

\* The first error ends the upload; the other goroutines stay behind.
ReceiveError(j) ==
    /\ job[j].pc = "loop"
    /\ up[j].failed \/ "failed" \in Range(up[j].tasks)
    /\ Goto(j, "error")
    /\ UNCHANGED <<meta, up, touched, faults, restarts>>

\* doneOk comes once every slot of the semaphore has been given back.
ReceiveDone(j) ==
    /\ job[j].pc = "loop" /\ ~up[j].failed
    /\ up[j].next > Len(job[j].spec.files) /\ DOMAIN up[j].tasks = {}
    /\ Goto(j, IF up[j].fileList = <<>> THEN "descriptor" ELSE "final")
    /\ UNCHANGED <<meta, up, touched, faults, restarts>>

UploadLastList(j) ==
    /\ job[j].pc = "final"
    /\ UploadBundleEntriesFileList(j, up[j], up[j].fileList, "descriptor")
    /\ UNCHANGED <<repos, desc, label, strict, touched, faults, restarts>>

\* uploadBundleDescriptor, NoOverWrite: the bundle exists from here on.
UploadBundleDescriptor(j) ==
    LET k == <<job[j].spec.repo, job[j].spec.bundle>> IN
    /\ Kind(j) = "upload" /\ job[j].pc = "descriptor"
    /\ IF k \in DOMAIN desc
       THEN /\ Goto(j, "error")
            /\ UNCHANGED desc
       ELSE /\ desc' = Put(desc, k, [count |-> up[j].count, by |-> j])
            /\ Goto(j, IF job[j].spec.label = "" THEN "ok" ELSE "uploaded")
    /\ UNCHANGED <<repos, list, label, strict, up, touched, faults, restarts>>

UploadStep(j) ==
    \/ ImplUpload(j) \/ BundleExists(j) \/ UploadBundleFiles(j) \/ UploadBundleFile(j)
    \/ ReceivePacked(j) \/ ReceiveError(j) \/ ReceiveDone(j) \/ UploadLastList(j)
    \/ UploadBundleDescriptor(j)
-----------------------------------------------------------------------------
(* Faults                                                                  *)

\* A process dies, or a store call fails where the error is returned: both
\* leave the store as it is.
Crash(j) ==
    /\ Running(j) /\ job[j].pc # "start" /\ faults < MaxFaults
    /\ Goto(j, "crashed")
    /\ faults' = faults + 1
    /\ UNCHANGED <<meta, up, touched, restarts>>

\* The same command is run again; an upload that does not preserve its id
\* would be another upload.
Restart(j) ==
    /\ job[j].pc \in {"error", "crashed"} /\ restarts < MaxRestarts
    /\ Kind(j) = "upload" => job[j].spec.preserve
    /\ job' = [job EXCEPT ![j].pc = "start", ![j].ops = <<>>, ![j].kept = {}]
    /\ restarts' = restarts + 1
    /\ UNCHANGED <<meta, up, touched, faults>>

\* The commands that delete objects of the metadata store, and to which it
\* makes a difference what a deletion says of a missing object.
Deleting ==
    {"deleteRepo", "deleteBundle", "rename", "squash", "squashCommand", "contextSquash"}

StoreInit ==
    /\ repos = {Home} \cup Bare
    /\ desc = [k \in {<<Home, b>> : b \in DOMAIN Archive} |->
                  [count |-> Cardinality(DOMAIN Chunks(Archive[k[2]])), by |-> "archive"]]
    /\ list = [k \in UNION {{<<Home, b, i>> : i \in DOMAIN Chunks(Archive[b])} :
                              b \in DOMAIN Archive} |-> Chunks(Archive[k[2]])[k[3]]]
    /\ label = [k \in {<<Home, n>> : n \in DOMAIN Labels} |-> Labels[k[2]]]
    /\ \E p \in Plans :
          /\ job = [j \in Jobs |-> [spec |-> p[j], pc |-> "start", ops |-> <<>>, kept |-> {}]]
          /\ strict \in IF \E j \in Jobs : p[j].kind \in Deleting THEN BOOLEAN ELSE {TRUE}
    /\ up = [j \in Jobs |-> NewUpload]
    /\ touched = {}
    /\ faults = 0 /\ restarts = 0
-----------------------------------------------------------------------------
(* Properties                                                              *)

\* The entries a bundle must have, given who wrote its descriptor.
ContentOf(b, by) == IF by = "archive" THEN Range(Archive[b]) ELSE Uploaded(job[by].spec)

\* The descriptor of b counts its file lists, all are there, all but the last
\* are full, and together they hold each entry once.
Whole(r, b) ==
    /\ <<r, b>> \in DOMAIN desc
    /\ LET d == desc[<<r, b>>]
           at(i) == list[<<r, b, i>>] IN
       /\ \A i \in 0..d.count - 1 : <<r, b, i>> \in DOMAIN list
       /\ \A i \in 0..d.count - 1 : i + 1 < d.count => Len(at(i)) = PerFile
       /\ UNION {Range(at(i)) : i \in 0..d.count - 1} = ContentOf(b, d.by)
       /\ MapThenSumSet(LAMBDA i : Len(at(i)), 0..d.count - 1)
             = Cardinality(ContentOf(b, d.by))

\* Invariant: a bundle whose descriptor can be found is whole and of a single
\* upload, whatever order the files were packed in, with two uploads of the
\* same preserved id and with crashes and repeated commands: file lists and
\* descriptor are put without overwriting, the descriptor last.  Bundles that
\* are being deleted, rewritten or copied are left out.
BundleWhole == \A k \in DOMAIN desc : k \in touched \/ Whole(k[1], k[2])
=============================================================================
