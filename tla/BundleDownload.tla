--------------------------- MODULE BundleDownload ---------------------------
(***************************************************************************)
(* A bundle comes back: Publish, PublishSelectBundleEntries, PublishFile,  *)
(* Update, Diff, PopulateFiles and DownloadMetadata (pkg/core/bundle.go,   *)
(* bundle_unpack.go, bundle_diff.go) and the commands that call them       *)
(* (cmd/datamon/cmd/bundle_*.go).                                          *)
(*                                                                         *)
(* Each command goes through stages.  Metadata is read in two steps, the   *)
(* descriptor and then the file lists by a pool of goroutines, and the     *)
(* entries are fetched by another pool.  The destination is a local        *)
(* directory with the files and, under .datamon, the descriptor and the    *)
(* file lists they came from.                                              *)
(***************************************************************************)
EXTENDS BundleUpload

CONSTANTS
    MaxLists,       \* bundle.concurrentFilelistDownloads
    MaxDownloads    \* bundle.concurrentFileDownloads

VARIABLES
    dl,         \* j -> the goroutines of a download
    dest        \* j -> the consumable store of a download

dVars == <<dl, dest>>

\* The stages of each command.  "source" reads metadata from the metadata
\* store, "dest" from the destination, "publish" from the first into the second.
DownloadCommand(s) ==
    <<IF s.force THEN "destAny" ELSE "destEmpty", "resolve", "publish", "entries">>

DownloadFileCommand == <<"destAny", "resolve", "publish", "file">>

UpdateCommand ==
    <<"destNonEmpty", "resolve", "source", "dest", "entries", "drop", "dropLists", "publish">>

GetBundleCommand == <<"resolve", "source">>

ListFilesCommand == <<"resolve", "repo", "source">>

DiffCommand == <<"resolve", "dest", "repo", "source">>

Downloads == {"publish", "file", "update", "getBundle", "files", "diff"}

StagesOf(s) ==
    CASE s.kind = "publish" -> DownloadCommand(s)
      [] s.kind = "file" -> DownloadFileCommand
      [] s.kind = "update" -> UpdateCommand
      [] s.kind = "getBundle" -> GetBundleCommand
      [] s.kind = "files" -> ListFilesCommand
      [] s.kind = "diff" -> DiffCommand

Metadata == {"source", "dest", "publish"}

\* The bundle entry of a slot no file list has filled.
Zero == <<"", "">>

NewDownload ==
    [stages |-> <<>>, bundle |-> 0, by |-> "archive", count |-> 0, next |-> 0,
     lists |-> <<>>, entries |-> <<>>, source |-> <<>>, todo |-> {}, tasks |-> <<>>]

Phase(j) == Head(dl[j].stages)

\* Where a job goes on after the first of the stages ss.
After(ss) ==
    IF Len(ss) = 1 THEN "ok"
    ELSE IF ss[2] \in Metadata THEN "descriptor" ELSE ss[2]

\* Job j ends its stage with download state d.
EndStage(j, d) ==
    /\ Goto(j, After(d.stages))
    /\ dl' = [dl EXCEPT ![j] = [d EXCEPT !.stages = IF Len(@) = 1 THEN @ ELSE Tail(@)]]

FailStage(j) == Goto(j, "error") /\ UNCHANGED dl

\* A consumable store that holds bundle b of the archive, or nothing.
Holding(b) ==
    IF b = 0 THEN [files |-> <<>>, desc |-> <<>>, lists |-> <<>>]
    ELSE LET c == Chunks(Archive[b]) IN
         [files |-> [n \in {e[1] : e \in Range(Archive[b])} |->
                        (CHOOSE e \in Range(Archive[b]) : e[1] = n)[2]],
          desc |-> [x \in {b} |-> [count |-> Cardinality(DOMAIN c), by |-> "archive"]],
          lists |-> [k \in {<<b, i>> : i \in DOMAIN c} |-> c[k[2]]]]

StartDownload(j) ==
    LET ss == StagesOf(job[j].spec) IN
    /\ Kind(j) \in Downloads /\ job[j].pc = "start"
    /\ Goto(j, ss[1])
    /\ dl' = [dl EXCEPT ![j] = [NewDownload EXCEPT !.stages = ss]]
    /\ UNCHANGED <<meta, up, touched, faults, restarts, dest>>

\* destStore: the directory must be empty, or must have metadata, or neither.
\* The metadata directory stays when its files are deleted.
DestStore(j) ==
    LET empty == dest[j] = Holding(0) IN
    /\ job[j].pc \in {"destEmpty", "destAny", "destNonEmpty"}
    /\ IF \/ job[j].pc = "destEmpty" /\ ~empty
          \/ job[j].pc = "destNonEmpty" /\ empty /\ job[j].spec.local = 0
       THEN FailStage(j) ELSE EndStage(j, dl[j])
    /\ UNCHANGED <<meta, up, touched, faults, restarts, dest>>

\* setLatestOrLabelledBundle: the bundle of the label, or the id of the last
\* key of the repo (GetLatestBundle), or the one asked for.
SetLatestOrLabelledBundle(j) ==
    LET s == job[j].spec
        ids == IF s.bundle # 0 THEN {s.bundle}
               ELSE IF s.repo \notin repos THEN {}
               ELSE IF s.label # ""
               THEN {label[k] : k \in {<<s.repo, s.label>>} \cap DOMAIN label}
               ELSE BundleKeys(s.repo) IN
    /\ job[j].pc = "resolve"
    /\ IF ids = {} THEN FailStage(j) ELSE EndStage(j, [dl[j] EXCEPT !.bundle = Max(ids)])
    /\ UNCHANGED <<meta, up, touched, faults, restarts, dest>>

\* PopulateFiles asks for the repo of a bundle of the metadata store.
PopulateFiles(j) ==
    /\ job[j].pc = "repo"
    /\ IF job[j].spec.repo \in repos THEN EndStage(j, dl[j]) ELSE FailStage(j)
    /\ UNCHANGED <<meta, up, touched, faults, restarts, dest>>
-----------------------------------------------------------------------------
(* implPublishMetadata                                                     *)

Published(j) == Phase(j) = "publish"

MetaRepo(j) == job[j].spec.repo

\* setBundleIDFromConsumableStore: the bundle of the first descriptor among the
\* keys of the destination.
LocalBundle(j) == Min(DOMAIN dest[j].desc)

\* getConsumableStoreMetadataKeysInfo: fails unless there is one descriptor.
OneDescriptor(j) == Cardinality(DOMAIN dest[j].desc) = 1

\* unpackBundleDescriptor: Has and Get, or ReadTee, which puts the copy without
\* overwriting.  For "dest" the id is that of the descriptor found there.
UnpackBundleDescriptor(j) ==
    LET d == dl[j]
        k == <<MetaRepo(j), d.bundle>>
        found == IF Phase(j) = "dest" THEN DOMAIN dest[j].desc # {} ELSE k \in DOMAIN desc
        got == IF Phase(j) = "dest" THEN dest[j].desc[LocalBundle(j)] ELSE desc[k]
        fails == ~found \/ (Published(j) /\ d.bundle \in DOMAIN dest[j].desc) IN
    /\ Kind(j) \in Downloads /\ job[j].pc = "descriptor"
    /\ Goto(j, IF fails THEN "error" ELSE "lists")
    /\ dl' = IF fails THEN dl
             ELSE [dl EXCEPT ![j].count = got.count, ![j].next = 0, ![j].lists = <<>>,
                      ![j].by = IF Phase(j) = "dest" THEN @ ELSE got.by,
                      ![j].entries = [i \in 0..got.count * PerFile - 1 |-> Zero]]
    /\ dest' = IF fails \/ ~Published(j) THEN dest
               ELSE [dest EXCEPT ![j].desc = Put(@, d.bundle, got)]
    /\ UNCHANGED <<meta, up, touched, faults, restarts>>

\* downloadBundleFileList: one goroutine per file list, MaxLists at a time.
DownloadBundleFileList(j) ==
    LET d == dl[j] IN
    /\ Kind(j) \in Downloads /\ job[j].pc = "lists"
    /\ d.next < d.count /\ Cardinality(DOMAIN d.lists) < MaxLists
    /\ dl' = [dl EXCEPT ![j].next = @ + 1,
                        ![j].lists = Put(@, d.next, [st |-> "get", got |-> <<>>])]
    /\ UNCHANGED <<bVars, dest>>

\* downloadBundleFileListFile: ReadTee, or a Get from either store.  The
\* result or the error then waits for the main loop.
DownloadBundleFileListFile(j) ==
    \E i \in DOMAIN dl[j].lists :
        LET d == dl[j]
            k == <<MetaRepo(j), d.bundle, i>>
            at == <<IF Phase(j) = "dest" THEN LocalBundle(j) ELSE d.bundle, i>>
            found == IF Phase(j) = "dest" THEN at \in DOMAIN dest[j].lists
                     ELSE k \in DOMAIN list
            got == IF Phase(j) = "dest" THEN dest[j].lists[at] ELSE list[k]
            fails == ~found \/ (Published(j) /\ at \in DOMAIN dest[j].lists) IN
        /\ job[j].pc = "lists" /\ d.lists[i].st = "get"
        /\ dl' = [dl EXCEPT ![j].lists[i] =
                     IF fails THEN [st |-> "failed", got |-> <<>>]
                     ELSE [st |-> "got", got |-> got]]
        /\ dest' = IF fails \/ ~Published(j) THEN dest
                   ELSE [dest EXCEPT ![j].lists = Put(@, at, got)]
        /\ UNCHANGED bVars

\* unpackBundleFileList: the entries of list i are copied to their place; the
\* last list decides the length; any other must be full.
ReceiveFileList(j) ==
    \E i \in DOMAIN dl[j].lists :
        LET d == dl[j]
            got == d.lists[i].got
            last == i + 1 = d.count
            copied == [p \in DOMAIN d.entries |->
                          IF p >= i * PerFile /\ p - i * PerFile < Len(got)
                          THEN got[p - i * PerFile + 1] ELSE d.entries[p]]
            size == Cardinality(DOMAIN copied) - (PerFile - Len(got))
            fails == d.lists[i].st = "failed"
                     \/ (last /\ Len(got) > PerFile) \/ (~last /\ Len(got) # PerFile) IN
        /\ job[j].pc = "lists" /\ d.lists[i].st # "get"
        /\ Goto(j, IF fails THEN "error" ELSE "lists")
        /\ dl' = IF fails THEN dl
                 ELSE [dl EXCEPT ![j].lists = Del(@, {i}),
                         ![j].entries = IF last THEN [p \in 0..size - 1 |-> copied[p]]
                                        ELSE copied]
        /\ UNCHANGED <<meta, up, touched, faults, restarts, dest>>

\* diffBundles: what to do to the existing entries to get the additional ones.
DiffBundles(existing, additional) ==
    LET named(n, S) == {e \in S : e[1] = n} IN
    {<<"Dif", e>> : e \in {x \in additional \ existing : named(x[1], existing) # {}}}
    \cup {<<"Add", e>> : e \in {x \in additional : named(x[1], existing) = {}}}
    \cup {<<"Del", e>> : e \in {x \in existing : named(x[1], additional) = {}}}

\* The selection predicate; an empty selection stands for all files.
Selected(s, e) == s.select = {} \/ e[1] \in s.select

\* The work of downloadBundleEntries and of unpackDataFile.
EntriesToDo(j, d) ==
    LET s == job[j].spec
        all == Range(d.entries) IN
    IF s.kind = "update" THEN DiffBundles(all, Range(d.source))
    ELSE {<<"Add", e>> : e \in {x \in all : Selected(s, x)}}

\* doneOk: all goroutines have given their slot back.  The entries read first
\* are kept for the difference, those of the next stage are made ready.
\* unpackDataFile fails when the bundle has no such file.
FileListsDone(j) ==
    LET d == dl[j]
        next == After(d.stages)
        d2 == [d EXCEPT !.source = IF next = "descriptor" \/ next = "repo" THEN d.entries ELSE @,
                        !.todo = IF next \in {"entries", "file"} THEN EntriesToDo(j, d) ELSE {},
                        !.tasks = <<>>] IN
    /\ Kind(j) \in Downloads /\ job[j].pc = "lists"
    /\ d.next = d.count /\ DOMAIN d.lists = {}
    /\ IF next = "file" /\ d2.todo = {} THEN FailStage(j) ELSE EndStage(j, d2)
    /\ UNCHANGED <<meta, up, touched, faults, restarts, dest>>
-----------------------------------------------------------------------------
(* unpackDataFiles                                                         *)

DownloadBundleEntries(j) ==
    \E t \in dl[j].todo :
        /\ job[j].pc = "file" \/ (job[j].pc = "entries"
                                  /\ Cardinality(DOMAIN dl[j].tasks) < MaxDownloads)
        /\ dl' = [dl EXCEPT ![j].todo = @ \ {t}, ![j].tasks = Put(@, t, "run")]
        /\ UNCHANGED <<bVars, dest>>

\* downloadBundleEntry, downloadBundleEntryOverwrite, deleteBundleEntry: a file
\* that differs is deleted and then put; Put does not overwrite.  A failure
\* waits for the main goroutine and keeps its slot.
DownloadBundleEntry(j) ==
    \E t \in DOMAIN dl[j].tasks :
        LET e == t[2]
            st == dl[j].tasks[t]
            deletes == t[1] = "Del" \/ (t[1] = "Dif" /\ st = "run")
            exists == e[1] \in DOMAIN dest[j].files
            becomes(x) == dl' = [dl EXCEPT ![j].tasks = x] IN
        /\ job[j].pc \in {"entries", "file"} /\ st # "failed"
        /\ \/ /\ deletes
              /\ dest' = [dest EXCEPT ![j].files = Del(@, {e[1]})]
              /\ becomes(IF t[1] = "Dif" THEN Put(dl[j].tasks, t, "put")
                         ELSE Del(dl[j].tasks, {t}))
              /\ UNCHANGED faults
           \/ /\ ~deletes /\ ~exists /\ e # Zero
              /\ dest' = [dest EXCEPT ![j].files = Put(@, e[1], e[2])]
              /\ becomes(Del(dl[j].tasks, {t}))
              /\ UNCHANGED faults
           \/ /\ ~deletes /\ (exists \/ e = Zero)
              /\ becomes(Put(dl[j].tasks, t, "failed"))
              /\ UNCHANGED <<dest, faults>>
           \/ /\ faults < MaxFaults
              /\ becomes(Put(dl[j].tasks, t, "failed"))
              /\ faults' = faults + 1
              /\ UNCHANGED dest
        /\ UNCHANGED <<meta, job, up, touched, restarts>>

ReceiveEntryError(j) ==
    /\ job[j].pc \in {"entries", "file"} /\ "failed" \in Range(dl[j].tasks)
    /\ Goto(j, "error")
    /\ UNCHANGED <<meta, up, touched, faults, restarts, dVars>>

\* Mutant: doneOk does not wait for the goroutines that are still at work.
EntriesDoneEarly(j) ==
    /\ job[j].pc \in {"entries", "file"} /\ dl[j].todo = {}
    /\ EndStage(j, dl[j])
    /\ UNCHANGED <<meta, up, touched, faults, restarts, dest>>

EntriesDone(j) ==
    /\ job[j].pc \in {"entries", "file"} /\ dl[j].todo = {} /\ DOMAIN dl[j].tasks = {}
    /\ EndStage(j, dl[j])
    /\ UNCHANGED <<meta, up, touched, faults, restarts, dest>>

\* Update rewrites the metadata of the destination: the one descriptor found
\* there is deleted, then its file lists, then the new ones are published.
RewriteMetadata(j) ==
    /\ \/ /\ job[j].pc = "drop"
          /\ IF OneDescriptor(j)
             THEN dest' = [dest EXCEPT ![j].desc = <<>>] /\ EndStage(j, dl[j])
             ELSE FailStage(j) /\ UNCHANGED dest
       \/ /\ job[j].pc = "dropLists" /\ DOMAIN dest[j].lists # {}
          /\ \E k \in DOMAIN dest[j].lists :
                dest' = [dest EXCEPT ![j].lists = Del(@, {k})]
          /\ UNCHANGED <<job, dl>>
       \/ /\ job[j].pc = "dropLists" /\ DOMAIN dest[j].lists = {}
          /\ EndStage(j, dl[j])
          /\ UNCHANGED dest
    /\ UNCHANGED <<meta, up, touched, faults, restarts>>

DownloadInit ==
    /\ StoreInit
    /\ dl = [j \in Jobs |-> NewDownload]
    /\ dest = [j \in Jobs |-> Holding(job[j].spec.local)]

DownloadStep(j) ==
    \/ StartDownload(j) \/ DestStore(j) \/ PopulateFiles(j) \/ SetLatestOrLabelledBundle(j)
    \/ UnpackBundleDescriptor(j) \/ DownloadBundleFileList(j)
    \/ DownloadBundleFileListFile(j) \/ ReceiveFileList(j) \/ FileListsDone(j)
    \/ DownloadBundleEntries(j) \/ DownloadBundleEntry(j) \/ ReceiveEntryError(j)
    \/ EntriesDone(j) \/ RewriteMetadata(j)
-----------------------------------------------------------------------------
(* Properties                                                              *)

\* Invariant: a Publish, PublishFile or Update that reports success leaves in
\* the destination exactly the selected files of the bundle and that bundle's
\* metadata (and, when the directory may hold other files, those files), a
\* listing of files shows the files of the bundle, and a Diff shows what turns
\* the local bundle into the remote one: whatever order lists and entries
\* arrive in, with the bundle or others being deleted meanwhile (but not
\* rewritten), and also when the command was interrupted before and run again
\* on what that left.
TransferRight ==
    \A j \in Jobs :
        LET d == dl[j]
            s == job[j].spec
            whole == ContentOf(d.bundle, d.by)
            want == {e \in whole : Selected(s, e)}
            files == {<<n, dest[j].files[n]>> : n \in DOMAIN dest[j].files}
            here == Range(d.source)
            diff == DiffBundles(here, Range(d.entries))
            gone == {t[2][1] : t \in diff} IN
        /\ Kind(j) \in Downloads /\ job[j].pc = "ok"
        /\ \A i \in Jobs : Kind(i) # "deleteEntries"
        =>
            CASE s.kind \in {"publish", "file", "update"} ->
                    /\ files = want \cup (IF s.kind = "update" \/ s.local = 0 THEN {}
                                         ELSE Range(Archive[s.local]))
                    /\ d.bundle \in DOMAIN dest[j].desc
                    /\ UNION {Range(dest[j].lists[k]) :
                                 k \in {x \in DOMAIN dest[j].lists : x[1] = d.bundle}} = whole
                    /\ s.kind = "update" => DOMAIN dest[j].desc = {d.bundle}
              [] s.kind = "diff" ->
                    {e \in here : e[1] \notin gone} \cup {t[2] : t \in {x \in diff : x[1] # "Del"}}
                       = whole
              [] OTHER -> Range(d.entries) = whole /\ Cardinality(DOMAIN d.entries) = Cardinality(whole)
=============================================================================
