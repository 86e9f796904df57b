------------------------------ MODULE Commands -------------------------------
(***************************************************************************)
(* The commands of the command line that change or list metadata           *)
(* (cmd/datamon/cmd), each as the sequence of calls of pkg/core it makes;  *)
(* the first that fails ends the command.  BundleDownload has the commands *)
(* that fetch bundles.                                                     *)
(***************************************************************************)
EXTENDS MetaListing

cVars == <<bVars, dVars, ls>>

CreateRepoCommand(s) == <<Op("CreateRepo", s.repo, 0, 0)>>

DeleteRepoCommand(s) == DeleteRepo(s.repo)

DeleteFilesCommand(s) == DeleteEntriesFromRepo(s.repo)

RenameRepoCommand(s) == RenameRepo(s.repo, s.to)

\* label set: the bundle must exist when it is asked for.
SetLabelCommand(s) ==
    <<Op("BundleExists", s.repo, s.bundle, 0)>> \o UploadLabel(s.repo, s.label, s.bundle)

\* label get: DownloadDescriptor with the check of the repo.
GetLabelCommand(s) ==
    <<Op("RepoExists", s.repo, 0, 0), [Op("HasLabel", s.repo, 0, 0) EXCEPT !.name = s.label],
      [Op("GetLabel", s.repo, 0, 0) EXCEPT !.name = s.label]>>

\* repo get --size: the descriptor, then the files of all bundles.
GetRepoCommand(s) ==
    <<Op("RepoExists", s.repo, 0, 0), Op("GetRepo", s.repo, 0, 0)>> \o ListBundlesApply(s.repo)

SquashCommand(s) == RepoSquash(s.repo, s.retain) \o ListBundlesApply(s.repo)

ContextSquashCommand(s) == ListReposApply(s.repo)

ListReposCommand(s) == ListReposApply(s.repo)

ListBundlesCommand(s) == ListBundlesApply(s.repo)

ListLabelsCommand(s) == ListLabelsApply(s.repo)

Agenda(s) ==
    CASE s.kind = "create" -> CreateRepoCommand(s)
      [] s.kind = "deleteRepo" -> DeleteRepoCommand(s)
      [] s.kind = "deleteBundle" ->
            <<Op("RepoExists", s.repo, 0, 0), Op("DeleteBundle", s.repo, s.bundle, 0)>>
      [] s.kind = "deleteEntries" -> DeleteFilesCommand(s)
      [] s.kind = "rename" -> RenameRepoCommand(s)
      [] s.kind = "label" -> SetLabelCommand(s)
      [] s.kind = "getLabel" -> GetLabelCommand(s)
      [] s.kind = "getRepo" -> GetRepoCommand(s)
      [] s.kind = "squash" -> RepoSquash(s.repo, s.retain)
      [] s.kind = "squashCommand" -> SquashCommand(s)
      [] s.kind = "contextSquash" -> ContextSquashCommand(s)
      [] s.kind = "repos" -> ListReposCommand(s)
      [] s.kind = "bundles" -> ListBundlesCommand(s)
      [] s.kind = "labels" -> ListLabelsCommand(s)

Start(j) ==
    /\ job[j].pc = "start" /\ Kind(j) \notin Downloads \cup {"upload"}
    /\ job' = [job EXCEPT ![j].pc = "ops", ![j].ops = Agenda(job[j].spec)]
    /\ ls' = [ls EXCEPT ![j] = NewList]
    /\ UNCHANGED <<meta, touched, faults, Others>>

\* bundle upload: the label follows the bundle.
UploadCommand(j) ==
    LET s == job[j].spec IN
    /\ job[j].pc = "uploaded"
    /\ job' = [job EXCEPT ![j].pc = "ops", ![j].ops = UploadLabel(s.repo, s.label, s.bundle)]
    /\ UNCHANGED <<meta, touched, faults, Others, ls>>

\* Reads of single objects; a missing one is an error.
ReadObject(j) ==
    LET o == Head1(j)
        each(i) == [o EXCEPT !.do = "ReadList", !.n = i]
        bundle == <<o.repo, o.bundle>>
        there == CASE o.do \in {"BundleExists", "ReadBundle"} -> bundle \in DOMAIN desc
                   [] o.do = "ReadList" -> <<o.repo, o.bundle, o.n>> \in DOMAIN list
                   [] OTHER -> <<o.repo, o.name>> \in DOMAIN label IN
    /\ \E do \in {"BundleExists", "ReadBundle", "ReadList", "HasLabel", "GetLabel"} : Doing(j, do)
    /\ IF ~there THEN Fails(j)
       ELSE Becomes(j, IF o.do = "ReadBundle" THEN InOrder(0..desc[bundle].count - 1, each) ELSE <<>>)
    /\ UNCHANGED <<meta, touched, faults, Others, ls>>

\* PopulateFiles of a bundle: repo, descriptor, file lists.
RetrieveFileSizes(r, b) == <<Op("RepoExists", r, 0, 0), Op("ReadBundle", r, b, 0)>>

ApplyRepoSquash(r, s) == RepoSquash(r, s.retain)

\* What a command does with key k of its listing; the others print it.
Apply(s, r, k) ==
    CASE s.kind = "getRepo" -> RetrieveFileSizes(r, k)
      [] s.kind = "contextSquash" -> ApplyRepoSquash(Names[k], s)
      [] OTHER -> <<>>

\* List...Apply: the function is called with the next object, and the listing
\* goes on in the background.
ApplyNext(j) ==
    LET o == Head1(j)
        l == ls[j] IN
    /\ Doing(j, "List") /\ l.out # <<>>
    /\ Becomes(j, Apply(job[j].spec, o.repo, Head(l.out).key) \o <<o>>)
    /\ ls' = [ls EXCEPT ![j].out = Tail(@), ![j].seen = Append(@, Head(l.out))]
    /\ UNCHANGED <<meta, touched, faults, Others>>

CommandsInit ==
    /\ DownloadInit
    /\ ls = [j \in Jobs |-> NewList]

CommandStep(j) ==
    \/ Start(j) \/ UploadCommand(j) \/ ReadObject(j) \/ ApplyNext(j) \/ ListingStep(j)
    \/ RepoStep(j) /\ UNCHANGED ls
    \/ UploadStep(j) /\ UNCHANGED <<dVars, ls>>
    \/ DownloadStep(j) /\ UNCHANGED ls

FaultStep(j) == (Crash(j) \/ Restart(j)) /\ UNCHANGED <<dVars, ls>>
=============================================================================
