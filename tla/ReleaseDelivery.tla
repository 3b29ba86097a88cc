---------------------------- MODULE ReleaseDelivery ----------------------------
(***************************************************************************)
(* One job from what the catalog lists to what the library gets: which     *)
(* archives are asked for, where the service keeps them, and what is made  *)
(* of them once they are here.                                             *)
(*                                                                         *)
(* Source: dla-application/src/delivery.rs (newest_release, deliver),      *)
(* dla-delivery/src/locator.rs and client.rs, and src-tauri/src/delivery.rs*)
(* (KnownDigests, KnownDigestHasher, ShellInstaller).                      *)
(* The service keeps a folder per month, with a manifest that names its    *)
(* archives and is replaced at any time, each time with a new date.  How   *)
(* an archive is transferred is the subject of ArchiveTransfer, how it is  *)
(* recognised and unpacked of Detection, Scanner and PackageInstall.       *)
(***************************************************************************)
EXTENDS Naturals, Sequences

CONSTANTS
    Manifests,     \* sequence of what a manifest may hold: its size, whether it parses,
                  \* and its files
    Starts,       \* what the catalog lists for the work, the months its dates name, the
                  \* update first, and what the service holds at first: per month an index
                  \* in Manifests, Bare for a folder without manifest, Gone for no folder
    MaxRuns,      \* bound: runs of the job
    MaxEvents     \* bound: changes on the service, steps that fail, changes of what was
                  \* downloaded

VARIABLES
    server,     \* per month: what its folder holds, and since when
    saved,      \* the remembered months on disk
    roms, hints,
    job,        \* archives, their places once located, how many are complete, status
    at,         \* the step of the run
    search,     \* a lookup: stage, months left, months remembered, archives found, and the
                \* manifest that was listed and is about to be read
    staged,     \* the downloaded archives: what is in them, and since when
    known,      \* KnownDigests: per archive since when it is known, 0 for not known
    runs,
    events,     \* how many there were, which also tells the time
    named,      \* history: what the manifests named while the lookup ran
    through,    \* history: archives a manifest named from the start of the lookup on
    early       \* history: archives changed after they were verified and before they were known

vars == <<server, saved, roms, hints, job, at, search, staged, known, runs, events, named,
          through, early>>

Months == DOMAIN server
Bare == 0
Gone == Len(Manifests) + 1
NoPlace == <<0, 0>>
NoMonth == [size |-> 0, date |-> 0, files |-> {}]
NoSearch == [stage |-> "none", todo |-> <<>>, searched |-> {}, cache |-> <<>>, found |-> <<>>,
             listed |-> [size |-> 0, date |-> 0]]

TypeOK ==
    /\ \A m \in Months : server[m].holds \in 0..Gone /\ server[m].date \in 0..MaxEvents
    /\ job.status \in {"none", "running", "stopped", "failed", "missing", "installed", "review"}
    /\ Len(job.places) = Len(job.archives) /\ job.complete \in 0..Len(job.archives)
    /\ at \in {"idle", "list", "read", "root", "save", "fetch", "remember", "scan", "create",
               "prepare", "review"}
    /\ (at = "idle") = (job.status # "running")
    /\ early \subseteq DOMAIN staged

Init ==
    /\ \E s \in Starts :
          /\ server = [m \in DOMAIN s.server |-> [holds |-> s.server[m], date |-> 0]]
          /\ roms = s.roms /\ hints = s.hints
    /\ saved = [m \in Months |-> NoMonth]
    /\ job = [archives |-> <<>>, places |-> <<>>, complete |-> 0, status |-> "none"]
    /\ at = "idle" /\ search = NoSearch /\ staged = <<>> /\ known = <<>>
    /\ runs = 0 /\ events = 0 /\ named = {} /\ through = {} /\ early = {}

-----------------------------------------------------------------------------
(* Which archives: newest_release.                                         *)

Group(r) == <<r.date, r.version>>
FirstOf(g) == CHOOSE i \in DOMAIN roms :
                 Group(roms[i]) = g /\ \A j \in 1..(i - 1) : Group(roms[j]) # g

\* The group with the latest date; of equally dated ones the later in the catalog.
Newest ==
    LET groups == {Group(roms[i]) : i \in DOMAIN roms}
    IN CHOOSE g \in groups : \A h \in groups :
          h[1] < g[1] \/ (h[1] = g[1] /\ FirstOf(h) <= FirstOf(g))

NewestRelease == SelectSeq(roms, LAMBDA r : Group(r) = Newest)
Verifiable(r) == r.size > 0 /\ r.digest # 0

Queue ==
    /\ job.status = "none" /\ roms # <<>>
    /\ \A i \in DOMAIN NewestRelease : Verifiable(NewestRelease[i])
    /\ LET Nothing(x) == [i \in DOMAIN NewestRelease |-> x] IN
       /\ job' = [archives |-> NewestRelease, places |-> Nothing(NoPlace), complete |-> 0,
                  status |-> "stopped"]
       /\ staged' = Nothing([digest |-> 0, since |-> 0]) /\ known' = Nothing(0)
    /\ UNCHANGED <<server, saved, roms, hints, at, search, runs, events, named, through, early>>

-----------------------------------------------------------------------------
(* Where they are: ManifestLocator.                                        *)

Parses(m) == server[m].holds \notin {Bare, Gone} /\ Manifests[server[m].holds].valid
FilesOf(m) == IF Parses(m) THEN {f \in Manifests[server[m].holds].files : f.digest # 0} ELSE {}

\* The files of a month by digest: of two files with one digest the later name stays.
ByDigest(files) == {f \in files : \A g \in files : g.digest = f.digest => g.name <= f.name}
Fits(f, archive) == f.digest = archive.digest /\ f.size \in {0, archive.size}
Names(m, i) == \E f \in ByDigest(FilesOf(m)) : Fits(f, job.archives[i])
NowNamed(m) == {<<m, f.name, f.digest>> : f \in FilesOf(m)}

AllFound(found) == \A i \in DOMAIN found : found[i] # NoPlace

\* A run of the job: deliver looks the archives up unless their places are recorded.
Run ==
    /\ job.status \in {"stopped", "failed", "missing"} /\ runs < MaxRuns
    /\ runs' = runs + 1
    /\ job' = [job EXCEPT !.status = "running"]
    /\ IF \E i \in DOMAIN job.places : job.places[i] = NoPlace
       THEN /\ search' = [stage |-> "hinted", todo |-> hints, searched |-> {}, cache |-> saved,
                          found |-> job.places, listed |-> NoSearch.listed]
            /\ at' = IF hints = <<>> THEN "root" ELSE "list"
            /\ named' = {}
            /\ through' = {p \in Months \X DOMAIN job.archives : Names(p[1], p[2])}
       ELSE at' = "fetch" /\ UNCHANGED <<search, named, through>>
    /\ UNCHANGED <<server, saved, roms, hints, staged, known, events, early>>

\* The end of a run: a control that was asked to stop, a service that does not answer or
\* refuses, a step that fails.
Ends(status) ==
    /\ job' = [job EXCEPT !.status = status] /\ at' = "idle" /\ search' = NoSearch
    /\ UNCHANGED <<server, saved, roms, hints, staged, runs, named, through>>

Fails ==
    /\ at # "idle" /\ events < MaxEvents /\ events' = events + 1
    /\ \E s \in {"stopped", "failed"} : Ends(s)
    /\ known' = [i \in DOMAIN known |-> 0] /\ early' = {}

\* What follows the search of a month.  The hinted months are all searched; of the others
\* no more than it takes.
Proceeds(s) ==
    LET next == [s EXCEPT !.todo = Tail(@), !.searched = @ \cup {Head(s.todo)}]
        more == SelectSeq(next.todo, LAMBDA m : m \notin next.searched)
    IN /\ search' = [next EXCEPT !.todo = more]
       /\ at' = IF more # <<>> /\ (s.stage = "hinted" \/ ~AllFound(s.found)) THEN "list"
                ELSE IF s.stage = "hinted" /\ ~AllFound(s.found) THEN "root"
                ELSE "save"

\* The archives a month names are found there, unless they were found before.
Found(s, m, month) ==
    [s EXCEPT !.found = [i \in DOMAIN @ |->
        IF @[i] = NoPlace /\ \E f \in month.files : Fits(f, job.archives[i])
        THEN <<m, (CHOOSE f \in month.files : Fits(f, job.archives[i])).name>> ELSE @[i]]]

\* (Wrong form.) A manifest of the same size is taken for the one that is remembered.
SameSize(month, listed) == month # NoMonth /\ month.size = listed.size

\* The remembered month is that of the listed manifest.
Unchanged(month, listed) ==
    month # NoMonth /\ month.size = listed.size /\ month.date = listed.date

\* month, until the manifest is asked for.
ListMonth ==
    LET m == Head(search.todo)
        listed == [size |-> Manifests[server[m].holds].size, date |-> server[m].date]
        Kept == search.cache[m] IN
    /\ at = "list" /\ UNCHANGED <<server, saved, roms, hints, job, staged, known, runs, events, through, early>>
    /\ IF m \notin Months \/ server[m].holds \in {Bare, Gone}
       THEN Proceeds(search) /\ UNCHANGED named
       ELSE /\ named' = named \cup NowNamed(m)
            /\ IF Unchanged(Kept, listed)
               THEN Proceeds(Found(search, m, Kept))
               ELSE at' = "read" /\ search' = [search EXCEPT !.listed = listed]

\* month: the manifest is read and remembered as the one that was listed.  One that is gone
\* ends the lookup, one that does not parse is as good as none.
ReadMonth ==
    LET m == Head(search.todo)
        month == [size |-> search.listed.size, date |-> search.listed.date,
                  files |-> ByDigest(FilesOf(m))] IN
    /\ at = "read"
    /\ IF server[m].holds \in {Bare, Gone}
       THEN Ends("failed") /\ UNCHANGED <<known, events, early>>
       ELSE /\ IF Parses(m)
               THEN Proceeds(Found([search EXCEPT !.cache[m] = month], m, month))
               ELSE Proceeds(search)
            /\ named' = named \cup NowNamed(m)
            /\ UNCHANGED <<server, saved, roms, hints, job, staged, known, runs, events, through,
                           early>>

\* locate: the folders that were not searched, newest first.
ListRoot ==
    /\ at = "root"
    /\ LET folders == SelectSeq([n \in 1..Len(server) |-> Len(server) + 1 - n],
                         LAMBDA m : server[m].holds # Gone /\ m \notin search.searched)
       IN /\ search' = [search EXCEPT !.stage = "all", !.todo = folders]
          /\ at' = IF folders = <<>> THEN "save" ELSE "list"
    /\ UNCHANGED <<server, saved, roms, hints, job, staged, known, runs, events, named, through,
                   early>>

\* save_cache, which may fail unnoticed, and the answer; places are recorded all at once.
SaveCache ==
    /\ at = "save"
    /\ \/ saved' = search.cache /\ UNCHANGED events
       \/ events < MaxEvents /\ events' = events + 1 /\ UNCHANGED saved
    /\ IF AllFound(search.found)
       THEN job' = [job EXCEPT !.places = search.found] /\ at' = "fetch"
       ELSE job' = [job EXCEPT !.status = "missing"] /\ at' = "idle"
    /\ search' = [NoSearch EXCEPT !.found = search.found]
    /\ UNCHANGED <<server, roms, hints, staged, known, runs, named, through, early>>

-----------------------------------------------------------------------------
(* What is made of them: the transfer, KnownDigests, ShellInstaller.       *)

\* The next archive is fetched from its place, and kept if it is the one that was asked for.
Fetch ==
    LET i == job.complete + 1 IN
    /\ at = "fetch"
    /\ IF i > Len(job.archives) THEN at' = "remember" /\ UNCHANGED <<job, staged>>
       ELSE LET m == job.places[i][1] IN
            IF \E f \in FilesOf(m) : <<f.name, f.digest>> = <<job.places[i][2], job.archives[i].digest>>
            THEN /\ job' = [job EXCEPT !.complete = i]
                 /\ UNCHANGED at
                 /\ staged' = [staged EXCEPT ![i] = [digest |-> job.archives[i].digest,
                                                     since |-> events + 1]]
            ELSE job' = [job EXCEPT !.status = "failed"] /\ at' = "idle" /\ UNCHANGED staged
    /\ UNCHANGED <<server, saved, roms, hints, search, known, runs, events, named, through, early>>

\* Every archive of the job is known as what the job says it is, since its last change.
Remember ==
    /\ at = "remember" /\ at' = "scan"
    /\ known' = [i \in DOMAIN known |-> staged[i].since]
    /\ early' = {i \in DOMAIN staged : staged[i].digest # job.archives[i].digest}
    /\ UNCHANGED <<server, saved, roms, hints, job, search, staged, runs, events, named, through>>

\* KnownDigestHasher: an archive that is known and did not change since is not read.
Digest(i) == IF known[i] = staged[i].since THEN job.archives[i].digest ELSE staged[i].digest

\* The staging folder is scanned; an archive of the work makes the work recognised.
Scan ==
    /\ at = "scan"
    /\ IF \E i \in DOMAIN staged : Digest(i) = job.archives[i].digest
       THEN at' = "create" /\ UNCHANGED <<job, known>>
       ELSE /\ job' = [job EXCEPT !.status = "failed"] /\ at' = "idle"
            /\ known' = [i \in DOMAIN known |-> 0]
    /\ UNCHANGED <<server, saved, roms, hints, search, staged, runs, events, named, through, early>>

Settles(status) ==
    /\ job' = [job EXCEPT !.status = status] /\ at' = "idle"
    /\ known' = [i \in DOMAIN known |-> 0]

\* create_or_refresh and execute_now: a preparation that fails, or leaves nothing to start,
\* is left to its user; one that was made before, or has something to start, is accepted.
Create == at = "create" /\ at' = "prepare" /\ UNCHANGED <<job, known>>
Prepare ==
    /\ at = "prepare"
    /\ \/ at' = "review" /\ UNCHANGED <<job, known>>
       \/ Settles("review")
Review == at = "review" /\ (Settles("installed") \/ Settles("review"))

Install ==
    /\ Create \/ Prepare \/ Review
    /\ UNCHANGED <<server, saved, roms, hints, search, staged, runs, events, named, through, early>>

-----------------------------------------------------------------------------
(* What happens meanwhile.                                                 *)

\* The service replaces or removes a manifest, or a folder.
Publish ==
    /\ events < MaxEvents /\ events' = events + 1
    /\ \E m \in Months, holds \in 0..Gone :
          /\ holds # server[m].holds
          /\ server' = [server EXCEPT ![m] = [holds |-> holds, date |-> events + 1]]
          /\ through' = {p \in through : p[1] # m}
    /\ UNCHANGED <<saved, roms, hints, job, at, search, staged, known, runs, named, early>>

\* Something changes what was downloaded.
Edit ==
    /\ events < MaxEvents /\ events' = events + 1
    /\ \E i \in 1..job.complete :
          staged' = [staged EXCEPT ![i] = [digest |-> 0, since |-> events + 2]]
    /\ UNCHANGED <<server, saved, roms, hints, job, at, search, known, runs, named, through, early>>

Next ==
    \/ Queue \/ Run \/ Fails \/ ListMonth \/ ReadMonth \/ ListRoot \/ SaveCache
    \/ Fetch \/ Remember \/ Scan \/ Install \/ Publish \/ Edit

Spec == Init /\ [][Next]_vars

-----------------------------------------------------------------------------

\* newest_release: the archives of a job are all of one release, and none is later.
AsksForNewest ==
    job.archives # <<>> =>
        /\ \A i \in DOMAIN roms : roms[i].date <= job.archives[1].date
        /\ Len(job.archives) =
              Len(SelectSeq(roms, LAMBDA r : Group(r) = Group(job.archives[1])))

\* A place that is answered was named for the archive while the lookup ran, by a manifest
\* and not by what was remembered of an older one.
PlacesWereNamed ==
    at = "fetch" /\ job.complete = 0 /\ AllFound(search.found) /\ search.found # <<>> =>
        \A i \in DOMAIN job.archives :
            <<job.places[i][1], job.places[i][2], job.archives[i].digest>> \in named

\* "is not in the DLA archive": no month has named the archive from the start of the lookup
\* to its end.
MissingIsMissing ==
    job.status = "missing" =>
        \A i \in DOMAIN search.found :
            search.found[i] = NoPlace => \A p \in through : p[2] # i

\* "An entry counts only while the file keeps the size and modification time it had then"
\* (delivery.rs:507): an archive that is believed unread is what it is believed to be, unless
\* it was changed between its verification and the installation.
BelievedIsGenuine ==
    at = "scan" => \A i \in DOMAIN staged \ early : Digest(i) = staged[i].digest

DeliveredIsAsked ==
    TypeOK /\ AsksForNewest /\ PlacesWereNamed /\ MissingIsMissing /\ BelievedIsGenuine
=============================================================================
