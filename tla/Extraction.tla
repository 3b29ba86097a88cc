------------------------------ MODULE Extraction ------------------------------
(***************************************************************************)
(* Unpacking a package into its staging folder: the listing of the archive *)
(* (read by the launcher for ZIP, by an external tool for RAR), the        *)
(* comparison of the volumes with what was scanned, the extraction, the    *)
(* comparison of what was unpacked with the listing, and the marker that   *)
(* makes the folder an installation.  What comes after, the activation     *)
(* under the destination's name, is module PackageInstall.                 *)
(*                                                                         *)
(* Source: extract, validate_*, extract_zip, extract_rar, follow_percent,  *)
(* extracted_so_far, verify_staging and write_marker of dla-archive/src/   *)
(* installer.rs; lib.rs, rar.rs, rar_tool.rs and source.rs beside it.  The *)
(* archive may be replaced by another program at any time; one that was    *)
(* replaced does not come back.                                            *)
(***************************************************************************)
EXTENDS Integers, Sequences, FiniteSets, SequencesExt

CONSTANTS
    Archives,    \* archives a package may be: sequences of entries
    Others,      \* archives that may replace it
    Requests,    \* what is asked: reader, volumes, hashes known, action, tools, disk
    MaxEntries,  \* bound of the code: entries of a listing
    MaxListing,  \* bound of the code: what is kept of a tool's listing, in entries
    MaxTotal,    \* bound of the code: bytes a total can count
    MaxUnpackFaults   \* bound: volumes replaced, steps that fail

VARIABLES
    request, archive, other,   \* what is asked; the archive scanned, what may replace it
    volumeState,  \* each volume: "scanned", "other", "resized", "link" or "gone"
    phase,     \* where the installer is
    manifest,  \* the listing it works from
    opened,    \* the ZIP archive it reads
    todo,      \* volumes with a known hash that are not compared yet
    next,      \* the entry the launcher or the tool is at
    running,   \* the external tool runs
    percent,   \* the highest percentage 7-Zip printed
    stagingFolder,  \* the folder: [there, marks, files, folders]
    progress,  \* the counters published while it unpacks: [bytes, files]
    unpackCancelled,  \* the user cancelled
    unpackFaults,
    hashed,    \* history: volumes compared with their hash and unchanged since
    shrunk,    \* history: the progress went back
    left       \* history: the staging folder could not be removed

unpackVars == <<request, archive, other, volumeState, phase, manifest, opened, todo, next, running,
                percent, stagingFolder, progress, unpackCancelled, unpackFaults, hashed, shrunk,
                left>>
asked == <<request, archive, other>>

-----------------------------------------------------------------------------
(* Entries and listings.  An entry is [name, dir, size, real, content,     *)
(* flaw]: size is declared, real what unpacking it yields.                 *)

Outside == "../game"
EntryNames == {"game", "GAME", "work", "work/game", Outside, ".dla-stage.json", ".DLA-STAGE.JSON"}
Lower(n) == IF n = "GAME" THEN "game" ELSE IF n = ".DLA-STAGE.JSON" THEN ".dla-stage.json" ELSE n
Reserved == {".dla-stage.json"}
FirstPart(n) == IF n = "work/game" THEN "work" ELSE n
Enclosed(n) == n # Outside

Entries == [name : EntryNames, dir : BOOLEAN, size : Nat, real : Nat, content : Nat,
            flaw : {"none", "link", "encrypted"}]
\* Bounds are naturals; archives are listings of entries, and a request names a reader and
\* the volumes whose hash is known.
ASSUME ExtractBounds ==
    /\ MaxEntries \in Nat /\ MaxListing \in Nat /\ MaxTotal \in Nat /\ MaxUnpackFaults \in Nat
    /\ Archives \subseteq Seq(Entries) /\ Others \subseteq Seq(Entries)
    /\ \A r \in Requests : r.reader \in {"zip", "rar"} /\ r.known \subseteq r.volumes

NoStaging == [there |-> FALSE, marks |-> {}, files |-> <<>>, folders |-> {}]
NoProgress == [bytes |-> 0, files |-> 0]
NoManifest == [entries |-> <<>>, total |-> 0, files |-> 0, issues |-> {}]
MarkerSize == 1

Total(entries) == FoldSeq(LAMBDA e, sum : e.size + sum, 0, entries)
Files(entries) == {i \in DOMAIN entries : ~entries[i].dir}

\* What is wrong with an entry; two of one path, or of paths that differ by case only.
IssuesOf(entries, i) ==
    LET e == entries[i]
        Before == {j \in 1..(i - 1) : Enclosed(entries[j].name)}
    IN (IF Enclosed(e.name) THEN {} ELSE {"unsafe_archive_path"})
       \cup (IF e.flaw = "link" THEN {"archive_symlink"} ELSE {})
       \cup (IF e.flaw = "encrypted" THEN {"encrypted_archive_entry"} ELSE {})
       \cup (IF Enclosed(e.name) /\ \E j \in Before : entries[j].name = e.name
             THEN {"duplicate_archive_path"} ELSE {})
       \cup (IF Enclosed(e.name) /\ \E j \in Before : Lower(entries[j].name) = Lower(e.name)
             THEN {"case_colliding_archive_path"} ELSE {})

ManifestOf(entries) ==
    [entries |-> entries, total |-> Total(entries), files |-> Cardinality(Files(entries)),
     issues |-> UNION {IssuesOf(entries, i) : i \in DOMAIN entries}]

\* The folder all the entries have in common.
CommonRoot(entries) ==
    LET roots == {FirstPart(entries[i].name) :
                    i \in {j \in DOMAIN entries : Enclosed(entries[j].name)}}
    IN IF Cardinality(roots) = 1 THEN CHOOSE r \in roots : TRUE ELSE "none"

\* The bounds of both readers; a listing of a tool has another, and is not empty.
ZipListed(entries) == Len(entries) <= MaxEntries /\ Total(entries) <= MaxTotal
RarListed(entries) ==
    /\ entries # <<>> /\ Len(entries) <= MaxListing
    /\ Len(entries) <= MaxEntries /\ Total(entries) <= MaxTotal

\* validate_internal_paths: no entry takes the name of a marker.
TakesMarker(m) == \E i \in DOMAIN m.entries : Lower(m.entries[i].name) \in Reserved

\* The first tool that is installed; the next is tried only when one is missing.
InstalledTools == {i \in DOMAIN request.tools : request.tools[i].present}
Tool == request.tools[CHOOSE i \in InstalledTools : \A j \in InstalledTools : i <= j].kind

\* What the volumes hold now, and whether they are the files that were scanned.
Present ==
    IF \A v \in request.volumes : volumeState[v] \in {"scanned", "link"} THEN archive ELSE other
There == \A v \in request.volumes : volumeState[v] # "gone"
Resolved == \A v \in request.volumes : volumeState[v] \in {"scanned", "other"}

-----------------------------------------------------------------------------
(* 7-Zip's progress: it redraws "NN% - name" with backspaces.              *)

Percent == 10
Redraw == 11
Letter == 12
Lines == {<<4, 0, Percent, Letter, 9, 9, Percent, Redraw, 8, 0, Percent>>, <<2, 0, 0, Percent>>,
          <<Letter, 1, 0, Percent>>, <<5, 0, Letter, Percent>>}

\* follow_percent, a character further: the number that is read, and whether it is a name's.
TakeChar(c, s) ==
    CASE c = Redraw -> [s EXCEPT !.digits = -1, !.inName = FALSE]
      [] c \in 0..9 /\ ~s.inName ->
           [s EXCEPT !.digits = IF s.digits = -1 THEN c ELSE 10 * s.digits + c]
      [] c = Percent /\ ~s.inName ->
           [digits |-> -1, inName |-> TRUE,
            best |-> IF s.digits \in (s.best + 1)..100 THEN s.digits ELSE s.best]
      [] OTHER -> [s EXCEPT !.digits = -1]

\* follow_percent: the highest number before a "%" that is not in a name.
Follow(line, highest) ==
    FoldLeft(LAMBDA s, c : TakeChar(c, s),
             [digits |-> -1, inName |-> FALSE, best |-> highest], line).best

-----------------------------------------------------------------------------

UnpackTypeOK ==
    /\ request \in Requests /\ archive \in Archives /\ other \in Others
    /\ volumeState \in [request.volumes -> {"scanned", "other", "resized", "link", "gone"}]
    /\ phase \in {"read", "resolve", "hash", "open", "zip", "rar", "verify", "mark", "sign",
                  "activate", "ready", "clean", "failed"}
    /\ manifest.issues \subseteq
         {"unsafe_archive_path", "archive_symlink", "encrypted_archive_entry",
          "duplicate_archive_path", "case_colliding_archive_path"}
    /\ todo \subseteq request.volumes /\ next \in 1..(MaxEntries + 1)
    /\ running \in BOOLEAN /\ percent \in 0..100
    /\ stagingFolder.marks \subseteq {"stage", "install"}
    /\ DOMAIN stagingFolder.files \subseteq EntryNames
    /\ unpackCancelled \in BOOLEAN /\ unpackFaults \in 0..MaxUnpackFaults
    /\ hashed \subseteq request.volumes /\ shrunk \in BOOLEAN /\ left \in BOOLEAN

UnpackInit ==
    /\ request \in Requests /\ archive \in Archives /\ other \in Others \ {archive}
    /\ request.target = "none" \/ \E i \in Files(archive) : archive[i].name = request.target
    /\ volumeState = [v \in request.volumes |-> "scanned"] /\ phase = "read"
    /\ manifest = NoManifest /\ opened = <<>> /\ todo = request.known /\ next = 1
    /\ running = FALSE /\ percent = 0
    /\ stagingFolder = NoStaging /\ progress = NoProgress /\ unpackCancelled = FALSE
    /\ unpackFaults = 0 /\ hashed = {} /\ shrunk = FALSE /\ left = FALSE

UnpackFault == unpackFaults < MaxUnpackFaults /\ unpackFaults' = unpackFaults + 1
UnpackFails(fails) == IF fails THEN UnpackFault ELSE UNCHANGED unpackFaults
\* An error before there is a staging folder; one after it removes what was unpacked.
Leave == phase' = IF stagingFolder.there THEN "clean" ELSE "failed"
Publish(bytes, files) ==
    /\ progress' = [bytes |-> bytes, files |-> files]
    /\ shrunk' = (shrunk \/ bytes < progress.bytes \/ files < progress.files)

-----------------------------------------------------------------------------
(* extract: the listing, the volumes, the room                             *)

\* The ZIP reader resolves links and looks at no size; the RAR reader resolves the set first.
ReadManifest(fails) ==
    /\ phase = "read" /\ ~unpackCancelled /\ UnpackFails(fails)
    /\ LET read == ManifestOf(Present)
           listed == IF request.reader = "zip" THEN There /\ ZipListed(Present)
                     ELSE Resolved /\ InstalledTools # {} /\ RarListed(Present)
       IN IF fails \/ ~listed \/ read.issues # {} \/ TakesMarker(read)
          THEN Leave /\ UNCHANGED manifest
          ELSE manifest' = read /\ phase' = "resolve"
    /\ UNCHANGED <<asked, volumeState, opened, todo, next, running, percent, stagingFolder,
                   progress, unpackCancelled, hashed, shrunk, left>>

ResolveSources ==
    /\ phase = "resolve"
    /\ IF Resolved THEN phase' = "hash" ELSE Leave
    /\ UNCHANGED <<asked, volumeState, manifest, opened, todo, next, running, percent,
                   stagingFolder, progress, unpackCancelled, unpackFaults, hashed, shrunk, left>>

\* Every volume whose hash the scan or the download recorded.
HashVolume(v) ==
    /\ phase = "hash" /\ ~unpackCancelled /\ v \in todo
    /\ IF volumeState[v] = "scanned"
       THEN hashed' = hashed \cup {v} /\ todo' = todo \ {v} /\ UNCHANGED phase
       ELSE Leave /\ UNCHANGED <<hashed, todo>>
    /\ UNCHANGED <<asked, volumeState, manifest, opened, next, running, percent, stagingFolder,
                   progress, unpackCancelled, unpackFaults, shrunk, left>>

\* No volume is left: the destination is looked at, there is room, the folder and its marker
\* are made.
MakeStaging(fails) ==
    /\ phase = "hash" /\ todo = {}
    /\ UnpackFails(fails)
    /\ IF fails THEN Leave /\ UNCHANGED stagingFolder
       ELSE /\ stagingFolder' = [NoStaging EXCEPT !.there = TRUE, !.marks = {"stage"}]
            /\ phase' = "open"
    /\ UNCHANGED <<asked, volumeState, manifest, opened, todo, next, running, percent, progress,
                   unpackCancelled, hashed, shrunk, left>>

\* The ZIP archive is opened, or the first tool that is installed is started.
Open(fails) ==
    /\ phase = "open" /\ UnpackFails(fails)
    /\ IF fails \/ ~There \/ (request.reader = "rar" /\ InstalledTools = {})
       THEN Leave /\ UNCHANGED <<opened, running>>
       ELSE IF request.reader = "zip"
       THEN opened' = Present /\ phase' = "zip" /\ UNCHANGED running
       ELSE running' = TRUE /\ phase' = "rar" /\ UNCHANGED opened
    /\ UNCHANGED <<asked, volumeState, manifest, todo, next, percent, stagingFolder, progress,
                   unpackCancelled, hashed, shrunk, left>>

-----------------------------------------------------------------------------
(* What is written below the staging folder.  A disk that folds case has   *)
(* one file for two names that differ by case only.                        *)

Same(n, m) == IF request.folds THEN Lower(n) = Lower(m) ELSE n = m
HoldsFile(n) == \E m \in DOMAIN stagingFolder.files : Same(m, n)
WithFile(n, file) ==
    LET taken == {m \in DOMAIN stagingFolder.files : Same(m, n)}
        name == IF taken = {} THEN n ELSE CHOOSE m \in taken : TRUE
    IN [stagingFolder EXCEPT !.there = TRUE,
          !.files = [m \in (DOMAIN @) \cup {name} |-> IF m = name THEN file ELSE @[m]],
          !.folders = @ \cup (IF FirstPart(n) = n THEN {} ELSE {FirstPart(n)})]
WithFolder(n) == [stagingFolder EXCEPT !.there = TRUE, !.folders = @ \cup {n}]
Written(e) == [size |-> e.real, content |-> IF e.flaw = "link" THEN 0 ELSE e.content]
BytesIn(unpacked) == FoldSet(LAMBDA n, sum : unpacked[n].size + sum, 0, DOMAIN unpacked)

\* extract_zip: the entry at the listed place, under the listed name, not over another file.
UnpackZip(fails) ==
    /\ phase = "zip" /\ ~unpackCancelled /\ next <= Len(manifest.entries) /\ UnpackFails(fails)
    /\ LET expected == manifest.entries[next]
           missing == next > Len(opened)
       IN IF fails \/ missing
          THEN Leave /\ UNCHANGED <<stagingFolder, progress, shrunk>>
          ELSE LET e == opened[next] IN
          IF e.dir
          THEN stagingFolder' = WithFolder(expected.name) /\ UNCHANGED <<phase, progress, shrunk>>
          ELSE IF \/ e.flaw # "none" \/ e.size # expected.size \/ e.real # expected.size
                  \/ HoldsFile(expected.name)
          THEN Leave /\ UNCHANGED <<stagingFolder, progress, shrunk>>
          ELSE /\ stagingFolder' = WithFile(expected.name, Written(e))
               /\ Publish(progress.bytes + e.real, progress.files + 1)
               /\ UNCHANGED phase
    /\ next' = next + 1
    /\ UNCHANGED <<asked, volumeState, manifest, opened, todo, running, percent, unpackCancelled,
                   hashed, left>>

EndZip ==
    /\ phase = "zip" /\ next > Len(manifest.entries)
    /\ phase' = "verify"
    /\ UNCHANGED <<asked, volumeState, manifest, opened, todo, next, running, percent,
                   stagingFolder, progress, unpackCancelled, unpackFaults, hashed, shrunk, left>>

\* External: a tool unpacks what the volumes hold.  7-Zip writes links and over files that are
\* there (-y), UnRAR neither (-ol-, -o-); 7-Zip prints a line now and then.
ToolWrites ==
    /\ running /\ There /\ next <= Len(Present) /\ next <= MaxEntries
    /\ Present[next].flaw # "encrypted"
    /\ LET e == Present[next]
           skips == \/ ~Enclosed(e.name) \/ Lower(e.name) \in Reserved
                    \/ Tool # "7z" /\ (e.flaw = "link" \/ HoldsFile(e.name))
       IN stagingFolder' = IF skips THEN stagingFolder ELSE IF e.dir THEN WithFolder(e.name)
                     ELSE WithFile(e.name, Written(e))
    /\ next' = next + 1
    /\ IF Tool = "7z" THEN \E line \in Lines : percent' = Follow(line, percent)
       ELSE UNCHANGED percent
    /\ UNCHANGED <<asked, volumeState, phase, manifest, opened, todo, running, progress,
                   unpackCancelled, unpackFaults, hashed, shrunk, left>>

\* The tool has ended: with success at the end of the archive, with a failure anywhere.
ToolEnds(fails) ==
    /\ phase = "rar" /\ running /\ ~unpackCancelled
    /\ LET whole == There /\ next > Len(Present)
       IN /\ whole \/ fails \/ ~There \/ (next <= Len(Present) /\ Present[next].flaw = "encrypted")
          /\ UnpackFails(fails)
          /\ IF fails \/ ~whole THEN Leave ELSE phase' = "verify"
    /\ running' = FALSE
    /\ UNCHANGED <<asked, volumeState, manifest, opened, todo, next, percent, stagingFolder,
                   progress, unpackCancelled, hashed, shrunk, left>>

\* The share of the listing 7-Zip says it did; the files UnRAR wrote, the marker counted with them.
Measured ==
    IF Tool = "7z"
    THEN [bytes |-> (manifest.total * percent) \div 100,
          files |-> (manifest.files * percent) \div 100]
    ELSE [bytes |-> BytesIn(stagingFolder.files) + MarkerSize,
          files |-> Cardinality(DOMAIN stagingFolder.files) + 1]
AtMost(n, most) == IF n < most THEN n ELSE most

\* Every half a second; a sink that fails ends the tool.
Measure(fails) ==
    /\ phase = "rar" /\ running /\ ~unpackCancelled /\ UnpackFails(fails)
    /\ IF fails THEN running' = FALSE /\ Leave /\ UNCHANGED <<progress, shrunk>>
       ELSE /\ Publish(AtMost(Measured.bytes, manifest.total),
                       AtMost(Measured.files, manifest.files))
            /\ UNCHANGED <<phase, running>>
    /\ UNCHANGED <<asked, volumeState, manifest, opened, todo, next, percent, stagingFolder,
                   unpackCancelled, hashed, left>>

-----------------------------------------------------------------------------
(* verify_staging, the marker, and the ways out                            *)

\* (Wrong form.) As many files as the listing has, and as many bytes.
MatchesInTotal(m, folder) ==
    /\ Cardinality(DOMAIN folder.files) = m.files
    /\ BytesIn(folder.files) = m.total

\* The files and their sizes are those of the listing.
Matches(m, folder) ==
    /\ DOMAIN folder.files = {m.entries[i].name : i \in Files(m.entries)}
    /\ \A i \in Files(m.entries) : folder.files[m.entries[i].name].size = m.entries[i].size

Verified ==
    /\ \A n \in DOMAIN stagingFolder.files : stagingFolder.files[n].content # 0   \* no link
    /\ Matches(manifest, stagingFolder)
    /\ LET root == CommonRoot(archive)
       IN root # "none" => root \in stagingFolder.folders \cup DOMAIN stagingFolder.files
    /\ request.target # "none" =>
         /\ HoldsFile(request.target)
         /\ request.catalog # 0 => \E n \in DOMAIN stagingFolder.files :
              Same(n, request.target) /\ stagingFolder.files[n].content = request.catalog

VerifyStaging(fails) ==
    /\ phase = "verify" /\ ~unpackCancelled /\ UnpackFails(fails)
    /\ IF ~fails /\ Verified THEN phase' = "mark" ELSE Leave
    /\ UNCHANGED <<asked, volumeState, manifest, opened, todo, next, running, percent,
                   stagingFolder, progress, unpackCancelled, hashed, shrunk, left>>

\* The folder stops being a staging folder before it is an installation.
RemoveStageMarker(fails) ==
    /\ phase = "mark" /\ UnpackFails(fails)
    /\ IF fails THEN Leave /\ UNCHANGED stagingFolder
       ELSE stagingFolder' = [stagingFolder EXCEPT !.marks = @ \ {"stage"}] /\ phase' = "sign"
    /\ UNCHANGED <<asked, volumeState, manifest, opened, todo, next, running, percent, progress,
                   unpackCancelled, hashed, shrunk, left>>

SignStaging(fails) ==
    /\ phase = "sign" /\ UnpackFails(fails)
    /\ IF fails THEN Leave /\ UNCHANGED stagingFolder
       ELSE /\ stagingFolder' = [stagingFolder EXCEPT !.marks = @ \cup {"install"}]
            /\ phase' = "activate"
    /\ UNCHANGED <<asked, volumeState, manifest, opened, todo, next, running, percent, progress,
                   unpackCancelled, hashed, shrunk, left>>

\* The last look at the cancellation; from here on module PackageInstall activates the folder.
ActivateUnpacked ==
    /\ phase = "activate" /\ ~unpackCancelled
    /\ phase' = "ready"
    /\ UNCHANGED <<asked, volumeState, manifest, opened, todo, next, running, percent,
                   stagingFolder, progress, unpackCancelled, unpackFaults, hashed, shrunk, left>>

CancelUnpacking ==
    /\ ~unpackCancelled /\ phase \notin {"ready", "clean", "failed"}
    /\ unpackCancelled' = TRUE
    /\ UNCHANGED <<asked, volumeState, phase, manifest, opened, todo, next, running, percent,
                   stagingFolder, progress, unpackFaults, hashed, shrunk, left>>

\* The places that look at the cancellation; the tool is killed and waited for first.
StopCancelled ==
    /\ unpackCancelled /\ phase \in {"read", "hash", "zip", "rar", "verify", "activate"}
    /\ running' = FALSE /\ Leave
    /\ UNCHANGED <<asked, volumeState, manifest, opened, todo, next, percent, stagingFolder,
                   progress, unpackCancelled, unpackFaults, hashed, shrunk, left>>

\* What was unpacked is removed; an error of it is not looked at.
RemoveStaging(fails) ==
    /\ phase = "clean" /\ UnpackFails(fails)
    /\ stagingFolder' = IF fails THEN stagingFolder ELSE NoStaging
    /\ left' = fails /\ phase' = "failed"
    /\ UNCHANGED <<asked, volumeState, manifest, opened, todo, next, running, percent, progress,
                   unpackCancelled, hashed, shrunk>>

\* Another program replaces, truncates, links or removes a volume.
ChangeVolume(v, state) ==
    /\ phase \notin {"ready", "clean", "failed"}
    /\ volumeState[v] = "scanned" /\ state # "scanned" /\ UnpackFault
    /\ volumeState' = [volumeState EXCEPT ![v] = state] /\ hashed' = hashed \ {v}
    /\ UNCHANGED <<asked, phase, manifest, opened, todo, next, running, percent, stagingFolder,
                   progress, unpackCancelled, shrunk, left>>

UnpackNext ==
    \/ \E fails \in BOOLEAN :
         \/ ReadManifest(fails) \/ MakeStaging(fails) \/ Open(fails) \/ UnpackZip(fails)
         \/ ToolEnds(fails) \/ Measure(fails) \/ VerifyStaging(fails)
         \/ RemoveStageMarker(fails) \/ SignStaging(fails) \/ RemoveStaging(fails)
    \/ ResolveSources \/ \E v \in request.volumes : HashVolume(v)
    \/ EndZip \/ ToolWrites \/ ActivateUnpacked \/ CancelUnpacking \/ StopCancelled
    \/ \E v \in request.volumes, state \in {"other", "resized", "link", "gone"} :
         ChangeVolume(v, state)

UnpackSpec == UnpackInit /\ [][UnpackNext]_unpackVars

-----------------------------------------------------------------------------
(* Properties                                                              *)

\* What is about to become the installation is what the listing promised: its
\* files with their sizes, safely named, none of them a link, under the marker
\* of an installation alone, with the program the catalog knows.  When every
\* volume was compared with its hash and not replaced afterwards, each file
\* holds what the scanned archive has under that name.
ReadyIsTheManifest ==
    phase = "ready" =>
      /\ stagingFolder.there /\ stagingFolder.marks = {"install"} /\ ~running
      /\ DOMAIN stagingFolder.files = {manifest.entries[i].name : i \in Files(manifest.entries)}
      /\ \A n \in DOMAIN stagingFolder.files : Enclosed(n) /\ Lower(n) \notin Reserved
      /\ \A n, m \in DOMAIN stagingFolder.files : Lower(n) = Lower(m) => n = m
      /\ \A i \in Files(manifest.entries) :
           stagingFolder.files[manifest.entries[i].name].size = manifest.entries[i].size
      /\ request.target # "none" /\ request.catalog # 0 =>
           /\ HoldsFile(request.target)
           /\ \A n \in DOMAIN stagingFolder.files : Same(n, request.target) =>
                stagingFolder.files[n].content = request.catalog
      /\ hashed = request.volumes =>
           \A i \in Files(archive) :
             stagingFolder.files[archive[i].name].content = archive[i].content

\* Nothing stays of a preparation that failed or was cancelled, and nothing
\* writes there any more, unless the removal itself failed.
FailedLeavesNothing ==
    phase = "failed" => ~running /\ (stagingFolder.there => left)

\* The progress never goes back while a package is unpacked and never passes the
\* listing, whatever a tool prints or writes; a ZIP archive that was replaced
\* may have a file where the listing has a folder.
ProgressFits ==
    /\ ~shrunk
    /\ request.reader = "rar" \/ (\A v \in request.volumes : volumeState[v] = "scanned") =>
         progress.bytes <= manifest.total /\ progress.files <= manifest.files

\* The three, and the types.
UnpackedIsTheManifest ==
    /\ UnpackTypeOK
    /\ ReadyIsTheManifest
    /\ FailedLeavesNothing
    /\ ProgressFits
==============================================================================
