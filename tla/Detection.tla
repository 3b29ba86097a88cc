------------------------------- MODULE Detection -------------------------------
(***************************************************************************)
(* What a folder of files is taken for: which work a file is matched to,   *)
(* what a folder found on disk offers to start, what an archive was        *)
(* prepared to start, and what a media session then opens.                 *)
(*                                                                         *)
(* Source: dla-detection (lib.rs, media.rs, package.rs), inspect_file of   *)
(* dla-application/src/scan_execution.rs, and the reading of prepared      *)
(* packages and of items in dla-application/src/media.rs.                  *)
(* A folder is classified twice by different code: classify_media for      *)
(* files found on disk, classify_package for the manifest of an archive.   *)
(* A package prepared by an older release is classified again when it is   *)
(* read, between a read of its row and a save of the whole row.            *)
(* A file is its place in the order of paths.                              *)
(***************************************************************************)
EXTENDS Naturals, Sequences, FiniteSets, SequencesExt

CONSTANTS
    is,                \* what each file is: directory, extension, name, slug, size
    Folders,           \* sets of files a work may consist of
    Packages,          \* those an archive of it may hold
    Evidence,          \* what a scan may meet: codes in the path, archives of that size
    ImageSetMinimum,   \* images that make a set, 10 in the code
    PdfShare,          \* PDF_SHARE_DIVISOR
    MaxMoves,          \* bound: times the user moves the folder
    MaxInstalls        \* bound: times the archive is installed

Actions == {"none", "launch", "play_audio", "read_images", "open_document", "play_video",
            "open_apk", "open_archive"}
NoFile == 0
NoAction == [action |-> "none", target |-> NoFile, confidence |-> 0, checked |-> FALSE,
             byPdf |-> FALSE]
NoMatch == [outcome |-> "none", work |-> 0, exact |-> FALSE]
NotFound == [state |-> "none", files |-> {}, ready |-> FALSE, list |-> <<>>]
NoRow == [state |-> "none", root |-> 0, action |-> NoAction]
NoSession == [state |-> "none", action |-> NoAction, items |-> {}, of |-> {}, sound |-> FALSE]

VARIABLES
    disk, place,   \* the files and the folder that holds them
    match,         \* the decision of the scan
    found,         \* the detection of the folder found on disk
    chosen,        \* the start action of a one-step add
    ignored,       \* files the user ignores
    row,           \* the row of the prepared package
    reader,        \* a read of that row: where it stands, the row it works on
    session,       \* the media session opened last
    moves, installs,   \* spent bounds
    met,           \* history: what the scan met
    missed,        \* history: the read behind the session could not read or save, or was crossed
    overtaken      \* history: a read saved over what another command had saved meanwhile

vars == <<disk, place, match, found, chosen, ignored, row, reader, session, moves, installs,
          met, missed, overtaken>>

-----------------------------------------------------------------------------
(* lib.rs and inspect_file: which work a file is.                          *)

\* What the archives of the file's size are hashed with: one algorithm for all of them.
Strongest(archives) ==
    LET has(a) == \E c \in archives : a \in c.sums
    IN IF has("sha256") THEN "sha256" ELSE IF has("sha1") THEN "sha1"
       ELSE IF has("md5") THEN "md5" ELSE "none"

\* resolve_archive_hash: the works with an archive of this digest.
HashWorks(archives) ==
    {c.work : c \in {x \in archives : x.same /\ Strongest(archives) \in x.sums}}

\* resolve_scan_identities: one work is a match, two are for the user.
Decided(codes, exact) ==
    LET works == codes \cup exact
    IN [outcome |-> CASE works = {} -> "unmatched"
                      [] Cardinality(works) = 1 -> "matched"
                      [] OTHER -> "ambiguous",
        work |-> IF Cardinality(works) = 1 THEN CHOOSE w \in works : TRUE ELSE 0,
        exact |-> exact # {}]

\* inspect_file.
Inspected(e) == Decided(e.codes, HashWorks(e.archives))

-----------------------------------------------------------------------------
(* media.rs: a folder found on disk.                                       *)

Installer(f) == is[f].name = "setup"
Preferred(f) == is[f].name \in {"game", "launcher"}

\* infer_media_type.
MediaType(f) ==
    IF is[f].name \in {"ignored", "deceptive"}
       \/ is[f].ext \notin {"exe", "audio", "image", "pdf", "video", "apk", "archive"}
    THEN "unknown" ELSE is[f].ext

\* classify_entry: what the candidates are made of.
ClassifiedItem(f) ==
    [installer |-> Installer(f), preferred |-> Preferred(f),
     numbered |-> is[f].numbered]

Typed(S, t) ==
    LET T == {f \in S : MediaType(f) = t}
    IN [k \in 1..Cardinality(T) |-> CHOOSE f \in T : Cardinality({g \in T : g <= f}) = k]
Bytes(S, t) == FoldSeq(LAMBDA f, n : is[f].size + n, 0, Typed(S, t))

Outweigh(images, imageBytes, pdfBytes) ==
    images >= ImageSetMinimum /\ pdfBytes * PdfShare < imageBytes
ImagesOutweighPdfs(S) ==
    Outweigh(Len(Typed(S, "image")), Bytes(S, "image"), Bytes(S, "pdf"))

Candidate(action, f, confidence, base) ==
    [action |-> action, target |-> f, confidence |-> confidence, base |-> base,
     checked |-> FALSE, byPdf |-> FALSE]
Each(seq, Op(_)) == [k \in DOMAIN seq |-> Op(seq[k])]
Single(seq) == IF Len(seq) = 1 THEN 3 ELSE 2

ExecutableCandidates(S) ==
    Each(SelectSeq(Typed(S, "exe"), LAMBDA f : ~ClassifiedItem(f).installer),
         LAMBDA f : Candidate("launch", f, IF ClassifiedItem(f).preferred THEN 3 ELSE 2, <<"launch">> \o is[f].slug))

AudioCandidates(S) ==
    LET audio == Typed(S, "audio")
    IN CASE audio = <<>> -> <<>>
         [] Len(audio) = 1 -> <<Candidate("play_audio", audio[1], 3, <<"play">> \o is[audio[1]].slug)>>
         [] OTHER -> <<Candidate("play_audio", NoFile, 3, <<"play-album">>)>>

PdfCandidates(S, beside) ==
    LET pdfs == Typed(S, "pdf")
    IN Each(pdfs, LAMBDA f : Candidate("open_document", f, IF beside THEN 1 ELSE Single(pdfs),
            IF Len(pdfs) = 1 THEN <<"open-pdf">> ELSE <<"open">> \o is[f].slug))

ImageCandidates(S) ==
    LET images == Typed(S, "image")
        numbered == \A k \in DOMAIN images : ClassifiedItem(images[k]).numbered
    IN IF Len(images) < 2 THEN <<>>
       ELSE <<Candidate("read_images", NoFile, IF numbered THEN 3 ELSE 2, <<"read-images">>)>>

VideoCandidates(S) ==
    LET videos == Typed(S, "video")
    IN Each(videos, LAMBDA f : Candidate("play_video", f, Single(videos), <<"play">> \o is[f].slug))

AndroidCandidates(S) ==
    LET apks == Typed(S, "apk")
    IN Each(apks, LAMBDA f : Candidate("open_apk", f, Single(apks),
            IF Len(apks) = 1 THEN <<"open-android-package">> ELSE <<"open">> \o is[f].slug))

ArchiveCandidate(S) ==
    LET archives == Typed(S, "archive")
    IN IF Len(archives) = 1
       THEN <<Candidate("open_archive", archives[1], 2, <<"open">> \o is[archives[1]].slug)>> ELSE <<>>

\* generate_candidates.
Candidates(S) ==
    LET read == IF ImagesOutweighPdfs(S) THEN ImageCandidates(S) \o PdfCandidates(S, TRUE)
                ELSE PdfCandidates(S, FALSE) \o ImageCandidates(S)
        list == ExecutableCandidates(S) \o AudioCandidates(S) \o read
                \o VideoCandidates(S) \o AndroidCandidates(S)
    IN IF list = <<>> THEN ArchiveCandidate(S) ELSE list

\* CandidateIds: a name that comes again is counted.
Ids(list) ==
    [k \in DOMAIN list |->
        LET n == Cardinality({j \in 1..k : list[j].base = list[k].base})
        IN IF n = 1 THEN list[k].base ELSE Append(list[k].base, ToString(n))]

\* classify_media with the checks of InstallationDetection::validate.
Detected(S, work) ==
    LET list == Candidates(S)
    IN IF IsInjective(Ids(list))
       THEN [state |-> "found", files |-> S, list |-> list,
             ready |-> Len(list) = 1 /\ work # 0]
       ELSE [NotFound EXCEPT !.state = "refused"]

\* recommended_launch: the first of the most confident.
Recommended(list) ==
    IF list = <<>> THEN NoAction
    ELSE LET k == CHOOSE k \in DOMAIN list :
                    /\ \A j \in DOMAIN list : list[j].confidence <= list[k].confidence
                    /\ \A j \in 1..(k - 1) : list[j].confidence < list[k].confidence
         IN [a \in DOMAIN NoAction |-> list[k][a]]

-----------------------------------------------------------------------------
(* package.rs: the manifest of an archive, or what was unpacked.           *)

Action(action, f, confidence) ==
    [action |-> action, target |-> f, confidence |-> confidence, checked |-> FALSE,
     byPdf |-> action = "open_document"]

\* The executables that are no helpers; the game beside its RPG Maker data wins.
Programs(S) == {f \in S : is[f].ext = "exe" /\ is[f].name \notin {"setup", "config"}}
Score(f, S) ==
    25 + (IF is[f].name = "game" THEN 100 ELSE 0)
       + (IF \E g \in S : is[g].ext = "system" /\ is[g].dir = is[f].dir THEN 70 ELSE 0)
ConfidenceFor(score) == IF score >= 120 THEN 3 ELSE IF score >= 60 THEN 2 ELSE 1
BestProgram(S) ==
    LET f == CHOOSE f \in Programs(S) : \A g \in Programs(S) :
                \/ Score(f, S) > Score(g, S)
                \/ Score(f, S) = Score(g, S) /\ f <= g
    IN Action("launch", f, ConfidenceFor(Score(f, S)))

\* preferred_audio_entry: the folder with most tracks.
PreferredAudio(audio) ==
    LET in(d) == SelectSeq(audio, LAMBDA f : is[f].dir = d)
        dirs == {is[audio[k]].dir : k \in DOMAIN audio}
        best == CHOOSE d \in dirs : \A e \in dirs :
                    Len(in(d)) > Len(in(e)) \/ (Len(in(d)) = Len(in(e)) /\ d <= e)
    IN in(best)[1]

ImageCollection(images) == Action("read_images", images[1], IF Len(images) > 1 THEN 3 ELSE 2)

\* classify_package_media_files: the family with most files, none if two have as many.
MediaAction(S) ==
    LET n(t) == Len(Typed(S, t))
        leads(t) == n(t) > 0 /\ \A u \in {"audio", "video", "pdf"} \ {t} : n(t) > n(u)
        images == Typed(S, "image")
    IN CASE leads("audio") -> Action("play_audio", PreferredAudio(Typed(S, "audio")), 3)
         [] leads("video") -> Action("play_video", Typed(S, "video")[1], Single(Typed(S, "video")))
         [] leads("pdf") -> IF ImagesOutweighPdfs(S) THEN ImageCollection(images)
                            ELSE Action("open_document", Typed(S, "pdf")[1], Single(Typed(S, "pdf")))
         [] n("audio") + n("video") + n("pdf") = 0 /\ images # <<>> -> ImageCollection(images)
         [] OTHER -> NoAction

\* classify_safe_manifest.
PackageAction(S) == IF Programs(S) # {} THEN BestProgram(S) ELSE MediaAction(S)

\* The row of an older release: no action, or the PDF it took before images were weighed.
OldRow(S) ==
    LET n(t) == Len(Typed(S, t))
    IN [state |-> "prepared", root |-> 1,
        action |-> IF Programs(S) = {} /\ n("pdf") > n("audio") /\ n("pdf") > n("video")
                   THEN Action("open_document", Typed(S, "pdf")[1], Single(Typed(S, "pdf")))
                   ELSE NoAction]

-----------------------------------------------------------------------------

TypeOK ==
    /\ disk \subseteq DOMAIN is /\ place \in {1, 2} /\ row.root \in 0..2
    /\ match.outcome \in {"none", "matched", "ambiguous", "unmatched"}
    /\ found.state \in {"none", "found", "refused"}
    /\ row.action.action \in Actions /\ chosen.action \in Actions
    /\ reader.stage \in {"off", "read", "save", "answer"}
    /\ session.items \subseteq DOMAIN is /\ session.state \in {"none", "open", "empty", "missing"}
    /\ moves \in 0..MaxMoves /\ installs \in 0..MaxInstalls

Off == [stage |-> "off", row |-> NoRow, checked |-> NoRow]

Init ==
    /\ disk \in Folders /\ place = 1
    /\ match = NoMatch /\ found = NotFound /\ chosen = NoAction /\ ignored = {}
    /\ row \in {NoRow, OldRow(disk)} /\ reader = Off
    /\ session = NoSession /\ moves = 0 /\ installs = 0
    /\ met = [codes |-> {}, archives |-> {}]
    /\ missed = FALSE /\ overtaken = FALSE

-----------------------------------------------------------------------------
(* A folder that is found and added in one step.                           *)

Inspect(e) ==
    /\ match = NoMatch /\ row = NoRow
    /\ match' = Inspected(e) /\ met' = e
    /\ UNCHANGED <<disk, place, found, chosen, ignored, row, reader, session, moves, installs,
                   missed, overtaken>>

\* create_or_refresh, then confirm with the recommended action; a detection that is not
\* valid refuses the add.
Add ==
    /\ match # NoMatch /\ found = NotFound
    /\ found' = Detected(disk, match.work)
    /\ chosen' = Recommended(found'.list)
    /\ UNCHANGED <<disk, place, match, ignored, row, reader, session, moves, installs,
                   met, missed, overtaken>>

Review(I) ==
    /\ found.state = "found" /\ ignored # I /\ ignored' = I
    /\ UNCHANGED <<disk, place, match, found, chosen, row, reader, session, moves, installs,
                   met, missed, overtaken>>

\* target_includes.
TargetIncludes(a, f) ==
    \/ a.target = NoFile
    \/ a.action \in {"play_audio", "read_images"} /\ is[a.target].dir = is[f].dir
    \/ a.target = f
Wanted(a) == CASE a.action = "play_audio" -> "audio" [] a.action = "read_images" -> "image"
               [] a.action = "open_document" -> "pdf" [] a.action = "play_video" -> "video"
               [] OTHER -> "no media"

\* resolve_items.
Items(a, S) == {f \in S : MediaType(f) = Wanted(a) /\ TargetIncludes(a, f)}
Session(a, S, sound) ==
    [state |-> IF a = NoAction THEN "missing" ELSE IF Items(a, S) = {} THEN "empty" ELSE "open",
     action |-> a, items |-> Items(a, S), of |-> S, sound |-> sound]

OpenFound ==
    /\ found.state = "found" /\ row = NoRow /\ Wanted(chosen) # "no media"
    /\ session' = Session(chosen, found.files \ ignored, ignored = {})
    /\ UNCHANGED <<disk, place, match, found, chosen, ignored, row, reader, moves, installs,
                   met, missed, overtaken>>

-----------------------------------------------------------------------------
(* A prepared package.                                                     *)

\* prepare, which classified the manifest when it was inspected.
Install(S) ==
    /\ installs < MaxInstalls /\ installs' = installs + 1 /\ found = NotFound /\ match = NoMatch
    /\ disk' = S /\ place' = 1 /\ overtaken' = FALSE
    /\ missed' = (missed \/ reader.stage # "off")
    /\ row' = [state |-> "prepared", root |-> 1, action |-> PackageAction(S)]
    /\ UNCHANGED <<match, found, chosen, ignored, reader, session, moves, met>>

\* The user moves the folder, and names its new place.
Move ==
    /\ moves < MaxMoves /\ moves' = moves + 1 /\ row # NoRow /\ place' = 3 - place
    /\ UNCHANGED <<disk, match, found, chosen, ignored, row, reader, session, installs,
                   met, missed, overtaken>>

Relocate ==
    /\ row # NoRow /\ row.root # place /\ row' = [row EXCEPT !.root = place]
    /\ UNCHANGED <<disk, place, match, found, chosen, ignored, reader, session, moves, installs,
                   met, missed, overtaken>>

BeginRead ==
    /\ row # NoRow /\ reader.stage = "off"
    /\ reader' = [Off EXCEPT !.stage = "read", !.row = row]
    /\ missed' = FALSE /\ session' = NoSession
    /\ UNCHANGED <<disk, place, match, found, chosen, ignored, row, moves, installs, met,
                   overtaken>>

\* (Wrong form.) A row without its own mark is taken for checked.
NeverAwaits(a) == FALSE

\* awaits_images_check.
AwaitsImagesCheck(a) == a.action = "open_document" /\ a.byPdf /\ ~a.checked

\* recover_prepared_action: an action that is missing is found for this read only; a PDF
\* is weighed against the images and the outcome is saved.
Checked(r, S) ==
    LET a == MediaAction(S)
    IN [r EXCEPT !.action = [IF a.action = "read_images" THEN a ELSE r.action EXCEPT !.checked = TRUE]]

Weigh ==
    /\ reader.stage = "read"
    /\ LET r == reader.row
           there == r.root = place
       IN CASE r.action = NoAction /\ there ->
                 /\ reader' = [reader EXCEPT !.stage = "answer", !.row.action = MediaAction(disk)]
                 /\ UNCHANGED missed
            [] r.action = NoAction /\ ~there ->
                 reader' = Off /\ missed' = TRUE
            [] AwaitsImagesCheck(r.action) /\ there ->
                 /\ reader' = [reader EXCEPT !.stage = "save", !.checked = Checked(r, disk)]
                 /\ UNCHANGED missed
            [] AwaitsImagesCheck(r.action) /\ ~there ->
                 reader' = [reader EXCEPT !.stage = "answer"] /\ missed' = TRUE
            [] OTHER -> reader' = [reader EXCEPT !.stage = "answer"] /\ UNCHANGED missed
    /\ UNCHANGED <<disk, place, match, found, chosen, ignored, row, session, moves, installs,
                   met, overtaken>>

\* recheck_pdf_action: the whole row as it was read, or an error that is only logged.
SaveChecked ==
    /\ reader.stage = "save"
    /\ \/ /\ row' = reader.checked /\ UNCHANGED missed
          /\ reader' = [reader EXCEPT !.stage = "answer", !.row = reader.checked]
          /\ overtaken' = (overtaken \/ row # reader.row)
       \/ /\ reader' = [reader EXCEPT !.stage = "answer"]
          /\ missed' = TRUE /\ UNCHANGED <<row, overtaken>>
    /\ UNCHANGED <<disk, place, match, found, chosen, ignored, session, moves, installs,
                   met>>

\* open, with the items of a second look at the folder.
OpenPrepared ==
    /\ reader.stage = "answer" /\ reader' = Off
    /\ LET a == reader.row.action
           target == IF a.action = "read_images" THEN [a EXCEPT !.target = NoFile] ELSE a
       IN session' = IF reader.row.root # place \/ (a # NoAction /\ Wanted(a) = "no media")
                     THEN NoSession ELSE Session(target, disk, ~missed /\ ~overtaken)
    /\ UNCHANGED <<disk, place, match, found, chosen, ignored, row, moves, installs,
                   met, missed, overtaken>>

Next ==
    \/ \E e \in Evidence : Inspect(e)
    \/ Add \/ \E f \in disk : Review({f})
    \/ OpenFound
    \/ \E S \in Packages : Install(S)
    \/ Move \/ Relocate \/ BeginRead \/ Weigh \/ SaveChecked \/ OpenPrepared

Spec == Init /\ [][Next]_vars

-----------------------------------------------------------------------------

\* A file that the catalog knows by the checksum its size is hashed with is a candidate,
\* and no file is given to a work while its evidence names another.
MatchesKnownFiles ==
    match.outcome # "none" =>
        LET known == HashWorks(met.archives)
        IN /\ match.outcome = "matched" => met.codes \cup known = {match.work}
           /\ known # {} => match.outcome # "unmatched" /\ match.exact

\* What a one-step add starts, opens: the session has files, the one that was recommended
\* among them, unless the user ignores it.  An add is refused only where a name that is
\* counted meets a file of that very name.
RecommendedOpens ==
    /\ found.state = "found" /\ session.sound =>
        /\ session.state = "open"
        /\ session.action.target \in session.items \cup {NoFile}
    /\ found.state = "refused" =>
        \E f, g \in disk : \E n \in 2..Cardinality(disk) : is[f].slug = Append(is[g].slug, ToString(n))

\* Whatever release prepared a package, a session of it opens what today's classifier
\* says of its files, and finds files to open.  Not so after a read that was crossed by an
\* installation, or whose save replaced a row that another command had saved meanwhile.
OldRowsCatchUp ==
    found.state = "none" /\ session.sound /\ Programs(session.of) = {} =>
        LET a == MediaAction(session.of)
        IN /\ session.action.action = a.action /\ session.state # "empty"
           /\ a # NoAction => a.target \in session.items

\* All of them, of well-formed states.
FilesAreRecognised == TypeOK /\ MatchesKnownFiles /\ RecommendedOpens /\ OldRowsCatchUp

=============================================================================
