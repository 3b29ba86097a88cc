------------------------------ MODULE MCLibrary ------------------------------
(*****************************************************************************)
(* The parts of the launcher that keep the catalog and the library, play     *)
(* what is in it and show the download queue, each checked on a small        *)
(* instance and composed as in MCActivities: a behaviour is about one of     *)
(* them, chosen in the initial state.                                        *)
(*****************************************************************************)
EXTENDS Naturals, Sequences, FiniteSets, TLC, CatalogGenerations, Media,
        NativeVideo, MediaProtocol, Scanner, Installations, LibraryAdd,
        DeliveryViews

\* The files of two works, one of which can lose a file, and their natural order.
MediaContent == ("i1" :> {{"p1", "p2"}, {"p2"}}) @@ ("i2" :> {{"p3"}})
MediaOrder == <<"p1", "p2", "p3">>
\* Files of a scan: two volumes, a misnamed one, a program and a set in a folder, and a
\* program beside them.
ScanFile(n, d, b, s, p) == [n |-> n, dir |-> d, base |-> b, shape |-> s, part |-> p]
SecondVolume == ScanFile(2, "", "a", "part_rar", 2)
ScanFiles ==
    {ScanFile(1, "", "a", "part_rar", 1), SecondVolume, ScanFile(3, "", "a", "misnamed", 2),
     ScanFile(4, "d", "b", "program", 0), ScanFile(5, "d", "c", "rar", 0),
     ScanFile(6, "d", "c", "legacy", 0), ScanFile(7, "", "x", "program", 0)}
ScanReadings == {("W1" :> a) @@ ("W2" :> b) : a, b \in 0..1}
ScanOldRows ==
    {[items |-> {SecondVolume}, detected |-> {"W1"}, code |-> {}, reviewed |-> FALSE]}
\* What a scan finds of an installation, and what its user may choose.
RowFound(code, items, suggested, package) ==
    [code |-> code, items |-> items, launch |-> IF items = {} THEN "none" ELSE "p1",
     suggested |-> suggested, package |-> package]
RowsFound ==
    {RowFound("W1", {"p1"}, "ready", FALSE), RowFound("W1", {}, "needs_review", FALSE),
     RowFound("W1", {"p1"}, "ready", TRUE), RowFound("none", {"p1"}, "ready", FALSE),
     [RowFound("W1", {}, "ready", FALSE) EXCEPT !.launch = "p1"]}
RowChosen(identity, action, ignored) ==
    [identity |-> identity, action |-> action, ignored |-> ignored, title |-> "none",
     reviewed |-> TRUE]
RowsChosen ==
    {RowChosen("none", "p1", {}), RowChosen("W2", "p1", {"p1"}), RowChosen("unidentified", "none", {})}
\* Works picked to be added: two volumes of one set with another archive beside it, and
\* between them in the pick an archive whose work can never be added; or one folder.
Picked(key, place, files, barred) ==
    [key |-> key, folder |-> place, files |-> files, refused |-> barred]
PickedWorks ==
    {Picked(1, "downloads", {"a.part1", "a.part2"}, FALSE), Picked(2, "downloads", {"b.zip"}, FALSE),
     Picked(3, "games", {"c.zip"}, TRUE)}
PickOf(place, file) == [folder |-> place, file |-> file]
PickChoices ==
    {<<PickOf("downloads", "a.part1"), PickOf("games", "c.zip"), PickOf("downloads", "a.part2")>>,
     <<PickOf("games", "no file")>>}
\* Works of a catalog, and what follows it: works that are alike in every order but the
\* code, one without a date, one that is synthetic; then some change and some are gone.
FacetsOf(ages, circles, genres) == [ages |-> ages, circles |-> circles, genres |-> genres]
\* Rows of the facets: two genres of one name, and circles whose names differ in the case
\* of a letter that is not an ASCII one, which only the index takes for the same.
FacetRow(name, of) == [name |-> name, of |-> of]
R18 == FacetRow("r18", 1)
CircleN == FacetRow("n", 1)
CircleK == FacetRow("k", 1)
CircleUpperK == FacetRow("K", 1)
GenreX == FacetRow("x", 1)
OtherGenreX == FacetRow("x", 2)
GenreY == FacetRow("y", 1)
FacetFolded == ("K" :> "k") @@ [name \in {"r18", "n", "k", "x", "y"} |-> name]
Shown(code, added, release, updated, title, fav, score, values) ==
    [code |-> code, added |-> added, release |-> release, updated |-> updated, title |-> title,
     fav |-> fav, synthetic |-> release = 21, score |-> score, values |-> values]
BrowseCatalogs ==
    <<{Shown(1, 11, 11, 0, 1, 5, 2, FacetsOf({R18}, {CircleN}, {GenreX, GenreY})),
       Shown(2, 11, 12, 22, 1, 5, 2, FacetsOf({R18}, {CircleN, CircleK}, {OtherGenreX})),
       Shown(3, 12, 0, 0, 2, 0, 1, FacetsOf({}, {CircleUpperK}, {GenreY})),
       Shown(4, 0, 21, 0, 1, 0, 1, FacetsOf({R18}, {}, {GenreX, OtherGenreX, GenreY}))},
      {Shown(1, 11, 11, 12, 1, 5, 2, FacetsOf({R18}, {CircleN}, {GenreX})),
       Shown(3, 12, 22, 0, 1, 0, 0, FacetsOf({}, {CircleK}, {OtherGenreX, GenreY})),
       Shown(5, 12, 12, 0, 1, 0, 1, FacetsOf({R18}, {CircleN}, {}))},
      {Shown(1, 11, 11, 12, 1, 5, 2, FacetsOf({R18}, {CircleN}, {GenreX}))}>>
BrowseSnapshots == <<1, 2, 2>>
Kinship(parent, child, label) == [parent |-> parent, child |-> child, label |-> label]
BrowseRelations ==
    <<{Kinship(1, 2, 1), Kinship(1, 3, 2), Kinship(2, 3, 1), Kinship(4, 1, 1), Kinship(1, 4, 1)},
      {Kinship(1, 3, 1), Kinship(1, 3, 2), Kinship(1, 5, 1)}, {}>>
FacetValues == FacetsOf({R18}, {CircleN, CircleK, CircleUpperK}, {GenreX, OtherGenreX, GenreY})
Selected(include, exclude) == [include |-> include, exclude |-> exclude]
Unselected == Selected(<<>>, <<>>)
FacetSelections ==
    {FacetsOf(Unselected, Unselected, Unselected),
     FacetsOf(Selected(<<"r18">>, <<>>), Unselected, Unselected),
     FacetsOf(Unselected, Selected(<<"n", "", "n", "k">>, <<"n">>), Unselected),
     FacetsOf(Unselected, Selected(<<>>, <<"k">>), Selected(<<"x">>, <<>>)),
     FacetsOf(Unselected, Unselected, Selected(<<"x", "y">>, <<>>)),
     FacetsOf(Unselected, Selected(<<"n">>, <<>>), Selected(<<>>, <<"y">>))}
BrowseOrders ==
    {[sort |-> o[1], timeline |-> o[2]] :
       o \in {<<"release_desc", "activity">>, <<"release_asc", "release">>,
              <<"release_desc", "updated">>, <<"title_asc", "added">>, <<"title_desc", "added">>,
              <<"favorites", "activity">>, <<"code_asc", "added">>, <<"code_desc", "added">>}}
DateScopes ==
    {[month |-> s[1], day |-> s[2]] : s \in {<<0, 0>>, <<1, 0>>, <<1, 2>>, <<2, 0>>}}
CalendarAsk(timeline, facets) == [facets |-> facets, timeline |-> timeline]
CalendarAsks ==
    {CalendarAsk("activity", FacetsOf(Unselected, Unselected, Unselected)),
     CalendarAsk("release", FacetsOf(Unselected, Selected(<<"n">>, <<>>), Selected(<<>>, <<"y">>))),
     CalendarAsk("added", FacetsOf(Selected(<<"r18">>, <<>>), Unselected, Selected(<<"x">>, <<>>)))}

\* Packages: one with everything, one that is compact, and every way to spoil them.
WorkEntry(code, title, values, roms) ==
    [code |-> code, title |-> title, values |-> values, roms |-> roms]
Enrichment(code, fields, roms) ==
    [code |-> code, fields |-> fields, valid |-> TRUE, roms |-> roms, count |-> 7]
Relation(parent, child) == [parent |-> parent, child |-> child, type |-> "series"]
Declared(name, kind, records) ==
    [name |-> name, kind |-> kind, records |-> records, digest |-> name]
PackageEntry(name, data) == [name |-> name, digest |-> name, data |-> data]
Checksums(names) ==
    [name |-> 0, digest |-> 0, data |-> [k \in DOMAIN names |-> [name |-> names[k], digest |-> names[k]]]]
Dat == <<"work.code", "work.title", "rom.name">>
Contents == <<"rom.contents.path", "rom.contents.size">>
Enriched ==
    <<"work.ageRating", "work.rating.score", "work.rating.count", "work.relations", "rom.fileCount">>
RecordFields == {Enriched[n] : n \in DOMAIN Enriched} \ {"work.relations"}
FullPackage ==
    [manifest |->
       [supported |-> TRUE, profile |-> "full", fields |-> Dat \o Contents \o Enriched,
        counts |-> [entries |-> 3, works |-> 2, roms |-> 3, files |-> 3, relations |-> 1],
        payloads |-> <<Declared(1, "dat", 3), Declared(2, "enrichment", 1),
                       Declared(3, "enrichment", 1), Declared(4, "relations", 1)>>],
     archive |->
       <<PackageEntry(1, <<WorkEntry("W1", "first", <<"a", "b">>, <<2>>),
                           WorkEntry("W2", "last", <<"a">>, <<>>),
                           WorkEntry("W1", "first", <<"a", "a">>, <<1, 0>>)>>),
         PackageEntry(2, <<Enrichment("W1", RecordFields, 3)>>),
         PackageEntry(3, <<Enrichment("W2", RecordFields, 99)>>),
         PackageEntry(4, <<Relation("W1", "W2")>>), Checksums(<<1, 2, 3, 4>>)>>]
CompactPackage ==
    [manifest |->
       [supported |-> TRUE, profile |-> "custom", fields |-> Append(Dat, "rom.fileCount"),
        counts |-> [entries |-> 1, works |-> 1, roms |-> 2, files |-> 0, relations |-> 0],
        payloads |-> <<Declared(1, "dat", 1), Declared(2, "enrichment", 1)>>],
     archive |-> <<PackageEntry(1, <<WorkEntry("W1", "first", <<>>, <<0, 0>>)>>),
                   PackageEntry(2, <<Enrichment("W1", {"rom.fileCount"}, 2)>>), Checksums(<<1, 2>>)>>]
Changed(n) == [name |-> n, digest |-> 9]
SpoiledManifests ==
    {[FullPackage EXCEPT !.manifest.counts[c] = @ + 1] : c \in DOMAIN FullPackage.manifest.counts}
    \cup {[FullPackage EXCEPT !.manifest.payloads[2].records = 2],
          [FullPackage EXCEPT !.manifest.payloads[3].kind = "relations"],
          [FullPackage EXCEPT !.manifest.supported = FALSE],
          [FullPackage EXCEPT !.manifest.profile = "legacyComplete"],
          [CompactPackage EXCEPT !.manifest.profile = "compact"],
          [CompactPackage EXCEPT !.manifest.counts.roms = 1]}
    \cup {[FullPackage EXCEPT !.manifest.profile = "custom", !.manifest.fields = fields] :
             fields \in {Dat \o Enriched, Tail(Dat) \o Contents \o Enriched,
                         Dat \o <<"rom.contents.size">> \o Enriched,
                         Dat \o Contents \o Enriched \o <<"rom.other">>,
                         Dat \o Enriched \o Contents,
                         Dat \o Contents \o Tail(Enriched) \o <<"rom.fileCount">>}}
SpoiledArchives ==
    LET Archive == FullPackage.archive IN
    {[FullPackage EXCEPT !.archive[n].digest = 9] : n \in 1..4}
    \cup {[FullPackage EXCEPT !.archive[n].digest = 9,
             !.archive[5].data[n] = Changed(n)] : n \in 1..4}
    \cup {[FullPackage EXCEPT !.archive = a] :
            a \in {SubSeq(Archive, 1, 4), SubSeq(Archive, 1, 3) \o <<Checksums(<<1, 2, 3>>)>>,
                   Archive \o <<Archive[4]>>}}
    \cup {[FullPackage EXCEPT !.archive[2] = Archive[3], !.archive[3] = Archive[2]],
          [FullPackage EXCEPT !.archive[5] = Checksums(<<1, 2, 3>>)],
          [FullPackage EXCEPT !.archive[5] = Checksums(<<1, 2, 3, 4, 4>>)]}
SpoiledRecords ==
    {[FullPackage EXCEPT !.archive[3].data[1] = Enrichment("W1", RecordFields, 3)],
     [FullPackage EXCEPT !.archive[2].data[1] = Enrichment("W1", RecordFields, 1)],
     [FullPackage EXCEPT !.archive[2].data[1].fields = {"rom.fileCount"}],
     [FullPackage EXCEPT !.archive[2].data[1].valid = FALSE],
     [FullPackage EXCEPT !.archive[1].data[1].title = "last"],
     [FullPackage EXCEPT !.archive[1].data[2].values = <<"a", "a">>],
     [FullPackage EXCEPT !.archive[4].data[1].child = "W1"],
     [FullPackage EXCEPT !.archive[4].data[1].child = "W3"],
     [FullPackage EXCEPT !.archive[4].data = @ \o @, !.manifest.payloads[4].records = 2,
                         !.manifest.counts.relations = 2],
     [CompactPackage EXCEPT !.archive[1].data[1].roms[1] = 1]}
\* What the launcher holds when the page of DeliveryViews begins to load.
ViewStarts ==
    {[account |-> FALSE, folder |-> FALSE, running |-> FALSE, status |-> "none", changes |-> 0],
     [account |-> TRUE, folder |-> TRUE, running |-> FALSE, status |-> "queued", changes |-> 0],
     [account |-> TRUE, folder |-> TRUE, running |-> TRUE, status |-> "failed", changes |-> 1],
     [account |-> TRUE, folder |-> TRUE, running |-> TRUE, status |-> "cancelled", changes |-> 2]}
ImportPackages ==
    {FullPackage, CompactPackage} \cup SpoiledManifests \cup SpoiledArchives \cup SpoiledRecords

VARIABLE focus   \* the component this behaviour is about

VARIABLES findings_files, findings_points, findings_library,
          findings_answers
VARIABLES browse_served, browse_contexts, browse_indexed, browse_listing,
          browse_calendar, browse_finder, browse_detail
VARIABLES import_package, import_manifest, import_at, import_entry,
          import_record, import_db, import_entries, import_seen,
          import_hashes, import_checksums, import_disk, import_cancelled,
          import_faults, import_swaps

F == INSTANCE ScanFindings WITH
    Files <- ScanFiles, Codes <- {"W1", "W2"}, Readings <- ScanReadings,
    OldRows <- ScanOldRows, MaxFiles <- 3, MaxAdds <- 2,
    files <- findings_files, points <- findings_points,
    library <- findings_library, answers <- findings_answers

B == INSTANCE CatalogBrowse WITH
    Catalogs <- BrowseCatalogs, Relations <- BrowseRelations,
    SnapshotIds <- BrowseSnapshots, Folded <- FacetFolded,
    Values <- FacetValues, EveryValue <- {"genres"},
    Selections <- FacetSelections, Orders <- BrowseOrders,
    Calendars <- CalendarAsks, Scopes <- DateScopes, Limit <- 2,
    DaysIn <- 2, MaxFacetValues <- 2, MaxContexts <- 2,
    served <- browse_served, contexts <- browse_contexts,
    indexed <- browse_indexed, listing <- browse_listing,
    calendar <- browse_calendar, finder <- browse_finder,
    detail <- browse_detail

K == INSTANCE CatalogImport WITH
    Packages <- ImportPackages, MaxFaults <- 1, MaxSwaps <- 1,
    package <- import_package, manifest <- import_manifest,
    at <- import_at, entry <- import_entry, record <- import_record,
    db <- import_db, entries <- import_entries, seen <- import_seen,
    hashes <- import_hashes, checksums <- import_checksums,
    disk <- import_disk, cancelled <- import_cancelled,
    faults <- import_faults, swaps <- import_swaps

findings_vars == <<findings_files, findings_points, findings_library,
                   findings_answers>>
browse_vars == <<browse_served, browse_contexts, browse_indexed,
                 browse_listing, browse_calendar, browse_finder,
                 browse_detail>>
import_vars == <<import_package, import_manifest, import_at, import_entry,
                 import_record, import_db, import_entries, import_seen,
                 import_hashes, import_checksums, import_disk,
                 import_cancelled, import_faults, import_swaps>>

all_vars == <<focus, vars, mediaVars, videoVars, serveVars, findings_vars,
              scanVars, rowsVars, addVars, browse_vars, import_vars,
              viewsVars>>

\* Bound: of three files of a scan, one at least points to no work (or the scan is smaller).
OneUnmatched ==
    Cardinality(findings_files) = 3 => \E f \in findings_files : F!Found(f) = {}

Components == {"catalog", "media", "video", "protocol", "findings", "scanner", "rows", "add", "browse", "import", "views"}

AllInit ==
    /\ focus \in Components
    /\ Init
    /\ MediaInit
    /\ VideoInit
    /\ ServeInit
    /\ focus # "protocol" => servedFile = [spot |-> "missing", kind |-> "video", length |-> 0]
    /\ \/ focus = "findings" /\ F!Init /\ OneUnmatched
       \/ /\ focus # "findings"
          /\ findings_files = {}
          /\ findings_points = <<>>
          /\ findings_library = <<>>
          /\ findings_answers = <<>>
    /\ ScanInit
    /\ RowsInit
    /\ AddInit
    /\ B!Init
    /\ K!Init
    /\ focus # "import" => import_package = FullPackage
    /\ ViewsInit
    /\ focus # "views" => ~account

CatalogStep ==
    /\ focus = "catalog" /\ Next
    /\ UNCHANGED <<focus, mediaVars, videoVars, serveVars, findings_vars,
                   scanVars, rowsVars, addVars, browse_vars, import_vars,
                   viewsVars>>

MediaStep ==
    /\ focus = "media" /\ MediaNext
    /\ UNCHANGED <<focus, vars, videoVars, serveVars, findings_vars,
                   scanVars, rowsVars, addVars, browse_vars, import_vars,
                   viewsVars>>

VideoStep ==
    /\ focus = "video" /\ VideoNext
    /\ UNCHANGED <<focus, vars, mediaVars, serveVars, findings_vars,
                   scanVars, rowsVars, addVars, browse_vars, import_vars,
                   viewsVars>>

ProtocolStep ==
    /\ focus = "protocol" /\ ServeNext
    /\ UNCHANGED <<focus, vars, mediaVars, videoVars, findings_vars,
                   scanVars, rowsVars, addVars, browse_vars, import_vars,
                   viewsVars>>

FindingsStep ==
    /\ focus = "findings" /\ F!Next
    /\ UNCHANGED <<focus, vars, mediaVars, videoVars, serveVars, scanVars,
                   rowsVars, addVars, browse_vars, import_vars, viewsVars>>

ScannerStep ==
    /\ focus = "scanner" /\ ScanNext
    /\ UNCHANGED <<focus, vars, mediaVars, videoVars, serveVars,
                   findings_vars, rowsVars, addVars, browse_vars,
                   import_vars, viewsVars>>

RowsStep ==
    /\ focus = "rows" /\ RowsNext
    /\ UNCHANGED <<focus, vars, mediaVars, videoVars, serveVars,
                   findings_vars, scanVars, addVars, browse_vars,
                   import_vars, viewsVars>>

AddStep ==
    /\ focus = "add" /\ AddNext
    /\ UNCHANGED <<focus, vars, mediaVars, videoVars, serveVars,
                   findings_vars, scanVars, rowsVars, browse_vars,
                   import_vars, viewsVars>>

BrowseStep ==
    /\ focus = "browse" /\ B!Next
    /\ UNCHANGED <<focus, vars, mediaVars, videoVars, serveVars,
                   findings_vars, scanVars, rowsVars, addVars, import_vars,
                   viewsVars>>

ImportStep ==
    /\ focus = "import" /\ K!Next
    /\ UNCHANGED <<focus, vars, mediaVars, videoVars, serveVars,
                   findings_vars, scanVars, rowsVars, addVars, browse_vars,
                   viewsVars>>

ViewsStep ==
    /\ focus = "views" /\ ViewsNext
    /\ UNCHANGED <<focus, vars, mediaVars, videoVars, serveVars,
                   findings_vars, scanVars, rowsVars, addVars, browse_vars,
                   import_vars>>

AllNext ==
    \/ CatalogStep
    \/ MediaStep
    \/ VideoStep
    \/ ProtocolStep
    \/ FindingsStep
    \/ ScannerStep
    \/ RowsStep
    \/ AddStep
    \/ BrowseStep
    \/ ImportStep
    \/ ViewsStep

AllSpec == AllInit /\ [][AllNext]_all_vars

-----------------------------------------------------------------------------
(* The properties of the components, stated and explained in their modules.  A component *)
(* that is not the focus keeps an initial state, where its invariants need no look.       *)

\* A finding that was added is listed as being in the library, and the type invariants.
AddedIsListed ==
    /\ focus = "catalog" => TypeOK
    /\ focus = "media" => MediaTypeOK
    /\ focus = "video" => VideoTypeOK
    /\ focus = "protocol" => ServeTypeOK
    /\ focus = "findings" => F!TypeOK /\ F!AddedIsListed
    /\ focus = "scanner" => ScanTypeOK
    /\ focus = "rows" => RowsTypeOK
    /\ focus = "add" => AddTypeOK
    /\ focus = "browse" => B!TypeOK
    /\ focus = "import" => K!TypeOK

\* Pages, counts, calendar and search agree.
AnswersAgree == focus = "browse" => B!AnswersAgree

\* An import keeps all of a package or nothing.
ImportIsWholeOrNothing == K!ImportIsWholeOrNothing

=============================================================================
