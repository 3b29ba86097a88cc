----------------------------- MODULE CatalogImport -----------------------------
(***************************************************************************)
(* One import of a catalog package: its manifest is inspected, then the    *)
(* archive is read once from front to back into a new database, inside     *)
(* one transaction, against what the manifest declares.                    *)
(*                                                                         *)
(* Source: dla-catalog-import/src/package.rs (manifest), fields.rs,        *)
(* stream.rs (payloads), dat.rs (works), engine.rs (import), and           *)
(* dla-sqlite/src/import.rs (the writer).  What happens to the finished    *)
(* generation is in CatalogGenerations.  Work codes stand for their        *)
(* spellings, and a payload name for its place in the order of payloads.   *)
(***************************************************************************)
EXTENDS Naturals, Sequences, FiniteSets, SequencesExt

CONSTANTS
    Packages,   \* the package files: records [manifest, archive]
    MaxFaults,  \* bound: operations that fail
    MaxSwaps    \* bound: the file is replaced by another

VARIABLES
    package,    \* the file behind the access handle
    manifest,   \* the manifest that was inspected
    at,         \* what the import does next
    entry,      \* entry of the archive it reads, from 1
    record,     \* records of that entry that were read
    db,         \* the database: [works, roms, enriched, relations]
    entries,    \* work entries of the DAT so far
    seen,       \* works enriched so far, over all payloads
    hashes,     \* digests of the payloads that were read
    checksums,  \* the checksum file, NoSums before it was read
    disk,       \* directory of the generation: none, building or whole
    cancelled, faults, swaps

vars == <<package, manifest, at, entry, record, db, entries, seen, hashes, checksums, disk,
          cancelled, faults, swaps>>

Null == 99      \* no value in a column, or null in a record
NoSums == {0}
EmptyDb == [works |-> <<>>, enriched |-> {}, relations |-> {}]
Archive == package.archive
Ended == {"registered", "refused"}

Init ==
    /\ package \in Packages /\ manifest = package.manifest
    /\ at = "inspect" /\ entry = 1 /\ record = 0
    /\ db = EmptyDb /\ entries = 0 /\ seen = {} /\ hashes = {} /\ checksums = NoSums
    /\ disk = "none" /\ cancelled = FALSE /\ faults = 0 /\ swaps = 0

-----------------------------------------------------------------------------
(* Inspecting the manifest. *)

Total(ns) == FoldLeft(LAMBDA a, b : a + b, 0, ns)
OfKind(m, kind) == SelectSeq(m.payloads, LAMBDA p : p.kind = kind)
RecordsOf(m, kind) ==
    LET ps == OfKind(m, kind) IN Total([n \in DOMAIN ps |-> ps[n].records])

Rank(kind) == CASE kind = "dat" -> 0 [] kind = "enrichment" -> 1 [] kind = "relations" -> 2

PayloadBefore(p, q) ==
    Rank(p.kind) < Rank(q.kind) \/ (Rank(p.kind) = Rank(q.kind) /\ p.name < q.name)

\* The field registry, one field standing for those that are treated alike.
CompactFields == <<"work.code", "work.title", "rom.name">>
ContentFields == <<"rom.contents.path", "rom.contents.size">>
EnrichmentFields ==
    <<"work.ageRating", "work.rating.score", "work.rating.count", "work.relations", "rom.fileCount">>
AllFields == CompactFields \o ContentFields \o EnrichmentFields

FieldDependencies(field) ==
    CASE field = "rom.contents.path" -> {"rom.contents.size"}
      [] field = "rom.contents.size" -> {"rom.contents.path"}
      [] field = "work.rating.count" -> {"work.rating.score"}
      [] OTHER -> {}

\* validate_fields: each field once and in the order of the registry, those of a DAT and
\* of the profile among them, and none without what it depends on.
ValidFields(m) ==
    LET included == ToSet(m.fields) IN
    /\ ToSet(CompactFields) \subseteq included
    /\ m.fields = SelectSeq(AllFields, LAMBDA f : f \in included)
    /\ m.profile = "compact" => included = ToSet(CompactFields)
    /\ m.profile = "legacyComplete" => included = ToSet(CompactFields \o ContentFields)
    /\ m.profile \in {"full", "legacyEnriched"} => included = ToSet(AllFields)
    /\ \A f \in included : FieldDependencies(f) \subseteq included

\* enrichment_record_fields: the fields of each enrichment record.
EnrichmentRecordFields(m) == (ToSet(EnrichmentFields) \ {"work.relations"}) \cap ToSet(m.fields)
IncludesContents(m) == "rom.contents.path" \in ToSet(m.fields)

\* validate_payloads: what the manifest says agrees with itself.
Compatible(m) ==
    /\ \A n \in 1..(Len(m.payloads) - 1) : PayloadBefore(m.payloads[n], m.payloads[n + 1])
    /\ Len(OfKind(m, "dat")) = 1
    /\ RecordsOf(m, "dat") = m.counts.entries
    /\ EnrichmentRecordFields(m) # {} <=> OfKind(m, "enrichment") # <<>>
    /\ EnrichmentRecordFields(m) # {} => RecordsOf(m, "enrichment") = m.counts.works
    /\ "work.relations" \in ToSet(m.fields) <=> OfKind(m, "relations") # <<>>
    /\ RecordsOf(m, "relations") = m.counts.relations
    /\ m.counts.works <= m.counts.entries
    /\ ToSet(m.fields) \cap ToSet(ContentFields) = {} => m.counts.files = 0

\* validate_manifest: format, versions, identifiers and dates that are understood, and all
\* of the above.
ValidManifest(m) == m.supported /\ ValidFields(m) /\ Compatible(m)

-----------------------------------------------------------------------------
(* Ends of an import. *)

\* Either directory is removed; an open transaction is gone with it.
CleanUp == disk' = "none" /\ db' = EmptyDb

Refuse ==
    /\ at' = "refused" /\ CleanUp
    /\ UNCHANGED <<package, manifest, entry, record, entries, seen, hashes, checksums,
                   cancelled, faults, swaps>>

Go(next) ==
    /\ at' = next
    /\ UNCHANGED <<package, manifest, cancelled, faults, swaps>>

Inspect ==
    /\ at = "inspect" /\ ~cancelled
    /\ IF ValidManifest(manifest)
       THEN /\ disk' = "building" /\ Go("open")
            /\ UNCHANGED <<entry, record, db, entries, seen, hashes, checksums>>
       ELSE Refuse

\* The file is opened again, and must still begin with the manifest that was inspected.
Open ==
    /\ at = "open"
    /\ IF package.manifest = manifest
       THEN Go("entry") /\ UNCHANGED <<entry, record, db, entries, seen, hashes, checksums, disk>>
       ELSE Refuse

-----------------------------------------------------------------------------
(* Entries of the archive. *)

Here == Archive[entry]
Payload == manifest.payloads[entry]     \* the payload whose turn it is

\* The checksum file is the last entry; payloads come in the order of the manifest.
\* read_checksum_file: a line for each path.
ReadableChecksums(lines) ==
    \A i, j \in DOMAIN lines : lines[i].name = lines[j].name => i = j

InOrder ==
    /\ checksums = NoSums
    /\ \/ Here.name = 0
       \/ entry <= Len(manifest.payloads) /\ Here.name = Payload.name

StartEntry ==
    /\ at = "entry" /\ ~cancelled /\ entry <= Len(Archive)
    /\ IF ~InOrder \/ (Here.name = 0 /\ ~ReadableChecksums(Here.data)) THEN Refuse
       ELSE /\ IF Here.name = 0
               THEN checksums' = ToSet(Here.data) /\ entry' = entry + 1 /\ Go("entry")
               ELSE Go("record") /\ UNCHANGED <<checksums, entry>>
            /\ record' = 0
            /\ UNCHANGED <<db, entries, seen, hashes, disk>>

Item == Here.data[record + 1]
Reading(kind) ==
    at = "record" /\ ~cancelled /\ Payload.kind = kind /\ record < Len(Here.data)

Works == DOMAIN db.works
RomsOf(code) == db.works[code]

\* A work is written once its first ROM, or its end, is reached: its text counts only
\* when it came before.
Titled(work) == work.title = "first" \/ (work.title = "last" /\ work.roms = <<>>)

\* ensure_work and insert_work: a work that is known already stays as it is, a new one
\* gets a row and one for each value it names; no value may be named twice.
InsertWork(item) == IsInjective(item.values)
EnsureWork(item) ==
    [c \in Works \cup {item.code} |-> IF c \in Works THEN RomsOf(c) ELSE <<>>]

\* A ROM comes behind those of its work, with the count of files its contents begin with.
ParsedRom(files) ==
    [files |-> files, count |-> IF IncludesContents(manifest) THEN 0 ELSE Null]
InsertRom(roms, files) == Append(roms, ParsedRom(files))

\* Files refer to the scan of their ROM, which only declared contents have.
InsertRomFiles(item) ==
    IncludesContents(manifest) \/ \A n \in DOMAIN item.roms : item.roms[n] = 0

ImportWork ==
    /\ Reading("dat")
    /\ IF \/ ~Titled(Item) \/ ~InsertRomFiles(Item)
          \/ Item.code \notin Works /\ ~InsertWork(Item)
       THEN Refuse
       ELSE /\ db' = [db EXCEPT !.works =
                        [EnsureWork(Item) EXCEPT ![Item.code] = FoldLeft(InsertRom, @, Item.roms)]]
            /\ entries' = entries + 1 /\ record' = record + 1 /\ Go("record")
            /\ UNCHANGED <<entry, seen, hashes, checksums, disk>>

\* Values for the ROMs of a work: one for each, or null for all.
FitsRoms(item) ==
    item.roms = Null \/ "rom.fileCount" \notin item.fields
      \/ (item.code \in Works /\ item.roms = Len(RomsOf(item.code)))

WithCounts(item) ==
    IF "rom.fileCount" \notin item.fields THEN db.works
    ELSE [db.works EXCEPT ![item.code] =
            [n \in DOMAIN @ |-> [@[n] EXCEPT !.count = IF item.roms = Null THEN Null
                                                       ELSE item.count]]]

Enrich ==
    /\ Reading("enrichment")
    /\ IF \/ Item.fields # EnrichmentRecordFields(manifest) \/ ~Item.valid \/ Item.code \in seen
          \/ Item.code \notin Works \/ ~FitsRoms(Item)
       THEN Refuse
       ELSE /\ db' = [db EXCEPT !.works = WithCounts(Item), !.enriched = @ \cup {Item.code}]
            /\ seen' = seen \cup {Item.code} /\ record' = record + 1 /\ Go("record")
            /\ UNCHANGED <<entry, entries, hashes, checksums, disk>>

Relate ==
    /\ Reading("relations")
    /\ IF \/ Item.parent = Item.child \/ {Item.parent, Item.child} \ Works # {}
          \/ Item \in db.relations
       THEN Refuse
       ELSE /\ db' = [db EXCEPT !.relations = @ \cup {Item}]
            /\ record' = record + 1 /\ Go("record")
            /\ UNCHANGED <<entry, entries, seen, hashes, checksums, disk>>

\* (Wrong form.)  The digest is left to the checksum file.
PayloadCounted ==
    /\ Payload.kind = "dat" => entries = manifest.counts.entries
    /\ record = Payload.records

PayloadFits ==
    /\ Payload.kind = "dat" => entries = manifest.counts.entries
    /\ record = Payload.records
    /\ Here.digest = Payload.digest

EndPayload ==
    /\ at = "record" /\ ~cancelled /\ record = Len(Here.data)
    /\ IF ~PayloadFits THEN Refuse
       ELSE /\ hashes' = hashes \cup {[name |-> Here.name, digest |-> Here.digest]}
            /\ entry' = entry + 1 /\ record' = 0 /\ Go("entry")
            /\ UNCHANGED <<db, entries, seen, checksums, disk>>

\* validate_checksum_file.
ChecksumsAgree == checksums = hashes

\* All of the archive was read: every payload, every work enriched, the checksums.
EndArchive ==
    /\ at = "entry" /\ entry > Len(Archive)
    /\ IF \/ Cardinality(hashes) # Len(manifest.payloads)
          \/ EnrichmentRecordFields(manifest) # {} /\ Cardinality(seen) # manifest.counts.works
          \/ ~ChecksumsAgree
       THEN Refuse
       ELSE Go("finish") /\ UNCHANGED <<entry, record, db, entries, seen, hashes, checksums, disk>>

-----------------------------------------------------------------------------
(* Finishing the database. *)

RowCounts ==
    LET RomTotal(f(_)) == FoldSet(LAMBDA c, n : f(RomsOf(c)) + n, 0, Works)
    IN  [works |-> Cardinality(Works), roms |-> RomTotal(Len),
         files |-> RomTotal(LAMBDA rs : Total([n \in DOMAIN rs |-> rs[n].files])),
         relations |-> Cardinality(db.relations)]

CountsAgree ==
    \A c \in {"works", "roms", "files", "relations"} : RowCounts[c] = manifest.counts[c]

\* With contents the rows that were counted replace what an enrichment said.
Finish ==
    /\ at = "finish" /\ ~cancelled
    /\ IF ~CountsAgree THEN Refuse
       ELSE /\ db' = [db EXCEPT !.works =
                        [c \in Works |-> [n \in DOMAIN RomsOf(c) |->
                           IF IncludesContents(manifest)
                           THEN [RomsOf(c)[n] EXCEPT !.count = RomsOf(c)[n].files]
                           ELSE RomsOf(c)[n]]]]
            /\ Go("commit")
            /\ UNCHANGED <<entry, record, entries, seen, hashes, checksums, disk>>

\* COMMIT, checkpoint, integrity and foreign keys; a candidate that was committed is
\* still only a directory under its building name.
Commit ==
    /\ at = "commit" /\ ~cancelled
    /\ Go("check") /\ UNCHANGED <<entry, record, db, entries, seen, hashes, checksums, disk>>

Move ==
    /\ at = "check" /\ ~cancelled
    /\ disk' = "whole" /\ Go("register")
    /\ UNCHANGED <<entry, record, db, entries, seen, hashes, checksums>>

Register ==
    /\ at = "register"
    /\ Go("registered") /\ UNCHANGED <<entry, record, db, entries, seen, hashes, checksums, disk>>

-----------------------------------------------------------------------------
(* Cancelling, failures, and another file in the place of the package. *)

\* The token is asked before every record, entry and step of the finish.
Cancel ==
    /\ at \notin Ended /\ ~cancelled /\ cancelled' = TRUE
    /\ UNCHANGED <<package, manifest, at, entry, record, db, entries, seen, hashes, checksums,
                   disk, faults, swaps>>

Stop ==
    /\ cancelled
    /\ at \in {"inspect", "record", "finish", "commit", "check"}
         \/ (at = "entry" /\ entry <= Len(Archive))
    /\ Refuse

Fault ==
    /\ at \notin Ended \cup {"inspect"} /\ faults < MaxFaults
    /\ faults' = faults + 1 /\ at' = "refused" /\ CleanUp
    /\ UNCHANGED <<package, manifest, entry, record, entries, seen, hashes, checksums,
                   cancelled, swaps>>

Swap ==
    /\ at \in {"inspect", "open"} /\ swaps < MaxSwaps
    /\ swaps' = swaps + 1
    /\ package' \in Packages
    /\ UNCHANGED <<manifest, at, entry, record, db, entries, seen, hashes, checksums, disk,
                   cancelled, faults>>

Next ==
    \/ Inspect \/ Open
    \/ StartEntry \/ ImportWork \/ Enrich \/ Relate \/ EndPayload \/ EndArchive
    \/ Finish \/ Commit \/ Move \/ Register
    \/ Cancel \/ Stop \/ Fault \/ Swap

Spec == Init /\ [][Next]_vars

-----------------------------------------------------------------------------
(* Properties. *)

TypeOK ==
    /\ package \in Packages
    /\ at \in {"inspect", "open", "entry", "record", "finish", "commit", "check", "register"}
               \cup Ended
    /\ entry \in 1..(Len(Archive) + 1) /\ record \in Nat
    /\ disk \in {"none", "building", "whole"}
    /\ db.enriched = IF at = "refused" THEN {} ELSE seen
    /\ cancelled \in BOOLEAN /\ faults \in 0..MaxFaults /\ swaps \in 0..MaxSwaps

\* What a package holds, read off the file as a whole.
Data(p, kind) ==
    FlattenSeq([n \in 1..Len(OfKind(p.manifest, kind)) |->
                  (CHOOSE e \in ToSet(p.archive) : e.name = OfKind(p.manifest, kind)[n].name).data])

Codes(p) == {w.code : w \in ToSet(Data(p, "dat"))}
RomList(p, code) ==
    LET works == SelectSeq(Data(p, "dat"), LAMBDA w : w.code = code)
    IN  FlattenSeq([n \in DOMAIN works |-> works[n].roms])
SaidOf(p, code) == CHOOSE e \in ToSet(Data(p, "enrichment")) : e.code = code
CountOfRom(p, code, files) ==
    IF IncludesContents(p.manifest) THEN files
    ELSE IF "rom.fileCount" \in ToSet(p.manifest.fields) /\ SaidOf(p, code).roms # Null
    THEN SaidOf(p, code).count ELSE Null

RowsOf(p) ==
    [works |-> [c \in Codes(p) |->
                  [n \in DOMAIN RomList(p, c) |->
                     [files |-> RomList(p, c)[n],
                      count |-> CountOfRom(p, c, RomList(p, c)[n])]]],
     enriched |-> {e.code : e \in ToSet(Data(p, "enrichment"))},
     relations |-> ToSet(Data(p, "relations"))]

\* A package that is what it says: the payloads of its manifest in their order, then
\* their checksums; every work enriched once; relations of works it has; and its counts.
Whole(p) ==
    LET m == p.manifest
        payloads == Len(m.payloads)
        works == Data(p, "dat")
        said == Data(p, "enrichment")
        links == Data(p, "relations")
        First(n) == \A k \in 1..(n - 1) : works[k].code # works[n].code
    IN  /\ ValidManifest(m)
        /\ Len(p.archive) = payloads + 1 /\ p.archive[payloads + 1].name = 0
        /\ \A n \in 1..payloads :
             /\ p.archive[n].name = m.payloads[n].name
             /\ p.archive[n].digest = m.payloads[n].digest
             /\ Len(p.archive[n].data) = m.payloads[n].records
        /\ Len(p.archive[payloads + 1].data) = payloads
        /\ ToSet(p.archive[payloads + 1].data) =
             {[name |-> m.payloads[n].name, digest |-> m.payloads[n].digest] : n \in 1..payloads}
        /\ \A n \in DOMAIN works : Titled(works[n]) /\ (First(n) => IsInjective(works[n].values))
        /\ EnrichmentRecordFields(m) # {} => {e.code : e \in ToSet(said)} = Codes(p) /\ Len(said) = Cardinality(Codes(p))
        /\ \A e \in ToSet(said) :
             /\ e.fields = EnrichmentRecordFields(m) /\ e.valid
             /\ "rom.fileCount" \in e.fields => e.roms \in {Null, Len(RomList(p, e.code))}
        /\ Cardinality(ToSet(links)) = Len(links)
        /\ \A l \in ToSet(links) : l.parent # l.child /\ {l.parent, l.child} \subseteq Codes(p)
        /\ m.counts.works = Cardinality(Codes(p)) /\ m.counts.relations = Len(links)
        /\ m.counts.roms = Total([n \in DOMAIN works |-> Len(works[n].roms)])
        /\ m.counts.files = Total([n \in DOMAIN works |-> Total(works[n].roms)])

\* An import ends in one of two ways: the package was whole and all of it is registered,
\* or nothing of it is kept, and then the package was not whole, or somebody stopped it,
\* an operation failed, or the file was another one than the one inspected.
ImportIsWholeOrNothing ==
    [][at' # at /\ at' \in Ended =>
         \/ at' = "registered" /\ Whole(package) /\ db' = RowsOf(package) /\ disk' = "whole"
         \/ /\ at' = "refused" /\ disk' = "none"
            /\ \/ ~Whole(package) \/ cancelled \/ faults' > faults
               \/ manifest # package.manifest]_vars
=============================================================================
