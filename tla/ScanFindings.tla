----------------------------- MODULE ScanFindings -----------------------------
(***************************************************************************)
(* The works a scan found, and how they enter the library.                 *)
(*                                                                         *)
(* Source: dla-application/src/scan_findings.rs and                        *)
(* installation_from_scan.rs, dla-detection/src/package_set.rs (archive    *)
(* sets) and resolve_scan_identities of dla-detection/src/lib.rs.          *)
(* A completed scan is a set of files, each with the catalog works its     *)
(* name, its folder or its hash points to.  Listing groups the files into  *)
(* findings and looks each one up in the library; adding a finding starts  *)
(* from one scan result, the finding's representative, and works out the   *)
(* scope of the installation and its identifier a second time.             *)
(***************************************************************************)
EXTENDS Naturals, FiniteSets

CONSTANTS
    Files,      \* what a scan can meet: records of a number (the order of the entries),
                \* a top-level folder or "", a base name, a shape and a part number
    Codes,      \* catalog works
    Readings,   \* bound: what one file may point to, work -> 0 not, 1 strongly, 2 exactly
    OldRows,    \* bound: what the row of the whole root may hold from an earlier scan
    MaxFiles,   \* bound: files of one scan
    MaxAdds     \* bound: findings the user adds

VARIABLES
    files,      \* files of the completed scan
    points,     \* works a file points to: work -> how strongly, 0 if not at all
    library,    \* the rows of the library for this root
    answers     \* what each added finding was answered

vars == <<files, points, library, answers>>

Shapes == {"zip", "rar", "part_rar", "part_exe", "legacy", "misnamed", "program",
           "other", "incidental"}
Multipart == {"part_rar", "part_exe"}
Top == ""
Root == <<"root">>   \* the key of the only finding, and the identifier from before scopes

-----------------------------------------------------------------------------
(* What one file points to.                                                *)

\* resolve_scan_identities: one work is a match, several are ambiguous.
Found(f) == {c \in Codes : points[f][c] > 0}
Matched(f) == Cardinality(Found(f)) = 1
CodeOf(f) == CHOOSE c \in Codes : points[f][c] > 0
Confidence(f) == points[f][CodeOf(f)]     \* 1 strong, 2 exact
MatchedCodes(F) == {CodeOf(f) : f \in {g \in F : Matched(g)}}

-----------------------------------------------------------------------------
(* Archive sets.                                                           *)

NamedLike(f) == {g \in files : g.shape \in Multipart /\ g.dir = f.dir /\ g.base = f.base}
First(F) == CHOOSE f \in F : \A g \in F : f.part < g.part \/ (f.part = g.part /\ f.n <= g.n)
NoGap(parts) == \A p \in parts : p = 1 \/ p - 1 \in parts

\* legacy_source_set: the .rar is part 1, .r00 part 2 and so on.
LegacyLike(f) == {f} \cup {g \in files : /\ g.shape = "legacy"
                                         /\ g.dir = f.dir /\ g.base = f.base}
LegacyPart(f) == IF f.shape = "legacy" THEN f.part + 2 ELSE 1

\* discover_package_source_set: the whole set of a volume, nothing for what is not a
\* volume, or an error for a set with a missing or repeated part.
Discover(f) ==
    CASE f.shape = "zip" -> [ok |-> TRUE, set |-> {f}]
      [] f.shape \in Multipart ->
           LET S == NamedLike(f)  P == {g.part : g \in S}
           IN [ok |-> /\ Cardinality(P) = Cardinality(S) /\ NoGap(P)
                      /\ \A g \in S : g.shape = "part_exe" => g.part = 1,
               set |-> S]
      [] f.shape \in {"rar", "misnamed"} ->
           LET S == LegacyLike(f) IN [ok |-> NoGap({LegacyPart(g) : g \in S}), set |-> S]
      [] OTHER -> [ok |-> TRUE, set |-> {}]

MayBeVolume(f) == f.shape \in {"zip", "rar", "misnamed"} \cup Multipart

\* misnamed_part: a volume whose name lost its punctuation, one per missing part.
Misnamed(S) ==
    {g \in files : /\ g.shape = "misnamed"
                   /\ \E f \in S : f.dir = g.dir /\ f.base = g.base
                   /\ g.part \notin {f.part : f \in S}
                   /\ \A h \in files : /\ h.shape = "misnamed" /\ h.part = g.part
                                       /\ h.dir = g.dir /\ h.base = g.base => h.n >= g.n}

-----------------------------------------------------------------------------
(* Grouping the files: archive sets, then top-level folders, then files.   *)

Group(k, kind, F, primary, whole) ==
    [key |-> k, kind |-> kind, files |-> F, primary |-> primary, incomplete |-> ~whole]

NamedGroups ==
    {LET S == NamedLike(f)  M == Misnamed(S)
     IN Group(<<"package", First(S)>>, "archive", S \cup M, {First(S)},
              Discover(f).ok /\ M = {}) : f \in {g \in files : g.shape \in Multipart}}

Claimed(G) == UNION {g.files : g \in G}

OtherArchives(named) ==
    {LET d == Discover(f)
     IN IF d.ok THEN Group(<<"package", f>>, "archive", d.set, {f}, TRUE)
                ELSE Group(<<"entry", f>>, "archive", {f}, {f}, FALSE) :
       f \in {g \in files \ Claimed(named) : MayBeVolume(g)}}

Archives == LET named == NamedGroups IN named \cup OtherArchives(named)

\* group_files.
Groups ==
    LET archives == Archives
        rest == files \ Claimed(archives)
    IN archives
       \cup {Group(<<"directory", f.dir>>, "folder", {g \in rest : g.dir = f.dir}, {}, TRUE) :
               f \in {g \in rest : g.dir # Top}}
       \cup {Group(<<"entry", f>>, "file", {f}, {}, TRUE) : f \in {g \in rest : g.dir = Top}}

\* A file directly below the root that is no volume.
Loose == {f \in files : /\ f.dir = Top /\ f.shape # "legacy"
                        /\ ~(MayBeVolume(f) /\ ~(Discover(f).ok /\ Discover(f).set = {}))}

\* session_is_one_work.  A folder is an entry of the scan too.
OneWork ==
    /\ Cardinality(MatchedCodes(files)) <= 1
    /\ \/ Cardinality(files) <= 1
       \/ LET loose == Loose
          IN /\ loose # {}
             /\ \/ \E f \in loose : f.shape = "program"
                \/ files = loose
                \/ \E f \in loose : Matched(f)

-----------------------------------------------------------------------------
(* The findings.                                                           *)

Best(F) == CHOOSE f \in F : \A g \in F : \/ Confidence(g) < Confidence(f)
                                         \/ Confidence(g) = Confidence(f) /\ g.n <= f.n

\* representative: the first volume of an archive, else the surest match, else any.
Representative(g) ==
    LET M == {f \in g.files : Matched(f)}
    IN IF g.primary # {} THEN CHOOSE f \in g.primary : TRUE
       ELSE IF M # {} THEN Best(M)
       ELSE CHOOSE f \in g.files : \A h \in g.files : f.n <= h.n

Incidental(g) == \A f \in g.files : f.shape = "incidental"

\* The groups, or the whole root as the one work it is.
Sections ==
    LET groups == Groups
    IN IF ~OneWork \/ files = {} THEN groups
       ELSE IF Cardinality(groups) = 1 THEN {[g EXCEPT !.key = Root] : g \in groups}
       ELSE {Group(Root, "folder", files, {}, TRUE)}

Works(g) == MatchedCodes(g.files)

State(g) ==
    IF g.incomplete THEN "incomplete"
    ELSE IF Cardinality(Works(g)) > 1 THEN "mixed"
    ELSE IF Works(g) # {} THEN "ready"
    ELSE IF \E f \in g.files : Found(f) # {} THEN "choose" ELSE "unknown"

\* legacy_installation_matches: the row of the whole root holds this work or this file.
LegacyMatches(file, codes) ==
    /\ Root \in DOMAIN library
    /\ \/ library[Root].detected \cap codes # {}
       \/ file \in library[Root].items

SingleCode(g) == IF Cardinality(Works(g)) = 1 THEN Works(g) ELSE {}

\* The identifier a finding is looked up under.
ListedId(g) ==
    IF g.key = Root \/ LegacyMatches(Representative(g), SingleCode(g)) THEN Root ELSE g.key

Reviewed(id) == id \in DOMAIN library /\ library[id].reviewed

\* in_library: nothing, the row of these files, or another copy of the same work.
InLibrary(g) ==
    IF Reviewed(ListedId(g)) THEN "same"
    ELSE IF \E id \in DOMAIN library : /\ library[id].reviewed
                                       /\ library[id].code \cap SingleCode(g) # {}
    THEN "copy" ELSE "no"

Findings == {g \in Sections : ~Incidental(g)}

-----------------------------------------------------------------------------
(* Adding a finding.                                                       *)

Identified(f) == IF Matched(f) THEN {CodeOf(f)} ELSE {}

\* natural_scope, from the result alone: the whole set, the folder, or the file.
NaturalScope(f) ==
    LET d == Discover(f)
    IN IF d.set # {}
       THEN [ok |-> d.ok, files |-> d.set,
             key |-> <<"package", IF f.shape \in Multipart THEN First(d.set) ELSE f>>]
       ELSE IF f.dir # Top
       THEN [ok |-> TRUE, files |-> {g \in files : g.dir = f.dir}, key |-> <<"directory", f.dir>>]
       ELSE [ok |-> TRUE, files |-> {f}, key |-> <<"entry", f>>]

\* installation_scope: refused when the scope holds results of two works.
Scope(f) ==
    IF OneWork THEN [ok |-> TRUE, files |-> files, key |-> Root]
    ELSE LET scope == NaturalScope(f)
         IN [scope EXCEPT !.ok = @ /\ Cardinality(MatchedCodes(scope.files)) <= 1]

\* (Wrong form.) The row of the whole root is not looked at.
ScopedId(f) == Scope(f).key

\* InstallationFromScanService::installation_id.
CreatedId(f) ==
    LET key == Scope(f).key
    IN IF key = Root \/ LegacyMatches(f, Identified(f)) THEN Root ELSE key

\* chosen_identity: what the user may add the finding as; "" keeps what was detected.
Choices(g) ==
    CASE State(g) \in {"incomplete", "mixed"} -> {}
      [] State(g) = "ready" -> {Works(g)} \cup {{}}
      [] OTHER -> {{c} : c \in Codes} \cup {{}}

IsArchive(f) == Discover(f).set # {}

Answer(g, a) == answers' = [answers EXCEPT ![g.key] = a]
Put(id, row) == library' = [i \in DOMAIN library \cup {id} |->
                              IF i = id THEN row ELSE library[i]]

Known(g) ==
    /\ g.key \in DOMAIN answers /\ answers[g.key] = "none"
    /\ Cardinality({k \in DOMAIN answers : answers[k] # "none"}) < MaxAdds

\* add_one: refused for its state, its scope or because it is there; else the row is
\* created, or the detection of the one that is there replaced, and what needs no
\* installing is confirmed at once.
Add(g, choice) ==
    LET r == Representative(g)  id == CreatedId(r)
        was == IF id \in DOMAIN library THEN library[id].reviewed ELSE FALSE
    IN /\ Known(g) /\ InLibrary(g) # "same" /\ choice \in Choices(g)
       /\ Scope(r).ok
       /\ Put(id, [items |-> Scope(r).files, detected |-> Identified(r), code |-> choice,
                   reviewed |-> was \/ ~IsArchive(r)])
       /\ Answer(g, IF IsArchive(r) THEN "needs_install" ELSE "added")
       /\ UNCHANGED <<files, points>>

\* confirm, once the archive is installed.
Confirm(g) ==
    /\ g.key \in DOMAIN answers /\ answers[g.key] = "needs_install"
    /\ LET id == CreatedId(Representative(g))
       IN /\ id \in DOMAIN library
          /\ Put(id, [library[id] EXCEPT !.reviewed = TRUE])
    /\ Answer(g, "added") /\ UNCHANGED <<files, points>>

-----------------------------------------------------------------------------

Keys == {Root} \cup {<<"package", f>> : f \in Files} \cup {<<"entry", f>> : f \in Files}
          \cup {<<"directory", f.dir>> : f \in Files}

Init ==
    /\ files \in {F \in SUBSET Files : Cardinality(F) \in 1..MaxFiles}
    /\ points \in [files -> Readings]
    /\ library \in {<<>>} \cup [{Root} -> OldRows]
    /\ answers = [g \in {x.key : x \in Findings} |-> "none"]

Next == \E g \in Findings :
          \/ Confirm(g)
          \/ \E choice \in Choices(g) : Add(g, choice)

Spec == Init /\ [][Next]_vars

TypeOK ==
    /\ files \subseteq Files /\ points \in [files -> Readings]
    /\ DOMAIN library \subseteq Keys
    /\ \A id \in DOMAIN library :
         /\ library[id].items \subseteq Files /\ library[id].detected \subseteq Codes
         /\ library[id].code \subseteq Codes /\ library[id].reviewed \in BOOLEAN
    /\ \A k \in DOMAIN answers :
         answers[k] \in {"none", "needs_install", "added"}

-----------------------------------------------------------------------------

\* The first volume of an archive set does not show the work another volume shows.
HiddenCode(g) == Identified(Representative(g)) # SingleCode(g)

\* A finding that was added is listed as being in the library with its own files, so
\* that it is not offered and added a second time: the list, which knows the results of
\* all its files, and the add, which starts from one, come to the same identifier.
\* They do not for an archive whose first volume hides its work, while the row of the
\* whole root from an earlier scan is that work and was never reviewed.
AddedIsListed ==
    \A g \in Findings : answers[g.key] = "added" /\ ~HiddenCode(g) => InLibrary(g) = "same"
=============================================================================
