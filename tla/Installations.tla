--------------------------- MODULE Installations ---------------------------
(***************************************************************************)
(* The installations of the library: what a scan detected of each, what    *)
(* the user chose for it, and the status that follows from both.           *)
(*                                                                         *)
(* Source: dla-domain/src/installation.rs, dla-application/src/            *)
(* installation.rs, installation_review.rs and installation_from_scan.rs,  *)
(* rescan of dla-application/src/maintenance.rs, confirm of                *)
(* dla-application/src/scan_findings.rs and dla-sqlite/src/installation.rs.*)
(* Adding from a scan is one transaction.  A review and a rescan read the  *)
(* row under one lock of the connection and write their half of it, with   *)
(* the status they computed, under another.  A row whose status does not   *)
(* follow from its halves is refused by every reader.                      *)
(***************************************************************************)
EXTENDS Naturals, FiniteSets

CONSTANTS
    RowIds,        \* installations
    RowCallers,    \* threads that run commands
    RowPaths,      \* files of an installation
    RowCodes,      \* work codes
    CatalogCodes,  \* those the catalog has
    Detections,    \* what a scan or a rescan may find
    UserChoices,   \* what a user may choose
    MaxRowCalls    \* bound: commands

VARIABLES
    libraryRow,  \* the stored installations
    held,        \* what the thread of a command read and computed
    rowCalls,    \* spent bound
    tornRows     \* history: rows whose two halves come from overlapping commands

rowsVars == <<libraryRow, held, rowCalls, tornRows>>

Unset == "none"
Root == "installation_root"
Unidentified == "unidentified"

\* detected: the work and the files found, the program a one-step add starts, whether
\* the classifier calls it ready, and whether it is an archive.
Detection ==
    [code : RowCodes \cup {Unset}, items : SUBSET RowPaths, launch : RowPaths \cup {Unset},
     suggested : {"ready", "needs_review"}, package : BOOLEAN]

\* chosen: a work, or that it is none; what to start; the files to ignore; its title.
Overrides ==
    [identity : RowCodes \cup {Unset, Unidentified}, action : RowPaths \cup {Unset, Root},
     ignored : SUBSET RowPaths, title : {"own", Unset}, reviewed : BOOLEAN]

DefaultOverrides ==
    [identity |-> Unset, action |-> Unset, ignored |-> {}, title |-> Unset, reviewed |-> FALSE]

ASSUME RowsAssumptions ==
    /\ Detections \subseteq Detection /\ UserChoices \subseteq Overrides
    /\ Unset \notin RowCodes /\ Unidentified \notin RowCodes
    /\ MaxRowCalls \in Nat

NoRow == [status |-> "absent"]
Rows ==
    [detected : Detection, chosen : Overrides, status : {"ready", "needs_review"},
     root : {"scanned", "moved"}]

NoRowCommand == [pc |-> "idle"]
Plan(place, i, r) == [pc |-> place, id |-> i, row |-> r]

RowsTypeOK ==
    /\ \A i \in RowIds : libraryRow[i] = NoRow \/ libraryRow[i] \in Rows
    /\ \A c \in RowCallers :
         held[c] = NoRowCommand
         \/ /\ held[c].pc \in {"confirm", "rescan", "overrides", "detection"}
            /\ held[c].id \in RowIds /\ held[c].row \in Rows
    /\ rowCalls \in 0..MaxRowCalls
    /\ tornRows \subseteq RowIds

RowsInit ==
    /\ libraryRow = [i \in RowIds |-> NoRow]
    /\ held = [c \in RowCallers |-> NoRowCommand]
    /\ rowCalls = 0 /\ tornRows = {}

-----------------------------------------------------------------------------
(* A row and its status.                                                   *)

\* review_status: an installation nobody can name needs a review; one with a chosen
\* start needs that file, and not ignored.
ReviewStatus(d, o) ==
    IF d.code = Unset /\ o.identity = Unset THEN "needs_review"
    ELSE IF o.action = Unset THEN d.suggested
    ELSE IF o.action = Root \/ o.action \in d.items \ o.ignored THEN "ready"
    ELSE "needs_review"

\* InstallationDetection::validate: what is started is one of the files found.
Sound(d) == d.launch \in d.items \cup {Unset}

\* Installation::validate: what is read, and what is created, must be consistent.
Valid(r) == Sound(r.detected) /\ r.status = ReviewStatus(r.detected, r.chosen)
Readable(i) == libraryRow[i] # NoRow /\ Valid(libraryRow[i])

\* replace_detection and replace_overrides of the installation in memory.  (Wrong
\* form: the status of the classifier, whatever the user chose.)
AsSuggested(r, d) == [r EXCEPT !.detected = d, !.status = d.suggested]
WithDetection(r, d) ==
    [r EXCEPT !.detected = d, !.status = ReviewStatus(d, r.chosen)]
WithOverrides(r, o) ==
    [r EXCEPT !.chosen = o, !.status = ReviewStatus(r.detected, o)]

EffectiveCode(r) ==
    IF r.chosen.identity = Unidentified THEN Unset
    ELSE IF r.chosen.identity # Unset THEN r.chosen.identity
    ELSE r.detected.code

-----------------------------------------------------------------------------
(* Commands of one transaction.                                            *)

Called == rowCalls < MaxRowCalls /\ rowCalls' = rowCalls + 1

\* create_or_refresh from a scan: what has no identity is never suggested as ready.
Scanned(d) == IF d.code = Unset THEN [d EXCEPT !.suggested = "needs_review"] ELSE d

NewRow(d) ==
    [detected |-> d, chosen |-> DefaultOverrides, status |-> d.suggested, root |-> "scanned"]

\* A row that was relocated has another source and is refused.
CreateOrRefresh(i, d) ==
    /\ Called /\ Sound(d)
    /\ \/ libraryRow[i] = NoRow /\ Valid(NewRow(Scanned(d)))
          /\ libraryRow' = [libraryRow EXCEPT ![i] = NewRow(Scanned(d))]
       \/ Readable(i) /\ libraryRow[i].root = "scanned"
          /\ libraryRow' = [libraryRow EXCEPT ![i] = WithDetection(libraryRow[i], Scanned(d))]
    /\ tornRows' = tornRows \ {i}
    /\ UNCHANGED held

\* relocate of an installation that was not unpacked.
ReplaceRoot(i) ==
    /\ Called /\ Readable(i) /\ libraryRow[i].root = "scanned"
    /\ libraryRow' = [libraryRow EXCEPT ![i].root = "moved"]
    /\ UNCHANGED <<held, tornRows>>

\* remove_from_library reads the installation before its row is deleted.
RemoveRow(i) ==
    /\ Readable(i)
    /\ libraryRow' = [libraryRow EXCEPT ![i] = NoRow]
    /\ tornRows' = tornRows \ {i}
    /\ UNCHANGED <<held, rowCalls>>

-----------------------------------------------------------------------------
(* Commands that read the row and then write a half of it.                 *)

\* The review form: replace_overrides reads, and computes the status.
SaveReview(c, i, o) ==
    /\ held[c] = NoRowCommand /\ Called
    /\ o.identity \in CatalogCodes \cup {Unset, Unidentified}
    /\ Readable(i)
    /\ held' = [held EXCEPT ![c] = Plan("overrides", i, WithOverrides(libraryRow[i], o))]
    /\ UNCHANGED <<libraryRow, tornRows>>

\* confirm and rescan start from an installation read before.
StartOnRow(c, i, command) ==
    /\ held[c] = NoRowCommand /\ Called /\ Readable(i)
    /\ held' = [held EXCEPT ![c] = Plan(command, i, libraryRow[i])]
    /\ UNCHANGED <<libraryRow, tornRows>>

\* confirm saves a review made of what was read then: the launch recommended for a
\* work that is no archive, unless one was chosen.
Confirmed(r) ==
    [r.chosen EXCEPT
        !.action = IF r.chosen.action = Unset /\ ~r.detected.package
                   THEN r.detected.launch ELSE r.chosen.action,
        !.reviewed = TRUE]

ConfirmRead(c) ==
    /\ held[c].pc = "confirm"
    /\ LET i == held[c].id IN
       held' = [held EXCEPT ![c] =
                  IF Readable(i)
                  THEN Plan("overrides", i, WithOverrides(libraryRow[i], Confirmed(held[c].row)))
                  ELSE NoRowCommand]
    /\ UNCHANGED <<libraryRow, rowCalls, tornRows>>

\* rescan classifies the files that are there; the work and the inspected package are
\* those read then.
RescanRead(c, d) ==
    /\ held[c].pc = "rescan"
    /\ LET i == held[c].id
           was == held[c].row.detected
           found == [d EXCEPT !.code = was.code, !.package = was.package]
       IN held' = [held EXCEPT ![c] =
                     IF Readable(i) /\ Sound(found)
                     THEN Plan("detection", i, WithDetection(libraryRow[i], found))
                     ELSE NoRowCommand]
    /\ UNCHANGED <<libraryRow, rowCalls, tornRows>>

\* The writes.  The UPDATE needs the row; it does not look at the other half.
WriteOverrides(c) ==
    /\ held[c].pc = "overrides"
    /\ LET i == held[c].id   r == held[c].row IN
       IF libraryRow[i] = NoRow THEN UNCHANGED <<libraryRow, tornRows>>
       ELSE /\ libraryRow' = [libraryRow EXCEPT ![i].chosen = r.chosen, ![i].status = r.status]
            /\ tornRows' = IF libraryRow[i].detected = r.detected THEN tornRows
                           ELSE tornRows \cup {i}
    /\ held' = [held EXCEPT ![c] = NoRowCommand]
    /\ UNCHANGED rowCalls

WriteDetection(c) ==
    /\ held[c].pc = "detection"
    /\ LET i == held[c].id   r == held[c].row IN
       IF libraryRow[i] = NoRow THEN UNCHANGED <<libraryRow, tornRows>>
       ELSE /\ libraryRow' = [libraryRow EXCEPT ![i].detected = r.detected, ![i].status = r.status]
            /\ tornRows' = IF libraryRow[i].chosen = r.chosen THEN tornRows
                           ELSE tornRows \cup {i}
    /\ held' = [held EXCEPT ![c] = NoRowCommand]
    /\ UNCHANGED rowCalls

RowsNext ==
    \/ \E i \in RowIds : \/ ReplaceRoot(i) \/ RemoveRow(i)
                         \/ \E d \in Detections : CreateOrRefresh(i, d)
    \/ \E c \in RowCallers :
         \/ \E i \in RowIds : \/ \E o \in UserChoices : SaveReview(c, i, o)
                              \/ \E command \in {"confirm", "rescan"} : StartOnRow(c, i, command)
         \/ ConfirmRead(c) \/ WriteOverrides(c) \/ WriteDetection(c)
         \/ \E d \in Detections : RescanRead(c, d)

RowsSpec == RowsInit /\ [][RowsNext]_rowsVars

-----------------------------------------------------------------------------
(* Readers.  One row they cannot read fails the whole answer.              *)

Failure == {"failure"}

AnswerRows(ids) == IF \A i \in ids : Readable(i) THEN ids ELSE Failure

List == AnswerRows({i \in RowIds : libraryRow[i] # NoRow})

\* The two halves of the query: a work chosen by the user, and one detected where
\* the user chose none.  (Wrong form: detected, whatever the user chose.)
DetectedAs(i, code) == libraryRow[i].detected.code = code
NamedAs(i, code) ==
    \/ libraryRow[i].chosen.identity = code
    \/ libraryRow[i].chosen.identity = Unset /\ libraryRow[i].detected.code = code

FindByWorkCode(code) == AnswerRows({i \in RowIds : libraryRow[i] # NoRow /\ NamedAs(i, code)})

-----------------------------------------------------------------------------
(* Properties.                                                             *)

\* "installation status does not match its detection and overrides": no row is ever
\* stored that the readers refuse (Installation::validate).
RowsAreReadable == \A i \in RowIds : libraryRow[i] # NoRow => Readable(i)

\* Unless two commands overlapped on a row, the library lists every installation, and
\* a search for a work finds exactly those the list shows under it
\* (replace_detection and replace_overrides against list and find_by_work_code).
LibraryAnswers ==
    tornRows = {} =>
        /\ List = {i \in RowIds : libraryRow[i] # NoRow}
        /\ \A code \in RowCodes :
             FindByWorkCode(code) = {i \in List : EffectiveCode(libraryRow[i]) = code}
=============================================================================
