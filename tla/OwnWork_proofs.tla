--------------------------- MODULE OwnWork_proofs ---------------------------
(***************************************************************************)
(* Proofs about OwnWork and Playback.                                      *)
(*                                                                         *)
(* OwnWork, for any works, pictures, requests, number of saves at a time,  *)
(* failing removals and restarts: a row that was written by a save nothing *)
(* else met names pictures that are there.  The argument follows a save:   *)
(* while it is alone nothing takes what it has checked, and what it        *)
(* removes in the end is not named by its row, which stays the row of the  *)
(* work as long as nobody disturbs it.                                     *)
(*                                                                         *)
(* Playback, for any works, files and lengths: a player saves only places  *)
(* that were heard, and the place the page reported last is kept.  The     *)
(* argument follows a place from where it is heard through the element or  *)
(* the page, and the queue of pending writes, into the store.              *)
(***************************************************************************)
EXTENDS OwnWork, Playback, TLAPS

-----------------------------------------------------------------------------
(* The inductive invariant.                                                *)

\* There is a work, and a request names pictures: one or no cover, and samples.
RequestsNamePictures ==
    /\ OwnWorks # {}
    /\ Requests \subseteq [cover : {{}} \cup {{p} : p \in Pictures}, samples : SUBSET Pictures]

SaveStates ==
    [at : {"idle", "check", "write", "list", "retain"}, work : OwnWorks,
     row : Row, todo : SUBSET Pictures, alone : BOOLEAN]
PruneStates ==
    [at : {"list", "read", "sweep", "done"}, present : SUBSET OwnWorks, todo : SUBSET OwnWorks]

Types ==
    /\ installed \subseteq OwnWorks /\ details \in [OwnWorks -> Row]
    /\ artwork \in [OwnWorks -> [Pictures -> {"none", "fresh", "aged"}]]
    /\ lists \in [OwnWorks -> SUBSET Pictures]
    /\ saver \in [Savers -> SaveStates] /\ prune \in PruneStates
    /\ disturbed \subseteq OwnWorks

\* A save that nothing met is the only one of its work.
AloneIsAlone ==
    \A c \in Savers : saver[c].at # "idle" /\ saver[c].alone => Saving(saver[c].work) = {c}

\* What such a save has checked is there, and it checks all it names before it writes.
CheckedIsThere ==
    \A c \in Savers :
        /\ saver[c].at = "write" => saver[c].todo = {}
        /\ saver[c].at \in {"check", "write"} /\ saver[c].alone =>
               Named(saver[c].row) \ saver[c].todo \subseteq Stored(saver[c].work)

\* A save that removes what its row does not name keeps what the work's row names.
WrittenIsKept ==
    \A c \in Savers :
        /\ saver[c].at \in {"list", "retain"} /\ saver[c].work \notin disturbed =>
               Named(details[saver[c].work]) \subseteq Named(saver[c].row)
        /\ saver[c].at = "retain" => saver[c].todo \cap Named(saver[c].row) = {}

\* A row that names something was saved.
RowsAreSaved ==
    /\ \A w \in OwnWorks : details[w].saved \/ Named(details[w]) = {}
    /\ \A c \in Savers : saver[c].at # "idle" => saver[c].row.saved

Core == AloneIsAlone /\ CheckedIsThere /\ WrittenIsKept /\ RowsAreSaved /\ PicturesAreKept

IInv == Types /\ Core

-----------------------------------------------------------------------------
(* Rows, and what a step leaves alone.                                     *)

\* The row of a request in order is a row that is saved.
LEMMA ValidatedRow ==
    ASSUME RequestsNamePictures, NEW r \in Requests, NEW row \in Validated(r)
    PROVE  row \in Row /\ row.saved
  <1>1. row = [cover |-> r.cover, samples |-> r.samples, saved |-> TRUE]
    BY DEF Validated
  <1>2. r.cover \in {{}} \cup {{p} : p \in Pictures} /\ r.samples \in SUBSET Pictures
    BY DEF RequestsNamePictures
  <1>3. QED
    BY <1>1, <1>2 DEF Row

LEMMA RowNamesPictures ==
    ASSUME NEW row \in Row
    PROVE  Named(row) \subseteq Pictures
  BY DEF Row, Named

LEMMA NoRowIsRow == NoRow \in Row /\ Named(NoRow) = {} /\ ~NoRow.saved
  BY DEF NoRow, Row, Named

\* A save that has ended is idle.
LEMMA IdleState ==
    ASSUME RequestsNamePictures
    PROVE  NotSaving \in SaveStates /\ NotSaving.at = "idle"
  <1>1. (CHOOSE w \in OwnWorks : TRUE) \in OwnWorks
    BY DEF RequestsNamePictures
  <1>2. QED
    BY <1>1, NoRowIsRow DEF NotSaving, SaveStates

\* What Crowded does to each save, and that it leaves saves.
LEMMA CrowdedSaves ==
    ASSUME Types, NEW cs
    PROVE  /\ Crowded(cs) \in [Savers -> SaveStates]
           /\ \A d \in Savers :
                /\ Crowded(cs)[d].at = saver[d].at /\ Crowded(cs)[d].work = saver[d].work
                /\ Crowded(cs)[d].row = saver[d].row /\ Crowded(cs)[d].todo = saver[d].todo
                /\ Crowded(cs)[d].alone <=> saver[d].alone /\ d \notin cs
  <1> DEFINE B(d) == saver[d].alone /\ d \notin cs
  <1>1. ASSUME NEW d \in Savers
        PROVE  /\ saver[d] \in SaveStates /\ B(d) \in BOOLEAN
               /\ Crowded(cs)[d] = [saver[d] EXCEPT !.alone = B(d)]
    BY <1>1 DEF Types, SaveStates, Crowded
  <1> HIDE DEF B
  <1>2. ASSUME NEW d \in Savers
        PROVE  /\ Crowded(cs)[d] \in SaveStates
               /\ Crowded(cs)[d].at = saver[d].at /\ Crowded(cs)[d].work = saver[d].work
               /\ Crowded(cs)[d].row = saver[d].row /\ Crowded(cs)[d].todo = saver[d].todo
               /\ Crowded(cs)[d].alone = B(d)
    BY <1>1 DEF SaveStates
  <1>3. Crowded(cs) \in [Savers -> SaveStates]
    <2>1. Crowded(cs) = [d \in Savers |-> Crowded(cs)[d]]
      BY DEF Crowded
    <2>2. QED
      BY <1>2, <2>1
  <1>4. QED
    BY <1>2, <1>3 DEF B

-----------------------------------------------------------------------------
(* Types.                                                                  *)

\* What the calls of one save do to the saves.
LEMMA SaverTypes ==
    ASSUME RequestsNamePictures, Types, NEW c \in Savers
    PROVE  /\ \A at \in {"write", "list"} : Goes(c, at) => saver' \in [Savers -> SaveStates]
           /\ Ends(c) => saver' \in [Savers -> SaveStates]
           /\ \A F \in SUBSET Pictures, at \in {"check", "retain"} :
                [saver EXCEPT ![c].at = at, ![c].todo = F] \in [Savers -> SaveStates]
           /\ \A p \in Pictures :
                [saver EXCEPT ![c].todo = @ \ {p}] \in [Savers -> SaveStates]
  <1>1. saver \in [Savers -> SaveStates]
    BY DEF Types
  <1>2. NotSaving \in SaveStates
    BY IdleState
  <1>3. ASSUME NEW at \in {"check", "write", "list", "retain"}, NEW F \in SUBSET Pictures
        PROVE  /\ [saver[c] EXCEPT !.at = at] \in SaveStates
               /\ [saver[c] EXCEPT !.at = at, !.todo = F] \in SaveStates
    BY <1>1 DEF SaveStates
  <1>4. ASSUME NEW p \in Pictures
        PROVE  [saver[c] EXCEPT !.todo = @ \ {p}] \in SaveStates
    BY <1>1 DEF SaveStates
  <1>5. QED
    BY <1>1, <1>2, <1>3, <1>4 DEF Goes, Ends

LEMMA TypesInductive ==
    ASSUME RequestsNamePictures, Types, [OwnNext]_ownVars
    PROVE  Types'
  <1>1. ASSUME NEW w \in OwnWorks, NEW s \in SUBSET Pictures, ListImages(w, s)
        PROVE  Types'
    BY <1>1 DEF Types, ListImages
  <1>2. ASSUME NEW w \in OwnWorks, NEW p \in Pictures, Import(w, p)
        PROVE  artwork' \in [OwnWorks -> [Pictures -> {"none", "fresh", "aged"}]]
    BY <1>2 DEF Types, Import
  <1>3. ASSUME NEW w \in OwnWorks, NEW p \in Pictures,
               ImportListed(w, p) \/ ImportFile(w, p) \/ Age(w, p)
        PROVE  Types'
    <2>1. artwork' \in [OwnWorks -> [Pictures -> {"none", "fresh", "aged"}]]
      BY <1>2, <1>3 DEF Types, ImportListed, ImportFile, Age
    <2>2. QED
      BY <1>3, <2>1 DEF Types, ImportListed, ImportFile, Age
  <1>4. ASSUME NEW c \in Savers, NEW w \in OwnWorks, NEW r \in Requests,
               NEW row \in Validated(r), StartSave(c, w, row)
        PROVE  Types'
    <2> DEFINE save == [at |-> "check", work |-> w, row |-> row, todo |-> Named(row),
                        alone |-> Saving(w) = {}]
    <2>1. save \in SaveStates
      BY ValidatedRow, RowNamesPictures DEF SaveStates
    <2>2. saver' = [Crowded(Saving(w)) EXCEPT ![c] = save]
      BY <1>4 DEF StartSave
    <2>3. saver' \in [Savers -> SaveStates]
      <3> HIDE DEF save
      <3>1. QED
        BY <2>1, <2>2, CrowdedSaves
    <2>4. QED
      BY <1>4, <2>3 DEF Types, StartSave
  <1>5. ASSUME NEW c \in Savers, CheckPicture(c)
        PROVE  Types'
    <2>1. saver[c].todo \subseteq Pictures
      BY DEF Types, SaveStates
    <2>2. saver' \in [Savers -> SaveStates]
      <3>1. CASE Goes(c, "write") \/ Ends(c)
        BY <3>1, SaverTypes
      <3>2. ASSUME NEW p \in saver[c].todo, saver' = [saver EXCEPT ![c].todo = @ \ {p}]
            PROVE  saver' \in [Savers -> SaveStates]
        BY <2>1, <3>2, SaverTypes
      <3>3. QED
        BY <1>5, <3>1, <3>2 DEF CheckPicture
    <2>3. QED
      BY <1>5, <2>2 DEF Types, CheckPicture
  <1>6. ASSUME NEW c \in Savers, WriteRow(c)
        PROVE  Types'
    <2>1. saver[c].work \in OwnWorks /\ saver[c].row \in Row
      BY DEF Types, SaveStates
    <2>2. saver' \in [Savers -> SaveStates]
      BY <1>6, SaverTypes DEF WriteRow
    <2>3. details' \in [OwnWorks -> Row] /\ disturbed' \subseteq OwnWorks
      BY <1>6, <2>1 DEF WriteRow, Types
    <2>4. QED
      BY <1>6, <2>2, <2>3 DEF Types, WriteRow
  <1>7. ASSUME NEW c \in Savers, ListStored(c)
        PROVE  Types'
    <2> DEFINE F == {p \in Stored(saver[c].work) \ Kept(saver[c].row) :
                        artwork[saver[c].work][p] = "aged"}
    <2>1. F \in SUBSET Pictures /\ saver' = [saver EXCEPT ![c].at = "retain", ![c].todo = F]
      BY <1>7 DEF ListStored, Stored
    <2>2. saver' \in [Savers -> SaveStates]
      <3> HIDE DEF F
      <3>1. QED
        BY <2>1, SaverTypes
    <2>3. QED
      BY <1>7, <2>2 DEF Types, ListStored
  <1>8. ASSUME NEW c \in Savers, RetainOne(c)
        PROVE  Types'
    <2>1. saver[c].todo \subseteq Pictures
      BY DEF Types, SaveStates
    <2>2. saver' \in [Savers -> SaveStates]
      <3>1. CASE Ends(c)
        BY <3>1, SaverTypes
      <3>2. ASSUME NEW p \in saver[c].todo, saver' = [saver EXCEPT ![c].todo = @ \ {p}]
            PROVE  saver' \in [Savers -> SaveStates]
        BY <2>1, <3>2, SaverTypes
      <3>3. QED
        BY <1>8, <3>1, <3>2 DEF RetainOne
    <2>3. artwork' \in [OwnWorks -> [Pictures -> {"none", "fresh", "aged"}]]
      <3>1. CASE UNCHANGED artwork
        BY <3>1 DEF Types
      <3>2. ASSUME NEW p \in saver[c].todo,
                   artwork' = [artwork EXCEPT ![saver[c].work][p] = IF @ = "aged" THEN "none" ELSE @]
            PROVE  artwork' \in [OwnWorks -> [Pictures -> {"none", "fresh", "aged"}]]
        BY <2>1, <3>2 DEF Types
      <3>3. QED
        BY <1>8, <3>1, <3>2 DEF RetainOne
    <2>4. QED
      BY <1>8, <2>2, <2>3 DEF Types, RetainOne
  <1>9. ASSUME ListInstalled \/ ReadFolders \/ EndPrune
        PROVE  Types'
    BY <1>9 DEF Types, PruneStates, ListInstalled, ReadFolders, Folders, EndPrune, NotStarted
  <1>10. ASSUME NEW w \in OwnWorks, RemoveFolder(w)
         PROVE  Types'
    <2>1. saver' \in [Savers -> SaveStates]
      BY <1>10, CrowdedSaves DEF RemoveFolder, Types
    <2>2. artwork' \in [OwnWorks -> [Pictures -> {"none", "fresh", "aged"}]]
      BY <1>10 DEF RemoveFolder, Types
    <2>3. prune' \in PruneStates /\ disturbed' \subseteq OwnWorks
      BY <1>10 DEF RemoveFolder, Types, PruneStates, NotStarted
    <2>4. QED
      BY <1>10, <2>1, <2>2, <2>3 DEF Types, RemoveFolder
  <1>11. ASSUME NEW w \in OwnWorks, InstallWork(w) \/ UninstallWork(w)
         PROVE  Types'
    BY <1>11, NoRowIsRow DEF Types, InstallWork, UninstallWork
  <1>12. CASE OwnRestart
    BY <1>12, IdleState DEF OwnRestart, Types, PruneStates, NotStarted
  <1>13. CASE UNCHANGED ownVars
    BY <1>13 DEF ownVars, Types
  <1>14. QED
    BY <1>1, <1>3, <1>4, <1>5, <1>6, <1>7, <1>8, <1>9, <1>10, <1>11, <1>12, <1>13 DEF OwnNext

-----------------------------------------------------------------------------
(* What a save and the pictures are to each other, step by step.           *)

\* Steps that touch no row and no save, and take no picture.
LEMMA QuietStep ==
    ASSUME Types, Core, UNCHANGED <<details, saver, disturbed>>,
           \A w \in OwnWorks, p \in Pictures : artwork[w][p] # "none" => artwork'[w][p] # "none"
    PROVE  Core'
  <1>1. AloneIsAlone' /\ RowsAreSaved' /\ WrittenIsKept'
    BY DEF Core, AloneIsAlone, Saving, RowsAreSaved, WrittenIsKept
  <1>2. \A w \in OwnWorks : Stored(w) \subseteq Stored(w)'
    BY DEF Stored
  <1>3. \A c \in Savers : saver[c].work \in OwnWorks
    BY DEF Types, SaveStates
  <1>4. CheckedIsThere'
    BY <1>2, <1>3 DEF Core, CheckedIsThere
  <1>5. \A w \in OwnWorks : Named(details[w]) \subseteq Pictures
    BY RowNamesPictures DEF Types
  <1>6. PicturesAreKept'
    BY <1>5 DEF Core, PicturesAreKept
  <1>7. QED
    BY <1>1, <1>4, <1>6 DEF Core

\* A save that is alone is not met by another save of its work.
LEMMA AloneInWork ==
    ASSUME AloneIsAlone, NEW c \in Savers, NEW d \in Savers,
           saver[c].at # "idle", saver[d].at # "idle", saver[c].work = saver[d].work,
           saver[d].alone
    PROVE  c = d
  <1>1. Saving(saver[d].work) = {d}
    BY DEF AloneIsAlone
  <1>2. c \in Saving(saver[d].work)
    BY DEF Saving
  <1>3. QED
    BY <1>1, <1>2

SaveStep(c) == CheckPicture(c) \/ WriteRow(c) \/ ListStored(c) \/ RetainOne(c)

\* A step of a save is its own: it ends, or goes on with the same work, row and company.
LEMMA OneSave ==
    ASSUME RequestsNamePictures, Types, NEW c \in Savers, SaveStep(c)
    PROVE  /\ saver[c].at # "idle" /\ \A d \in Savers \ {c} : saver'[d] = saver[d]
           /\ \/ saver'[c].at = "idle"
              \/ /\ saver'[c].work = saver[c].work /\ saver'[c].row = saver[c].row
                 /\ saver'[c].alone = saver[c].alone
  <1> DEFINE Claim == /\ \A d \in Savers \ {c} : saver'[d] = saver[d]
                      /\ \/ saver'[c].at = "idle"
                         \/ /\ saver'[c].work = saver[c].work /\ saver'[c].row = saver[c].row
                            /\ saver'[c].alone = saver[c].alone
  <1>1. saver \in [Savers -> SaveStates]
    BY DEF Types
  <1>2. ASSUME Ends(c)
        PROVE  Claim
    BY <1>1, <1>2, IdleState DEF Ends
  <1>3. ASSUME NEW at, Goes(c, at)
        PROVE  Claim
    BY <1>1, <1>3 DEF Goes, SaveStates
  <1>4. ASSUME NEW F, saver' = [saver EXCEPT ![c].todo = F]
        PROVE  Claim
    BY <1>1, <1>4 DEF SaveStates
  <1>5. ASSUME NEW F, saver' = [saver EXCEPT ![c].at = "retain", ![c].todo = F]
        PROVE  Claim
    BY <1>1, <1>5 DEF SaveStates
  <1>6. saver[c].at # "idle"
    BY DEF SaveStep, CheckPicture, WriteRow, ListStored, RetainOne
  <1>7. CASE CheckPicture(c)
    BY <1>7, <1>2, <1>3, <1>4 DEF CheckPicture
  <1>8. CASE WriteRow(c)
    BY <1>8, <1>2, <1>3 DEF WriteRow
  <1>9. CASE ListStored(c)
    BY <1>9, <1>5 DEF ListStored
  <1>10. CASE RetainOne(c)
    BY <1>10, <1>2, <1>4 DEF RetainOne
  <1>11. Claim
    BY <1>7, <1>8, <1>9, <1>10 DEF SaveStep
  <1>12. QED
    BY <1>6, <1>11 DEF Claim

\* So who is alone stays alone, and what is saved is a row of a request.
LEMMA SaveKeepsCompany ==
    ASSUME RequestsNamePictures, Types, Core, NEW c \in Savers, SaveStep(c)
    PROVE  AloneIsAlone' /\ \A d \in Savers : saver'[d].at # "idle" => saver'[d].row.saved
  <1>1. ASSUME NEW d \in Savers, saver'[d].at # "idle"
        PROVE  /\ saver[d].at # "idle" /\ saver'[d].work = saver[d].work
               /\ saver'[d].row = saver[d].row /\ saver'[d].alone = saver[d].alone
    BY <1>1, OneSave
  <1>2. ASSUME NEW d \in Savers, saver'[d].at # "idle", saver'[d].alone
        PROVE  Saving(saver[d].work)' = {d}
    <2>1. Saving(saver[d].work) = {d}
      BY <1>1, <1>2 DEF Core, AloneIsAlone
    <2>2. Saving(saver[d].work)' \subseteq {d}
      BY <1>1, <1>2, <2>1 DEF Saving
    <2>3. d \in Saving(saver[d].work)'
      BY <1>2 DEF Saving
    <2>4. QED
      BY <2>2, <2>3
  <1>3. AloneIsAlone'
    BY <1>2 DEF AloneIsAlone
  <1>4. QED
    BY <1>1, <1>3 DEF Core, RowsAreSaved

LEMMA CheckKeeps ==
    ASSUME RequestsNamePictures, Types, Core, NEW c \in Savers, CheckPicture(c)
    PROVE  Core'
  <1>1. SaveStep(c) /\ UNCHANGED <<details, artwork, disturbed>> /\ saver[c].at = "check"
    BY DEF SaveStep, CheckPicture
  <1>2. AloneIsAlone' /\ RowsAreSaved' /\ PicturesAreKept'
    BY <1>1, SaveKeepsCompany DEF Core, RowsAreSaved, PicturesAreKept
  <1>3. saver[c] \in SaveStates /\ \A w : Stored(w)' = Stored(w)
    BY <1>1 DEF Types, Stored
  <1>4. \/ saver'[c].at = "idle"
        \/ saver'[c].at = "write" /\ saver'[c].todo = {} /\ saver[c].todo = {}
        \/ /\ saver'[c].at = "check"
           /\ saver[c].todo \ saver'[c].todo \subseteq Stored(saver[c].work)
    <2>1. CASE Ends(c)
      BY <2>1, IdleState DEF Ends, Types
    <2>2. CASE saver[c].todo = {} /\ Goes(c, "write")
      BY <2>2, <1>3 DEF Goes, Types, SaveStates
    <2>3. ASSUME NEW p \in Stored(saver[c].work), saver' = [saver EXCEPT ![c].todo = @ \ {p}]
          PROVE  /\ saver'[c].at = "check"
                 /\ saver[c].todo \ saver'[c].todo \subseteq Stored(saver[c].work)
      BY <2>3, <1>1, <1>3 DEF Types, SaveStates
    <2>4. QED
      BY <2>1, <2>2, <2>3 DEF CheckPicture
  <1>5. CheckedIsThere'
    <2>1. ASSUME NEW d \in Savers, d # c
          PROVE  /\ saver'[d].at = "write" => saver'[d].todo = {}
                 /\ saver'[d].at \in {"check", "write"} /\ saver'[d].alone =>
                      Named(saver'[d].row) \ saver'[d].todo \subseteq Stored(saver'[d].work)
      BY <2>1, <1>1, OneSave DEF Core, CheckedIsThere
    <2>2. saver'[c].at \in {"check", "write"} /\ saver'[c].alone =>
              Named(saver'[c].row) \ saver'[c].todo \subseteq Stored(saver'[c].work)
      BY <1>1, <1>4, OneSave DEF Core, CheckedIsThere
    <2>3. QED
      BY <1>3, <1>4, <2>1, <2>2 DEF CheckedIsThere
  <1>6. WrittenIsKept'
    BY <1>1, <1>4, OneSave DEF Core, WrittenIsKept
  <1>7. QED
    BY <1>2, <1>5, <1>6 DEF Core

\* The row of a save that was alone names what is there, and no other save is at the work.
LEMMA WriteKeeps ==
    ASSUME RequestsNamePictures, Types, Core, NEW c \in Savers, WriteRow(c)
    PROVE  Core'
  <1> DEFINE w == saver[c].work
  <1>1. SaveStep(c) /\ UNCHANGED artwork /\ saver[c].at = "write"
    BY DEF SaveStep, WriteRow
  <1>2. /\ saver[c] \in SaveStates /\ w \in OwnWorks /\ saver[c].row \in Row
        /\ \A v : Stored(v)' = Stored(v)
    BY <1>1 DEF Types, SaveStates, Stored
  <1>3. saver'[c].at \in {"idle", "list"}
    BY IdleState DEF WriteRow, Goes, Ends, Types, SaveStates
  <1>4. \/ UNCHANGED <<details, disturbed>> /\ saver'[c].at = "idle"
        \/ /\ details' = [details EXCEPT ![w] = saver[c].row]
           /\ disturbed' = IF saver[c].alone THEN disturbed \ {w} ELSE disturbed \cup {w}
    BY IdleState DEF WriteRow, Ends, Types
  <1> HIDE DEF w
  <1>5. AloneIsAlone'
    BY <1>1, SaveKeepsCompany
  <1>6. RowsAreSaved'
    <2>1. \A v \in OwnWorks : details'[v].saved \/ Named(details'[v]) = {}
      BY <1>1, <1>2, <1>4 DEF Core, RowsAreSaved, Types
    <2>2. QED
      BY <1>1, <2>1, SaveKeepsCompany DEF RowsAreSaved
  <1>7. CheckedIsThere'
    <2>1. ASSUME NEW d \in Savers, d # c
          PROVE  /\ saver'[d].at = "write" => saver'[d].todo = {}
                 /\ saver'[d].at \in {"check", "write"} /\ saver'[d].alone =>
                      Named(saver'[d].row) \ saver'[d].todo \subseteq Stored(saver'[d].work)
      BY <2>1, <1>1, OneSave DEF Core, CheckedIsThere
    <2>2. QED
      BY <1>2, <1>3, <2>1 DEF CheckedIsThere
  <1>8. ASSUME NEW d \in Savers, d # c, saver[d].at # "idle", saver[d].work = w, w \notin disturbed'
        PROVE  UNCHANGED <<details, disturbed>>
    BY <1>1, <1>4, <1>8, AloneInWork DEF Core, w
  <1>9. WrittenIsKept'
    <2>1. ASSUME NEW d \in Savers, saver'[d].at \in {"list", "retain"}, saver'[d].work \notin disturbed'
          PROVE  Named(details'[saver'[d].work]) \subseteq Named(saver'[d].row)
      <3>1. CASE d = c
        BY <1>2, <1>3, <1>4, <2>1, <3>1, <1>1, OneSave DEF w, Types
      <3>2. CASE d # c
        <4>1. saver'[d] = saver[d] /\ saver[d].work \in OwnWorks
          BY <1>1, <3>2, OneSave DEF Types, SaveStates
        <4>2. CASE saver[d].work = w
          BY <1>8, <2>1, <3>2, <4>1, <4>2 DEF Core, WrittenIsKept
        <4>3. CASE saver[d].work # w
          BY <1>2, <1>4, <2>1, <3>2, <4>1, <4>3 DEF Core, WrittenIsKept, Types
        <4>4. QED
          BY <4>2, <4>3
      <3>3. QED
        BY <3>1, <3>2
    <2>2. ASSUME NEW d \in Savers, saver'[d].at = "retain"
          PROVE  saver'[d].todo \cap Named(saver'[d].row) = {}
      BY <1>1, <1>3, <2>2, OneSave DEF Core, WrittenIsKept
    <2>3. QED
      BY <2>1, <2>2 DEF WrittenIsKept
  <1>10. PicturesAreKept'
    <2>1. ASSUME NEW v \in OwnWorks \ disturbed', NEW p \in Named(details'[v])
          PROVE  artwork'[v][p] # "none"
      <3>1. CASE v # w \/ UNCHANGED <<details, disturbed>>
        BY <1>1, <1>2, <1>4, <2>1, <3>1 DEF Core, PicturesAreKept, Types
      <3>2. CASE v = w /\ ~UNCHANGED <<details, disturbed>>
        <4>1. saver[c].alone /\ p \in Named(saver[c].row)
          BY <1>2, <1>4, <2>1, <3>2 DEF Types
        <4>2. Named(saver[c].row) \subseteq Stored(w)
          BY <1>1, <4>1 DEF Core, CheckedIsThere, w
        <4>3. QED
          BY <1>1, <3>2, <4>1, <4>2 DEF Stored
      <3>3. QED
        BY <3>1, <3>2
    <2>2. QED
      BY <2>1 DEF PicturesAreKept
  <1>11. QED
    BY <1>5, <1>6, <1>7, <1>9, <1>10 DEF Core

\* What is to be removed is nothing the row of the save names.
LEMMA ListKeeps ==
    ASSUME RequestsNamePictures, Types, Core, NEW c \in Savers, ListStored(c)
    PROVE  Core'
  <1>1. SaveStep(c) /\ UNCHANGED <<details, artwork, disturbed>> /\ saver[c].at = "list"
    BY DEF SaveStep, ListStored
  <1>2. AloneIsAlone' /\ RowsAreSaved' /\ PicturesAreKept'
    BY <1>1, SaveKeepsCompany DEF Core, RowsAreSaved, PicturesAreKept
  <1>3. /\ saver'[c].at = "retain" /\ saver'[c].work = saver[c].work /\ saver'[c].row = saver[c].row
        /\ saver'[c].todo \cap Named(saver[c].row) = {}
    BY DEF ListStored, Kept, Types, SaveStates
  <1>4. \A w : Stored(w)' = Stored(w)
    BY <1>1 DEF Stored
  <1>5. CheckedIsThere'
    BY <1>1, <1>3, <1>4, OneSave DEF Core, CheckedIsThere
  <1>6. WrittenIsKept'
    BY <1>1, <1>3, OneSave DEF Core, WrittenIsKept
  <1>7. QED
    BY <1>2, <1>5, <1>6 DEF Core

\* What is removed was not named by the row of the work, as long as that is the save's own,
\* and no save that is alone is at the work.
LEMMA RetainKeeps ==
    ASSUME RequestsNamePictures, Types, Core, NEW c \in Savers, RetainOne(c)
    PROVE  Core'
  <1> DEFINE w == saver[c].work
  <1>1. SaveStep(c) /\ UNCHANGED <<details, disturbed>> /\ saver[c].at = "retain"
    BY DEF SaveStep, RetainOne
  <1>2. saver[c] \in SaveStates /\ w \in OwnWorks /\ saver[c].todo \subseteq Pictures
    BY DEF Types, SaveStates
  <1>3. \/ saver'[c].at = "idle"
        \/ saver'[c].at = "retain" /\ saver'[c].todo \subseteq saver[c].todo
    <2>1. CASE Ends(c)
      BY <2>1, IdleState DEF Ends, Types
    <2>2. ASSUME NEW p, saver' = [saver EXCEPT ![c].todo = @ \ {p}]
          PROVE  saver'[c].at = "retain" /\ saver'[c].todo \subseteq saver[c].todo
      BY <1>1, <2>2 DEF Types, SaveStates
    <2>3. QED
      BY <2>1, <2>2 DEF RetainOne
  <1>4. \A v \in OwnWorks, p \in Pictures :
            artwork'[v][p] = artwork[v][p] \/ (v = w /\ p \in saver[c].todo)
    <2>1. CASE UNCHANGED artwork
      BY <2>1
    <2>2. ASSUME NEW p \in saver[c].todo,
                 artwork' = [artwork EXCEPT ![w][p] = IF @ = "aged" THEN "none" ELSE @]
          PROVE  \A v \in OwnWorks, q \in Pictures :
                     artwork'[v][q] = artwork[v][q] \/ (v = w /\ q \in saver[c].todo)
      BY <1>2, <2>2 DEF Types
    <2>3. QED
      BY <2>1, <2>2 DEF RetainOne
  <1> HIDE DEF w
  <1>5. AloneIsAlone' /\ RowsAreSaved'
    BY <1>1, SaveKeepsCompany DEF Core, RowsAreSaved
  <1>6. CheckedIsThere'
    <2>1. ASSUME NEW d \in Savers, saver'[d].at \in {"check", "write"}, saver'[d].alone
          PROVE  Named(saver'[d].row) \ saver'[d].todo \subseteq Stored(saver[d].work)'
      <3>1. d # c /\ saver'[d] = saver[d] /\ saver[d].work \in OwnWorks
        BY <1>1, <1>3, <2>1, OneSave DEF Types, SaveStates
      <3>2. saver[d].work # w
        BY <1>1, <2>1, <3>1, AloneInWork DEF Core, w
      <3>3. Named(saver[d].row) \ saver[d].todo \subseteq Stored(saver[d].work)
        BY <2>1, <3>1 DEF Core, CheckedIsThere
      <3>4. \A p \in Pictures : artwork'[saver[d].work][p] = artwork[saver[d].work][p]
        BY <1>4, <3>1, <3>2
      <3>5. QED
        BY <3>1, <3>3, <3>4 DEF Stored
    <2>2. ASSUME NEW d \in Savers, saver'[d].at = "write"
          PROVE  saver'[d].todo = {}
      BY <1>1, <1>3, <2>2, OneSave DEF Core, CheckedIsThere
    <2>3. QED
      BY <2>1, <2>2 DEF CheckedIsThere
  <1>7. WrittenIsKept'
    BY <1>1, <1>3, OneSave DEF Core, WrittenIsKept
  <1>8. PicturesAreKept'
    <2>1. ASSUME NEW v \in OwnWorks \ disturbed, NEW p \in Named(details[v])
          PROVE  artwork'[v][p] # "none"
      <3>1. artwork[v][p] # "none" /\ p \in Pictures
        BY <2>1, RowNamesPictures DEF Core, PicturesAreKept, Types
      <3>2. ~(v = w /\ p \in saver[c].todo)
        BY <1>1, <2>1 DEF Core, WrittenIsKept, w
      <3>3. QED
        BY <1>4, <3>1, <3>2
    <2>2. QED
      BY <1>1, <2>1 DEF PicturesAreKept
  <1>9. QED
    BY <1>5, <1>6, <1>7, <1>8 DEF Core

\* A save that starts has nothing checked, and takes the company of those it meets.
LEMMA StartKeeps ==
    ASSUME RequestsNamePictures, Types, Core, NEW c \in Savers, NEW w \in OwnWorks,
           NEW r \in Requests, NEW row \in Validated(r), StartSave(c, w, row)
    PROVE  Core'
  <1> DEFINE first == Saving(w) = {}
             save == [at |-> "check", work |-> w, row |-> row, todo |-> Named(row),
                      alone |-> first]
  <1>1. UNCHANGED <<details, artwork, disturbed>> /\ saver[c].at = "idle"
    BY DEF StartSave
  <1>2. saver' = [Crowded(Saving(w)) EXCEPT ![c] = save]
    BY DEF StartSave
  <1>3. saver'[c] = save
    <2> HIDE DEF save
    <2>1. QED
      BY <1>2, CrowdedSaves
  <1> HIDE DEF first
  <1>4. ASSUME NEW d \in Savers \ {c}
        PROVE  /\ saver'[d].at = saver[d].at /\ saver'[d].work = saver[d].work
               /\ saver'[d].row = saver[d].row /\ saver'[d].todo = saver[d].todo
               /\ saver'[d].alone <=> saver[d].alone /\ d \notin Saving(w)
    <2>1. saver'[d] = Crowded(Saving(w))[d]
      <3> HIDE DEF save
      <3>1. QED
        BY <1>2, CrowdedSaves
    <2>2. QED
      BY <2>1, CrowdedSaves
  <1>5. AloneIsAlone'
    <2>1. ASSUME saver'[c].alone
          PROVE  Saving(w)' = {c}
      <3>1. Saving(w) = {}
        <4>1. saver'[c].alone = first
          BY <1>3
        <4>2. first
          BY <2>1, <4>1, Zenon
        <4>3. QED
          BY <4>2 DEF first
      <3>2. \A d \in Savers \ {c} : ~(saver'[d].at # "idle" /\ saver'[d].work = w)
        BY <1>4, <3>1 DEF Saving
      <3>3. QED
        BY <1>3, <3>2 DEF Saving
    <2>2. ASSUME NEW d \in Savers \ {c}, saver'[d].at # "idle", saver'[d].alone
          PROVE  Saving(saver[d].work)' = {d}
      <3>1. saver[d].work # w /\ Saving(saver[d].work) = {d}
        BY <1>4, <2>2 DEF Core, AloneIsAlone, Saving
      <3>2. ASSUME NEW e \in Savers, saver'[e].at # "idle", saver'[e].work = saver[d].work
            PROVE  e = d
        <4>1. e # c
          BY <1>3, <3>1, <3>2
        <4>2. e \in Saving(saver[d].work)
          BY <1>4, <3>2, <4>1 DEF Saving
        <4>3. QED
          BY <3>1, <4>2
      <3>3. saver'[d].work = saver[d].work
        BY <1>4
      <3>4. QED
        BY <2>2, <3>2, <3>3 DEF Saving
    <2>3. QED
      BY <1>3, <2>1, <2>2 DEF AloneIsAlone
  <1>6. \A v : Stored(v)' = Stored(v)
    BY <1>1 DEF Stored
  <1>7. CheckedIsThere'
    <2>1. ASSUME NEW d \in Savers
          PROVE  /\ saver'[d].at = "write" => saver'[d].todo = {}
                 /\ saver'[d].at \in {"check", "write"} /\ saver'[d].alone =>
                      Named(saver'[d].row) \ saver'[d].todo \subseteq Stored(saver'[d].work)
      BY <1>3, <1>4 DEF Core, CheckedIsThere
    <2>2. QED
      BY <1>6, <2>1 DEF CheckedIsThere
  <1>8. WrittenIsKept'
    BY <1>1, <1>3, <1>4 DEF Core, WrittenIsKept
  <1>9. RowsAreSaved'
    BY <1>1, <1>3, <1>4, ValidatedRow DEF Core, RowsAreSaved
  <1>10. PicturesAreKept'
    BY <1>1 DEF Core, PicturesAreKept
  <1>11. QED
    BY <1>5, <1>7, <1>8, <1>9, <1>10 DEF Core

\* A folder the prune of a start removes is remembered, and the saves of the work with it.
LEMMA RemoveKeeps ==
    ASSUME RequestsNamePictures, Types, Core, NEW w \in OwnWorks, RemoveFolder(w)
    PROVE  Core'
  <1>1. CASE UNCHANGED <<artwork, saver, disturbed>>
    BY <1>1, QuietStep DEF RemoveFolder
  <1>2. CASE /\ artwork' = [artwork EXCEPT ![w] = [p \in Pictures |-> "none"]]
             /\ disturbed' = IF details[w].saved THEN disturbed \cup {w} ELSE disturbed
             /\ saver' = Crowded(Saving(w))
    <2>1. details' = details /\ \A v \in OwnWorks \ {w} : artwork'[v] = artwork[v]
      BY <1>2 DEF RemoveFolder, Types
    <2>2. ASSUME NEW d \in Savers
          PROVE  /\ saver'[d].at = saver[d].at /\ saver'[d].work = saver[d].work
                 /\ saver'[d].row = saver[d].row /\ saver'[d].todo = saver[d].todo
                 /\ saver'[d].alone <=> saver[d].alone /\ d \notin Saving(w)
      BY <1>2, CrowdedSaves
    <2>3. AloneIsAlone'
      <3>1. \A v : Saving(v)' = Saving(v)
        BY <2>2 DEF Saving
      <3>2. \A d \in Savers : saver'[d].at # "idle" /\ saver'[d].alone =>
                Saving(saver'[d].work) = {d}
        BY <2>2 DEF Core, AloneIsAlone
      <3>3. QED
        BY <3>1, <3>2 DEF AloneIsAlone
    <2>4. CheckedIsThere'
      <3>1. ASSUME NEW d \in Savers, saver'[d].at \in {"check", "write"}, saver'[d].alone
            PROVE  Named(saver'[d].row) \ saver'[d].todo \subseteq Stored(saver[d].work)'
        <4>1. saver[d].work \in OwnWorks \ {w}
          BY <2>2, <3>1 DEF Saving, Types, SaveStates
        <4>2. Stored(saver[d].work) \subseteq {p \in Pictures : artwork'[saver[d].work][p] # "none"}
          BY <2>1, <4>1 DEF Stored
        <4>3. Named(saver[d].row) \ saver[d].todo \subseteq Stored(saver[d].work)
          BY <2>2, <3>1 DEF Core, CheckedIsThere
        <4>4. QED
          BY <2>2, <4>2, <4>3 DEF Stored
      <3>2. QED
        BY <2>2, <3>1 DEF Core, CheckedIsThere
    <2>5. WrittenIsKept' /\ RowsAreSaved'
      BY <1>2, <2>1, <2>2 DEF Core, WrittenIsKept, RowsAreSaved
    <2>6. PicturesAreKept'
      BY <1>2, <2>1 DEF Core, PicturesAreKept, RowsAreSaved
    <2>7. QED
      BY <2>3, <2>4, <2>5, <2>6 DEF Core
  <1>3. QED
    BY <1>1, <1>2 DEF RemoveFolder

\* With the row of a work nothing is named any more.
LEMMA UninstallKeeps ==
    ASSUME Types, Core, NEW w \in OwnWorks, UninstallWork(w)
    PROVE  Core'
  <1>1. /\ UNCHANGED <<artwork, saver>> /\ disturbed' = disturbed \ {w}
        /\ details'[w] = NoRow /\ \A v \in OwnWorks \ {w} : details'[v] = details[v]
    BY DEF UninstallWork, Types
  <1>2. AloneIsAlone' /\ CheckedIsThere'
    BY <1>1 DEF Core, AloneIsAlone, Saving, CheckedIsThere, Stored
  <1>3. WrittenIsKept'
    <2>1. \A c \in Savers : saver[c].work \in OwnWorks
      BY DEF Types, SaveStates
    <2>2. QED
      BY <1>1, <2>1, NoRowIsRow DEF Core, WrittenIsKept
  <1>4. RowsAreSaved' /\ PicturesAreKept'
    BY <1>1, NoRowIsRow DEF Core, RowsAreSaved, PicturesAreKept
  <1>5. QED
    BY <1>2, <1>3, <1>4 DEF Core

\* A start has no saves.
LEMMA RestartKeeps ==
    ASSUME RequestsNamePictures, Types, Core, OwnRestart
    PROVE  Core'
  <1>1. UNCHANGED <<details, artwork, disturbed>> /\ \A c \in Savers : saver'[c].at = "idle"
    BY IdleState DEF OwnRestart
  <1>2. AloneIsAlone' /\ CheckedIsThere' /\ WrittenIsKept'
    BY <1>1 DEF AloneIsAlone, CheckedIsThere, WrittenIsKept
  <1>3. RowsAreSaved' /\ PicturesAreKept'
    BY <1>1 DEF Core, RowsAreSaved, PicturesAreKept
  <1>4. QED
    BY <1>2, <1>3 DEF Core

-----------------------------------------------------------------------------
(* The theorems.                                                           *)

LEMMA InitIInv ==
    ASSUME RequestsNamePictures, OwnInit
    PROVE  IInv
  <1>1. \A c \in Savers : saver[c] = NotSaving
    BY DEF OwnInit
  <1>2. Types
    BY IdleState, NoRowIsRow DEF OwnInit, Types, PruneStates, NotStarted
  <1>3. \A w \in OwnWorks : details[w] = NoRow
    BY DEF OwnInit
  <1>4. Core
    BY <1>1, <1>3, IdleState, NoRowIsRow
    DEF Core, AloneIsAlone, CheckedIsThere, WrittenIsKept, RowsAreSaved, PicturesAreKept
  <1>5. QED
    BY <1>2, <1>4 DEF IInv

LEMMA NextIInv ==
    ASSUME RequestsNamePictures, IInv, [OwnNext]_ownVars
    PROVE  IInv'
  <1>1. Types /\ Core /\ Types'
    BY TypesInductive DEF IInv
  <1>2. ASSUME NEW w \in OwnWorks, NEW s, ListImages(w, s)
        PROVE  Core'
    BY <1>1, <1>2, QuietStep DEF ListImages
  <1>3. ASSUME NEW w \in OwnWorks, NEW p \in Pictures,
               ImportListed(w, p) \/ ImportFile(w, p) \/ Age(w, p)
        PROVE  Core'
    <2>1. UNCHANGED <<details, saver, disturbed>>
      BY <1>3 DEF ImportListed, ImportFile, Age
    <2>2. \A v \in OwnWorks, q \in Pictures : artwork[v][q] # "none" => artwork'[v][q] # "none"
      BY <1>1, <1>3 DEF ImportListed, ImportFile, Age, Import, Types
    <2>3. QED
      BY <1>1, <2>1, <2>2, QuietStep
  <1>4. ASSUME NEW c \in Savers, NEW w \in OwnWorks, NEW r \in Requests,
               NEW row \in Validated(r), StartSave(c, w, row)
        PROVE  Core'
    BY <1>1, <1>4, StartKeeps
  <1>5. ASSUME NEW c \in Savers, CheckPicture(c) \/ WriteRow(c) \/ ListStored(c) \/ RetainOne(c)
        PROVE  Core'
    BY <1>1, <1>5, CheckKeeps, WriteKeeps, ListKeeps, RetainKeeps
  <1>6. ASSUME ListInstalled \/ ReadFolders \/ EndPrune
        PROVE  Core'
    BY <1>1, <1>6, QuietStep DEF ListInstalled, ReadFolders, EndPrune
  <1>7. ASSUME NEW w \in OwnWorks, RemoveFolder(w)
        PROVE  Core'
    BY <1>1, <1>7, RemoveKeeps
  <1>8. ASSUME NEW w \in OwnWorks, InstallWork(w) \/ UninstallWork(w)
        PROVE  Core'
    BY <1>1, <1>8, QuietStep, UninstallKeeps DEF InstallWork
  <1>9. ASSUME OwnRestart
        PROVE  Core'
    BY <1>1, <1>9, RestartKeeps
  <1>10. ASSUME UNCHANGED ownVars
         PROVE  Core'
    BY <1>1, <1>10, QuietStep DEF ownVars
  <1>11. Core'
    BY <1>2, <1>3, <1>4, <1>5, <1>6, <1>7, <1>8, <1>9, <1>10 DEF OwnNext
  <1>12. QED
    BY <1>1, <1>11 DEF IInv

\* A row of a user's own details names pictures that are in the folder of the work, unless
\* another save of the work or the prune of a start came between its check, its row and its
\* removal (OwnWorkService::save, remove_orphaned_artwork): for any number of works, pictures,
\* saves at a time, failing removals and restarts.
THEOREM PicturesStay ==
    ASSUME RequestsNamePictures
    PROVE  OwnSpec => []PicturesAreKept
  <1>1. OwnInit => IInv
    BY InitIInv
  <1>2. IInv /\ [OwnNext]_ownVars => IInv'
    BY NextIInv
  <1>3. IInv => PicturesAreKept
    BY DEF IInv, Core
  <1>4. QED
    BY <1>1, <1>2, <1>3, PTL DEF OwnSpec

\* The rows, pictures, lists, saves and the prune keep their types, and what happens around
\* them its bound.
THEOREM TypeCorrect ==
    ASSUME RequestsNamePictures, MaxEvents \in Nat
    PROVE  OwnSpec => []OwnTypeOK
  <1>1. OwnInit => IInv /\ events \in 0..MaxEvents
    BY InitIInv DEF OwnInit
  <1>2. IInv /\ events \in 0..MaxEvents /\ [OwnNext]_ownVars => IInv' /\ (events \in 0..MaxEvents)'
    <2>1. ASSUME events \in 0..MaxEvents, [OwnNext]_ownVars
          PROVE  events' \in 0..MaxEvents
      <3>1. events' = events \/ (events < MaxEvents /\ events' = events + 1)
        BY <2>1 DEF OwnNext, ownVars, Event, ListImages, ImportListed, ImportFile, Age, StartSave,
           CheckPicture, WriteRow, ListStored, RetainOne, ListInstalled, ReadFolders, EndPrune,
           RemoveFolder, InstallWork, UninstallWork, OwnRestart
      <3>2. QED
        BY <2>1, <3>1
    <2>2. QED
      BY <2>1, NextIInv
  <1>3. IInv /\ events \in 0..MaxEvents => OwnTypeOK
    BY DEF IInv, Types, OwnTypeOK, SaveStates, PruneStates
  <1>4. QED
    BY <1>1, <1>2, <1>3, PTL DEF OwnSpec

-----------------------------------------------------------------------------
(* Playback: the inductive invariant.                                      *)

SessionOf(works) == [work : works, gen : Nat]
DockIds == SessionOf(AudioWorks) \cup {NoId}
DockStates == [id : DockIds, repeat : Repeats, ordinal : 0..Tracks, ask : {0, 1}]
Sources == [id : DockIds, at : 0..Tracks]
Pendings == [id : DockIds, at : 0..Tracks, pos : Seconds, done : BOOLEAN]
RefStates ==
    [id : DockIds, play : BOOLEAN, prepared : BOOLEAN, pending : Pendings,
     reported : 0..(Length + 1)]
Audios ==
    [src : Sources, meta : BOOLEAN, pos : Seconds, seeking : BOOLEAN, paused : BOOLEAN,
     ended : BOOLEAN]
WriteStatuses == Open \cup {"completed"}
WritesOf(works) ==
    [id : SessionOf(works), at : Ordinals, pos : Seconds, status : WriteStatuses, last : BOOLEAN]
Pages ==
    [state : {"open", "saving", "closing"}, gen : Nat, at : Ordinals, pos : Seconds,
     status : WriteStatuses, dirty : BOOLEAN, timer : BOOLEAN, repeat : {"off", "all"},
     ready : BOOLEAN, wants : BOOLEAN, secs : Seconds, paused : BOOLEAN]
Answers == [gen : Nat, at : Ordinals, pos : Seconds, status : Open]
SessionStates ==
    [gen : Nat, status : Open \cup {"absent", "completed", "closed"}, at : Ordinals, pos : Seconds,
     done : BOOLEAN, repeat : Repeats]

DockTypes ==
    /\ dock \in DockStates /\ seen \in DockStates /\ refs \in RefStates /\ audio \in Audios
    /\ writes \in Seq(WritesOf(AudioWorks))
    /\ opening \subseteq AudioWorks /\ closing \subseteq SessionOf(AudioWorks)
    /\ settings \subseteq [id : SessionOf(AudioWorks), repeat : Repeats]
PageTypes ==
    /\ page \in Pages \cup {NoPage}
    /\ saves \in Seq(WritesOf({Video})) /\ left \in Seq(WritesOf({Video}))
OtherTypes ==
    /\ sessions \in [AllWorks -> SessionStates]
    /\ acts \in [dock : Nat, page : Nat] /\ fails \in Nat
    /\ crossed \subseteq {"players", "queue", "render"}

\* The answer of another session was taken, or an event found a place that was not rendered.
Excused == crossed \cap {"queue", "render"} # {}

\* The state and the ref hold one session; the element has the file that was rendered.
DockFits ==
    /\ dock.id = refs.id
    /\ audio.src \in {NoSource, SourceOf(seen)}
    /\ audio.src = NoSource => audio = NoAudio

\* A file that plays, seeks or was brought to its place stands where it may be heard.
SourceIsHeard ==
    audio.src # NoSource =>
      /\ refs.prepared \/ audio.seeking \/ ~audio.paused =>
           Heard(audio.src.id.work, audio.src.at, audio.pos)
      /\ audio.ended => Heard(audio.src.id.work, audio.src.at, Length)

\* A place that was asked for waits until the file that was asked for can take it.
PendingFits ==
    (~audio.meta \/ Asked(seen) # Asked(dock)) /\ dock.id # NoId =>
      refs.pending.id = dock.id /\ refs.pending.at = dock.ordinal

WritesAreHeard ==
    \A k \in DOMAIN writes : Heard(writes[k].id.work, writes[k].at, writes[k].pos)
DockIsHeard == SourceIsHeard /\ PendingFits /\ WritesAreHeard

\* The page reports what was heard.
PageIsHeard ==
    /\ page.state # "none" => /\ Heard(Video, page.at, page.pos)
                              /\ page.ready => Heard(Video, page.at, page.secs)
    /\ \A k \in DOMAIN saves : Heard(Video, saves[k].at, saves[k].pos)
    /\ \A k \in DOMAIN left : Heard(Video, left[k].at, left[k].pos)

\* The last place reported is the one the page is still to save, and that of the last write
\* that is to come.
IsDue(place) == place.at = due.at /\ place.pos = due.pos
DueIsCarried ==
    due # NoPlace =>
      /\ page.dirty => IsDue(page)
      /\ ~page.dirty /\ saves # <<>> => IsDue(saves[Len(saves)])
      /\ ~page.dirty /\ saves = <<>> /\ left # <<>> /\ page.state = "none" =>
           IsDue(left[Len(left)])
      /\ ~page.dirty /\ saves = <<>> /\ left = <<>> => IsDue(sessions[Video])

\* A page that is gone has nothing to save, a timer runs for a place that is not saved, and
\* a picture that runs was brought to its place.
PageFits ==
    /\ page = NoPage => saves = <<>>
    /\ page.timer => page.dirty
    /\ ~page.paused => page.ready

DockInv == DockTypes /\ DockFits /\ (Excused \/ DockIsHeard)
PageInv == PageTypes /\ PageFits /\ PageIsHeard /\ DueIsCarried
PlayIInv == OtherTypes /\ DockInv /\ PageInv

\* What the query keeps is what an opening answered.
AnswerTypes == cached \in Answers \cup {NoAnswer}

-----------------------------------------------------------------------------
(* Playback: sequences, places and records.                                *)

LEMMA AppendIs ==
    ASSUME NEW S, NEW q \in Seq(S), NEW e \in S
    PROVE  /\ Append(q, e) \in Seq(S) /\ Append(q, e) # <<>>
           /\ Append(q, e)[Len(Append(q, e))] = e
           /\ \A k \in DOMAIN Append(q, e) :
                Append(q, e)[k] = e \/ (k \in DOMAIN q /\ Append(q, e)[k] = q[k])
  OBVIOUS

LEMMA TailIs ==
    ASSUME NEW S, NEW q \in Seq(S), q # <<>>
    PROVE  /\ Tail(q) \in Seq(S) /\ Head(q) \in S
           /\ \A k \in DOMAIN Tail(q) : k + 1 \in DOMAIN q /\ Tail(q)[k] = q[k + 1]
           /\ Tail(q) = <<>> => q[Len(q)] = Head(q)
           /\ Tail(q) # <<>> => Tail(q)[Len(Tail(q))] = q[Len(q)]
  <1>1. Len(q) \in Nat /\ Len(q) # 0 /\ DOMAIN q = 1..Len(q)
    OBVIOUS
  <1>2. Tail(q) \in Seq(S) /\ Head(q) = q[1] /\ Head(q) \in S /\ Len(Tail(q)) = Len(q) - 1
    BY <1>1
  <1>3. ASSUME NEW k \in DOMAIN Tail(q)
        PROVE  k + 1 \in DOMAIN q /\ Tail(q)[k] = q[k + 1]
    BY <1>1, <1>2
  <1>4. Tail(q) = <<>> => Len(q) = 1
    BY <1>1, <1>2
  <1>5. ASSUME Tail(q) # <<>> PROVE Tail(q)[Len(Tail(q))] = q[Len(q)]
    <2>1. Len(Tail(q)) \in DOMAIN Tail(q)
      BY <1>2, <1>5
    <2>2. QED
      BY <1>1, <1>2, <1>3, <2>1
  <1>6. QED
    BY <1>1, <1>2, <1>3, <1>4, <1>5

LEMMA ElementsAreIn ==
    ASSUME NEW S, NEW q \in Seq(S), NEW k \in DOMAIN q
    PROVE  q[k] \in S
  OBVIOUS

\* A file that was heard to its end starts over.
LEMMA EndStartsOver ==
    ASSUME NEW w, NEW at, Heard(w, at, Length)
    PROVE  Heard(w, at, 0)
  BY PlaybackBounds DEF Heard

LEMMA StaysHeard ==
    ASSUME heard \subseteq heard'
    PROVE  \A w, at, pos : Heard(w, at, pos) => Heard(w, at, pos)'
  BY DEF Heard

LEMMA HearsPlace ==
    ASSUME NEW w, NEW at, NEW pos, Hear(w, at, pos)
    PROVE  /\ heard \subseteq heard' /\ Heard(w, at, pos)'
  BY DEF Hear, Heard

LEMMA CrossGrows ==
    ASSUME NEW what \in {"players", "queue", "render"}, NEW b, Cross(what, b), OtherTypes
    PROVE  /\ crossed \subseteq crossed' /\ crossed' \subseteq {"players", "queue", "render"}
           /\ b => what \in crossed'
  BY DEF Cross, OtherTypes

LEMMA Constants ==
    /\ Tracks \in Nat /\ 1 \in Ordinals /\ Length \in Nat /\ 0 \in Seconds /\ Length \in Seconds
    /\ NoId \notin SessionOf(AudioWorks) /\ NoId \in DockIds /\ Video \notin AudioWorks
    /\ Ordinals \subseteq 0..Tracks
  BY PlaybackBounds DEF Ordinals, Seconds, SessionOf, NoId, DockIds, Video

\* The file of a state that has one.
LEMMA SourceFacts ==
    ASSUME NEW d \in DockStates
    PROVE  /\ SourceOf(d) \in Sources
           /\ SourceOf(d) # NoSource =>
                /\ SourceOf(d) = [id |-> d.id, at |-> d.ordinal]
                /\ d.id \in SessionOf(AudioWorks) /\ d.id # NoId /\ d.ordinal \in Ordinals
                /\ d.id.work \in AudioWorks
  <1>1. d.id \in DockIds /\ d.ordinal \in 0..Tracks
    BY DEF DockStates
  <1>2. NoSource \in Sources
    BY Constants DEF NoSource, Sources, Ordinals
  <1>3. CASE d.id = NoId \/ d.ordinal = 0
    BY <1>2, <1>3 DEF SourceOf
  <1>4. CASE ~(d.id = NoId \/ d.ordinal = 0)
    <2>1. SourceOf(d) = [id |-> d.id, at |-> d.ordinal]
      BY <1>4 DEF SourceOf
    <2>2. d.id \in SessionOf(AudioWorks) /\ d.id.work \in AudioWorks
      BY <1>1, <1>4 DEF DockIds, SessionOf
    <2>3. d.ordinal \in Ordinals
      BY <1>1, <1>4, Constants DEF Ordinals
    <2>4. QED
      BY <1>1, <1>4, <2>1, <2>2, <2>3 DEF Sources
  <1>5. QED
    BY <1>3, <1>4

LEMMA EmptyRecords ==
    /\ NoDock \in DockStates /\ NoRestore \in Pendings /\ NoAudio \in Audios
    /\ NoSource \in Sources /\ SourceOf(NoDock) = NoSource
    /\ NoPage.state = "none" /\ ~NoPage.dirty /\ ~NoPage.timer /\ NoPage \notin Pages
  <1>1. NoSource \in Sources
    BY Constants DEF NoSource, Sources
  <1>2. NoDock \in DockStates /\ SourceOf(NoDock) = NoSource
    BY Constants DEF NoDock, DockStates, Repeats, SourceOf
  <1>3. NoRestore \in Pendings
    BY Constants DEF NoRestore, Pendings
  <1>4. NoAudio \in Audios
    BY <1>1, Constants DEF NoAudio, Audios
  <1>5. NoPage.state = "none" /\ ~NoPage.dirty /\ ~NoPage.timer /\ NoPage \notin Pages
    BY DEF NoPage, Pages
  <1>6. QED
    BY <1>1, <1>2, <1>3, <1>4, <1>5

\* What playCurrent does to the element.
LEMMA PlayCurrentIs ==
    ASSUME NEW a \in Audios, NEW p \in BOOLEAN
    PROVE  LET b == PlayCurrent(a, p) IN
           /\ b \in Audios /\ b.src = a.src /\ b.meta = a.meta /\ b.seeking = a.seeking
           /\ b.ended => a.ended
           /\ \/ b = a
              \/ /\ p /\ a.src # NoSource /\ ~b.paused
                 /\ b.pos = a.pos \/ (a.pos = Length /\ b.pos = 0)
  <1> DEFINE b == [a EXCEPT !.paused = FALSE, !.ended = FALSE, !.pos = IF @ = Length THEN 0 ELSE @]
  <1>1. CASE a.src # NoSource /\ p /\ a.meta /\ ~a.seeking
    <2>1. PlayCurrent(a, p) = b
      BY <1>1 DEF PlayCurrent
    <2>2. b \in Audios
      BY Constants DEF Audios
    <2>3. /\ b.src = a.src /\ b.meta = a.meta /\ b.seeking = a.seeking /\ ~b.ended /\ ~b.paused
          /\ b.pos = IF a.pos = Length THEN 0 ELSE a.pos
      BY DEF Audios
    <2> HIDE DEF b
    <2>4. QED
      BY <1>1, <2>1, <2>2, <2>3
  <1>2. CASE ~(a.src # NoSource /\ p /\ a.meta /\ ~a.seeking)
    BY <1>2 DEF PlayCurrent
  <1>3. QED
    BY <1>1, <1>2

-----------------------------------------------------------------------------
(* Playback: what a step leaves alone.                                     *)

LEMMA BudgetsStay ==
    ASSUME OtherTypes
    PROVE  /\ \A p \in {"dock", "page"} : UserOf(p) => acts' \in [dock : Nat, page : Nat]
           /\ PlayFail => fails' \in Nat
  <1>1. ASSUME NEW p \in {"dock", "page"}, UserOf(p) PROVE acts' \in [dock : Nat, page : Nat]
    <2>1. acts \in [dock : Nat, page : Nat] /\ acts[p] > 0 /\ acts' = [acts EXCEPT ![p] = @ - 1]
      BY <1>1 DEF OtherTypes, UserOf
    <2>2. CASE p = "dock"
      BY <2>1, <2>2
    <2>3. CASE p = "page"
      BY <2>1, <2>3
    <2>4. QED
      BY <1>1, <2>2, <2>3
  <1>2. ASSUME PlayFail PROVE fails' \in Nat
    BY <1>2 DEF OtherTypes, PlayFail
  <1>3. QED
    BY <1>1, <1>2

LEMMA PageStands ==
    ASSUME PageInv, UNCHANGED <<page, saves, left, due>>, heard \subseteq heard',
           sessions'[Video].at = sessions[Video].at, sessions'[Video].pos = sessions[Video].pos
    PROVE  PageInv'
  <1>1. PageTypes' /\ PageFits'
    BY DEF PageInv, PageTypes, PageFits
  <1>2. PageIsHeard'
    BY DEF PageInv, PageIsHeard, Heard
  <1>3. DueIsCarried'
    BY DEF PageInv, DueIsCarried, IsDue
  <1>4. QED
    BY <1>1, <1>2, <1>3 DEF PageInv

LEMMA PageStays ==
    ASSUME PageInv, UNCHANGED pageVars, heard \subseteq heard',
           sessions'[Video].at = sessions[Video].at, sessions'[Video].pos = sessions[Video].pos
    PROVE  PageInv'
  BY PageStands DEF pageVars

LEMMA ExcusesStay ==
    ASSUME crossed \subseteq crossed'
    PROVE  Excused => Excused'
  BY DEF Excused

LEMMA SourceStays ==
    ASSUME SourceIsHeard, heard \subseteq heard',
           audio'.src = NoSource
             \/ /\ audio'.src = audio.src /\ audio'.pos = audio.pos
                /\ audio'.seeking => audio.seeking
                /\ audio'.ended => audio.ended
                /\ ~audio'.paused => ~audio.paused
                /\ refs'.prepared => refs.prepared
    PROVE  SourceIsHeard'
  BY DEF SourceIsHeard, Heard

LEMMA WritesStay ==
    ASSUME WritesAreHeard, writes' = writes, heard \subseteq heard'
    PROVE  WritesAreHeard'
  BY DEF WritesAreHeard, Heard

LEMMA PendingStays ==
    ASSUME PendingFits, audio'.meta = audio.meta, Asked(seen') = Asked(seen),
           Asked(dock') = Asked(dock), refs'.pending = refs.pending
    PROVE  PendingFits'
  <1>1. dock'.id = dock.id /\ dock'.ordinal = dock.ordinal
    BY DEF Asked
  <1>2. Asked(seen)' = Asked(seen) /\ Asked(dock)' = Asked(dock)
    BY DEF Asked
  <1>3. QED
    BY <1>1, <1>2 DEF PendingFits

LEMMA DockStays ==
    ASSUME DockInv, UNCHANGED dockVars, heard \subseteq heard', crossed \subseteq crossed'
    PROVE  DockInv'
  <1>1. UNCHANGED <<dock, seen, refs, audio, writes, opening, settings, closing>>
    BY DEF dockVars
  <1>2. DockTypes' /\ DockFits'
    BY <1>1 DEF DockInv, DockTypes, DockFits, SourceOf
  <1>3. DockIsHeard => DockIsHeard'
    <2>1. PendingFits => PendingFits'
      BY <1>1 DEF PendingFits, Asked
    <2>2. QED
      BY <1>1, <2>1, SourceStays, WritesStay DEF DockIsHeard
  <1>4. QED
    BY <1>2, <1>3, ExcusesStay DEF DockInv

\* A write of a place that was heard, at the end of the dock's chain.
LEMMA PersistKeeps ==
    ASSUME NEW q \in Seq(WritesOf(AudioWorks)), NEW d \in DockStates, SourceOf(d) # NoSource,
           NEW pos \in Seconds, NEW status \in WriteStatuses
    PROVE  LET p == Persist(q, d, pos, status) IN
           /\ p \in Seq(WritesOf(AudioWorks))
           /\ \A k \in DOMAIN p :
                \/ p[k].id.work = d.id.work /\ p[k].at = d.ordinal /\ p[k].pos = pos
                \/ k \in DOMAIN q /\ p[k] = q[k]
  <1> DEFINE e == [id |-> d.id, at |-> d.ordinal, pos |-> pos, status |-> status, last |-> FALSE]
  <1>1. e \in WritesOf(AudioWorks)
    BY SourceFacts DEF WritesOf
  <1>2. e.id.work = d.id.work /\ e.at = d.ordinal /\ e.pos = pos
    OBVIOUS
  <1>3. Persist(q, d, pos, status) = Append(q, e)
    BY DEF Persist
  <1> HIDE DEF e
  <1>4. QED
    BY <1>1, <1>2, <1>3, AppendIs

-----------------------------------------------------------------------------
(* Playback: what the callbacks of the dock do.                            *)

LEMMA SameAudio ==
    ASSUME NEW x \in Audios, NEW y \in Audios, x.src = y.src, x.meta = y.meta, x.pos = y.pos,
           x.seeking = y.seeking, x.paused = y.paused, x.ended = y.ended
    PROVE  x = y
  BY DEF Audios

LEMMA Quieted ==
    ASSUME NEW a \in Audios
    PROVE  LET b == [a EXCEPT !.paused = TRUE] IN
           /\ b \in Audios /\ b.src = a.src /\ b.meta = a.meta /\ b.pos = a.pos
           /\ b.seeking = a.seeking /\ b.ended = a.ended /\ b.paused
           /\ a = NoAudio => b = NoAudio
  <1> DEFINE b == [a EXCEPT !.paused = TRUE]
  <1>1. /\ b \in Audios /\ b.src = a.src /\ b.meta = a.meta /\ b.pos = a.pos
        /\ b.seeking = a.seeking /\ b.ended = a.ended /\ b.paused
    BY DEF Audios
  <1>2. ASSUME a = NoAudio PROVE b = NoAudio
    <2>1. b.paused = a.paused
      BY <1>1, <1>2 DEF NoAudio
    <2> HIDE DEF b
    <2>2. QED
      BY <1>1, <1>2, <2>1, SameAudio
  <1>3. QED
    BY <1>1, <1>2

\* What adopt, closeAudio and selectOrdinal have in common.
LEMMA AskedKeeps ==
    ASSUME DockInv, OtherTypes, heard \subseteq heard', crossed \subseteq crossed',
           UNCHANGED seen, NEW a \in {audio, [audio EXCEPT !.ended = FALSE]},
           audio' = [a EXCEPT !.paused = TRUE],
           dock' \in DockStates, refs' \in RefStates, dock'.id = refs'.id, ~refs'.prepared,
           dock'.id # NoId => refs'.pending.id = dock'.id /\ refs'.pending.at = dock'.ordinal
    PROVE  /\ audio' \in Audios /\ DockFits'
           /\ SourceIsHeard => SourceIsHeard' /\ PendingFits'
  <1>1. audio \in Audios
    BY DEF DockInv, DockTypes
  <1>2. /\ audio' \in Audios /\ audio'.src = audio.src /\ audio'.meta = audio.meta
        /\ audio'.pos = audio.pos /\ audio'.seeking = audio.seeking
        /\ (audio'.ended => audio.ended) /\ audio'.paused /\ (audio = NoAudio => audio' = NoAudio)
    <2>1. CASE a = audio
      BY <1>1, <2>1, Quieted
    <2>2. CASE a = [audio EXCEPT !.ended = FALSE]
      <3>1. /\ a \in Audios /\ a.src = audio.src /\ a.meta = audio.meta /\ a.pos = audio.pos
            /\ a.seeking = audio.seeking /\ ~a.ended /\ a.paused = audio.paused
        BY <1>1, <2>2 DEF Audios
      <3>2. ASSUME audio = NoAudio PROVE a = NoAudio
        BY <1>1, <3>1, <3>2, SameAudio DEF NoAudio
      <3>3. QED
        BY <3>1, <3>2, Quieted
    <2>3. QED
      BY <2>1, <2>2
  <1>3. DockFits'
    BY <1>2 DEF DockInv, DockFits, SourceOf
  <1>4. SourceIsHeard => SourceIsHeard'
    BY <1>2, SourceStays
  <1>5. PendingFits'
    BY DEF PendingFits
  <1>6. QED
    BY <1>2, <1>3, <1>4, <1>5

LEMMA AdoptIs ==
    ASSUME DockInv, NEW s \in SessionStates, NEW w \in AudioWorks, Adopt(s, w)
    PROVE  /\ dock' \in DockStates /\ refs' \in RefStates /\ dock'.id = refs'.id /\ ~refs'.prepared
           /\ refs'.pending.id = dock'.id /\ refs'.pending.at = dock'.ordinal
           /\ audio' = [audio EXCEPT !.paused = TRUE]
  <1> DEFINE id == [work |-> w, gen |-> s.gen]
  <1>1. id \in DockIds /\ s.at \in 0..Tracks /\ s.pos \in Seconds /\ s.done \in BOOLEAN
        /\ s.repeat \in Repeats
    BY Constants DEF SessionStates, DockIds, SessionOf
  <1>2. 1 - seen.ask \in {0, 1}
    BY DEF DockInv, DockTypes, DockStates
  <1>3. dock' = [id |-> id, repeat |-> s.repeat, ordinal |-> s.at, ask |-> 1 - seen.ask]
    BY DEF Adopt
  <1>4. /\ refs' = [id |-> id, play |-> TRUE, prepared |-> FALSE, reported |-> Length + 1,
                    pending |-> [id |-> id, at |-> s.at, pos |-> s.pos, done |-> s.done]]
        /\ audio' = [audio EXCEPT !.paused = TRUE]
    BY DEF Adopt
  <1> HIDE DEF id
  <1>5. dock' \in DockStates /\ dock'.id = id /\ dock'.ordinal = s.at
    BY <1>1, <1>2, <1>3 DEF DockStates
  <1>6. [id |-> id, at |-> s.at, pos |-> s.pos, done |-> s.done] \in Pendings
    BY <1>1 DEF Pendings
  <1>7. refs' \in RefStates /\ refs'.id = id /\ ~refs'.prepared
        /\ refs'.pending.id = id /\ refs'.pending.at = s.at
    BY <1>1, <1>4, <1>6, Constants DEF RefStates
  <1>8. QED
    BY <1>4, <1>5, <1>7

LEMMA CloseAudioIs ==
    ASSUME DockInv, CloseAudio
    PROVE  /\ dock' \in DockStates /\ refs' \in RefStates /\ dock'.id = refs'.id /\ ~refs'.prepared
           /\ dock'.id = NoId /\ audio' = [audio EXCEPT !.paused = TRUE]
           /\ closing' \subseteq SessionOf(AudioWorks)
  <1>1. dock \in DockStates /\ refs \in RefStates /\ closing \subseteq SessionOf(AudioWorks)
    BY DEF DockInv, DockTypes
  <1>2. dock' = [NoDock EXCEPT !.ask = dock.ask] /\ audio' = [audio EXCEPT !.paused = TRUE]
    BY DEF CloseAudio
  <1>3. dock' \in DockStates /\ dock'.id = NoId
    BY <1>1, <1>2, EmptyRecords DEF DockStates, NoDock
  <1>4. refs' \in RefStates /\ refs'.id = NoId /\ ~refs'.prepared
    <2>1. refs' = [refs EXCEPT !.id = NoId, !.play = FALSE, !.prepared = FALSE,
                               !.pending = NoRestore]
      BY DEF CloseAudio
    <2>2. QED
      BY <1>1, <2>1, EmptyRecords, Constants DEF RefStates
  <1>5. closing' \subseteq SessionOf(AudioWorks)
    BY <1>1 DEF CloseAudio, RefStates, DockIds
  <1>6. QED
    BY <1>2, <1>3, <1>4, <1>5

LEMMA SelectOrdinalIs ==
    ASSUME DockInv, NEW a, NEW o \in Ordinals, SelectOrdinal(a, o)
    PROVE  /\ dock' \in DockStates /\ refs' \in RefStates /\ dock'.id = refs'.id /\ ~refs'.prepared
           /\ refs'.pending.id = dock'.id /\ refs'.pending.at = dock'.ordinal
           /\ audio' = [a EXCEPT !.paused = TRUE] /\ heard \subseteq heard'
  <1>1. dock \in DockStates /\ refs \in RefStates /\ seen.ask \in {0, 1} /\ dock.id = refs.id
    BY DEF DockInv, DockTypes, DockFits, DockStates
  <1>2. dock' = [dock EXCEPT !.ordinal = o, !.ask = 1 - seen.ask]
    BY DEF SelectOrdinal
  <1> DEFINE asked == [id |-> refs.id, at |-> o, pos |-> 0, done |-> FALSE]
  <1>8. o \in 0..Tracks /\ 1 - seen.ask \in {0, 1}
    BY <1>1, Constants
  <1>3. dock' \in DockStates /\ dock'.id = dock.id /\ dock'.ordinal = o
    BY <1>1, <1>2, <1>8 DEF DockStates
  <1>4. asked \in Pendings
    BY <1>1, <1>8, Constants DEF Pendings, RefStates
  <1>9. asked.id = refs.id /\ asked.at = o /\ Length + 1 \in 0..(Length + 1)
    BY Constants
  <1>5. refs' \in RefStates /\ refs'.id = refs.id /\ ~refs'.prepared
        /\ refs'.pending.id = refs.id /\ refs'.pending.at = o
    <2>1. refs' = [refs EXCEPT !.play = TRUE, !.prepared = FALSE, !.reported = Length + 1,
                     !.pending = asked]
      BY DEF SelectOrdinal
    <2> HIDE DEF asked
    <2>2. QED
      BY <1>1, <1>4, <1>9, <2>1 DEF RefStates
  <1>6. audio' = [a EXCEPT !.paused = TRUE] /\ heard \subseteq heard'
    BY DEF SelectOrdinal, Hear
  <1>7. QED
    BY <1>1, <1>3, <1>5, <1>6

LEMMA RestoreIs ==
    ASSUME NEW pos \in Seconds, NEW done
    PROVE  Restore(pos, done) \in Seconds
  BY Constants DEF Restore

\* The file is brought to the place that was asked for.
LEMMA PrepareIs ==
    ASSUME NEW a \in Audios, NEW d \in DockStates, NEW r \in RefStates, Prepare(a, d, r)
    PROVE  /\ refs' \in RefStates /\ refs'.id = r.id /\ heard \subseteq heard'
           /\ audio' \in Audios /\ audio'.src = a.src /\ audio'.meta = a.meta
           /\ audio'.ended => a.ended
           /\ r.pending.id = d.id /\ r.pending.at = d.ordinal =>
                Heard(d.id.work, d.ordinal, audio.pos)'
  <1> DEFINE matches == r.pending.id = d.id /\ r.pending.at = d.ordinal
             target == IF matches THEN Restore(r.pending.pos, r.pending.done) ELSE 0
             there == a.pos = target
             next == IF there THEN a ELSE [a EXCEPT !.pos = target, !.seeking = TRUE]
  <1>1. target \in Seconds
    BY RestoreIs, Constants DEF RefStates, Pendings
  <1>2. /\ refs' = [r EXCEPT !.pending = NoRestore, !.reported = target, !.prepared = there]
        /\ audio' = IF there /\ r.play THEN PlayCurrent(next, TRUE) ELSE next
        /\ IF matches THEN Hear(d.id.work, d.ordinal, target) ELSE UNCHANGED heard
    BY DEF Prepare
  <1>3. there \in BOOLEAN
    OBVIOUS
  <1>4. next \in Audios /\ next.src = a.src /\ next.meta = a.meta /\ next.ended = a.ended
        /\ next.pos = target
    <2>1. CASE there
      BY <2>1
    <2>2. CASE ~there
      BY <1>1, <2>2 DEF Audios
    <2>3. QED
      BY <2>1, <2>2
  <1> HIDE DEF next, there
  <1>5. refs' \in RefStates /\ refs'.id = r.id
    <2>1. target \in 0..(Length + 1)
      BY <1>1, Constants DEF Seconds
    <2> HIDE DEF target, matches
    <2>2. QED
      BY <1>2, <1>3, <2>1, EmptyRecords DEF RefStates
  <1> HIDE DEF target
  <1>6. /\ audio' \in Audios /\ audio'.src = a.src /\ audio'.meta = a.meta
        /\ (audio'.ended => a.ended)
        /\ audio'.pos = target \/ (target = Length /\ audio'.pos = 0)
    BY <1>2, <1>4, PlayCurrentIs
  <1>7. matches => Heard(d.id.work, d.ordinal, target)'
    BY <1>2, HearsPlace
  <1>8. matches => Heard(d.id.work, d.ordinal, audio.pos)'
    <2> SUFFICES ASSUME matches PROVE Heard(d.id.work, d.ordinal, audio.pos)'
      OBVIOUS
    <2> HIDE DEF matches
    <2>1. CASE audio'.pos = target
      BY <1>7, <2>1
    <2>2. CASE target = Length /\ audio'.pos = 0
      <3>1. <<d.id.work, d.ordinal, Length>> \in heard'
                \/ (Length = 0 /\ <<d.id.work, d.ordinal, Length>> \in heard')
        BY <1>7, <2>2 DEF Heard
      <3>2. QED
        BY <2>2, <3>1 DEF Heard
    <2>3. QED
      BY <1>6, <2>1, <2>2
  <1>9. heard \subseteq heard'
    BY <1>2 DEF Hear
  <1>10. QED
    BY <1>5, <1>6, <1>8, <1>9

-----------------------------------------------------------------------------
(* Playback: the sessions as the commands leave them.                      *)

LEMMA ReopenedIs ==
    ASSUME NEW s \in SessionStates, NEW gen \in Nat, NEW at \in Ordinals, NEW pos \in Seconds
    PROVE  [s EXCEPT !.gen = gen, !.status = "active", !.done = FALSE, !.at = at,
                     !.pos = pos] \in SessionStates
  BY DEF SessionStates, Open

LEMMA OpenedIs ==
    ASSUME OtherTypes, NEW w \in AllWorks
    PROVE  /\ Opened(w) \in SessionStates /\ Opened(w).status \in Open
           /\ [sessions EXCEPT ![w] = Opened(w)] \in [AllWorks -> SessionStates]
  <1>1. sessions \in [AllWorks -> SessionStates] /\ sessions[w] \in SessionStates
    BY DEF OtherTypes
  <1>2. Opened(w) \in SessionStates /\ Opened(w).status \in Open
    <2>1. CASE sessions[w].status \in Open
      BY <1>1, <2>1 DEF Opened
    <2>2. CASE sessions[w].status \notin Open
      <3> DEFINE s == sessions[w]
                 at == IF s.done THEN 1 ELSE s.at
                 pos == IF s.done THEN 0 ELSE s.pos
                 o == [s EXCEPT !.gen = @ + 1, !.status = "active", !.done = FALSE, !.at = at,
                                !.pos = pos]
      <3>1. Opened(w) = o
        BY <2>2 DEF Opened
      <3>2. s \in SessionStates
        BY <1>1
      <3> HIDE DEF s
      <3>3. at \in Ordinals /\ pos \in Seconds
        BY <3>2, Constants DEF SessionStates
      <3> HIDE DEF at, pos
      <3>4. s.gen + 1 \in Nat
        BY <3>2 DEF SessionStates
      <3>5. o \in SessionStates
        BY <3>2, <3>3, <3>4, ReopenedIs
      <3>6. o.status = "active"
        BY <3>2 DEF SessionStates
      <3>7. QED
        BY <3>1, <3>5, <3>6 DEF Open
    <2>3. QED
      BY <2>1, <2>2
  <1>3. QED
    BY <1>1, <1>2

LEMMA TakenIs ==
    ASSUME OtherTypes, NEW write, write.id.work \in AllWorks, write.at \in Ordinals,
           write.pos \in Seconds, write.status \in WriteStatuses
    PROVE  /\ Taken(write) \in [AllWorks -> SessionStates]
           /\ Taken(write)[write.id.work].at = write.at
           /\ Taken(write)[write.id.work].pos = write.pos
           /\ \A v \in AllWorks : v # write.id.work => Taken(write)[v] = sessions[v]
  <1> DEFINE w == write.id.work
             s == sessions[w]
             t == [s EXCEPT !.at = write.at, !.pos = write.pos, !.status = write.status,
                            !.done = (write.status = "completed")]
  <1>1. sessions \in [AllWorks -> SessionStates] /\ w \in AllWorks
    BY DEF OtherTypes
  <1>2. Taken(write) = [sessions EXCEPT ![w] = t]
    BY <1>1 DEF Taken
  <1>3. s \in SessionStates
    BY <1>1
  <1> HIDE DEF w, s
  <1>4. t \in SessionStates /\ t.at = write.at /\ t.pos = write.pos
    BY <1>3 DEF SessionStates, WriteStatuses
  <1> HIDE DEF t
  <1>5. /\ Taken(write) \in [AllWorks -> SessionStates] /\ Taken(write)[w] = t
        /\ \A v \in AllWorks : v # w => Taken(write)[v] = sessions[v]
    BY <1>1, <1>2, <1>4
  <1>6. QED
    BY <1>4, <1>5 DEF w

\* A session that changes its status or its setting keeps its place.
LEMMA ClosedIs ==
    ASSUME OtherTypes, NEW id, id.work \in AllWorks
    PROVE  /\ Closed(id) \in [AllWorks -> SessionStates]
           /\ \A v \in AllWorks : /\ Closed(id)[v].at = sessions[v].at
                                  /\ Closed(id)[v].pos = sessions[v].pos
  <1> DEFINE w == id.work
             status == IF sessions[w].gen = id.gen /\ sessions[w].status \in Open THEN "closed"
                       ELSE sessions[w].status
  <1>1. sessions \in [AllWorks -> SessionStates] /\ w \in AllWorks
    BY DEF OtherTypes
  <1>2. Closed(id) = [sessions EXCEPT ![w].status = status]
    BY <1>1 DEF Closed
  <1>3. status \in Open \cup {"absent", "completed", "closed"}
    BY <1>1 DEF SessionStates
  <1> HIDE DEF w, status
  <1>4. QED
    BY <1>1, <1>2, <1>3 DEF SessionStates

LEMMA RepeatedIs ==
    ASSUME OtherTypes, NEW w \in AllWorks, NEW r \in Repeats
    PROVE  LET t == [sessions EXCEPT ![w].repeat = r] IN
           /\ t \in [AllWorks -> SessionStates]
           /\ \A v \in AllWorks : t[v].at = sessions[v].at /\ t[v].pos = sessions[v].pos
  <1>1. sessions \in [AllWorks -> SessionStates]
    BY DEF OtherTypes
  <1>2. QED
    BY <1>1 DEF SessionStates

-----------------------------------------------------------------------------
(* Playback: a step of one player leaves the other's part.                 *)

LEMMA PlayParts ==
    ASSUME PlayIInv
    PROVE  /\ OtherTypes /\ DockInv /\ PageInv /\ DockTypes /\ PageTypes /\ DockFits
           /\ dock \in DockStates /\ seen \in DockStates /\ refs \in RefStates /\ audio \in Audios
           /\ writes \in Seq(WritesOf(AudioWorks)) /\ (Excused \/ DockIsHeard)
           /\ Video \in AllWorks /\ AudioWorks \subseteq AllWorks
  BY DEF PlayIInv, DockInv, DockTypes, PageInv, AllWorks

LEMMA DockStep ==
    ASSUME PlayIInv, OtherTypes', DockTypes', DockFits', crossed \subseteq crossed',
           DockIsHeard => Excused' \/ DockIsHeard', UNCHANGED pageVars, heard \subseteq heard',
           sessions'[Video].at = sessions[Video].at, sessions'[Video].pos = sessions[Video].pos
    PROVE  PlayIInv'
  <1>1. PageInv'
    BY PageStays DEF PlayIInv
  <1>2. Excused' \/ DockIsHeard'
    BY PlayParts, ExcusesStay
  <1>3. QED
    BY <1>1, <1>2 DEF PlayIInv, DockInv

LEMMA PageStep ==
    ASSUME PlayIInv, OtherTypes', PageInv', UNCHANGED dockVars, heard \subseteq heard',
           crossed \subseteq crossed'
    PROVE  PlayIInv'
  <1>1. DockInv'
    BY DockStays DEF PlayIInv
  <1>2. QED
    BY <1>1 DEF PlayIInv

\* playCurrent, and a handler that leaves the element.
LEMMA PlayCurrentKeeps ==
    ASSUME PlayIInv, UNCHANGED <<dock, seen>>, refs' \in RefStates, refs'.id = refs.id,
           refs'.prepared = refs.prepared, refs'.pending = refs.pending,
           audio' \in {audio, PlayCurrent(audio, refs.prepared)},
           heard \subseteq heard'
    PROVE  /\ audio' \in Audios /\ DockFits'
           /\ SourceIsHeard => SourceIsHeard'
           /\ PendingFits => PendingFits'
  <1>1. /\ audio \in Audios /\ refs.prepared \in BOOLEAN
        /\ audio.src # NoSource \/ audio = NoAudio
    BY PlayParts DEF RefStates, DockFits
  <1>2. /\ audio' \in Audios /\ audio'.src = audio.src /\ audio'.meta = audio.meta
        /\ audio'.seeking = audio.seeking /\ (audio'.ended => audio.ended)
        /\ \/ audio' = audio
           \/ /\ refs.prepared /\ audio.src # NoSource /\ ~audio'.paused
              /\ audio'.pos = audio.pos \/ (audio.pos = Length /\ audio'.pos = 0)
    BY <1>1, PlayCurrentIs
  <1>3. DockFits'
    BY <1>1, <1>2, PlayParts DEF DockFits, SourceOf
  <1>4. ASSUME SourceIsHeard PROVE SourceIsHeard'
    <2>1. CASE audio' = audio
      BY <1>4, <2>1, SourceStays
    <2>2. CASE audio' # audio
      <3>1. Heard(audio.src.id.work, audio.src.at, audio.pos)
        BY <1>2, <1>4, <2>2 DEF SourceIsHeard
      <3>2. Heard(audio.src.id.work, audio.src.at, audio'.pos)
        BY <1>2, <2>2, <3>1, EndStartsOver
      <3>3. /\ Heard(audio.src.id.work, audio.src.at, audio.pos)'
            /\ audio.ended' => Heard(audio.src.id.work, audio.src.at, Length)'
        BY <1>2, <1>4, <2>2, <3>2 DEF Heard, SourceIsHeard
      <3>4. QED
        BY <3>3 DEF SourceIsHeard
    <2>3. QED
      BY <2>1, <2>2
  <1>5. PendingFits => PendingFits'
    BY <1>2, PendingStays
  <1>6. QED
    BY <1>2, <1>3, <1>4, <1>5

-----------------------------------------------------------------------------
(* Playback: the steps of the dock.                                        *)

\* What CloseAndBack does to the page, whatever the dock does with it.
LEMMA CloseAndBackKeeps ==
    ASSUME PlayIInv, page.state # "none", CloseAndBack, heard \subseteq heard',
           UNCHANGED sessions
    PROVE  PageInv'
  <1>1. page \in Pages /\ saves \in Seq(WritesOf({Video})) /\ left \in Seq(WritesOf({Video}))
        /\ PageIsHeard /\ DueIsCarried /\ PageFits
    BY PlayParts, EmptyRecords DEF PageInv, PageTypes
  <1>2. CASE page.status = "completed"
    <2>1. page' = [page EXCEPT !.state = "closing", !.wants = FALSE, !.paused = TRUE]
          /\ UNCHANGED <<saves, left, due>>
      BY <1>2 DEF CloseAndBack
    <2>2. /\ page' \in Pages /\ page'.state = "closing" /\ page'.at = page.at
          /\ page'.pos = page.pos /\ page'.secs = page.secs /\ page'.ready = page.ready
          /\ page'.dirty = page.dirty /\ page'.timer = page.timer /\ page'.paused
      BY <1>1, <2>1 DEF Pages
    <2>3. PageTypes' /\ PageFits'
      BY <1>1, <2>1, <2>2, EmptyRecords DEF PageTypes, PageFits
    <2>4. PageIsHeard'
      BY <1>1, <2>1, <2>2 DEF PageIsHeard, Heard
    <2>5. DueIsCarried'
      BY <1>1, <2>1, <2>2 DEF DueIsCarried, IsDue
    <2>6. QED
      BY <2>3, <2>4, <2>5 DEF PageInv
  <1>3. CASE page.status # "completed"
    <2> DEFINE e == [id |-> [work |-> Video, gen |-> page.gen], at |-> page.at,
                     pos |-> page.pos, status |-> "paused", last |-> TRUE]
    <2>1. /\ page' = [page EXCEPT !.state = "saving", !.wants = FALSE, !.paused = TRUE,
                                  !.status = "paused", !.dirty = FALSE, !.timer = FALSE]
          /\ saves' = Append(saves, e) /\ due' = [at |-> page.at, pos |-> page.pos]
          /\ UNCHANGED left
      BY <1>3 DEF CloseAndBack, SavePagePaused, Reported
    <2>2. /\ page' \in Pages /\ page'.state = "saving" /\ page'.at = page.at
          /\ page'.pos = page.pos /\ page'.secs = page.secs /\ page'.ready = page.ready
          /\ page'.paused /\ ~page'.timer /\ ~page'.dirty
      BY <1>1, <2>1 DEF Pages, WriteStatuses, Open
    <2>3. e \in WritesOf({Video}) /\ e.at = page.at /\ e.pos = page.pos
      BY <1>1 DEF Pages, WritesOf, SessionOf, WriteStatuses, Open
    <2> HIDE DEF e
    <2>4. /\ saves' \in Seq(WritesOf({Video})) /\ saves' # <<>> /\ saves'[Len(saves')] = e
          /\ \A k \in DOMAIN saves' : saves'[k] = e \/ (k \in DOMAIN saves /\ saves'[k] = saves[k])
      BY <1>1, <2>1, <2>3, AppendIs
    <2>5. PageTypes' /\ PageFits'
      BY <1>1, <2>1, <2>2, <2>4, EmptyRecords DEF PageTypes, PageFits
    <2>6. PageIsHeard'
      <3>1. Heard(Video, page.at, page.pos)'
        BY <1>1, <2>2 DEF PageIsHeard, Heard
      <3>2. (page.ready => Heard(Video, page.at, page.secs))'
        BY <1>1, <2>2 DEF PageIsHeard, Heard
      <3>3. ASSUME NEW k \in DOMAIN saves' PROVE Heard(Video, saves[k].at, saves[k].pos)'
        BY <1>1, <2>3, <2>4, <3>3 DEF PageIsHeard, Heard
      <3>4. (\A k \in DOMAIN left : Heard(Video, left[k].at, left[k].pos))'
        BY <1>1, <2>1 DEF PageIsHeard, Heard
      <3>5. QED
        BY <3>1, <3>2, <3>3, <3>4 DEF PageIsHeard
    <2>7. DueIsCarried'
      <3>1. due'.at = page.at /\ due'.pos = page.pos
        BY <2>1
      <3>2. IsDue(page)' /\ (saves # <<>> /\ IsDue(saves[Len(saves)]))'
        BY <2>2, <2>3, <2>4, <3>1 DEF IsDue
      <3>3. QED
        BY <3>2 DEF DueIsCarried
    <2>8. QED
      BY <2>5, <2>6, <2>7 DEF PageInv
  <1>4. QED
    BY <1>2, <1>3

LEMMA OpenWorkKeeps ==
    ASSUME PlayIInv, NEW w \in AudioWorks, OpenWork(w)
    PROVE  PlayIInv'
  <1>1. UNCHANGED <<seen, writes, settings, sessions, fails, heard, crossed>>
        /\ StopPublishedVideo /\ UserOf("dock")
    BY DEF OpenWork
  <1>2. OtherTypes'
    BY <1>1, BudgetsStay, PlayParts DEF OtherTypes
  <1>3. PageInv'
    <2>1. CASE page.state = "open"
      BY <1>1, <2>1, CloseAndBackKeeps DEF StopPublishedVideo
    <2>2. CASE page.state # "open"
      BY <1>1, <2>2, PageStays, PlayParts DEF StopPublishedVideo
    <2>3. QED
      BY <2>1, <2>2
  <1>4. opening' \subseteq AudioWorks
    BY PlayParts DEF OpenWork, DockTypes
  <1>5. DockInv'
    <2>1. CASE page.state # "none" /\ refs.id # NoId
      <3>1. CloseAudio
        BY <2>1 DEF OpenWork
      <3>2. /\ dock' \in DockStates /\ refs' \in RefStates /\ audio' \in Audios /\ DockFits'
            /\ SourceIsHeard => SourceIsHeard' /\ PendingFits'
            /\ closing' \subseteq SessionOf(AudioWorks)
        BY <1>1, <3>1, CloseAudioIs, AskedKeeps, PlayParts
      <3>3. DockTypes'
        BY <1>1, <1>4, <3>2, PlayParts DEF DockTypes
      <3>4. Excused' \/ DockIsHeard'
        BY <1>1, <3>2, WritesStay, ExcusesStay, PlayParts DEF DockInv, DockIsHeard
      <3>5. QED
        BY <3>2, <3>3, <3>4 DEF DockInv
    <2>2. CASE ~(page.state # "none" /\ refs.id # NoId)
      <3>1. /\ UNCHANGED <<dock, closing>>
            /\ refs' \in {refs, [refs EXCEPT !.play = TRUE]}
            /\ audio' \in {audio, PlayCurrent(audio, refs.prepared)}
        BY <2>2 DEF OpenWork
      <3>2. /\ refs' \in RefStates /\ refs'.id = refs.id /\ refs'.prepared = refs.prepared
            /\ refs'.pending = refs.pending
        BY <3>1, PlayParts DEF RefStates
      <3>3. /\ audio' \in Audios /\ DockFits'
            /\ SourceIsHeard => SourceIsHeard'
            /\ PendingFits => PendingFits'
        BY <1>1, <3>1, <3>2, PlayCurrentKeeps
      <3>4. DockTypes'
        BY <1>1, <1>4, <3>1, <3>2, <3>3, PlayParts DEF DockTypes
      <3>5. Excused' \/ DockIsHeard'
        BY <1>1, <3>3, WritesStay, ExcusesStay, PlayParts DEF DockInv, DockIsHeard
      <3>6. QED
        BY <3>3, <3>4, <3>5 DEF DockInv
    <2>3. QED
      BY <2>1, <2>2
  <1>6. QED
    BY <1>2, <1>3, <1>5 DEF PlayIInv

LEMMA AskedStep ==
    ASSUME PlayIInv, OtherTypes', DockTypes', UNCHANGED <<seen, writes>>,
           NEW a \in {audio, [audio EXCEPT !.ended = FALSE]},
           audio' = [a EXCEPT !.paused = TRUE], dock'.id = refs'.id, ~refs'.prepared,
           dock'.id # NoId => refs'.pending.id = dock'.id /\ refs'.pending.at = dock'.ordinal,
           UNCHANGED pageVars, heard \subseteq heard', crossed \subseteq crossed',
           sessions'[Video].at = sessions[Video].at, sessions'[Video].pos = sessions[Video].pos
    PROVE  PlayIInv'
  <1>1. /\ DockFits'
        /\ SourceIsHeard => SourceIsHeard' /\ PendingFits'
    BY AskedKeeps, PlayParts DEF DockTypes
  <1>2. DockIsHeard => DockIsHeard'
    BY <1>1, WritesStay DEF DockIsHeard
  <1>3. QED
    BY <1>1, <1>2, DockStep

LEMMA OpenAnsweredKeeps ==
    ASSUME PlayIInv, NEW w \in AudioWorks, OpenAnswered(w)
    PROVE  PlayIInv'
  <1> DEFINE s == Opened(w)
  <1>1. w \in AllWorks /\ w # Video
    BY PlayParts, Constants
  <1>2. s \in SessionStates /\ [sessions EXCEPT ![w] = s] \in [AllWorks -> SessionStates]
    BY <1>1, OpenedIs, PlayParts
  <1> HIDE DEF s
  <1>3. /\ sessions' = [sessions EXCEPT ![w] = s] /\ Adopt(s, w)
        /\ Cross("players", page.state = "open") /\ opening' = opening \ {w}
        /\ UNCHANGED <<seen, writes, settings, closing, acts, fails, heard>> /\ UNCHANGED pageVars
    BY DEF OpenAnswered, s
  <1>4. crossed \subseteq crossed' /\ crossed' \subseteq {"players", "queue", "render"}
    BY <1>3, CrossGrows, PlayParts
  <1>5. OtherTypes'
    BY <1>2, <1>3, <1>4, PlayParts DEF OtherTypes
  <1>6. /\ dock' \in DockStates /\ refs' \in RefStates /\ dock'.id = refs'.id /\ ~refs'.prepared
        /\ refs'.pending.id = dock'.id /\ refs'.pending.at = dock'.ordinal
        /\ audio' = [audio EXCEPT !.paused = TRUE]
    BY <1>2, <1>3, AdoptIs, PlayParts
  <1>7. DockTypes'
    BY <1>3, <1>6, Quieted, PlayParts DEF DockTypes
  <1>8. sessions'[Video] = sessions[Video]
    BY <1>1, <1>3, PlayParts DEF OtherTypes
  <1>9. QED
    BY <1>3, <1>4, <1>5, <1>6, <1>7, <1>8, AskedStep

LEMMA SelectKeeps ==
    ASSUME PlayIInv, NEW o \in Ordinals, Select(o)
    PROVE  PlayIInv'
  <1>1. /\ SelectOrdinal(audio, o) /\ UserOf("dock") /\ UNCHANGED pageVars
        /\ UNCHANGED <<seen, writes, opening, settings, closing, sessions, fails, crossed>>
    BY DEF Select
  <1>2. OtherTypes'
    BY <1>1, BudgetsStay, PlayParts DEF OtherTypes
  <1>3. /\ dock' \in DockStates /\ refs' \in RefStates /\ dock'.id = refs'.id /\ ~refs'.prepared
        /\ refs'.pending.id = dock'.id /\ refs'.pending.at = dock'.ordinal
        /\ audio' = [audio EXCEPT !.paused = TRUE] /\ heard \subseteq heard'
    BY <1>1, SelectOrdinalIs, PlayParts
  <1>4. DockTypes'
    BY <1>1, <1>3, Quieted, PlayParts DEF DockTypes
  <1>5. QED
    BY <1>1, <1>2, <1>3, <1>4, AskedStep

LEMMA CloseDockKeeps ==
    ASSUME PlayIInv, CloseDock
    PROVE  PlayIInv'
  <1>1. /\ CloseAudio /\ UserOf("dock") /\ UNCHANGED pageVars
        /\ UNCHANGED <<seen, writes, opening, settings, sessions, fails, heard, crossed>>
    BY DEF CloseDock
  <1>2. OtherTypes'
    BY <1>1, BudgetsStay, PlayParts DEF OtherTypes
  <1>3. /\ dock' \in DockStates /\ refs' \in RefStates /\ dock'.id = refs'.id /\ ~refs'.prepared
        /\ dock'.id = NoId /\ audio' = [audio EXCEPT !.paused = TRUE]
        /\ closing' \subseteq SessionOf(AudioWorks)
    BY <1>1, CloseAudioIs, PlayParts
  <1>4. DockTypes'
    BY <1>1, <1>3, Quieted, PlayParts DEF DockTypes
  <1>5. QED
    BY <1>1, <1>2, <1>3, <1>4, AskedStep

LEMMA SetRepeatKeeps ==
    ASSUME PlayIInv, SetRepeat
    PROVE  PlayIInv'
  <1> DEFINE asked == [id |-> seen.id, repeat |-> IF seen.repeat = "one" THEN "off" ELSE "one"]
  <1>1. /\ UserOf("dock") /\ seen.id # NoId /\ UNCHANGED pageVars
        /\ settings' = settings \cup {asked}
        /\ UNCHANGED <<dock, seen, refs, audio, writes, opening, closing, sessions, fails, heard,
                       crossed>>
    BY DEF SetRepeat
  <1>2. OtherTypes'
    BY <1>1, BudgetsStay, PlayParts DEF OtherTypes
  <1>3. asked \in [id : SessionOf(AudioWorks), repeat : Repeats]
    BY <1>1, PlayParts DEF DockStates, DockIds, Repeats
  <1> HIDE DEF asked
  <1>4. DockTypes'
    BY <1>1, <1>3, PlayParts DEF DockTypes
  <1>5. DockFits'
    BY <1>1, PlayParts DEF DockFits, SourceOf
  <1>6. DockIsHeard => DockIsHeard'
    BY <1>1, SourceStays, WritesStay, PendingStays DEF DockIsHeard
  <1>7. QED
    BY <1>1, <1>2, <1>4, <1>5, <1>6, DockStep

LEMMA SettingsAnsweredKeeps ==
    ASSUME PlayIInv, NEW s \in settings, SettingsAnswered(s)
    PROVE  PlayIInv'
  <1>1. /\ settings' = settings \ {s} /\ UNCHANGED pageVars
        /\ UNCHANGED <<seen, audio, writes, opening, closing, acts, fails, heard>>
    BY DEF SettingsAnswered
  <1>2. /\ s.id \in SessionOf(AudioWorks) /\ s.id.work \in AllWorks /\ s.id.work # Video
        /\ s.repeat \in Repeats
    BY PlayParts, Constants DEF DockTypes, SessionOf
  <1>3. CASE sessions[s.id.work].gen = s.id.gen /\ sessions[s.id.work].status \in Open
    <2>1. /\ sessions' = [sessions EXCEPT ![s.id.work].repeat = s.repeat]
          /\ refs' = [refs EXCEPT !.id = s.id]
          /\ dock' = [dock EXCEPT !.id = s.id, !.repeat = s.repeat]
          /\ Cross("queue", refs.id # s.id)
      BY <1>3 DEF SettingsAnswered
    <2>2. /\ crossed \subseteq crossed' /\ crossed' \subseteq {"players", "queue", "render"}
          /\ refs.id # s.id => Excused'
      BY <2>1, CrossGrows, PlayParts DEF Excused
    <2>3. /\ sessions' \in [AllWorks -> SessionStates]
          /\ sessions'[Video].at = sessions[Video].at /\ sessions'[Video].pos = sessions[Video].pos
      BY <1>2, <2>1, RepeatedIs, PlayParts
    <2>4. OtherTypes'
      BY <1>1, <2>2, <2>3, PlayParts DEF OtherTypes
    <2>5. /\ refs' \in RefStates /\ refs'.id = s.id /\ refs'.prepared = refs.prepared
          /\ refs'.pending = refs.pending
      BY <1>2, <2>1, PlayParts DEF RefStates, DockIds
    <2>6. /\ dock' \in DockStates /\ dock'.id = s.id /\ dock'.ordinal = dock.ordinal
          /\ dock'.ask = dock.ask
      BY <1>2, <2>1, PlayParts DEF DockStates, DockIds
    <2>7. DockTypes'
      BY <1>1, <2>5, <2>6, PlayParts DEF DockTypes
    <2>8. DockFits'
      BY <1>1, <2>5, <2>6, PlayParts DEF DockFits, SourceOf
    <2>9. ASSUME DockIsHeard, refs.id = s.id PROVE DockIsHeard'
      <3>1. Asked(dock') = Asked(dock)
        BY <2>6, <2>9, PlayParts DEF Asked, DockFits
      <3>2. QED
        BY <1>1, <2>5, <2>9, <3>1, SourceStays, WritesStay, PendingStays DEF DockIsHeard
    <2>10. QED
      BY <1>1, <2>2, <2>3, <2>4, <2>7, <2>8, <2>9, DockStep
  <1>4. CASE ~(sessions[s.id.work].gen = s.id.gen /\ sessions[s.id.work].status \in Open)
    <2>1. UNCHANGED <<sessions, refs, dock, crossed>>
      BY <1>4 DEF SettingsAnswered
    <2>2. OtherTypes'
      BY <1>1, <2>1, PlayParts DEF OtherTypes
    <2>3. DockTypes' /\ DockFits'
      BY <1>1, <2>1, PlayParts DEF DockTypes, DockFits, SourceOf
    <2>4. DockIsHeard => DockIsHeard'
      BY <1>1, <2>1, SourceStays, WritesStay, PendingStays DEF DockIsHeard
    <2>5. QED
      BY <1>1, <2>1, <2>2, <2>3, <2>4, DockStep
  <1>5. QED
    BY <1>3, <1>4

LEMMA CloseAnsweredKeeps ==
    ASSUME PlayIInv, NEW id \in closing, CloseAnswered(id)
    PROVE  PlayIInv'
  <1>1. /\ closing' = closing \ {id} /\ sessions' = Closed(id) /\ UNCHANGED pageVars
        /\ UNCHANGED <<dock, seen, refs, audio, writes, opening, settings, acts, fails, heard,
                       crossed>>
    BY DEF CloseAnswered
  <1>2. id.work \in AllWorks
    BY PlayParts DEF DockTypes, SessionOf
  <1>3. /\ sessions' \in [AllWorks -> SessionStates]
        /\ sessions'[Video].at = sessions[Video].at /\ sessions'[Video].pos = sessions[Video].pos
    BY <1>1, <1>2, ClosedIs, PlayParts
  <1>4. OtherTypes'
    BY <1>1, <1>3, PlayParts DEF OtherTypes
  <1>5. DockTypes' /\ DockFits'
    BY <1>1, PlayParts DEF DockTypes, DockFits, SourceOf
  <1>6. DockIsHeard => DockIsHeard'
    BY <1>1, SourceStays, WritesStay, PendingStays DEF DockIsHeard
  <1>7. QED
    BY <1>1, <1>3, <1>4, <1>5, <1>6, DockStep

LEMMA SourceIs ==
    ASSUME PlayIInv, audio.src # NoSource
    PROVE  /\ audio.src = SourceOf(seen) /\ SourceOf(seen) # NoSource
           /\ audio.src.id = seen.id /\ audio.src.at = seen.ordinal
           /\ seen.id # NoId /\ seen.id \in SessionOf(AudioWorks) /\ seen.ordinal \in Ordinals
  <1>1. audio.src = SourceOf(seen)
    BY PlayParts DEF DockFits
  <1>2. QED
    BY <1>1, PlayParts, SourceFacts

\* An element without a file is at rest.
LEMMA HasSource ==
    ASSUME PlayIInv, ~audio.paused \/ audio.seeking \/ audio.ended \/ audio.meta
    PROVE  audio.src # NoSource
  BY PlayParts DEF DockFits, NoAudio

\* A place that is heard and saved.
LEMMA PersistHeard ==
    ASSUME PlayIInv, NEW pos \in Seconds, NEW status \in WriteStatuses,
           SourceOf(seen) # NoSource, writes' = Persist(writes, seen, pos, status),
           heard \subseteq heard'
    PROVE  /\ writes' \in Seq(WritesOf(AudioWorks))
           /\ WritesAreHeard /\ Heard(seen.id.work, seen.ordinal, pos) => WritesAreHeard'
           /\ WritesAreHeard /\ <<seen.id.work, seen.ordinal, pos>> \in heard' => WritesAreHeard'
  <1>1. /\ writes' \in Seq(WritesOf(AudioWorks))
        /\ \A k \in DOMAIN writes' :
             \/ writes'[k].id.work = seen.id.work /\ writes'[k].at = seen.ordinal
                /\ writes'[k].pos = pos
             \/ k \in DOMAIN writes /\ writes'[k] = writes[k]
    BY PlayParts, PersistKeeps
  <1>2. ASSUME WritesAreHeard,
               Heard(seen.id.work, seen.ordinal, pos)
                 \/ <<seen.id.work, seen.ordinal, pos>> \in heard'
        PROVE  WritesAreHeard'
    <2>1. ASSUME NEW k \in DOMAIN writes'
          PROVE  Heard(writes[k].id.work, writes[k].at, writes[k].pos)'
      <3>1. CASE k \in DOMAIN writes /\ writes'[k] = writes[k]
        BY <1>2, <3>1 DEF WritesAreHeard, Heard
      <3>2. CASE writes'[k].id.work = seen.id.work /\ writes'[k].at = seen.ordinal
                 /\ writes'[k].pos = pos
        BY <1>2, <3>2 DEF Heard
      <3>3. QED
        BY <1>1, <2>1, <3>1, <3>2
    <2>2. QED
      BY <2>1 DEF WritesAreHeard
  <1>3. QED
    BY <1>1, <1>2

LEMMA ToggleKeeps ==
    ASSUME PlayIInv, Toggle
    PROVE  PlayIInv'
  <1>1. /\ HasUrl /\ UserOf("dock") /\ UNCHANGED pageVars
        /\ UNCHANGED <<dock, seen, opening, settings, closing, sessions, fails, heard, crossed>>
    BY DEF Toggle
  <1>2. OtherTypes'
    BY <1>1, BudgetsStay, PlayParts DEF OtherTypes
  <1>3. CASE audio.paused
    <2>1. /\ refs' = [refs EXCEPT !.play = TRUE] /\ audio' = PlayCurrent(audio, refs.prepared)
          /\ UNCHANGED writes
      BY <1>3 DEF Toggle
    <2>2. /\ refs' \in RefStates /\ refs'.id = refs.id /\ refs'.prepared = refs.prepared
          /\ refs'.pending = refs.pending
      BY <2>1, PlayParts DEF RefStates
    <2>3. /\ audio' \in Audios /\ DockFits'
          /\ SourceIsHeard => SourceIsHeard'
          /\ PendingFits => PendingFits'
      BY <1>1, <2>1, <2>2, PlayCurrentKeeps
    <2>4. DockTypes'
      BY <1>1, <2>1, <2>2, <2>3, PlayParts DEF DockTypes
    <2>5. DockIsHeard => DockIsHeard'
      BY <1>1, <2>1, <2>3, WritesStay DEF DockIsHeard
    <2>6. QED
      BY <1>1, <1>2, <2>3, <2>4, <2>5, DockStep
  <1>4. CASE ~audio.paused
    <2>1. /\ refs' = [refs EXCEPT !.play = FALSE] /\ audio' = [audio EXCEPT !.paused = TRUE]
          /\ writes' = Persist(writes, seen, audio.pos, "paused")
      BY <1>4 DEF Toggle
    <2>2. /\ refs' \in RefStates /\ refs'.id = refs.id /\ refs'.prepared = refs.prepared
          /\ refs'.pending = refs.pending
      BY <2>1, PlayParts DEF RefStates
    <2>3. /\ audio' \in Audios /\ audio'.src = audio.src /\ audio'.meta = audio.meta
          /\ audio'.pos = audio.pos /\ audio'.seeking = audio.seeking
          /\ audio'.ended = audio.ended /\ audio'.paused
      BY <2>1, PlayParts, Quieted
    <2>4. audio.src # NoSource /\ audio.pos \in Seconds /\ "paused" \in WriteStatuses
      BY <1>1, PlayParts DEF HasUrl, Audios, WriteStatuses, Open
    <2>5. /\ writes' \in Seq(WritesOf(AudioWorks))
          /\ WritesAreHeard /\ Heard(seen.id.work, seen.ordinal, audio.pos) => WritesAreHeard'
      BY <1>1, <2>1, <2>4, SourceIs, PersistHeard
    <2>6. DockTypes'
      BY <1>1, <2>2, <2>3, <2>5, PlayParts DEF DockTypes
    <2>7. DockFits'
      BY <1>1, <2>2, <2>3, <2>4, PlayParts DEF DockFits, SourceOf
    <2>8. ASSUME DockIsHeard PROVE DockIsHeard'
      <3>1. SourceIsHeard' /\ PendingFits'
        BY <1>1, <2>2, <2>3, <2>8, SourceStays, PendingStays DEF DockIsHeard
      <3>2. Heard(seen.id.work, seen.ordinal, audio.pos)
        BY <1>4, <2>4, <2>8, SourceIs DEF DockIsHeard, SourceIsHeard
      <3>3. QED
        BY <2>5, <2>8, <3>1, <3>2 DEF DockIsHeard
    <2>9. QED
      BY <1>1, <1>2, <2>6, <2>7, <2>8, DockStep
  <1>5. QED
    BY <1>3, <1>4

LEMMA SeekKeeps ==
    ASSUME PlayIInv, NEW pos \in Seconds, Seek(pos)
    PROVE  PlayIInv'
  <1>1. /\ UserOf("dock") /\ SourceOf(seen) # NoSource /\ UNCHANGED pageVars
        /\ Hear(seen.id.work, seen.ordinal, pos)
        /\ audio' = IF HasUrl /\ audio.meta THEN [audio EXCEPT !.pos = pos] ELSE audio
        /\ UNCHANGED <<dock, seen, refs, opening, settings, closing, sessions, fails, crossed>>
    BY DEF Seek
  <1>2. PICK status \in WriteStatuses : writes' = Persist(writes, seen, pos, status)
    BY DEF Seek, WriteStatuses, Open
  <1>3. heard \subseteq heard' /\ <<seen.id.work, seen.ordinal, pos>> \in heard'
    BY <1>1 DEF Hear
  <1>4. /\ writes' \in Seq(WritesOf(AudioWorks))
        /\ WritesAreHeard => WritesAreHeard'
    BY <1>1, <1>2, <1>3, PersistHeard
  <1>5. OtherTypes'
    BY <1>1, BudgetsStay, PlayParts DEF OtherTypes
  <1>6. /\ audio' \in Audios /\ audio'.src = audio.src /\ audio'.meta = audio.meta
        /\ audio'.ended = audio.ended /\ audio'.seeking = audio.seeking
        /\ audio'.paused = audio.paused
        /\ audio' = audio \/ (audio.src # NoSource /\ audio'.pos = pos)
    BY <1>1, PlayParts DEF Audios, HasUrl
  <1>7. DockTypes'
    BY <1>1, <1>4, <1>6, PlayParts DEF DockTypes
  <1>8. DockFits'
    BY <1>1, <1>6, PlayParts DEF DockFits, SourceOf
  <1>9. ASSUME DockIsHeard PROVE DockIsHeard'
    <2>1. PendingFits'
      BY <1>1, <1>6, <1>9, PendingStays DEF DockIsHeard
    <2>2. CASE audio' = audio
      BY <1>1, <1>3, <1>4, <1>9, <2>1, <2>2, SourceStays DEF DockIsHeard
    <2>3. CASE audio.src # NoSource /\ audio'.pos = pos
      <3>1. audio'.src.id.work = seen.id.work /\ audio'.src.at = seen.ordinal
        BY <1>6, <2>3, SourceIs
      <3>2. Heard(audio.src.id.work, audio.src.at, audio.pos)'
        BY <1>3, <2>3, <3>1 DEF Heard
      <3>3. (audio.ended => Heard(audio.src.id.work, audio.src.at, Length))'
        BY <1>3, <1>6, <1>9, <2>3 DEF Heard, DockIsHeard, SourceIsHeard
      <3>4. SourceIsHeard'
        BY <3>2, <3>3 DEF SourceIsHeard
      <3>5. QED
        BY <1>4, <1>9, <2>1, <3>4 DEF DockIsHeard
    <2>4. QED
      BY <1>6, <2>2, <2>3
  <1>10. QED
    BY <1>1, <1>3, <1>5, <1>7, <1>8, <1>9, DockStep

LEMMA CommitKeeps ==
    ASSUME PlayIInv, Commit
    PROVE  PlayIInv'
  <1>1. /\ seen' = dock /\ UNCHANGED pageVars
        /\ UNCHANGED <<dock, writes, opening, settings, closing, sessions, acts, fails, crossed>>
    BY DEF Commit
  <1>2. OtherTypes'
    BY <1>1, PlayParts DEF OtherTypes
  <1>3. Asked(dock) = Asked(seen) => SourceOf(dock) = SourceOf(seen)
    BY DEF Asked, SourceOf
  <1>4. Asked(seen') = Asked(dock') /\ seen' \in DockStates
    BY <1>1, PlayParts
  <1>5. CASE SourceOf(dock) # SourceOf(seen)
    <2>1. audio' = NoAudio /\ refs' = [refs EXCEPT !.prepared = FALSE] /\ UNCHANGED heard
      BY <1>5 DEF Commit
    <2>2. /\ refs' \in RefStates /\ refs'.id = refs.id /\ refs'.pending = refs.pending
      BY <2>1, PlayParts DEF RefStates
    <2>3. audio'.src = NoSource
      BY <2>1 DEF NoAudio
    <2>4. DockTypes' /\ DockFits'
      BY <1>1, <1>4, <2>1, <2>2, <2>3, EmptyRecords, PlayParts DEF DockTypes, DockFits
    <2>5. DockIsHeard => DockIsHeard'
      <3>1. SourceIsHeard'
        BY <2>3 DEF SourceIsHeard
      <3>2. PendingFits => PendingFits'
        BY <1>1, <1>3, <1>5, <2>2 DEF PendingFits
      <3>3. QED
        BY <1>1, <2>1, <3>1, <3>2, WritesStay DEF DockIsHeard
    <2>6. QED
      BY <1>1, <1>2, <2>1, <2>4, <2>5, DockStep
  <1>6. CASE /\ SourceOf(dock) = SourceOf(seen) /\ Asked(dock) # Asked(seen)
             /\ audio.src # NoSource /\ audio.meta
    <2>1. Prepare(audio, dock, refs)
      BY <1>6 DEF Commit
    <2>2. /\ refs' \in RefStates /\ refs'.id = refs.id /\ heard \subseteq heard'
          /\ audio' \in Audios /\ audio'.src = audio.src /\ audio'.meta = audio.meta
          /\ (audio'.ended => audio.ended)
          /\ refs.pending.id = dock.id /\ refs.pending.at = dock.ordinal =>
               Heard(dock.id.work, dock.ordinal, audio.pos)'
      BY <1>1, <2>1, PrepareIs, PlayParts
    <2>3. /\ audio.src = SourceOf(dock) /\ dock.id # NoId
          /\ audio.src.id = dock.id /\ audio.src.at = dock.ordinal
      BY <1>6, SourceIs, SourceFacts, PlayParts
    <2>4. DockTypes' /\ DockFits'
      BY <1>1, <1>4, <1>6, <2>2, <2>3, PlayParts DEF DockTypes, DockFits, SourceOf
    <2>5. ASSUME DockIsHeard PROVE DockIsHeard'
      <3>1. refs.pending.id = dock.id /\ refs.pending.at = dock.ordinal
        BY <1>6, <2>3, <2>5 DEF DockIsHeard, PendingFits
      <3>2. Heard(audio.src.id.work, audio.src.at, audio.pos)'
        BY <1>1, <2>2, <2>3, <3>1 DEF Heard
      <3>3. (audio.ended => Heard(audio.src.id.work, audio.src.at, Length))'
        BY <1>6, <2>2, <2>5 DEF Heard, DockIsHeard, SourceIsHeard
      <3>4. SourceIsHeard'
        BY <3>2, <3>3 DEF SourceIsHeard
      <3>5. PendingFits'
        BY <1>1, <1>6, <2>2 DEF PendingFits
      <3>6. QED
        BY <1>1, <2>2, <2>5, <3>4, <3>5, WritesStay DEF DockIsHeard
    <2>6. QED
      BY <1>1, <1>2, <2>2, <2>4, <2>5, DockStep
  <1>7. CASE /\ SourceOf(dock) = SourceOf(seen)
             /\ ~(Asked(dock) # Asked(seen) /\ audio.src # NoSource /\ audio.meta)
    <2>1. UNCHANGED <<audio, refs, heard>>
      BY <1>7 DEF Commit
    <2>2. DockTypes' /\ DockFits'
      BY <1>1, <1>4, <1>7, <2>1, PlayParts DEF DockTypes, DockFits, SourceOf
    <2>3. ASSUME DockIsHeard PROVE DockIsHeard'
      <3>1. audio.src = NoSource => ~audio.meta
        BY HasSource
      <3>2. PendingFits'
        BY <1>1, <1>7, <2>1, <2>3, <3>1 DEF DockIsHeard, PendingFits
      <3>3. QED
        BY <1>1, <2>1, <2>3, <3>2, SourceStays, WritesStay DEF DockIsHeard
    <2>4. QED
      BY <1>1, <1>2, <2>1, <2>2, <2>3, DockStep
  <1>8. QED
    BY <1>5, <1>6, <1>7

LEMMA FetchedKeeps ==
    ASSUME PlayIInv, Fetched
    PROVE  PlayIInv'
  <1>1. /\ SourceOf(seen) # NoSource /\ audio.src = NoSource /\ UNCHANGED pageVars
        /\ audio' = [NoAudio EXCEPT !.src = SourceOf(seen)]
        /\ refs' = [refs EXCEPT !.prepared = FALSE]
        /\ UNCHANGED <<dock, seen, writes, opening, settings, closing, sessions, acts, fails, heard,
                       crossed>>
    BY DEF Fetched
  <1>2. OtherTypes'
    BY <1>1, PlayParts DEF OtherTypes
  <1>3. /\ refs' \in RefStates /\ refs'.id = refs.id /\ refs'.pending = refs.pending
        /\ ~refs'.prepared
    BY <1>1, PlayParts DEF RefStates
  <1>4. /\ audio' \in Audios /\ audio'.src = SourceOf(seen) /\ audio'.paused
        /\ ~audio'.seeking /\ ~audio'.ended /\ ~audio'.meta
    <2>1. audio' = [src |-> SourceOf(seen), meta |-> FALSE, pos |-> 0, seeking |-> FALSE,
                    paused |-> TRUE, ended |-> FALSE]
      BY <1>1 DEF NoAudio
    <2>2. SourceOf(seen) \in Sources
      BY PlayParts, SourceFacts
    <2>3. QED
      BY <2>1, <2>2, Constants DEF Audios
  <1>5. DockTypes'
    BY <1>1, <1>3, <1>4, PlayParts DEF DockTypes
  <1>6. DockFits'
    BY <1>1, <1>3, <1>4, PlayParts DEF DockFits, SourceOf
  <1>7. ASSUME DockIsHeard PROVE DockIsHeard'
    <2>1. SourceIsHeard'
      BY <1>3, <1>4 DEF SourceIsHeard
    <2>2. ~audio.meta
      BY <1>1, HasSource
    <2>3. PendingFits'
      BY <1>1, <1>3, <1>7, <2>2 DEF DockIsHeard, PendingFits
    <2>4. QED
      BY <1>1, <1>7, <2>1, <2>3, WritesStay DEF DockIsHeard
  <1>8. QED
    BY <1>1, <1>2, <1>5, <1>6, <1>7, DockStep

LEMMA LoadedMetadataKeeps ==
    ASSUME PlayIInv, LoadedMetadata
    PROVE  PlayIInv'
  <1> DEFINE a == [audio EXCEPT !.meta = TRUE]
  <1>1. /\ HasUrl /\ ~audio.meta /\ Prepare(a, seen, refs) /\ UNCHANGED pageVars
        /\ Cross("render", Asked(seen) # Asked(dock))
        /\ UNCHANGED <<dock, seen, writes, opening, settings, closing, sessions, acts, fails>>
    BY DEF LoadedMetadata
  <1>2. /\ a \in Audios /\ a.src = audio.src /\ a.meta /\ a.ended = audio.ended
    BY PlayParts DEF Audios
  <1> HIDE DEF a
  <1>3. /\ crossed \subseteq crossed' /\ crossed' \subseteq {"players", "queue", "render"}
        /\ Asked(seen) # Asked(dock) => Excused'
    BY <1>1, CrossGrows, PlayParts DEF Excused
  <1>4. OtherTypes'
    BY <1>1, <1>3, PlayParts DEF OtherTypes
  <1>5. /\ refs' \in RefStates /\ refs'.id = refs.id /\ heard \subseteq heard'
        /\ audio' \in Audios /\ audio'.src = audio.src /\ audio'.meta
        /\ (audio'.ended => audio.ended)
        /\ refs.pending.id = seen.id /\ refs.pending.at = seen.ordinal =>
             Heard(seen.id.work, seen.ordinal, audio.pos)'
    BY <1>1, <1>2, PrepareIs, PlayParts
  <1>6. audio.src # NoSource
    BY <1>1 DEF HasUrl
  <1>7. DockTypes'
    BY <1>1, <1>5, PlayParts DEF DockTypes
  <1>8. DockFits'
    BY <1>1, <1>5, <1>6, PlayParts DEF DockFits, SourceOf
  <1>9. ASSUME DockIsHeard, Asked(seen) = Asked(dock) PROVE DockIsHeard'
    <2>1. seen.id = dock.id /\ seen.ordinal = dock.ordinal
      BY <1>9 DEF Asked
    <2>2. /\ seen.id # NoId /\ audio.src.id = seen.id /\ audio.src.at = seen.ordinal
      BY <1>6, SourceIs
    <2>3. refs.pending.id = seen.id /\ refs.pending.at = seen.ordinal
      BY <1>1, <1>9, <2>1, <2>2 DEF DockIsHeard, PendingFits
    <2>4. Heard(audio.src.id.work, audio.src.at, audio.pos)'
      BY <1>1, <1>5, <2>2, <2>3 DEF Heard
    <2>5. (audio.ended => Heard(audio.src.id.work, audio.src.at, Length))'
      BY <1>5, <1>6, <1>9 DEF Heard, DockIsHeard, SourceIsHeard
    <2>6. SourceIsHeard'
      BY <2>4, <2>5 DEF SourceIsHeard
    <2>7. PendingFits'
      <3>1. Asked(seen') = Asked(dock')
        BY <1>1, <1>9
      <3>2. QED
        BY <1>5, <3>1 DEF PendingFits, Asked
    <2>8. QED
      BY <1>1, <1>5, <1>9, <2>6, <2>7, WritesStay DEF DockIsHeard
  <1>10. QED
    BY <1>1, <1>3, <1>4, <1>5, <1>7, <1>8, <1>9, DockStep

LEMMA SeekedKeeps ==
    ASSUME PlayIInv, Seeked
    PROVE  PlayIInv'
  <1> DEFINE a == [audio EXCEPT !.seeking = FALSE]
  <1>1. /\ audio.seeking /\ UNCHANGED pageVars
        /\ audio' \in {a, PlayCurrent(a, TRUE)} /\ refs' = [refs EXCEPT !.prepared = TRUE]
        /\ UNCHANGED <<dock, seen, writes, opening, settings, closing, sessions, acts, fails, heard,
                       crossed>>
    BY DEF Seeked
  <1>2. OtherTypes'
    BY <1>1, PlayParts DEF OtherTypes
  <1>3. /\ refs' \in RefStates /\ refs'.id = refs.id /\ refs'.pending = refs.pending
    BY <1>1, PlayParts DEF RefStates
  <1>4. /\ a \in Audios /\ a.src = audio.src /\ a.meta = audio.meta /\ a.pos = audio.pos
        /\ a.ended = audio.ended
    BY PlayParts DEF Audios
  <1> HIDE DEF a
  <1>5. /\ audio' \in Audios /\ audio'.src = audio.src /\ audio'.meta = audio.meta
        /\ (audio'.ended => audio.ended)
        /\ audio'.pos = audio.pos \/ (audio.pos = Length /\ audio'.pos = 0)
    <2>1. CASE audio' = a
      BY <1>4, <2>1
    <2>2. CASE audio' = PlayCurrent(a, TRUE)
      <3>1. TRUE \in BOOLEAN
        OBVIOUS
      <3>2. QED
        BY <1>4, <2>2, <3>1, PlayCurrentIs
    <2>3. QED
      BY <1>1, <2>1, <2>2
  <1>6. audio.src # NoSource
    BY <1>1, HasSource
  <1>7. DockTypes'
    BY <1>1, <1>3, <1>5, PlayParts DEF DockTypes
  <1>8. DockFits'
    BY <1>1, <1>3, <1>5, <1>6, PlayParts DEF DockFits, SourceOf
  <1>9. ASSUME DockIsHeard PROVE DockIsHeard'
    <2>1. Heard(audio.src.id.work, audio.src.at, audio.pos)
      BY <1>1, <1>6, <1>9 DEF DockIsHeard, SourceIsHeard
    <2>2. Heard(audio.src.id.work, audio.src.at, audio'.pos)
      BY <1>5, <2>1, EndStartsOver
    <2>3. /\ Heard(audio.src.id.work, audio.src.at, audio.pos)'
          /\ (audio.ended => Heard(audio.src.id.work, audio.src.at, Length))'
      BY <1>1, <1>5, <1>6, <1>9, <2>2 DEF Heard, DockIsHeard, SourceIsHeard
    <2>4. SourceIsHeard'
      BY <2>3 DEF SourceIsHeard
    <2>5. QED
      BY <1>1, <1>3, <1>5, <1>9, <2>4, PendingStays, WritesStay DEF DockIsHeard
  <1>10. QED
    BY <1>1, <1>2, <1>7, <1>8, <1>9, DockStep

LEMMA CanPlayKeeps ==
    ASSUME PlayIInv, CanPlay
    PROVE  PlayIInv'
  <1>1. /\ audio' = PlayCurrent(audio, refs.prepared) /\ UNCHANGED pageVars
        /\ UNCHANGED <<dock, seen, refs, writes, opening, settings, closing, sessions, acts, fails,
                       heard, crossed>>
    BY DEF CanPlay
  <1>2. OtherTypes'
    BY <1>1, PlayParts DEF OtherTypes
  <1>3. /\ audio' \in Audios /\ DockFits'
        /\ SourceIsHeard => SourceIsHeard'
        /\ PendingFits => PendingFits'
    BY <1>1, PlayCurrentKeeps, PlayParts
  <1>4. DockTypes'
    BY <1>1, <1>3, PlayParts DEF DockTypes
  <1>5. DockIsHeard => DockIsHeard'
    BY <1>1, <1>3, WritesStay DEF DockIsHeard
  <1>6. QED
    BY <1>1, <1>2, <1>3, <1>4, <1>5, DockStep

LEMMA AdvanceKeeps ==
    ASSUME PlayIInv, Advance
    PROVE  PlayIInv'
  <1>1. /\ ~audio.paused /\ audio.pos < Length /\ UNCHANGED pageVars
        /\ audio' = [audio EXCEPT !.pos = @ + 1, !.paused = (audio.pos + 1 = Length),
                                  !.ended = (audio.pos + 1 = Length)]
        /\ Hear(audio.src.id.work, audio.src.at, audio.pos + 1)
        /\ UNCHANGED <<dock, seen, refs, writes, opening, settings, closing, sessions, acts, fails,
                       crossed>>
    BY DEF Advance
  <1>2. OtherTypes'
    BY <1>1, PlayParts DEF OtherTypes
  <1>3. audio.pos + 1 \in Seconds
    BY <1>1, PlayParts, Constants DEF Audios, Seconds
  <1>4. /\ audio' \in Audios /\ audio'.src = audio.src /\ audio'.meta = audio.meta
        /\ audio'.pos = audio.pos + 1 /\ (audio'.ended => audio'.pos = Length)
    BY <1>1, <1>3, PlayParts DEF Audios
  <1>5. audio.src # NoSource
    BY <1>1, HasSource
  <1>6. DockTypes'
    BY <1>1, <1>4, PlayParts DEF DockTypes
  <1>7. DockFits'
    BY <1>1, <1>4, <1>5, PlayParts DEF DockFits, SourceOf
  <1>8. heard \subseteq heard' /\ Heard(audio.src.id.work, audio.src.at, audio.pos)'
    BY <1>1, <1>4 DEF Hear, Heard
  <1>9. SourceIsHeard'
    BY <1>4, <1>8 DEF SourceIsHeard
  <1>10. DockIsHeard => DockIsHeard'
    BY <1>1, <1>4, <1>8, <1>9, PendingStays, WritesStay DEF DockIsHeard
  <1>11. QED
    BY <1>1, <1>2, <1>6, <1>7, <1>8, <1>10, DockStep

LEMMA TimeUpdateKeeps ==
    ASSUME PlayIInv, TimeUpdate
    PROVE  PlayIInv'
  <1>1. /\ Reports /\ refs' = [refs EXCEPT !.reported = audio.pos] /\ UNCHANGED pageVars
        /\ UNCHANGED <<dock, seen, audio, opening, settings, closing, sessions, acts, fails, heard,
                       crossed>>
    BY DEF TimeUpdate
  <1>2. audio.src # NoSource /\ refs.prepared /\ audio.pos \in Seconds
    BY <1>1, PlayParts DEF Reports, HasUrl, Audios
  <1>3. PICK status \in WriteStatuses : writes' = Persist(writes, seen, audio.pos, status)
    BY <1>2, SourceIs DEF TimeUpdate, WriteStatuses, Open
  <1>4. OtherTypes'
    BY <1>1, PlayParts DEF OtherTypes
  <1>5. audio.pos \in 0..(Length + 1)
    BY <1>2, Constants DEF Seconds
  <1>6. /\ refs' \in RefStates /\ refs'.id = refs.id /\ refs'.pending = refs.pending
        /\ refs'.prepared = refs.prepared
    BY <1>1, <1>5, PlayParts DEF RefStates
  <1>7. /\ writes' \in Seq(WritesOf(AudioWorks))
        /\ WritesAreHeard /\ Heard(seen.id.work, seen.ordinal, audio.pos) => WritesAreHeard'
    BY <1>1, <1>2, <1>3, SourceIs, PersistHeard
  <1>8. DockTypes'
    BY <1>1, <1>6, <1>7, PlayParts DEF DockTypes
  <1>9. DockFits'
    BY <1>1, <1>6, PlayParts DEF DockFits, SourceOf
  <1>10. ASSUME DockIsHeard PROVE DockIsHeard'
    <2>1. Heard(seen.id.work, seen.ordinal, audio.pos)
      BY <1>2, <1>10, SourceIs DEF DockIsHeard, SourceIsHeard
    <2>2. QED
      BY <1>1, <1>6, <1>7, <1>10, <2>1, SourceStays, PendingStays DEF DockIsHeard
  <1>11. QED
    BY <1>1, <1>4, <1>8, <1>9, <1>10, DockStep

\* The file that ended: its end is saved, and it starts over or the next one is asked for.
LEMMA EndedKeeps ==
    ASSUME PlayIInv, Ended
    PROVE  PlayIInv'
  <1> DEFINE done == Persist(writes, seen, Length, "completed")
             off == [audio EXCEPT !.ended = FALSE]
  <1>1. /\ audio.ended /\ UNCHANGED pageVars
        /\ UNCHANGED <<seen, opening, settings, closing, sessions, acts, fails, crossed>>
    BY DEF Ended
  <1>2. OtherTypes'
    BY <1>1, PlayParts DEF OtherTypes
  <1>3. audio.src # NoSource
    BY <1>1, HasSource
  <1>4. /\ off \in Audios /\ off.src = audio.src /\ off.meta = audio.meta /\ off.pos = audio.pos
        /\ off.seeking = audio.seeking /\ off.paused = audio.paused /\ ~off.ended
    BY PlayParts DEF Audios
  <1>5. /\ Length \in Seconds /\ 0 \in Seconds
        /\ "completed" \in WriteStatuses /\ "paused" \in WriteStatuses
    BY Constants DEF WriteStatuses, Open
  <1>6. /\ done \in Seq(WritesOf(AudioWorks))
        /\ \A k \in DOMAIN done :
             \/ done[k].id.work = seen.id.work /\ done[k].at = seen.ordinal /\ done[k].pos = Length
             \/ k \in DOMAIN writes /\ done[k] = writes[k]
    BY <1>3, <1>5, SourceIs, PersistKeeps, PlayParts
  <1>7. DockIsHeard => Heard(seen.id.work, seen.ordinal, Length)
    BY <1>1, <1>3, SourceIs DEF DockIsHeard, SourceIsHeard
  <1>8. CASE seen.repeat = "one"
    <2> DEFINE back == [off EXCEPT !.pos = 0]
    <2>1. /\ writes' = Persist(done, seen, 0, "paused") /\ refs' = [refs EXCEPT !.play = TRUE]
          /\ audio' = PlayCurrent(back, refs.prepared)
          /\ Hear(seen.id.work, seen.ordinal, 0) /\ UNCHANGED dock
      BY <1>8 DEF Ended
    <2>2. /\ refs' \in RefStates /\ refs'.id = refs.id /\ refs'.pending = refs.pending
          /\ refs.prepared \in BOOLEAN
      BY <2>1, PlayParts DEF RefStates
    <2>3. /\ back \in Audios /\ back.src = audio.src /\ back.meta = audio.meta /\ back.pos = 0
          /\ ~back.ended
      BY <1>4, Constants DEF Audios
    <2> HIDE DEF back
    <2>4. /\ audio' \in Audios /\ audio'.src = audio.src /\ audio'.meta = audio.meta
          /\ audio'.pos = 0 /\ ~audio'.ended
      BY <2>1, <2>2, <2>3, PlayCurrentIs
    <2> HIDE DEF done
    <2>5. /\ writes' \in Seq(WritesOf(AudioWorks))
          /\ \A k \in DOMAIN writes' :
               \/ writes'[k].id.work = seen.id.work /\ writes'[k].at = seen.ordinal
                  /\ writes'[k].pos = 0
               \/ k \in DOMAIN done /\ writes'[k] = done[k]
      BY <1>3, <1>5, <1>6, <2>1, SourceIs, PersistKeeps, PlayParts
    <2>6. /\ heard \subseteq heard' /\ Heard(seen.id.work, seen.ordinal, 0)'
          /\ <<seen.id.work, seen.ordinal, 0>> \in heard'
      BY <1>1, <2>1 DEF Hear, Heard
    <2>7. DockTypes'
      BY <1>1, <2>1, <2>2, <2>4, <2>5, PlayParts DEF DockTypes
    <2>8. DockFits'
      BY <1>1, <1>3, <2>1, <2>2, <2>4, PlayParts DEF DockFits, SourceOf
    <2>9. ASSUME DockIsHeard PROVE DockIsHeard'
      <3>1. SourceIsHeard'
        <4>1. audio'.src.id.work = seen.id.work /\ audio'.src.at = seen.ordinal
          BY <1>3, <2>4, SourceIs
        <4>2. Heard(audio.src.id.work, audio.src.at, audio.pos)'
          BY <2>4, <2>6, <4>1 DEF Heard
        <4>3. QED
          BY <2>4, <4>2 DEF SourceIsHeard
      <3>2. WritesAreHeard'
        <4>1. ASSUME NEW k \in DOMAIN writes'
              PROVE  Heard(writes[k].id.work, writes[k].at, writes[k].pos)'
          <5>1. CASE writes'[k].id.work = seen.id.work /\ writes'[k].at = seen.ordinal
                     /\ writes'[k].pos = 0
            BY <2>6, <5>1 DEF Heard
          <5>2. CASE /\ k \in DOMAIN done /\ writes'[k] = done[k]
                     /\ done[k].id.work = seen.id.work /\ done[k].at = seen.ordinal
                     /\ done[k].pos = Length
            BY <1>7, <2>6, <2>9, <5>2 DEF Heard
          <5>3. CASE k \in DOMAIN writes /\ writes'[k] = writes[k]
            BY <2>6, <2>9, <5>3 DEF Heard, DockIsHeard, WritesAreHeard
          <5>4. QED
            BY <1>6, <2>5, <4>1, <5>1, <5>2, <5>3
        <4>2. QED
          BY <4>1 DEF WritesAreHeard
      <3>3. PendingFits'
        BY <1>1, <2>1, <2>2, <2>4, <2>9, PendingStays DEF DockIsHeard
      <3>4. QED
        BY <3>1, <3>2, <3>3 DEF DockIsHeard
    <2>10. QED
      BY <1>1, <1>2, <2>6, <2>7, <2>8, <2>9, DockStep
  <1>9. CASE seen.repeat # "one"
    <2>1. writes' = done
      BY <1>9 DEF Ended
    <2>2. ASSUME DockIsHeard, heard \subseteq heard' PROVE WritesAreHeard'
      <3>1. ASSUME NEW k \in DOMAIN writes'
            PROVE  Heard(writes[k].id.work, writes[k].at, writes[k].pos)'
        <4> HIDE DEF done
        <4>1. CASE done[k].id.work = seen.id.work /\ done[k].at = seen.ordinal
                   /\ done[k].pos = Length
          BY <1>7, <2>1, <2>2, <4>1 DEF Heard
        <4>2. CASE k \in DOMAIN writes /\ done[k] = writes[k]
          BY <2>1, <2>2, <4>2 DEF Heard, DockIsHeard, WritesAreHeard
        <4>3. QED
          BY <1>6, <2>1, <3>1, <4>1, <4>2
      <3>2. QED
        BY <3>1 DEF WritesAreHeard
    <2>3. CASE seen.ordinal < Tracks /\ refs.id # NoId
      <3>1. SelectOrdinal(off, seen.ordinal + 1)
        BY <1>9, <2>3 DEF Ended
      <3>2. seen.ordinal + 1 \in Ordinals
        BY <1>3, <2>3, SourceIs, Constants DEF Ordinals
      <3>3. /\ dock' \in DockStates /\ refs' \in RefStates /\ dock'.id = refs'.id
            /\ ~refs'.prepared
            /\ refs'.pending.id = dock'.id /\ refs'.pending.at = dock'.ordinal
            /\ audio' = [off EXCEPT !.paused = TRUE] /\ heard \subseteq heard'
        BY <3>1, <3>2, SelectOrdinalIs, PlayParts
      <3>4. /\ audio' \in Audios /\ DockFits'
            /\ SourceIsHeard => SourceIsHeard' /\ PendingFits'
        BY <1>1, <3>3, AskedKeeps, PlayParts
      <3>5. DockTypes'
        BY <1>1, <1>6, <2>1, <3>3, <3>4, PlayParts DEF DockTypes
      <3>6. DockIsHeard => DockIsHeard'
        BY <2>2, <3>3, <3>4 DEF DockIsHeard
      <3>7. QED
        BY <1>1, <1>2, <3>3, <3>4, <3>5, <3>6, DockStep
    <2>4. CASE ~(seen.ordinal < Tracks /\ refs.id # NoId)
      <3>1. refs' = [refs EXCEPT !.play = FALSE] /\ audio' = off /\ UNCHANGED <<dock, heard>>
        BY <1>9, <2>4 DEF Ended
      <3>2. /\ refs' \in RefStates /\ refs'.id = refs.id /\ refs'.pending = refs.pending
            /\ refs'.prepared = refs.prepared
        BY <3>1, PlayParts DEF RefStates
      <3> HIDE DEF off, done
      <3>3. DockTypes'
        BY <1>1, <1>4, <1>6, <2>1, <3>1, <3>2, PlayParts DEF DockTypes
      <3>4. DockFits'
        BY <1>1, <1>3, <1>4, <3>1, <3>2, PlayParts DEF DockFits, SourceOf
      <3>5. DockIsHeard => DockIsHeard'
        BY <1>1, <1>4, <2>2, <3>1, <3>2, SourceStays, PendingStays DEF DockIsHeard
      <3>6. QED
        BY <1>1, <1>2, <3>1, <3>3, <3>4, <3>5, DockStep
    <2>5. QED
      BY <2>3, <2>4
  <1>10. QED
    BY <1>8, <1>9

\* An answer or a failure takes the first write of the chain.
LEMMA FirstIsTaken ==
    ASSUME PlayIInv, writes # <<>>, writes' = Tail(writes), UNCHANGED heard
    PROVE  /\ writes' \in Seq(WritesOf(AudioWorks)) /\ Head(writes) \in WritesOf(AudioWorks)
           /\ WritesAreHeard => WritesAreHeard'
  <1>1. /\ writes' \in Seq(WritesOf(AudioWorks)) /\ Head(writes) \in WritesOf(AudioWorks)
        /\ \A k \in DOMAIN writes' : k + 1 \in DOMAIN writes /\ writes'[k] = writes[k + 1]
    BY PlayParts, TailIs
  <1>2. WritesAreHeard => WritesAreHeard'
    BY <1>1 DEF WritesAreHeard, Heard
  <1>3. QED
    BY <1>1, <1>2

LEMMA WriteAnsweredKeeps ==
    ASSUME PlayIInv, WriteAnswered
    PROVE  PlayIInv'
  <1> DEFINE write == Head(writes)
  <1>1. /\ writes # <<>> /\ writes' = Tail(writes) /\ UNCHANGED pageVars
        /\ UNCHANGED <<seen, refs, audio, opening, settings, closing, acts, fails, heard, crossed>>
    BY DEF WriteAnswered
  <1>2. /\ writes' \in Seq(WritesOf(AudioWorks)) /\ write \in WritesOf(AudioWorks)
        /\ WritesAreHeard => WritesAreHeard'
    BY <1>1, FirstIsTaken
  <1>3. IF Takes(write)
        THEN /\ sessions' = Taken(write)
             /\ dock' \in {dock, [dock EXCEPT !.repeat = sessions[write.id.work].repeat]}
        ELSE UNCHANGED <<sessions, dock>>
    BY DEF WriteAnswered
  <1> HIDE DEF write
  <1>4. /\ write.id.work \in AllWorks /\ write.id.work # Video /\ write.at \in Ordinals
        /\ write.pos \in Seconds /\ write.status \in WriteStatuses
    BY <1>2, PlayParts, Constants DEF WritesOf, SessionOf
  <1>5. /\ sessions' \in [AllWorks -> SessionStates] /\ sessions'[Video] = sessions[Video]
    BY <1>3, <1>4, TakenIs, PlayParts DEF OtherTypes
  <1>6. sessions[write.id.work].repeat \in Repeats
    BY <1>4, PlayParts DEF OtherTypes, SessionStates
  <1>7. dock' \in DockStates /\ dock'.id = dock.id /\ Asked(dock') = Asked(dock)
    BY <1>3, <1>6, PlayParts DEF DockStates, Asked
  <1>8. OtherTypes'
    BY <1>1, <1>5, PlayParts DEF OtherTypes
  <1>9. DockTypes' /\ DockFits'
    BY <1>1, <1>2, <1>7, PlayParts DEF DockTypes, DockFits, SourceOf
  <1>10. DockIsHeard => DockIsHeard'
    BY <1>1, <1>2, <1>7, SourceStays, PendingStays DEF DockIsHeard
  <1>11. QED
    BY <1>1, <1>5, <1>8, <1>9, <1>10, DockStep

LEMMA WriteFailsKeeps ==
    ASSUME PlayIInv, WriteFails
    PROVE  PlayIInv'
  <1>1. /\ writes # <<>> /\ writes' = Tail(writes) /\ PlayFail /\ UNCHANGED pageVars
        /\ UNCHANGED <<dock, seen, refs, audio, opening, settings, closing, sessions, acts, heard,
                       crossed>>
    BY DEF WriteFails
  <1>2. /\ writes' \in Seq(WritesOf(AudioWorks))
        /\ WritesAreHeard => WritesAreHeard'
    BY <1>1, FirstIsTaken
  <1>3. OtherTypes'
    BY <1>1, BudgetsStay, PlayParts DEF OtherTypes
  <1>4. DockTypes' /\ DockFits'
    BY <1>1, <1>2, PlayParts DEF DockTypes, DockFits, SourceOf
  <1>5. DockIsHeard => DockIsHeard'
    BY <1>1, <1>2, SourceStays, PendingStays DEF DockIsHeard
  <1>6. QED
    BY <1>1, <1>3, <1>4, <1>5, DockStep

-----------------------------------------------------------------------------
(* Playback: the steps of the page.                                        *)

LEMMA PageParts ==
    ASSUME PlayIInv
    PROVE  /\ page \in Pages \/ page = NoPage
           /\ page.state # "none" => page \in Pages
           /\ page \in Pages => page.state # "none" /\ page # NoPage
           /\ page.state = "none" => page = NoPage
           /\ saves \in Seq(WritesOf({Video})) /\ left \in Seq(WritesOf({Video}))
           /\ PageTypes /\ PageFits /\ PageIsHeard /\ DueIsCarried
  <1>1. \A p \in Pages : p.state # "none"
    BY DEF Pages
  <1>2. QED
    BY <1>1, PlayParts, EmptyRecords DEF PageInv, PageTypes

LEMMA EnqueueIs ==
    ASSUME PlayIInv, NEW p \in Pages
    PROVE  LET q == Enqueue(p) IN
           /\ q \in Seq(WritesOf({Video})) /\ q # <<>>
           /\ q[Len(q)].at = p.at /\ q[Len(q)].pos = p.pos
           /\ \A k \in DOMAIN q :
                \/ q[k].at = p.at /\ q[k].pos = p.pos
                \/ k \in DOMAIN saves /\ q[k] = saves[k]
  <1> DEFINE e == [id |-> [work |-> Video, gen |-> page.gen], at |-> p.at, pos |-> p.pos,
                   status |-> p.status, last |-> FALSE]
  <1>0. CASE page = NoPage \/ page \in Pages
    <2>1. page.gen \in Nat
      BY <1>0 DEF NoPage, Pages
    <2>2. e \in WritesOf({Video}) /\ e.at = p.at /\ e.pos = p.pos
      BY <2>1 DEF Pages, WritesOf, SessionOf
    <2>3. Enqueue(p) = Append(saves, e)
      BY DEF Enqueue
    <2> HIDE DEF e
    <2>4. QED
      BY <2>2, <2>3, AppendIs, PageParts
  <1>1. QED
    BY <1>0, PageParts

\* What a write that goes to the end of the page's chain leaves.
LEMMA PersistNowKeeps ==
    ASSUME PlayIInv, NEW p \in Pages, PersistNow(p), UNCHANGED left, heard \subseteq heard',
           Heard(Video, p.at, p.pos) \/ <<Video, p.at, p.pos>> \in heard',
           p.ready => Heard(Video, p.at, p.secs) \/ <<Video, p.at, p.secs>> \in heard',
           ~p.paused => p.ready
    PROVE  PageInv'
  <1>1. /\ page' = [p EXCEPT !.dirty = FALSE, !.timer = FALSE] /\ saves' = Enqueue(p)
        /\ due' = [at |-> p.at, pos |-> p.pos]
    BY DEF PersistNow, Reported
  <1>2. /\ page' \in Pages /\ page'.at = p.at /\ page'.pos = p.pos /\ page'.secs = p.secs
        /\ page'.ready = p.ready /\ page'.paused = p.paused /\ ~page'.timer
    BY <1>1 DEF Pages
  <1>3. /\ saves' \in Seq(WritesOf({Video})) /\ saves' # <<>>
        /\ saves'[Len(saves')].at = p.at /\ saves'[Len(saves')].pos = p.pos
        /\ \A k \in DOMAIN saves' :
             \/ saves'[k].at = p.at /\ saves'[k].pos = p.pos
             \/ k \in DOMAIN saves /\ saves'[k] = saves[k]
    BY <1>1, EnqueueIs
  <1>4. PageTypes' /\ PageFits'
    BY <1>2, <1>3, EmptyRecords, PageParts DEF PageTypes, PageFits
  <1>5. PageIsHeard'
    <2>1. /\ Heard(Video, page.at, page.pos)'
          /\ (page.ready => Heard(Video, page.at, page.secs))'
      BY <1>2 DEF Heard
    <2>2. ASSUME NEW k \in DOMAIN saves' PROVE Heard(Video, saves[k].at, saves[k].pos)'
      BY <1>3, <2>2, PageParts DEF PageIsHeard, Heard
    <2>3. (\A k \in DOMAIN left : Heard(Video, left[k].at, left[k].pos))'
      BY PageParts DEF PageIsHeard, Heard
    <2>4. QED
      BY <2>1, <2>2, <2>3 DEF PageIsHeard
  <1>6. DueIsCarried'
    <2>1. due'.at = p.at /\ due'.pos = p.pos
      BY <1>1
    <2>2. IsDue(page)' /\ (saves # <<>> /\ IsDue(saves[Len(saves)]))'
      BY <1>2, <1>3, <2>1 DEF IsDue
    <2>3. QED
      BY <2>2 DEF DueIsCarried
  <1>7. QED
    BY <1>4, <1>5, <1>6 DEF PageInv

\* What a place that is to be saved later leaves.
LEMMA SchedulePersistKeeps ==
    ASSUME PlayIInv, NEW p \in Pages, SchedulePersist(p), UNCHANGED left, heard \subseteq heard',
           Heard(Video, p.at, p.pos) \/ <<Video, p.at, p.pos>> \in heard',
           p.ready => Heard(Video, p.at, p.secs) \/ <<Video, p.at, p.secs>> \in heard',
           ~p.paused => p.ready
    PROVE  PageInv'
  <1>1. /\ page' = [p EXCEPT !.dirty = TRUE, !.timer = TRUE] /\ UNCHANGED saves
        /\ due' = [at |-> p.at, pos |-> p.pos]
    BY DEF SchedulePersist, Reported
  <1>2. /\ page' \in Pages /\ page'.at = p.at /\ page'.pos = p.pos /\ page'.secs = p.secs
        /\ page'.ready = p.ready /\ page'.dirty /\ page'.paused = p.paused
    BY <1>1 DEF Pages
  <1>3. PageTypes' /\ PageFits'
    BY <1>1, <1>2, EmptyRecords, PageParts DEF PageTypes, PageFits
  <1>4. PageIsHeard'
    <2>1. /\ Heard(Video, page.at, page.pos)'
          /\ (page.ready => Heard(Video, page.at, page.secs))'
      BY <1>2 DEF Heard
    <2>2. /\ (\A k \in DOMAIN saves : Heard(Video, saves[k].at, saves[k].pos))'
          /\ (\A k \in DOMAIN left : Heard(Video, left[k].at, left[k].pos))'
      BY <1>1, PageParts DEF PageIsHeard, Heard
    <2>3. QED
      BY <2>1, <2>2 DEF PageIsHeard
  <1>5. DueIsCarried'
    BY <1>1, <1>2 DEF DueIsCarried, IsDue
  <1>6. QED
    BY <1>3, <1>4, <1>5 DEF PageInv

\* A page that changes how it looks, and not where it is.
LEMMA SamePlaceKeeps ==
    ASSUME PlayIInv, page \in Pages, page' \in Pages, page'.at = page.at, page'.pos = page.pos,
           page'.ready => page'.secs = page.secs /\ page.ready,
           ~page'.paused => page'.ready,
           page'.dirty = page.dirty, page'.timer = page.timer,
           UNCHANGED <<saves, left, due, sessions>>,
           heard \subseteq heard'
    PROVE  PageInv'
  <1>1. PageTypes' /\ PageFits'
    BY EmptyRecords, PageParts DEF PageTypes, PageFits
  <1>2. PageIsHeard'
    BY PageParts DEF PageIsHeard, Heard
  <1>3. DueIsCarried'
    <2>1. page.state # "none" /\ page'.state # "none"
      BY DEF Pages
    <2>2. QED
      BY <2>1, PageParts DEF DueIsCarried, IsDue
  <1>4. QED
    BY <1>1, <1>2, <1>3 DEF PageInv

\* What the page shows when it is mounted: what was just opened, or what the query kept.
LEMMA ShownIs ==
    ASSUME PlayIInv, AnswerTypes
    PROVE  LET s == IF cached = NoAnswer THEN Opened(Video) ELSE cached IN
           /\ s.gen \in Nat /\ s.at \in Ordinals /\ s.pos \in Seconds
           /\ s.status \in Open /\ s.status \in WriteStatuses
  <1>1. Opened(Video) \in SessionStates /\ Opened(Video).status \in Open
    BY OpenedIs, PlayParts
  <1>2. QED
    BY <1>1 DEF AnswerTypes, Answers, SessionStates, WriteStatuses

\* The session the page opened, if it did, and the place that is due.
LEMMA MountedIs ==
    ASSUME PlayIInv, Mount
    PROVE  LET s == IF cached = NoAnswer THEN Opened(Video) ELSE cached IN
           /\ sessions' \in [AllWorks -> SessionStates]
           /\ \/ UNCHANGED <<sessions, due>>
              \/ /\ sessions'[Video] = s
                 /\ due' # NoPlace => due' = due /\ s.at = due.at /\ s.pos = due.pos
  <1>1. CASE cached = NoAnswer
    <2> DEFINE s == Opened(Video)
    <2>1. /\ sessions' = [sessions EXCEPT ![Video] = s]
          /\ due' = IF s.at # due.at \/ s.pos # due.pos THEN NoPlace ELSE due
      BY <1>1 DEF Mount
    <2>2. [sessions EXCEPT ![Video] = s] \in [AllWorks -> SessionStates]
      BY OpenedIs, PlayParts
    <2> HIDE DEF s
    <2>3. sessions'[Video] = s
      BY <2>1, PlayParts DEF OtherTypes
    <2>4. QED
      BY <1>1, <2>1, <2>2, <2>3 DEF s
  <1>2. CASE cached # NoAnswer
    BY <1>2, PlayParts DEF Mount, OtherTypes
  <1>3. QED
    BY <1>1, <1>2

LEMMA MountKeeps ==
    ASSUME PlayIInv, AnswerTypes, Mount
    PROVE  PlayIInv' /\ AnswerTypes'
  <1> DEFINE s == IF cached = NoAnswer THEN Opened(Video) ELSE cached
  <1>1. /\ UserOf("page") /\ page.state = "none" /\ PublishVideo
        /\ Hear(Video, s.at, s.pos)
        /\ cached' = [gen |-> s.gen, at |-> s.at, pos |-> s.pos, status |-> s.status]
        /\ UNCHANGED <<seen, writes, opening, settings, saves, left, fails, crossed>>
    BY DEF Mount
  <1>2. PICK repeat \in {"off", "all"} :
          page' = [NoPage EXCEPT !.state = "open", !.gen = s.gen, !.at = s.at, !.pos = s.pos,
                     !.status = s.status, !.wants = TRUE, !.repeat = repeat]
    BY DEF Mount
  <1>3. /\ sessions' \in [AllWorks -> SessionStates]
        /\ \/ UNCHANGED <<sessions, due>>
           \/ /\ sessions'[Video] = s
              /\ due' # NoPlace => due' = due /\ s.at = due.at /\ s.pos = due.pos
    BY MountedIs
  <1>4. /\ s.gen \in Nat /\ s.at \in Ordinals /\ s.pos \in Seconds
        /\ s.status \in Open /\ s.status \in WriteStatuses
    BY ShownIs
  <1> HIDE DEF s
  <1>5. /\ page' \in Pages /\ page'.at = s.at /\ page'.pos = s.pos /\ page'.paused
        /\ ~page'.ready /\ ~page'.dirty /\ ~page'.timer /\ page'.state # "none"
    <2>1. page' = [state |-> "open", gen |-> s.gen, at |-> s.at, pos |-> s.pos,
                   status |-> s.status, dirty |-> FALSE, timer |-> FALSE, repeat |-> repeat,
                   ready |-> FALSE, wants |-> TRUE, secs |-> 0, paused |-> TRUE]
      BY <1>2 DEF NoPage
    <2>2. QED
      BY <1>4, <2>1, Constants DEF Pages
  <1>6. OtherTypes'
    BY <1>1, <1>3, BudgetsStay, PlayParts DEF OtherTypes
  <1>7. heard \subseteq heard' /\ <<Video, s.at, s.pos>> \in heard'
    BY <1>1 DEF Hear
  <1>8. saves = <<>> /\ saves' = <<>>
    BY <1>1, PageParts DEF PageFits
  <1>9. PageInv'
    <2>1. PageTypes' /\ PageFits'
      BY <1>1, <1>5, <1>8, EmptyRecords, PageParts DEF PageTypes, PageFits
    <2>2. PageIsHeard'
      <3>1. Heard(Video, page.at, page.pos)'
        BY <1>5, <1>7 DEF Heard
      <3>2. (\A k \in DOMAIN left : Heard(Video, left[k].at, left[k].pos))'
        BY <1>1, <1>7, PageParts DEF PageIsHeard, Heard
      <3>3. (\A k \in DOMAIN saves : Heard(Video, saves[k].at, saves[k].pos))'
        BY <1>8
      <3>4. QED
        BY <1>5, <3>1, <3>2, <3>3 DEF PageIsHeard
    <2>3. DueIsCarried'
      <3>1. CASE UNCHANGED <<sessions, due>>
        <4>1. page = NoPage /\ ~page.dirty
          BY <1>1, PageParts, EmptyRecords
        <4>2. QED
          BY <1>1, <1>5, <1>8, <3>1, <4>1, PageParts DEF DueIsCarried, IsDue
      <3>2. CASE /\ sessions'[Video] = s
                 /\ due' # NoPlace => due' = due /\ s.at = due.at /\ s.pos = due.pos
        BY <1>5, <1>8, <3>2 DEF DueIsCarried, IsDue
      <3>3. QED
        BY <1>3, <3>1, <3>2
    <2>4. QED
      BY <2>1, <2>2, <2>3 DEF PageInv
  <1>10. DockInv'
    <2>1. CASE refs.id # NoId
      <3>1. CloseAudio
        BY <1>1, <2>1 DEF PublishVideo
      <3>2. /\ dock' \in DockStates /\ refs' \in RefStates /\ audio' \in Audios /\ DockFits'
            /\ SourceIsHeard => SourceIsHeard' /\ PendingFits'
        BY <1>1, <1>7, <3>1, CloseAudioIs, AskedKeeps, PlayParts
      <3>3. DockTypes'
        BY <1>1, <3>1, <3>2, CloseAudioIs, PlayParts DEF DockTypes
      <3>4. Excused' \/ DockIsHeard'
        BY <1>1, <1>7, <3>2, WritesStay, ExcusesStay, PlayParts DEF DockIsHeard
      <3>5. QED
        BY <3>2, <3>3, <3>4 DEF DockInv
    <2>2. CASE refs.id = NoId
      <3>1. UNCHANGED dockVars
        BY <1>1, <2>2 DEF PublishVideo, dockVars
      <3>2. QED
        BY <1>1, <1>7, <3>1, DockStays, PlayParts
    <2>3. QED
      BY <2>1, <2>2
  <1>11. AnswerTypes'
    BY <1>1, <1>4 DEF AnswerTypes, Answers
  <1>12. QED
    BY <1>6, <1>9, <1>10, <1>11 DEF PlayIInv

LEMMA ExpireKeeps ==
    ASSUME PlayIInv, Expire
    PROVE  PlayIInv' /\ AnswerTypes'
  <1>1. /\ cached' = NoAnswer
        /\ UNCHANGED <<page, saves, left, sessions, acts, fails, heard, due, crossed>>
        /\ UNCHANGED dockVars
    BY DEF Expire
  <1>2. PageInv'
    BY <1>1, PageStands, PlayParts
  <1>3. OtherTypes'
    BY <1>1, PlayParts DEF OtherTypes
  <1>4. AnswerTypes'
    BY <1>1 DEF AnswerTypes
  <1>5. QED
    BY <1>1, <1>2, <1>3, <1>4, PageStep

LEMMA VideoLoadedKeeps ==
    ASSUME PlayIInv, VideoLoaded
    PROVE  PlayIInv'
  <1> DEFINE target == Restore(page.pos, page.status = "completed")
  <1>1. /\ page.state # "none" /\ page' = [page EXCEPT !.ready = TRUE, !.secs = target]
        /\ Hear(Video, page.at, target)
        /\ UNCHANGED <<saves, left, sessions, acts, fails, due, crossed>> /\ UNCHANGED dockVars
    BY DEF VideoLoaded
  <1>2. page \in Pages /\ target \in Seconds
    BY <1>1, PageParts, RestoreIs DEF Pages
  <1> HIDE DEF target
  <1>3. /\ page' \in Pages /\ page'.at = page.at /\ page'.pos = page.pos /\ page'.secs = target
        /\ page'.ready /\ page'.dirty = page.dirty /\ page'.timer = page.timer
    BY <1>1, <1>2 DEF Pages
  <1>4. heard \subseteq heard' /\ <<Video, page.at, target>> \in heard'
    BY <1>1 DEF Hear
  <1>5. PageInv'
    <2>1. PageTypes' /\ PageFits'
      BY <1>1, <1>3, EmptyRecords, PageParts DEF PageTypes, PageFits
    <2>2. PageIsHeard'
      BY <1>1, <1>3, <1>4, PageParts DEF PageIsHeard, Heard
    <2>3. DueIsCarried'
      <3>1. page'.state # "none"
        BY <1>3 DEF Pages
      <3>2. QED
        BY <1>1, <1>3, <3>1, PageParts DEF DueIsCarried, IsDue
    <2>4. QED
      BY <2>1, <2>2, <2>3 DEF PageInv
  <1>6. OtherTypes'
    BY <1>1, PlayParts DEF OtherTypes
  <1>7. QED
    BY <1>1, <1>4, <1>5, <1>6, PageStep

LEMMA VideoPlayKeeps ==
    ASSUME PlayIInv, VideoPlay
    PROVE  PlayIInv'
  <1> DEFINE secs == IF page.secs = Length THEN 0 ELSE page.secs
             p == [page EXCEPT !.paused = FALSE, !.status = "active", !.secs = secs]
  <1>1. /\ page.state # "none" /\ page.ready /\ PersistNow(p)
        /\ UNCHANGED <<left, sessions, acts, fails, heard, crossed>> /\ UNCHANGED dockVars
    BY DEF VideoPlay
  <1>2. page \in Pages /\ secs \in Seconds
    BY <1>1, PageParts, Constants DEF Pages
  <1>3. /\ Heard(Video, page.at, page.pos) /\ Heard(Video, page.at, secs)
    BY <1>1, PageParts, EndStartsOver DEF PageIsHeard
  <1> HIDE DEF secs
  <1>4. p \in Pages /\ p.at = page.at /\ p.pos = page.pos /\ p.secs = secs /\ p.ready = page.ready
    BY <1>2 DEF Pages, WriteStatuses, Open
  <1> HIDE DEF p
  <1>5. PageInv'
    <2>1. /\ Heard(Video, p.at, p.pos) /\ Heard(Video, p.at, p.secs)
          /\ p.ready
      BY <1>1, <1>3, <1>4
    <2>2. QED
      BY <1>1, <1>4, <2>1, PersistNowKeeps
  <1>6. OtherTypes'
    BY <1>1, PlayParts DEF OtherTypes
  <1>7. QED
    BY <1>1, <1>5, <1>6, PageStep

LEMMA VideoAdvanceKeeps ==
    ASSUME PlayIInv, VideoAdvance
    PROVE  PlayIInv'
  <1>1. /\ page.state # "none" /\ ~page.paused /\ page.secs < Length
        /\ page' = [page EXCEPT !.secs = @ + 1] /\ Hear(Video, page.at, page.secs + 1)
        /\ UNCHANGED <<saves, left, sessions, acts, fails, due, crossed>> /\ UNCHANGED dockVars
    BY DEF VideoAdvance
  <1>2. page \in Pages /\ page.secs + 1 \in Seconds
    BY <1>1, PageParts, Constants DEF Pages, Seconds
  <1>3. /\ page' \in Pages /\ page'.at = page.at /\ page'.pos = page.pos
        /\ page'.secs = page.secs + 1 /\ page'.ready = page.ready /\ page'.dirty = page.dirty
        /\ page'.paused = page.paused /\ page'.timer = page.timer
    BY <1>1, <1>2 DEF Pages
  <1>4. heard \subseteq heard' /\ <<Video, page.at, page.secs + 1>> \in heard'
    BY <1>1 DEF Hear
  <1>5. PageInv'
    <2>1. PageTypes' /\ PageFits'
      BY <1>1, <1>3, EmptyRecords, PageParts DEF PageTypes, PageFits
    <2>2. PageIsHeard'
      BY <1>1, <1>3, <1>4, PageParts DEF PageIsHeard, Heard
    <2>3. DueIsCarried'
      <3>1. page'.state # "none"
        BY <1>3 DEF Pages
      <3>2. QED
        BY <1>1, <1>3, <3>1, PageParts DEF DueIsCarried, IsDue
    <2>4. QED
      BY <2>1, <2>2, <2>3 DEF PageInv
  <1>6. OtherTypes'
    BY <1>1, PlayParts DEF OtherTypes
  <1>7. QED
    BY <1>1, <1>4, <1>5, <1>6, PageStep

LEMMA VideoTimeKeeps ==
    ASSUME PlayIInv, VideoTime
    PROVE  PlayIInv'
  <1> DEFINE p == [page EXCEPT !.pos = page.secs,
                               !.status = IF page.paused THEN "paused" ELSE "active"]
  <1>1. /\ page.state # "none" /\ page.ready /\ SchedulePersist(p)
        /\ UNCHANGED <<left, sessions, acts, fails, heard, crossed>> /\ UNCHANGED dockVars
    BY DEF VideoTime
  <1>2. page \in Pages /\ Heard(Video, page.at, page.secs)
    BY <1>1, PageParts DEF PageIsHeard
  <1>3. p \in Pages /\ p.at = page.at /\ p.pos = page.secs /\ p.secs = page.secs
        /\ p.ready = page.ready
    BY <1>2 DEF Pages, WriteStatuses, Open
  <1> HIDE DEF p
  <1>4. PageInv'
    <2>1. /\ Heard(Video, p.at, p.pos) /\ Heard(Video, p.at, p.secs)
          /\ p.ready
      BY <1>1, <1>2, <1>3
    <2>2. QED
      BY <1>1, <1>3, <2>1, SchedulePersistKeeps
  <1>5. OtherTypes'
    BY <1>1, PlayParts DEF OtherTypes
  <1>6. QED
    BY <1>1, <1>4, <1>5, PageStep

LEMMA VideoToggleKeeps ==
    ASSUME PlayIInv, VideoToggle
    PROVE  PlayIInv'
  <1> DEFINE p == [page EXCEPT !.wants = FALSE, !.paused = TRUE, !.pos = page.secs,
                               !.status = "paused"]
  <1>1. /\ UserOf("dock") /\ page.state # "none" /\ page.ready
        /\ UNCHANGED <<left, sessions, fails, heard>> /\ UNCHANGED dockVars
    BY DEF VideoToggle
  <1>2. page \in Pages /\ Heard(Video, page.at, page.secs)
    BY <1>1, PageParts DEF PageIsHeard
  <1>3. CASE page.paused
    <2>1. /\ page' = [page EXCEPT !.wants = TRUE] /\ UNCHANGED <<saves, due>>
          /\ Cross("players", page.state # "open")
      BY <1>3 DEF VideoToggle
    <2>2. /\ page' \in Pages /\ page'.at = page.at /\ page'.pos = page.pos
          /\ page'.secs = page.secs /\ page'.ready = page.ready /\ page'.dirty = page.dirty
          /\ page'.paused /\ page'.timer = page.timer
      BY <1>2, <1>3, <2>1 DEF Pages
    <2>3. PageInv'
      BY <1>1, <1>2, <2>1, <2>2, SamePlaceKeeps
    <2>4. crossed \subseteq crossed' /\ crossed' \subseteq {"players", "queue", "render"}
      BY <2>1, CrossGrows, PlayParts
    <2>5. OtherTypes'
      BY <1>1, <2>4, BudgetsStay, PlayParts DEF OtherTypes
    <2>6. QED
      BY <1>1, <2>3, <2>4, <2>5, PageStep
  <1>4. CASE ~page.paused
    <2>1. PersistNow(p) /\ UNCHANGED crossed
      BY <1>4 DEF VideoToggle
    <2>2. p \in Pages /\ p.at = page.at /\ p.pos = page.secs /\ p.secs = page.secs /\ p.paused
      BY <1>2 DEF Pages, WriteStatuses, Open
    <2> HIDE DEF p
    <2>3. PageInv'
      <3>1. Heard(Video, p.at, p.pos) /\ Heard(Video, p.at, p.secs)
        BY <1>2, <2>2
      <3>2. QED
        BY <1>1, <2>1, <2>2, <3>1, PersistNowKeeps
    <2>4. OtherTypes'
      BY <1>1, <2>1, BudgetsStay, PlayParts DEF OtherTypes
    <2>5. QED
      BY <1>1, <2>1, <2>3, <2>4, PageStep
  <1>5. QED
    BY <1>3, <1>4

LEMMA VideoSeekKeeps ==
    ASSUME PlayIInv, NEW pos \in Seconds, VideoSeek(pos)
    PROVE  PlayIInv'
  <1> DEFINE p == [page EXCEPT !.secs = pos, !.pos = pos,
                               !.status = IF page.paused THEN "paused" ELSE "active"]
  <1>1. /\ UserOf("dock") /\ page.state = "open" /\ page.ready /\ SchedulePersist(p)
        /\ Hear(Video, page.at, pos)
        /\ UNCHANGED <<left, sessions, fails, crossed>> /\ UNCHANGED dockVars
    BY DEF VideoSeek
  <1>2. page \in Pages
    BY <1>1, PageParts
  <1>3. p \in Pages /\ p.at = page.at /\ p.pos = pos /\ p.secs = pos /\ p.ready = page.ready
    BY <1>2 DEF Pages, WriteStatuses, Open
  <1> HIDE DEF p
  <1>4. heard \subseteq heard' /\ <<Video, page.at, pos>> \in heard'
    BY <1>1 DEF Hear
  <1>5. PageInv'
    <2>1. /\ <<Video, p.at, p.pos>> \in heard' /\ <<Video, p.at, p.secs>> \in heard'
          /\ p.ready
      BY <1>1, <1>3, <1>4
    <2>2. QED
      BY <1>1, <1>3, <1>4, <2>1, SchedulePersistKeeps
  <1>6. OtherTypes'
    BY <1>1, BudgetsStay, PlayParts DEF OtherTypes
  <1>7. QED
    BY <1>1, <1>4, <1>5, <1>6, PageStep

LEMMA ChooseItemKeeps ==
    ASSUME PlayIInv, page \in Pages, NEW o \in Ordinals, ChooseItem(o), UNCHANGED left
    PROVE  PageInv' /\ heard \subseteq heard'
  <1> DEFINE p == [page EXCEPT !.at = o, !.pos = 0, !.status = "active", !.ready = FALSE,
                               !.wants = TRUE, !.secs = 0, !.paused = TRUE]
  <1>1. PersistNow(p) /\ Hear(Video, o, 0)
    BY DEF ChooseItem
  <1>2. p \in Pages /\ p.at = o /\ p.pos = 0 /\ ~p.ready /\ p.paused
    BY Constants DEF Pages, WriteStatuses, Open
  <1> HIDE DEF p
  <1>3. heard \subseteq heard' /\ <<Video, p.at, p.pos>> \in heard'
    BY <1>1, <1>2 DEF Hear
  <1>4. QED
    BY <1>1, <1>2, <1>3, PersistNowKeeps

LEMMA VideoChooseKeeps ==
    ASSUME PlayIInv, NEW o \in Ordinals, VideoChoose(o)
    PROVE  PlayIInv'
  <1>1. /\ UserOf("page") /\ page.state = "open" /\ ChooseItem(o)
        /\ UNCHANGED <<left, sessions, fails, crossed>> /\ UNCHANGED dockVars
    BY DEF VideoChoose
  <1>2. PageInv' /\ heard \subseteq heard'
    BY <1>1, ChooseItemKeeps, PageParts
  <1>3. OtherTypes'
    BY <1>1, BudgetsStay, PlayParts DEF OtherTypes
  <1>4. QED
    BY <1>1, <1>2, <1>3, PageStep

LEMMA VideoEndedKeeps ==
    ASSUME PlayIInv, VideoEnded
    PROVE  PlayIInv'
  <1> DEFINE p == [page EXCEPT !.pos = Length, !.status = "completed", !.paused = TRUE,
                               !.wants = FALSE]
  <1>1. /\ page.state # "none" /\ ~page.paused /\ page.secs = Length
        /\ UNCHANGED <<left, sessions, acts, fails, crossed>> /\ UNCHANGED dockVars
    BY DEF VideoEnded
  <1>2. page \in Pages /\ page.ready /\ Heard(Video, page.at, Length)
    BY <1>1, PageParts DEF PageFits, PageIsHeard
  <1>3. OtherTypes'
    BY <1>1, PlayParts DEF OtherTypes
  <1>4. CASE page.at < Tracks /\ ChooseItem(page.at + 1)
    <2>1. page.at + 1 \in Ordinals
      BY <1>2, <1>4, Constants DEF Pages, Ordinals
    <2>2. QED
      BY <1>1, <1>2, <1>3, <1>4, <2>1, ChooseItemKeeps, PageStep
  <1>5. CASE ChooseItem(1)
    BY <1>1, <1>2, <1>3, <1>5, ChooseItemKeeps, Constants, PageStep
  <1>6. CASE PersistNow(p) /\ UNCHANGED heard
    <2>1. p \in Pages /\ p.at = page.at /\ p.pos = Length /\ p.secs = Length /\ p.paused
      BY <1>1, <1>2, Constants DEF Pages, WriteStatuses
    <2> HIDE DEF p
    <2>2. Heard(Video, p.at, p.pos) /\ Heard(Video, p.at, p.secs)
      BY <1>2, <2>1
    <2>3. PageInv'
      BY <1>1, <1>6, <2>1, <2>2, PersistNowKeeps
    <2>4. QED
      BY <1>1, <1>3, <1>6, <2>3, PageStep
  <1>7. QED
    BY <1>4, <1>5, <1>6 DEF VideoEnded

LEMMA TimerFiresKeeps ==
    ASSUME PlayIInv, TimerFires
    PROVE  PlayIInv'
  <1>1. /\ page.timer /\ page' = [page EXCEPT !.timer = FALSE, !.dirty = FALSE]
        /\ saves' = Enqueue(page)
        /\ UNCHANGED <<left, sessions, acts, fails, heard, due, crossed>> /\ UNCHANGED dockVars
    BY DEF TimerFires
  <1>2. page \in Pages
    BY <1>1, PageParts, EmptyRecords
  <1>3. /\ page' \in Pages /\ page'.at = page.at /\ page'.pos = page.pos
        /\ page'.secs = page.secs /\ page'.ready = page.ready /\ page'.paused = page.paused
        /\ page.state # "none" /\ page'.state # "none" /\ page.dirty
        /\ ~page'.timer /\ ~page'.dirty
    BY <1>1, <1>2, PageParts DEF Pages, PageFits
  <1>4. /\ saves' \in Seq(WritesOf({Video})) /\ saves' # <<>>
        /\ saves'[Len(saves')].at = page.at /\ saves'[Len(saves')].pos = page.pos
        /\ \A k \in DOMAIN saves' :
             \/ saves'[k].at = page.at /\ saves'[k].pos = page.pos
             \/ k \in DOMAIN saves /\ saves'[k] = saves[k]
    BY <1>1, <1>2, EnqueueIs
  <1>5. PageInv'
    <2>1. PageTypes' /\ PageFits'
      BY <1>1, <1>3, <1>4, EmptyRecords, PageParts DEF PageTypes, PageFits
    <2>2. PageIsHeard'
      <3>1. Heard(Video, page.at, page.pos)
        BY <1>3, PageParts DEF PageIsHeard
      <3>2. ASSUME NEW k \in DOMAIN saves' PROVE Heard(Video, saves[k].at, saves[k].pos)'
        BY <1>1, <1>4, <3>1, <3>2, PageParts DEF PageIsHeard, Heard
      <3>3. /\ (page.state # "none" => /\ Heard(Video, page.at, page.pos)
                                       /\ page.ready => Heard(Video, page.at, page.secs))'
            /\ (\A k \in DOMAIN left : Heard(Video, left[k].at, left[k].pos))'
        BY <1>1, <1>3, PageParts DEF PageIsHeard, Heard
      <3>4. QED
        BY <3>2, <3>3 DEF PageIsHeard
    <2>3. DueIsCarried'
      <3>1. due # NoPlace => IsDue(page)
        BY <1>3, PageParts DEF DueIsCarried
      <3>2. QED
        BY <1>1, <1>3, <1>4, <3>1 DEF DueIsCarried, IsDue
    <2>4. QED
      BY <2>1, <2>2, <2>3 DEF PageInv
  <1>6. OtherTypes'
    BY <1>1, PlayParts DEF OtherTypes
  <1>7. QED
    BY <1>1, <1>5, <1>6, PageStep

\* The first write of the page's chain, answered or not.
LEMMA SaveAnsweredKeeps ==
    ASSUME PlayIInv, SaveAnswered
    PROVE  PlayIInv'
  <1> DEFINE write == Head(saves)
  <1>1. /\ saves # <<>> /\ saves' = Tail(saves)
        /\ UNCHANGED <<left, acts, heard>> /\ UNCHANGED dockVars
    BY DEF SaveAnswered
  <1>2. /\ saves' \in Seq(WritesOf({Video})) /\ write \in WritesOf({Video})
        /\ \A k \in DOMAIN saves' : k + 1 \in DOMAIN saves /\ saves'[k] = saves[k + 1]
        /\ (saves' = <<>> => saves[Len(saves)] = write)
        /\ (saves' # <<>> => saves'[Len(saves')] = saves[Len(saves)])
    BY <1>1, PageParts, TailIs
  <1>3. page \in Pages
    BY <1>1, PageParts DEF PageFits
  <1>4. \/ /\ sessions' = Taken(write) /\ UNCHANGED <<due, fails, crossed>>
           /\ page' \in {page, [page EXCEPT !.state = "closing"]}
        \/ /\ sessions' = sessions /\ due' = NoPlace
           /\ fails' = fails \/ PlayFail
           /\ Cross("players", write.last)
           /\ page' \in {page, [page EXCEPT !.state = "open"]}
    BY DEF SaveAnswered
  <1> HIDE DEF write
  <1>5. /\ write.id.work = Video /\ write.at \in Ordinals /\ write.pos \in Seconds
        /\ write.status \in WriteStatuses /\ write.last \in BOOLEAN
    BY <1>2 DEF WritesOf, SessionOf
  <1>6. /\ page' \in Pages /\ page'.at = page.at /\ page'.pos = page.pos
        /\ page'.secs = page.secs /\ page'.ready = page.ready /\ page'.paused = page.paused
        /\ page'.dirty = page.dirty /\ page'.timer = page.timer
        /\ page.state # "none" /\ page'.state # "none"
    BY <1>3, <1>4 DEF Pages
  <1>7. PageTypes' /\ PageFits'
    BY <1>1, <1>2, <1>6, EmptyRecords, PageParts DEF PageTypes, PageFits
  <1>8. PageIsHeard'
    <2>1. ASSUME NEW k \in DOMAIN saves' PROVE Heard(Video, saves[k].at, saves[k].pos)'
      BY <1>1, <1>2, <2>1, PageParts DEF PageIsHeard, Heard
    <2>2. /\ (page.state # "none" => /\ Heard(Video, page.at, page.pos)
                                     /\ page.ready => Heard(Video, page.at, page.secs))'
          /\ (\A k \in DOMAIN left : Heard(Video, left[k].at, left[k].pos))'
      BY <1>1, <1>6, PageParts DEF PageIsHeard, Heard
    <2>3. QED
      BY <2>1, <2>2 DEF PageIsHeard
  <1>9. CASE sessions' = Taken(write) /\ UNCHANGED <<due, fails, crossed>>
    <2>1. /\ sessions' \in [AllWorks -> SessionStates]
          /\ sessions'[Video].at = write.at /\ sessions'[Video].pos = write.pos
      BY <1>5, <1>9, TakenIs, PlayParts
    <2>2. OtherTypes'
      BY <1>1, <1>9, <2>1, PlayParts DEF OtherTypes
    <2>3. DueIsCarried'
      BY <1>1, <1>2, <1>6, <1>9, <2>1, PageParts DEF DueIsCarried, IsDue
    <2>4. PageInv'
      BY <1>7, <1>8, <2>3 DEF PageInv
    <2>5. QED
      BY <1>1, <1>9, <2>2, <2>4, PageStep
  <1>10. CASE /\ sessions' = sessions /\ due' = NoPlace
              /\ fails' = fails \/ PlayFail
              /\ Cross("players", write.last)
    <2>1. crossed \subseteq crossed' /\ crossed' \subseteq {"players", "queue", "render"}
      BY <1>10, CrossGrows, PlayParts
    <2>2. OtherTypes'
      BY <1>1, <1>10, <2>1, BudgetsStay, PlayParts DEF OtherTypes
    <2>3. DueIsCarried'
      BY <1>10 DEF DueIsCarried
    <2>4. PageInv'
      BY <1>7, <1>8, <2>3 DEF PageInv
    <2>5. QED
      BY <1>1, <2>1, <2>2, <2>4, PageStep
  <1>11. QED
    BY <1>4, <1>9, <1>10

LEMMA LeftAnsweredKeeps ==
    ASSUME PlayIInv, LeftAnswered
    PROVE  PlayIInv'
  <1> DEFINE write == Head(left)
  <1>1. /\ left # <<>> /\ left' = Tail(left)
        /\ UNCHANGED <<page, saves, acts, fails, heard, crossed>> /\ UNCHANGED dockVars
    BY DEF LeftAnswered
  <1>2. /\ left' \in Seq(WritesOf({Video})) /\ write \in WritesOf({Video})
        /\ \A k \in DOMAIN left' : k + 1 \in DOMAIN left /\ left'[k] = left[k + 1]
        /\ (left' = <<>> => left[Len(left)] = write)
        /\ (left' # <<>> => left'[Len(left')] = left[Len(left)])
    BY <1>1, PageParts, TailIs
  <1>3. \/ sessions' = Taken(write) /\ due' = IF page.state = "none" THEN due ELSE NoPlace
        \/ UNCHANGED sessions /\ due' = NoPlace
    BY DEF LeftAnswered
  <1> HIDE DEF write
  <1>4. /\ write.id.work = Video /\ write.at \in Ordinals /\ write.pos \in Seconds
        /\ write.status \in WriteStatuses
    BY <1>2 DEF WritesOf, SessionOf
  <1>5. PageTypes' /\ PageFits'
    BY <1>1, <1>2, PageParts DEF PageTypes, PageFits
  <1>6. PageIsHeard'
    <2>1. ASSUME NEW k \in DOMAIN left' PROVE Heard(Video, left[k].at, left[k].pos)'
      BY <1>1, <1>2, <2>1, PageParts DEF PageIsHeard, Heard
    <2>2. /\ (page.state # "none" => /\ Heard(Video, page.at, page.pos)
                                     /\ page.ready => Heard(Video, page.at, page.secs))'
          /\ (\A k \in DOMAIN saves : Heard(Video, saves[k].at, saves[k].pos))'
      BY <1>1, PageParts DEF PageIsHeard, Heard
    <2>3. QED
      BY <2>1, <2>2 DEF PageIsHeard
  <1>7. CASE sessions' = Taken(write) /\ due' = IF page.state = "none" THEN due ELSE NoPlace
    <2>1. /\ sessions' \in [AllWorks -> SessionStates]
          /\ sessions'[Video].at = write.at /\ sessions'[Video].pos = write.pos
      BY <1>4, <1>7, TakenIs, PlayParts
    <2>2. OtherTypes'
      BY <1>1, <2>1, PlayParts DEF OtherTypes
    <2>3. DueIsCarried'
      <3>1. CASE page.state = "none"
        <4>1. saves = <<>> /\ ~page.dirty
          BY <3>1, PageParts, EmptyRecords DEF PageFits
        <4>2. QED
          BY <1>1, <1>2, <1>7, <2>1, <3>1, <4>1, PageParts DEF DueIsCarried, IsDue
      <3>2. CASE page.state # "none"
        BY <1>7, <3>2 DEF DueIsCarried
      <3>3. QED
        BY <3>1, <3>2
    <2>4. PageInv'
      BY <1>5, <1>6, <2>3 DEF PageInv
    <2>5. QED
      BY <1>1, <2>2, <2>4, PageStep
  <1>8. CASE UNCHANGED sessions /\ due' = NoPlace
    <2>1. OtherTypes'
      BY <1>1, <1>8, PlayParts DEF OtherTypes
    <2>2. PageInv'
      BY <1>5, <1>6, <1>8 DEF PageInv, DueIsCarried
    <2>3. QED
      BY <1>1, <2>1, <2>2, PageStep
  <1>9. QED
    BY <1>3, <1>7, <1>8

\* A page that goes leaves its chain behind, with what was reported and not yet in it.
LEMMA UnmountKeeps ==
    ASSUME PlayIInv, page \in Pages, Unmount, UNCHANGED <<heard, due>>,
           sessions'[Video].at = sessions[Video].at, sessions'[Video].pos = sessions[Video].pos
    PROVE  PageInv'
  <1>1. left = <<>> /\ left' = FlushPending /\ page' = NoPage /\ saves' = <<>>
    BY DEF Unmount
  <1>2. page.state # "none" /\ ~page'.dirty /\ page'.state = "none" /\ page'.paused
        /\ ~page'.timer
    BY <1>1, EmptyRecords DEF Pages, NoPage
  <1>3. /\ left' \in Seq(WritesOf({Video}))
        /\ \A k \in DOMAIN left' :
             \/ left'[k].at = page.at /\ left'[k].pos = page.pos
             \/ k \in DOMAIN saves /\ left'[k] = saves[k]
        /\ page.dirty => /\ left' # <<>> /\ left'[Len(left')].at = page.at
                         /\ left'[Len(left')].pos = page.pos
        /\ ~page.dirty => left' = saves
    <2>1. CASE page.dirty
      <3>1. left' = Enqueue(page)
        BY <1>1, <2>1 DEF FlushPending
      <3>2. QED
        BY <2>1, <3>1, EnqueueIs
    <2>2. CASE ~page.dirty
      BY <1>1, <2>2, PageParts DEF FlushPending
    <2>3. QED
      BY <2>1, <2>2
  <1>4. PageTypes' /\ PageFits'
    BY <1>1, <1>2, <1>3 DEF PageTypes, PageFits
  <1>5. PageIsHeard'
    <2>1. Heard(Video, page.at, page.pos)
      BY <1>2, PageParts DEF PageIsHeard
    <2>2. ASSUME NEW k \in DOMAIN left' PROVE Heard(Video, left[k].at, left[k].pos)'
      BY <1>3, <2>1, <2>2, PageParts DEF PageIsHeard, Heard
    <2>3. QED
      BY <1>1, <1>2, <2>2 DEF PageIsHeard
  <1>6. DueIsCarried'
    <2>1. due # NoPlace /\ page.dirty => IsDue(page)
      BY PageParts DEF DueIsCarried
    <2>2. CASE page.dirty
      BY <1>1, <1>2, <1>3, <2>1, <2>2 DEF DueIsCarried, IsDue
    <2>3. CASE ~page.dirty
      BY <1>1, <1>2, <1>3, <2>1, <2>3, PageParts DEF DueIsCarried, IsDue
    <2>4. QED
      BY <2>2, <2>3
  <1>7. QED
    BY <1>4, <1>5, <1>6 DEF PageInv

LEMMA LeaveKeeps ==
    ASSUME PlayIInv, Leave
    PROVE  PlayIInv'
  <1>1. /\ UserOf("page") /\ page.state = "open" /\ Unmount
        /\ UNCHANGED <<sessions, fails, heard, due, crossed>> /\ UNCHANGED dockVars
    BY DEF Leave
  <1>2. PageInv'
    BY <1>1, UnmountKeeps, PageParts
  <1>3. OtherTypes'
    BY <1>1, BudgetsStay, PlayParts DEF OtherTypes
  <1>4. QED
    BY <1>1, <1>2, <1>3, PageStep

LEMMA BackKeeps ==
    ASSUME PlayIInv, Back
    PROVE  PlayIInv'
  <1>1. /\ UserOf("page") /\ page.state = "open" /\ CloseAndBack
        /\ UNCHANGED <<sessions, fails, heard, crossed>> /\ UNCHANGED dockVars
    BY DEF Back
  <1>2. PageInv'
    BY <1>1, CloseAndBackKeeps
  <1>3. OtherTypes'
    BY <1>1, BudgetsStay, PlayParts DEF OtherTypes
  <1>4. QED
    BY <1>1, <1>2, <1>3, PageStep

LEMMA PageClosedKeeps ==
    ASSUME PlayIInv, PageClosed
    PROVE  PlayIInv'
  <1> DEFINE id == [work |-> Video, gen |-> page.gen]
  <1>1. /\ page.state = "closing" /\ UNCHANGED <<acts, heard, due>> /\ UNCHANGED dockVars
    BY DEF PageClosed
  <1>2. page \in Pages
    BY <1>1, PageParts
  <1>3. CASE sessions' = Closed(id) /\ Unmount /\ UNCHANGED <<fails, crossed>>
    <2>1. id.work = Video
      OBVIOUS
    <2> HIDE DEF id
    <2>2. /\ sessions' \in [AllWorks -> SessionStates]
          /\ sessions'[Video].at = sessions[Video].at /\ sessions'[Video].pos = sessions[Video].pos
      BY <1>3, <2>1, ClosedIs, PlayParts
    <2>3. PageInv'
      BY <1>1, <1>2, <1>3, <2>2, UnmountKeeps
    <2>4. OtherTypes'
      BY <1>1, <1>3, <2>2, PlayParts DEF OtherTypes
    <2>5. QED
      BY <1>1, <1>3, <2>3, <2>4, PageStep
  <1>4. CASE /\ PlayFail /\ page' = [page EXCEPT !.state = "open"] /\ Cross("players", TRUE)
             /\ UNCHANGED <<sessions, saves, left>>
    <2>1. crossed \subseteq crossed' /\ crossed' \subseteq {"players", "queue", "render"}
      BY <1>4, CrossGrows, PlayParts
    <2>2. /\ page' \in Pages /\ page'.at = page.at /\ page'.pos = page.pos
          /\ page'.secs = page.secs /\ page'.ready = page.ready /\ page'.paused = page.paused
          /\ page'.dirty = page.dirty /\ page'.timer = page.timer
      BY <1>2, <1>4 DEF Pages
    <2>3. PageInv'
      BY <1>1, <1>2, <1>4, <2>2, SamePlaceKeeps, PageParts DEF PageFits
    <2>4. OtherTypes'
      BY <1>1, <1>4, <2>1, BudgetsStay, PlayParts DEF OtherTypes
    <2>5. QED
      BY <1>1, <2>1, <2>3, <2>4, PageStep
  <1>5. QED
    BY <1>3, <1>4 DEF PageClosed

-----------------------------------------------------------------------------
(* Playback: the theorems.                                                 *)

\* Only the page that is mounted and the query's own time touch what the query keeps.
LEMMA AnswerStays ==
    ASSUME AnswerTypes,
           \/ \E w \in AudioWorks : OpenWork(w) \/ OpenAnswered(w)
           \/ \E o \in Ordinals : Select(o) \/ VideoChoose(o)
           \/ \E pos \in Seconds : Seek(pos) \/ VideoSeek(pos)
           \/ \E s \in settings : SettingsAnswered(s)
           \/ \E id \in closing : CloseAnswered(id)
           \/ Toggle \/ SetRepeat \/ CloseDock \/ Commit \/ Fetched \/ LoadedMetadata \/ Seeked
           \/ CanPlay \/ Advance \/ TimeUpdate \/ Ended \/ WriteAnswered \/ WriteFails
           \/ VideoLoaded \/ VideoPlay \/ VideoAdvance \/ VideoTime \/ VideoToggle
           \/ VideoEnded \/ TimerFires \/ SaveAnswered \/ LeftAnswered
           \/ Leave \/ Back \/ PageClosed
    PROVE  AnswerTypes'
  <1>1. UNCHANGED pageVars => UNCHANGED cached
    BY DEF pageVars
  <1>2. CASE \/ \E w \in AudioWorks : OpenAnswered(w)
             \/ \E o \in Ordinals : Select(o)
             \/ \E pos \in Seconds : Seek(pos)
             \/ \E s \in settings : SettingsAnswered(s)
             \/ \E id \in closing : CloseAnswered(id)
             \/ Toggle \/ SetRepeat \/ CloseDock \/ Commit \/ Fetched
    BY <1>1, <1>2 DEF OpenAnswered, Select, Seek, SettingsAnswered, CloseAnswered, Toggle,
       SetRepeat, CloseDock, Commit, Fetched, AnswerTypes
  <1>3. CASE \/ LoadedMetadata \/ Seeked \/ CanPlay \/ Advance \/ TimeUpdate \/ Ended
             \/ WriteAnswered \/ WriteFails
    BY <1>1, <1>3 DEF LoadedMetadata, Seeked, CanPlay, Advance, TimeUpdate, Ended,
       WriteAnswered, WriteFails, AnswerTypes
  <1>4. CASE (\E w \in AudioWorks : OpenWork(w)) \/ Back
    <2>1. CloseAndBack => UNCHANGED cached
      BY DEF CloseAndBack
    <2>2. QED
      BY <1>1, <1>4, <2>1 DEF OpenWork, StopPublishedVideo, Back, AnswerTypes
  <1>5. CASE \/ \E o \in Ordinals : VideoChoose(o)
             \/ \E pos \in Seconds : VideoSeek(pos)
             \/ VideoLoaded \/ VideoPlay \/ VideoAdvance \/ VideoTime \/ VideoToggle
             \/ VideoEnded \/ TimerFires \/ SaveAnswered \/ LeftAnswered \/ Leave \/ PageClosed
    BY <1>5 DEF VideoChoose, VideoSeek, VideoLoaded, VideoPlay, VideoAdvance, VideoTime,
       VideoToggle, VideoEnded, TimerFires, SaveAnswered, LeftAnswered, Leave, PageClosed,
       AnswerTypes
  <1>6. QED
    BY <1>2, <1>3, <1>4, <1>5

\* Whatever the players, the user and the answers do, the invariant holds.
THEOREM PlayInductive == PlaySpec => [](PlayIInv /\ AnswerTypes)
  <1>1. PlayInit => PlayIInv /\ AnswerTypes
    <2> SUFFICES ASSUME PlayInit PROVE PlayIInv /\ AnswerTypes
      OBVIOUS
    <2>1. OtherTypes
      <3>1. [gen |-> 0, status |-> "absent", at |-> 1, pos |-> 0, done |-> FALSE,
             repeat |-> "off"] \in SessionStates
        BY Constants DEF SessionStates, Repeats
      <3>2. PICK b \in Budgets : acts = [dock |-> b.dock, page |-> b.page] /\ fails = b.fails
        BY DEF PlayInit
      <3>3. b.dock \in Nat /\ b.page \in Nat /\ b.fails \in Nat
        BY PlaybackBounds
      <3>4. acts \in [dock : Nat, page : Nat] /\ fails \in Nat
        BY <3>2, <3>3
      <3>5. QED
        BY <3>1, <3>4 DEF PlayInit, OtherTypes
    <2>2. DockTypes
      <3>1. refs \in RefStates
        <4>1. Length + 1 \in 0..(Length + 1)
          BY Constants
        <4>2. QED
          BY <4>1, EmptyRecords, Constants DEF PlayInit, RefStates
      <3>2. QED
        BY <3>1, EmptyRecords DEF PlayInit, DockTypes
    <2>3. DockFits /\ DockIsHeard
      BY EmptyRecords DEF PlayInit, DockFits, DockIsHeard, SourceIsHeard, PendingFits,
                          WritesAreHeard, NoDock, NoAudio
    <2>4. PageInv
      BY EmptyRecords DEF PlayInit, PageInv, PageTypes, PageFits, PageIsHeard, DueIsCarried, NoPage
    <2>5. QED
      BY <2>1, <2>2, <2>3, <2>4 DEF PlayIInv, DockInv, PlayInit, AnswerTypes
  <1>2. PlayIInv /\ AnswerTypes /\ [PlayNext]_playVars => PlayIInv' /\ AnswerTypes'
    <2> SUFFICES ASSUME PlayIInv, AnswerTypes, [PlayNext]_playVars
                 PROVE  PlayIInv' /\ AnswerTypes'
      OBVIOUS
    <2>1. CASE \E w \in AudioWorks : OpenWork(w) \/ OpenAnswered(w)
      BY <2>1, AnswerStays, OpenWorkKeeps, OpenAnsweredKeeps
    <2>2. CASE \E o \in Ordinals : Select(o) \/ VideoChoose(o)
      BY <2>2, AnswerStays, SelectKeeps, VideoChooseKeeps
    <2>3. CASE \E pos \in Seconds : Seek(pos) \/ VideoSeek(pos)
      BY <2>3, AnswerStays, SeekKeeps, VideoSeekKeeps
    <2>4. CASE \E s \in settings : SettingsAnswered(s)
      BY <2>4, AnswerStays, SettingsAnsweredKeeps
    <2>5. CASE \E id \in closing : CloseAnswered(id)
      BY <2>5, AnswerStays, CloseAnsweredKeeps
    <2>6. CASE Toggle \/ SetRepeat \/ CloseDock \/ Commit \/ Fetched \/ LoadedMetadata \/ Seeked
      BY <2>6, AnswerStays, ToggleKeeps, SetRepeatKeeps, CloseDockKeeps, CommitKeeps, FetchedKeeps,
         LoadedMetadataKeeps, SeekedKeeps
    <2>7. CASE CanPlay \/ Advance \/ TimeUpdate \/ Ended \/ WriteAnswered \/ WriteFails
      BY <2>7, AnswerStays, CanPlayKeeps, AdvanceKeeps, TimeUpdateKeeps, EndedKeeps,
         WriteAnsweredKeeps, WriteFailsKeeps
    <2>8. CASE VideoLoaded \/ VideoPlay \/ VideoAdvance \/ VideoTime \/ VideoToggle
      BY <2>8, AnswerStays, VideoLoadedKeeps, VideoPlayKeeps, VideoAdvanceKeeps, VideoTimeKeeps,
         VideoToggleKeeps
    <2>9. CASE \/ VideoEnded \/ TimerFires \/ SaveAnswered \/ LeftAnswered
               \/ Leave \/ Back \/ PageClosed
      BY <2>9, AnswerStays, VideoEndedKeeps, TimerFiresKeeps, SaveAnsweredKeeps, LeftAnsweredKeeps,
         LeaveKeeps, BackKeeps, PageClosedKeeps
    <2>10. CASE Mount \/ Expire
      BY <2>10, MountKeeps, ExpireKeeps
    <2>11. CASE UNCHANGED playVars
      <3>1. UNCHANGED <<page, saves, left, cached, due, sessions, acts, fails, heard, crossed>>
        BY <2>11 DEF playVars
      <3>2. UNCHANGED dockVars
        BY <2>11 DEF playVars, dockVars
      <3>3. PageInv'
        BY <3>1, PageStands, PlayParts
      <3>4. OtherTypes'
        BY <3>1, PlayParts DEF OtherTypes
      <3>5. QED
        BY <3>1, <3>2, <3>3, <3>4, PageStep DEF AnswerTypes
    <2>12. QED
      BY <2>1, <2>2, <2>3, <2>4, <2>5, <2>6, <2>7, <2>8, <2>9, <2>10, <2>11 DEF PlayNext
  <1>3. QED
    BY <1>1, <1>2, PTL DEF PlaySpec

LEMMA PlacesFollow ==
    ASSUME PlayIInv
    PROVE  PlacesAreKept
  <1>1. \A k \in DOMAIN writes : writes[k] \in WritesOf(AudioWorks)
    BY PlayParts, ElementsAreIn
  <1>2. /\ \A k \in DOMAIN saves : saves[k] \in WritesOf({Video})
        /\ \A k \in DOMAIN left : left[k] \in WritesOf({Video})
    BY PageParts, ElementsAreIn
  <1>3. WritesOf(AudioWorks) \cup WritesOf({Video}) \subseteq Write
    BY DEF WritesOf, SessionOf, Write, SessionIds, WriteStatuses, AllWorks
  <1>4. PlayTypeOK
    <2>1. dock \in [id : SessionIds, repeat : Repeats, ordinal : 0..Tracks, ask : {0, 1}]
          /\ seen \in [id : SessionIds, repeat : Repeats, ordinal : 0..Tracks, ask : {0, 1}]
      BY PlayParts DEF DockStates, DockIds, SessionOf, SessionIds, NoId, AllWorks
    <2>2. audio.pos \in Seconds /\ audio.src.at \in 0..Tracks
      BY PlayParts DEF Audios, Sources
    <2>3. \A s \in {writes, saves, left} : \A k \in DOMAIN s : s[k] \in Write
      BY <1>1, <1>2, <1>3
    <2>4. opening \subseteq AudioWorks
      BY PlayParts DEF DockTypes
    <2>5. page.state \in {"none", "open", "saving", "closing"}
      BY PageParts DEF Pages
    <2>6. \A w \in AllWorks : sessions[w].status \in Open \cup {"absent", "completed", "closed"}
      BY PlayParts DEF OtherTypes, SessionStates
    <2>7. /\ acts.dock \in Nat /\ acts.page \in Nat /\ fails \in Nat
          /\ crossed \subseteq {"players", "queue", "render"}
      BY PlayParts DEF OtherTypes
    <2>8. QED
      BY <2>1, <2>2, <2>3, <2>4, <2>5, <2>6, <2>7 DEF PlayTypeOK
  <1>5. SavedIsHeard
    <2>1. \A k \in DOMAIN saves : saves[k].id.work = Video
      BY <1>2 DEF WritesOf, SessionOf
    <2>2. \A k \in DOMAIN left : left[k].id.work = Video
      BY <1>2 DEF WritesOf, SessionOf
    <2>3. \A k \in DOMAIN writes :
            Heard(writes[k].id.work, writes[k].at, writes[k].pos) \/ Excused
      BY PlayParts DEF DockIsHeard, WritesAreHeard
    <2>4. /\ \A k \in DOMAIN saves : Heard(saves[k].id.work, saves[k].at, saves[k].pos)
          /\ \A k \in DOMAIN left : Heard(left[k].id.work, left[k].at, left[k].pos)
      BY <2>1, <2>2, PageParts DEF PageIsHeard
    <2>5. QED
      BY <2>3, <2>4 DEF SavedIsHeard, Excused
  <1>6. PageIsSaved
    BY PageParts DEF PageIsSaved, DueIsCarried, IsDue
  <1>7. QED
    BY <1>4, <1>5, <1>6 DEF PlacesAreKept

\* No player saves a place that was neither played, chosen nor kept before, and the last place
\* the page reported is the one that is kept once its writes are answered.
THEOREM PlacesStayKept == PlaySpec => []PlacesAreKept
  BY PlayInductive, PlacesFollow, PTL
=============================================================================
