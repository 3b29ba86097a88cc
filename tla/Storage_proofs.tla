----------------------------- MODULE Storage_proofs -----------------------------
(***************************************************************************)
(* Proofs about what happens to a user's files on disk, for any files,     *)
(* names, number of threads, failing file operations and stops.            *)
(*                                                                         *)
(* FolderTransfer: a work that is moved is never lost.  The argument is    *)
(* about what a mover may rely on after it has listed the work: what it    *)
(* did not list is in the install folder, and nothing leaves that again.   *)
(*                                                                         *)
(* SourceCleanup: a cleanup that nothing overlapped puts back a whole set  *)
(* or nothing.  What it will put back is exactly what is missing beside    *)
(* the quarantine, until nothing is missing any more.                      *)
(*                                                                         *)
(* Maintenance: repairs, cleanups and stops leave one whole folder of the  *)
(* installation.  The argument follows who may remove what: a running      *)
(* command removes only folders its repair made, the backup it displaced   *)
(* after the exchange, or a leftover it judged while the recorded          *)
(* destination was the installation's; some whole folder is none of those. *)
(*                                                                         *)
(* CoverCache: the covers keep to their limit, because the count in memory *)
(* never understates them.  The request that is writing a cover remembers  *)
(* what the count still holds of the old one.                              *)
(*                                                                         *)
(* Extraction: what is about to be activated is what was listed.  An       *)
(* archive that nobody replaced is the one that was listed, and its files  *)
(* have names of their own; of any other only the final comparison says    *)
(* something.  The progress is no more than what the next measurement      *)
(* shows, since a tool only adds to it.                                    *)
(***************************************************************************)
EXTENDS FolderTransfer, SourceCleanup, Maintenance, CoverCache, Extraction,
        FiniteSetTheorems, WellFoundedInduction, TLAPS

-----------------------------------------------------------------------------
(* FolderTransfer: the inductive invariant.                                *)

Placed == UNION {place[n].files : n \in MoveNames}

\* A folder that is not there holds no file.
Folders == {x \in [there : BOOLEAN, files : SUBSET WorkFiles] : ~x.there => x.files = {}}
Steps == {"idle", "list", "mode", "enter", "copy", "verify", "rename", "abandon", "remove",
          "removing", "ended"}
\* A mover that listed the work, and one that put its copy in place.
Listed == {"mode", "enter", "copy", "verify", "rename", "abandon"}
Removing == {"remove", "removing"}

MoveTypes ==
    /\ single \in BOOLEAN /\ source \subseteq WorkFiles /\ owed \subseteq WorkFiles
    /\ place \in [MoveNames -> Folders] /\ staging \in [Movers -> Folders]
    /\ mover \in [Movers -> [at : Steps, name : MoveNames \cup {"none"}, listed : SUBSET WorkFiles]]
    /\ cancel \subseteq Movers

\* A mover at work has a name.
NamesAreChosen == \A m \in Movers : mover[m].at \notin {"idle", "ended"} => mover[m].name \in MoveNames

\* What a mover found and what is in the install folder are all of the work; the staging
\* folder it renames is all it found, and when it begins to remove the source the
\* install folder has everything.
Covers(m) ==
    /\ mover[m].at \in Listed => owed \subseteq mover[m].listed \cup Placed
    /\ mover[m].at = "rename" => staging[m].files = mover[m].listed
    /\ mover[m].at \in Removing => owed \subseteq Placed

MoveIInv == MoveTypes /\ NamesAreChosen /\ WorkSurvives /\ \A m \in Movers : Covers(m)

-----------------------------------------------------------------------------
(* What a step of one mover changes.                                       *)

\* A file that is in the install folder is in it under one of the names.
LEMMA PlacedGrows ==
    ASSUME \A n \in MoveNames : place[n].files \subseteq place'[n].files
    PROVE  Placed \subseteq Placed'
  BY DEF Placed

\* A mover that takes its next step.
LEMMA MoverGoes ==
    ASSUME MoveTypes, NEW m \in Movers, NEW at \in Steps, GoesTo(m, at)
    PROVE  /\ mover' \in [Movers -> [at : Steps, name : MoveNames \cup {"none"}, listed : SUBSET WorkFiles]]
           /\ mover'[m].at = at /\ mover'[m].name = mover[m].name
           /\ mover'[m].listed = mover[m].listed
           /\ \A x \in Movers \ {m} : mover'[x] = mover[x]
  <1>1. mover[m] \in [at : Steps, name : MoveNames \cup {"none"}, listed : SUBSET WorkFiles]
    BY DEF MoveTypes
  <1>2. mover' = [mover EXCEPT ![m] = [mover[m] EXCEPT !.at = at]]
    BY DEF MoveTypes, GoesTo
  <1>3. [mover[m] EXCEPT !.at = at] = [at |-> at, name |-> mover[m].name, listed |-> mover[m].listed]
    BY <1>1
  <1> QED BY <1>1, <1>2, <1>3 DEF MoveTypes

\* A mover that ends.
LEMMA MoverEnds ==
    ASSUME MoveTypes, NEW m \in Movers, Ends(m)
    PROVE  /\ mover' \in [Movers -> [at : Steps, name : MoveNames \cup {"none"}, listed : SUBSET WorkFiles]]
           /\ mover'[m].at = "ended"
           /\ \A x \in Movers \ {m} : mover'[x] = mover[x]
  <1>1. Ended = [at |-> "ended", name |-> "none", listed |-> {}]
    BY DEF Ended, NoMove
  <1> QED BY <1>1 DEF MoveTypes, Ends, Steps

\* A step of one mover keeps the invariant when it takes nothing out of the install folder
\* and leaves that mover, and the source, covered.
LEMMA MoverKeeps ==
    ASSUME MoveIInv, NEW m \in Movers, UNCHANGED owed, MoveTypes', NamesAreChosen',
           Placed \subseteq Placed', owed \subseteq source' \cup Placed', Covers(m)',
           \A x \in Movers \ {m} : mover'[x] = mover[x] /\ staging'[x] = staging[x]
    PROVE  MoveIInv'
  <1>1. \A x \in Movers : Covers(x)'
    <2> SUFFICES ASSUME NEW x \in Movers PROVE Covers(x)'
      OBVIOUS
    <2>1. CASE x = m
      BY <2>1
    <2>2. CASE x # m
      BY <2>2 DEF MoveIInv, Covers
    <2> QED BY <2>1, <2>2
  <1>2. WorkSurvives'
    BY DEF WorkSurvives, Placed
  <1> QED BY <1>1, <1>2 DEF MoveIInv

\* A step that only moves on, without touching a file.
LEMMA MovesOn ==
    ASSUME MoveIInv, NEW m \in Movers, UNCHANGED <<single, source, place, cancel, owed>>,
           \/ Ends(m)
           \/ \E at \in Steps \ {"rename"} :
                /\ GoesTo(m, at) /\ mover[m].at \in Listed /\ at \in Listed,
           staging' \in [Movers -> Folders],
           \A x \in Movers \ {m} : staging'[x] = staging[x]
    PROVE  MoveIInv'
  <1>1. Placed' = Placed
    BY DEF Placed
  <1>2. CASE Ends(m)
    <2>1. MoveTypes' /\ NamesAreChosen'
      BY <1>2, MoverEnds DEF MoveIInv, MoveTypes, NamesAreChosen
    <2>2. Covers(m)'
      BY <1>2, MoverEnds DEF MoveIInv, Covers, Listed, Removing
    <2> QED BY <1>1, <1>2, <2>1, <2>2, MoverEnds, MoverKeeps DEF MoveIInv, WorkSurvives, Placed
  <1>3. ASSUME NEW at \in Steps \ {"rename"}, GoesTo(m, at), mover[m].at \in Listed, at \in Listed
        PROVE  MoveIInv'
    <2>1. MoveTypes' /\ NamesAreChosen'
      BY <1>3, MoverGoes DEF MoveIInv, MoveTypes, NamesAreChosen, Listed
    <2>2. Covers(m)'
      BY <1>1, <1>3, MoverGoes DEF MoveIInv, Covers, Listed, Removing
    <2> QED BY <1>1, <1>3, <2>1, <2>2, MoverGoes, MoverKeeps DEF MoveIInv, WorkSurvives, Placed
  <1> QED BY <1>2, <1>3

-----------------------------------------------------------------------------
(* Each step keeps the invariant.                                          *)

LEMMA StartKeeps ==
    ASSUME MoveIInv, NEW m \in Movers, NEW n \in MoveNames, StartMove(m, n)
    PROVE  MoveIInv'
  <1>1. UNCHANGED <<single, source, place, staging, cancel, owed>> /\ Placed' = Placed
    BY DEF StartMove, Placed
  <1>2. CASE Ends(m)
    BY <1>1, <1>2, MovesOn DEF MoveIInv, MoveTypes
  <1>3. CASE mover' = [mover EXCEPT ![m] = [at |-> "list", name |-> n, listed |-> {}]]
    <2>1. /\ mover'[m] = [at |-> "list", name |-> n, listed |-> {}]
          /\ \A x \in Movers \ {m} : mover'[x] = mover[x]
      BY <1>3 DEF MoveIInv, MoveTypes
    <2>2. MoveTypes' /\ NamesAreChosen'
      BY <1>1, <1>3, <2>1 DEF MoveIInv, MoveTypes, NamesAreChosen, Steps
    <2>3. Covers(m)'
      BY <2>1 DEF Covers, Listed, Removing
    <2> QED BY <1>1, <2>1, <2>2, <2>3, MoverKeeps DEF MoveIInv, WorkSurvives, Placed
  <1> QED BY <1>2, <1>3 DEF StartMove, Ends

\* What the mover lists is the source, so what it does not list was placed before.
LEMMA ListFilesKeeps ==
    ASSUME MoveIInv, NEW m \in Movers, ListFiles(m)
    PROVE  MoveIInv'
  <1>1. UNCHANGED <<single, source, place, staging, cancel, owed>> /\ Placed' = Placed
    BY DEF ListFiles, Placed
  <1>2. CASE Ends(m)
    BY <1>1, <1>2, MovesOn DEF MoveIInv, MoveTypes
  <1>3. CASE mover' = [mover EXCEPT ![m] = [at |-> "mode", name |-> mover[m].name, listed |-> source]]
    <2>1. mover[m] \in [at : Steps, name : MoveNames \cup {"none"}, listed : SUBSET WorkFiles]
      BY DEF MoveIInv, MoveTypes
    <2>2. /\ mover'[m] = [at |-> "mode", name |-> mover[m].name, listed |-> source]
          /\ \A x \in Movers \ {m} : mover'[x] = mover[x]
      BY <1>3 DEF MoveIInv, MoveTypes
    <2>3. MoveTypes' /\ NamesAreChosen'
      BY <1>1, <1>3, <2>1, <2>2 DEF MoveIInv, MoveTypes, NamesAreChosen, Steps, ListFiles, MoverAt
    <2>4. Covers(m)'
      BY <1>1, <2>2 DEF MoveIInv, Covers, Listed, Removing, WorkSurvives, Placed
    <2> QED BY <1>1, <2>2, <2>3, <2>4, MoverKeeps DEF MoveIInv, WorkSurvives, Placed
  <1> QED BY <1>2, <1>3 DEF ListFiles, Ends

LEMMA RenameFolderKeeps ==
    ASSUME MoveIInv, NEW m \in Movers, RenameFolder(m)
    PROVE  MoveIInv'
  <1>1. MoverAt(m, "mode") /\ Ends(m) /\ UNCHANGED <<single, staging, cancel, owed>>
    BY DEF RenameFolder
  <1>2. CASE UNCHANGED <<source, place>>
    BY <1>1, <1>2, MovesOn DEF MoveIInv, MoveTypes
  <1>3. CASE /\ ~place[mover[m].name].there
             /\ place' = [place EXCEPT ![mover[m].name] = Holding(source)] /\ source' = {}
    <2>1. mover[m].name \in MoveNames /\ place[mover[m].name].files = {}
      BY <1>1, <1>3 DEF MoveIInv, MoveTypes, Folders, NamesAreChosen, MoverAt
    <2>2. /\ place'[mover[m].name].files = source
          /\ \A n \in MoveNames \ {mover[m].name} : place'[n] = place[n]
          /\ place' \in [MoveNames -> Folders] /\ place'[mover[m].name].there
      BY <1>3, <2>1 DEF MoveIInv, MoveTypes, Holding, Folders
    <2>3. Placed \subseteq Placed' /\ source \subseteq Placed'
      BY <2>1, <2>2, PlacedGrows DEF Placed
    <2>4. MoveTypes' /\ NamesAreChosen'
      BY <1>1, <1>3, <2>2, MoverEnds DEF MoveIInv, MoveTypes, NamesAreChosen
    <2>5. Covers(m)'
      BY <1>1, MoverEnds DEF MoveIInv, Covers, Listed, Removing
    <2> QED BY <1>1, <2>3, <2>4, <2>5, MoverEnds, MoverKeeps DEF MoveIInv, WorkSurvives, Placed
  <1> QED BY <1>2, <1>3 DEF RenameFolder

LEMMA CreateFolderKeeps ==
    ASSUME MoveIInv, NEW m \in Movers, CreateFolder(m)
    PROVE  MoveIInv'
  <1>1. MoverAt(m, "mode") /\ UNCHANGED <<single, source, staging, cancel, owed>>
    BY DEF CreateFolder
  <1>2. CASE Ends(m) /\ UNCHANGED place
    BY <1>1, <1>2, MovesOn DEF MoveIInv, MoveTypes
  <1>3. CASE /\ ~place[mover[m].name].there
             /\ place' = [place EXCEPT ![mover[m].name] = Holding({})] /\ GoesTo(m, "enter")
    <2>1. mover[m].name \in MoveNames /\ place[mover[m].name].files = {}
      BY <1>1, <1>3 DEF MoveIInv, MoveTypes, Folders, NamesAreChosen, MoverAt
    <2>2. /\ place'[mover[m].name].files = {} /\ place'[mover[m].name].there
          /\ \A n \in MoveNames \ {mover[m].name} : place'[n] = place[n]
          /\ place' \in [MoveNames -> Folders]
      BY <1>3, <2>1 DEF MoveIInv, MoveTypes, Holding, Folders
    <2>3. Placed \subseteq Placed'
      BY <2>1, <2>2, PlacedGrows
    <2>4. "enter" \in Steps /\ mover[m].at \in Listed
      BY <1>1 DEF Steps, Listed, MoverAt
    <2>5. MoveTypes' /\ NamesAreChosen'
      BY <1>1, <1>3, <2>1, <2>2, <2>4, MoverGoes DEF MoveIInv, MoveTypes, NamesAreChosen
    <2>6. Covers(m)'
      BY <1>1, <1>3, <2>3, <2>4, MoverGoes DEF MoveIInv, Covers, Listed, Removing
    <2> QED BY <1>1, <1>3, <2>3, <2>4, <2>5, <2>6, MoverGoes, MoverKeeps
            DEF MoveIInv, WorkSurvives, Placed
  <1> QED BY <1>2, <1>3 DEF CreateFolder

LEMMA EnterFolderKeeps ==
    ASSUME MoveIInv, NEW m \in Movers, NEW fails \in BOOLEAN, NEW crosses \in BOOLEAN,
           EnterFolder(m, fails, crosses)
    PROVE  MoveIInv'
  <1> DEFINE n == mover[m].name
  <1>1. /\ MoverAt(m, "enter") /\ UNCHANGED <<single, staging, cancel, owed>>
        /\ n \in MoveNames
    BY DEF EnterFolder, MoverAt, MoveIInv, NamesAreChosen
  <1>2. ASSUME place' = IF place[n].there /\ place[n].files = {} THEN [place EXCEPT ![n] = Free]
                        ELSE place,
               GoesTo(m, "copy") \/ GoesTo(m, "ended"), UNCHANGED source
        PROVE  MoveIInv'
    <2>1. /\ \A k \in MoveNames : place'[k].files = place[k].files
          /\ \A k \in MoveNames : place'[k] = place[k] \/ (~place'[k].there /\ place'[k].files = {})
          /\ place' \in [MoveNames -> Folders]
      BY <1>1, <1>2 DEF MoveIInv, MoveTypes, Free, Folders
    <2>2. Placed' = Placed
      BY <2>1 DEF Placed
    <2>3. PICK at \in {"copy", "ended"} : GoesTo(m, at)
      BY <1>2
    <2>4. at \in Steps /\ at \notin Removing /\ at # "rename" /\ mover[m].at \in Listed
      BY <1>1 DEF Steps, Removing, Listed, MoverAt
    <2>5. MoveTypes' /\ NamesAreChosen'
      BY <1>1, <1>2, <2>1, <2>3, <2>4, MoverGoes DEF MoveIInv, MoveTypes, NamesAreChosen
    <2>6. Covers(m)'
      BY <1>1, <2>2, <2>3, <2>4, MoverGoes DEF MoveIInv, Covers
    <2> QED BY <1>1, <1>2, <2>2, <2>3, <2>4, <2>5, <2>6, MoverGoes, MoverKeeps
            DEF MoveIInv, WorkSurvives, Placed
  <1>3. ASSUME place[n].there, place' = [place EXCEPT ![n] = Holding(place[n].files \cup source)],
               source' = {}, Ends(m)
        PROVE  MoveIInv'
    <2>1. /\ place'[n].files = place[n].files \cup source /\ place'[n].there
          /\ \A k \in MoveNames \ {n} : place'[k] = place[k]
          /\ place' \in [MoveNames -> Folders]
      BY <1>1, <1>3 DEF MoveIInv, MoveTypes, Holding, Folders
    <2>2. Placed \subseteq Placed' /\ source \subseteq Placed'
      BY <1>1, <2>1, PlacedGrows DEF Placed
    <2>3. MoveTypes' /\ NamesAreChosen'
      BY <1>1, <1>3, <2>1, MoverEnds DEF MoveIInv, MoveTypes, NamesAreChosen
    <2>4. Covers(m)'
      BY <1>3, MoverEnds DEF MoveIInv, Covers, Listed, Removing
    <2> QED BY <1>1, <1>3, <2>2, <2>3, <2>4, MoverEnds, MoverKeeps DEF MoveIInv, WorkSurvives, Placed
  <1> QED BY <1>2, <1>3 DEF EnterFolder

LEMMA CreateStagingKeeps ==
    ASSUME MoveIInv, NEW m \in Movers, CreateMoveStaging(m)
    PROVE  MoveIInv'
  <1>1. /\ UNCHANGED <<single, source, place, cancel, owed>> /\ GoesTo(m, "copy")
        /\ staging' = [staging EXCEPT ![m] = Holding({})]
        /\ mover[m].at \in Listed
    BY DEF CreateMoveStaging, MoverAt, Listed
  <1>2. staging' \in [Movers -> Folders] /\ \A x \in Movers \ {m} : staging'[x] = staging[x]
    BY <1>1 DEF MoveIInv, MoveTypes, Holding, Folders
  <1> QED BY <1>1, <1>2, MovesOn DEF Steps, Listed

LEMMA CopyFileKeeps ==
    ASSUME MoveIInv, NEW m \in Movers, NEW fails \in BOOLEAN, CopyFile(m, fails)
    PROVE  MoveIInv'
  <1>1. UNCHANGED <<single, source, place, cancel, owed>> /\ mover[m].at \in Listed
    BY DEF CopyFile, MoverAt, Listed
  <1>2. CASE UNCHANGED staging /\ (GoesTo(m, "abandon") \/ GoesTo(m, "verify"))
    BY <1>1, <1>2, MovesOn DEF MoveIInv, MoveTypes, Listed, Steps
  <1>3. CASE /\ \E f \in source : staging' = [staging EXCEPT ![m].files = @ \cup {f}]
             /\ UNCHANGED mover
    <2>1. PICK f \in source : staging' = [staging EXCEPT ![m].files = @ \cup {f}]
      BY <1>3
    <2>2. staging' = [staging EXCEPT ![m] = [staging[m] EXCEPT !.files = staging[m].files \cup {f}]]
      BY <2>1 DEF MoveIInv, MoveTypes
    <2>3. [staging[m] EXCEPT !.files = staging[m].files \cup {f}] =
          [there |-> staging[m].there, files |-> staging[m].files \cup {f}]
      <3>1. staging[m] \in [there : BOOLEAN, files : SUBSET WorkFiles]
        BY DEF MoveIInv, MoveTypes, Folders
      <3> QED BY <3>1
    <2>4. staging' \in [Movers -> Folders] /\ \A x \in Movers \ {m} : staging'[x] = staging[x]
      BY <2>1, <2>2, <2>3 DEF MoveIInv, MoveTypes, Folders, CopyFile
    <2>5. mover[m].at = "copy" /\ Placed' = Placed
      BY <1>1 DEF CopyFile, MoverAt, Placed
    <2>6. MoveTypes' /\ NamesAreChosen'
      BY <1>1, <1>3, <2>4 DEF MoveIInv, MoveTypes, NamesAreChosen
    <2>7. Covers(m)'
      BY <1>1, <1>3, <2>5 DEF MoveIInv, Covers
    <2> QED BY <1>1, <1>3, <2>4, <2>5, <2>6, <2>7, MoverKeeps DEF MoveIInv, WorkSurvives, Placed
  <1> QED BY <1>2, <1>3 DEF CopyFile

\* A copy that is checked is all the mover listed.
LEMMA VerifyCopyKeeps ==
    ASSUME MoveIInv, NEW m \in Movers, VerifyCopy(m)
    PROVE  MoveIInv'
  <1>1. /\ UNCHANGED <<single, source, place, staging, cancel, owed>> /\ mover[m].at = "verify"
        /\ Placed' = Placed
    BY DEF VerifyCopy, MoverAt, Placed
  <1>2. CASE GoesTo(m, "abandon")
    BY <1>1, <1>2, MovesOn DEF MoveIInv, MoveTypes, Steps, Listed
  <1>3. CASE GoesTo(m, "rename") /\ staging[m].files = mover[m].listed
    <2>1. "rename" \in Steps /\ mover[m].at \in Listed
      BY <1>1 DEF Steps, Listed
    <2>2. MoveTypes' /\ NamesAreChosen'
      BY <1>1, <1>3, <2>1, MoverGoes DEF MoveIInv, MoveTypes, NamesAreChosen
    <2>3. Covers(m)'
      BY <1>1, <1>3, <2>1, MoverGoes DEF MoveIInv, Covers, Listed, Removing
    <2> QED BY <1>1, <1>3, <2>1, <2>2, <2>3, MoverGoes, MoverKeeps DEF MoveIInv, WorkSurvives, Placed
  <1> QED BY <1>2, <1>3 DEF VerifyCopy

\* The copy that gets its name makes the install folder hold all of the work.
LEMMA PlaceCopyKeeps ==
    ASSUME MoveIInv, NEW m \in Movers, PlaceCopy(m)
    PROVE  MoveIInv'
  <1> DEFINE n == mover[m].name
  <1>1. UNCHANGED <<single, source, cancel, owed>> /\ mover[m].at = "rename" /\ n \in MoveNames
    BY DEF PlaceCopy, MoverAt, MoveIInv, NamesAreChosen
  <1>2. CASE GoesTo(m, "abandon") /\ UNCHANGED <<place, staging>>
    BY <1>1, <1>2, MovesOn DEF MoveIInv, MoveTypes, Steps, Listed
  <1>3. CASE /\ ~place[n].there /\ place' = [place EXCEPT ![n] = staging[m]]
             /\ staging' = [staging EXCEPT ![m] = Free] /\ GoesTo(m, "remove")
    <2>1. place[n].files = {} /\ staging[m] \in Folders /\ staging[m].files = mover[m].listed
      BY <1>1, <1>3 DEF MoveIInv, MoveTypes, Folders, Covers
    <2>2. place' \in [MoveNames -> Folders] /\ place'[n] = staging[m]
          /\ \A k \in MoveNames \ {n} : place'[k] = place[k]
      BY <1>1, <1>3, <2>1 DEF MoveIInv, MoveTypes
    <2>3. staging' \in [Movers -> Folders] /\ \A x \in Movers \ {m} : staging'[x] = staging[x]
      BY <1>3 DEF MoveIInv, MoveTypes, Free, Folders
    <2>4. Placed \subseteq Placed' /\ mover[m].listed \subseteq Placed'
      BY <1>1, <2>1, <2>2, PlacedGrows DEF Placed
    <2>5. owed \subseteq Placed'
      BY <1>1, <2>4 DEF MoveIInv, Covers, Listed
    <2>6. "remove" \in Steps /\ "remove" \notin Listed
      BY DEF Steps, Listed
    <2>7. MoveTypes' /\ NamesAreChosen'
      BY <1>1, <1>3, <2>2, <2>3, <2>6, MoverGoes DEF MoveIInv, MoveTypes, NamesAreChosen
    <2>8. Covers(m)'
      BY <1>1, <1>3, <2>5, <2>6, MoverGoes DEF MoveIInv, Covers
    <2> QED BY <1>1, <1>3, <2>3, <2>4, <2>5, <2>6, <2>7, <2>8, MoverGoes, MoverKeeps DEF MoveIInv
  <1> QED BY <1>2, <1>3 DEF PlaceCopy

LEMMA AbandonKeeps ==
    ASSUME MoveIInv, NEW m \in Movers, AbandonMove(m)
    PROVE  MoveIInv'
  <1>1. /\ UNCHANGED <<single, source, place, cancel, owed>> /\ Ends(m)
        /\ staging' = [staging EXCEPT ![m] = Free]
    BY DEF AbandonMove
  <1>2. staging' \in [Movers -> Folders] /\ \A x \in Movers \ {m} : staging'[x] = staging[x]
    BY <1>1 DEF MoveIInv, MoveTypes, Free, Folders
  <1> QED BY <1>1, <1>2, MovesOn

\* The source is only removed by a mover that left all of the work in the install folder.
LEMMA RemovesKeep ==
    ASSUME MoveIInv, NEW m \in Movers, BeginRemoveTree(m) \/ EndRemoveTree(m)
    PROVE  MoveIInv'
  <1>1. /\ UNCHANGED <<single, place, staging, cancel, owed>> /\ source' \subseteq source
        /\ mover[m].at \in Removing /\ (GoesTo(m, "removing") \/ Ends(m)) /\ Placed' = Placed
    BY DEF BeginRemoveTree, EndRemoveTree, Removing, MoverAt, Placed
  <1>2. owed \subseteq Placed
    BY <1>1 DEF MoveIInv, Covers
  <1>3. /\ mover' \in [Movers -> [at : Steps, name : MoveNames \cup {"none"}, listed : SUBSET WorkFiles]]
        /\ \A x \in Movers \ {m} : mover'[x] = mover[x]
        /\ mover'[m].at = "ended" \/ (mover'[m].at = "removing" /\ mover'[m].name = mover[m].name)
    BY <1>1, MoverGoes, MoverEnds DEF MoveIInv, Steps
  <1>4. MoveTypes' /\ NamesAreChosen'
    BY <1>1, <1>3 DEF MoveIInv, MoveTypes, NamesAreChosen, Removing
  <1>5. Covers(m)'
    BY <1>1, <1>2, <1>3 DEF Covers, Listed, Removing
  <1> QED BY <1>1, <1>2, <1>3, <1>4, <1>5, MoverKeeps

LEMMA CancelKeeps ==
    ASSUME MoveIInv, NEW m \in Movers, Cancel(m)
    PROVE  MoveIInv'
  BY DEF Cancel, MoveIInv, MoveTypes, NamesAreChosen, WorkSurvives, Covers, Placed

\* A file that is added is only owed while no mover has listed the work.
LEMMA AddFileKeeps ==
    ASSUME MoveIInv, NEW f \in WorkFiles, AddFile(f)
    PROVE  MoveIInv'
  <1>1. /\ UNCHANGED <<single, place, staging, mover, cancel>> /\ source' = source \cup {f}
        /\ Placed' = Placed
    BY DEF AddFile, Placed
  <1>2. owed' = owed \/ (owed' = owed \cup {f} /\ \A m \in Movers : mover[m].at = "idle")
    BY DEF AddFile, MoverAt
  <1>3. MoveTypes' /\ NamesAreChosen' /\ WorkSurvives'
    BY <1>1, <1>2 DEF MoveIInv, MoveTypes, NamesAreChosen, WorkSurvives
  <1>4. \A m \in Movers : Covers(m)'
    BY <1>1, <1>2 DEF MoveIInv, Covers, Listed, Removing
  <1> QED BY <1>3, <1>4 DEF MoveIInv

LEMMA TakeNameKeeps ==
    ASSUME MoveIInv, NEW n \in MoveNames, TakeName(n)
    PROVE  MoveIInv'
  <1>1. /\ UNCHANGED <<single, source, staging, mover, cancel, owed>>
        /\ ~place[n].there /\ place' = [place EXCEPT ![n] = Holding({})]
    BY DEF TakeName
  <1>2. place' \in [MoveNames -> Folders] /\ \A k \in MoveNames : place'[k].files = place[k].files
    BY <1>1 DEF MoveIInv, MoveTypes, Holding, Folders
  <1>3. Placed' = Placed
    BY <1>2 DEF Placed
  <1>4. MoveTypes' /\ NamesAreChosen' /\ WorkSurvives'
    BY <1>1, <1>2 DEF MoveIInv, MoveTypes, NamesAreChosen, WorkSurvives, Holding
  <1>5. \A m \in Movers : Covers(m)'
    BY <1>1, <1>3 DEF MoveIInv, Covers
  <1> QED BY <1>4, <1>5 DEF MoveIInv

LEMMA MoveStopKeeps ==
    ASSUME MoveIInv, MoveStop
    PROVE  MoveIInv'
  <1>1. /\ UNCHANGED <<single, source, place, owed>> /\ cancel' = {}
        /\ mover' = [m \in Movers |-> NoMove] /\ staging' = [m \in Movers |-> Free]
    BY DEF MoveStop
  <1>2. \A m \in Movers : mover'[m].at = "idle"
    BY <1>1 DEF NoMove
  <1>3. MoveTypes'
    BY <1>1 DEF MoveIInv, MoveTypes, NoMove, Free, Folders, Steps
  <1>4. NamesAreChosen' /\ WorkSurvives'
    BY <1>1, <1>2 DEF MoveIInv, NamesAreChosen, WorkSurvives
  <1>5. \A m \in Movers : Covers(m)'
    BY <1>2 DEF Covers, Listed, Removing
  <1> QED BY <1>3, <1>4, <1>5 DEF MoveIInv

-----------------------------------------------------------------------------
(* The theorems.                                                           *)

THEOREM MoveInductive == MoveSpec => []MoveIInv
  <1>1. MoveInit => MoveIInv
    <2> SUFFICES ASSUME MoveInit PROVE MoveIInv
      OBVIOUS
    <2>1. source \subseteq WorkFiles /\ owed = source
      BY DEF MoveInit
    <2>2. MoveTypes
      BY <2>1 DEF MoveInit, MoveTypes, NoMove, Free, Folders, Steps
    <2>3. \A m \in Movers : mover[m].at = "idle"
      BY DEF MoveInit, NoMove
    <2>4. NamesAreChosen /\ WorkSurvives /\ \A m \in Movers : Covers(m)
      BY <2>1, <2>3 DEF NamesAreChosen, WorkSurvives, Covers, Listed, Removing
    <2> QED BY <2>2, <2>4 DEF MoveIInv
  <1>2. MoveIInv /\ [MoveNext]_moveVars => MoveIInv'
    <2> SUFFICES ASSUME MoveIInv, [MoveNext]_moveVars PROVE MoveIInv'
      OBVIOUS
    <2>1. CASE \E m \in Movers : \E n \in MoveNames : StartMove(m, n)
      BY <2>1, StartKeeps
    <2>2. CASE \E m \in Movers : ListFiles(m) \/ RenameFolder(m) \/ CreateFolder(m)
      BY <2>2, ListFilesKeeps, RenameFolderKeeps, CreateFolderKeeps
    <2>3. CASE \E m \in Movers : \E fails, crosses \in BOOLEAN : EnterFolder(m, fails, crosses)
      BY <2>3, EnterFolderKeeps
    <2>4. CASE \E m \in Movers : CreateMoveStaging(m) \/ VerifyCopy(m) \/ PlaceCopy(m) \/ AbandonMove(m)
      BY <2>4, CreateStagingKeeps, VerifyCopyKeeps, PlaceCopyKeeps, AbandonKeeps
    <2>5. CASE \E m \in Movers : \E fails \in BOOLEAN : CopyFile(m, fails)
      BY <2>5, CopyFileKeeps
    <2>6. CASE \E m \in Movers : BeginRemoveTree(m) \/ EndRemoveTree(m) \/ Cancel(m)
      BY <2>6, RemovesKeep, CancelKeeps
    <2>7. CASE \E f \in WorkFiles : AddFile(f)
      BY <2>7, AddFileKeeps
    <2>8. CASE (\E n \in MoveNames : TakeName(n)) \/ MoveStop
      BY <2>8, TakeNameKeeps, MoveStopKeeps
    <2>9. CASE UNCHANGED moveVars
      BY <2>9 DEF moveVars, MoveIInv, MoveTypes, NamesAreChosen, WorkSurvives, Covers, Placed
    <2> QED BY <2>1, <2>2, <2>3, <2>4, <2>5, <2>6, <2>7, <2>8, <2>9 DEF MoveNext
  <1> QED BY <1>1, <1>2, PTL DEF MoveSpec

\* folder_transfer.rs: a failure or a cancel leaves the original untouched.  Every file of a
\* work that is moved is at its source or in the install folder, whatever fails, wherever
\* the launcher stops and however many transfers move the same work under whichever names.
THEOREM MovedWorkSurvives == MoveSpec => []WorkSurvives
  <1>1. MoveIInv => WorkSurvives
    BY DEF MoveIInv
  <1> QED BY <1>1, MoveInductive, PTL

\* The faults and the stops that are counted stay within their bounds.
Counted == moveFaults \in 0..MaxMoveFaults /\ moveCrashes \in 0..MaxMoveCrashes

\* Every reachable state of the transfers is well typed.
THEOREM MoveTypeCorrect ==
    ASSUME MaxMoveFaults \in Nat, MaxMoveCrashes \in Nat
    PROVE  MoveSpec => []MoveTypeOK
  <1>1. MoveInit => Counted
    BY DEF MoveInit, Counted
  <1>2. Counted /\ [MoveNext]_moveVars => Counted'
    <2> SUFFICES ASSUME Counted, [MoveNext]_moveVars PROVE Counted'
      OBVIOUS
    <2>1. CASE UNCHANGED moveCrashes /\ (MoveFault \/ UNCHANGED moveFaults)
      BY <2>1 DEF Counted, MoveFault
    <2>2. CASE MoveStop
      BY <2>2 DEF Counted, MoveStop
    <2>3. CASE MoveNext /\ ~MoveStop
      <3>1. UNCHANGED moveCrashes /\ (MoveFault \/ UNCHANGED moveFaults)
        BY <2>3 DEF MoveNext, StartMove, ListFiles, RenameFolder, CreateFolder, EnterFolder, CreateMoveStaging,
           VerifyCopy, PlaceCopy, AbandonMove, CopyFile, BeginRemoveTree, EndRemoveTree, Cancel, AddFile, TakeName
      <3> QED BY <3>1, <2>1
    <2>4. CASE UNCHANGED moveVars
      BY <2>4 DEF Counted, moveVars
    <2> QED BY <2>2, <2>3, <2>4
  <1>3. MoveIInv /\ Counted => MoveTypeOK
    BY DEF MoveIInv, MoveTypes, Counted, MoveTypeOK, Steps, Folders
  <1> QED BY <1>1, <1>2, <1>3, MoveInductive, PTL DEF MoveSpec

-----------------------------------------------------------------------------
(* SourceCleanup: the inductive invariant.                                 *)

BoxStates == [there : BOOLEAN, marker : BOOLEAN, files : SUBSET Volumes]
DeleterStates ==
    {NoDeleter} \cup [at : {"mark", "move", "remove", "removing", "undo"}, box : Sets,
                      moved : SUBSET Volumes]
CleanerStates ==
    [at : {"none"}, box : Sets \cup {0}, recover : SUBSET Volumes, alone : BOOLEAN]
      \cup [at : {"judge", "recover", "unmark"}, box : Sets, recover : SUBSET Volumes,
            alone : BOOLEAN]

CleanupTypes ==
    /\ beside \in [Volumes -> {"none", "ours", "other"}] /\ boxes \in [Sets -> BoxStates]
    /\ deleter \in DeleterStates /\ cleaner \in CleanerStates /\ restored \in BOOLEAN

\* What is missing beside the quarantines.
NotBeside == {v \in Volumes : beside[v] = "none"}

\* A cleanup nothing overlapped: no deletion runs, and what it puts back is what is missing.
CleanupIsExact ==
    cleaner.at # "none" /\ cleaner.alone =>
      /\ deleter.at = "none"
      /\ cleaner.at = "recover" => /\ cleaner.recover = boxes[cleaner.box].files
                                   /\ cleaner.recover = NotBeside
      /\ cleaner.at = "unmark" => NotBeside = {}

\* Once it ended nothing is missing, and nothing has been deleted since.
RestoredIsWhole == restored => deleter.at = "none" /\ NotBeside = {}

CleanupIInv == CleanupTypes /\ CleanupIsExact /\ RestoredIsWhole

-----------------------------------------------------------------------------
(* What the records hold.                                                  *)

LEMMA DeleterFields ==
    ASSUME CleanupTypes
    PROVE  /\ deleter.at \in {"none", "mark", "move", "remove", "removing", "undo"}
           /\ deleter.at # "none" =>
                deleter \in [at : {"mark", "move", "remove", "removing", "undo"}, box : Sets,
                             moved : SUBSET Volumes]
           /\ deleter.moved \subseteq Volumes /\ deleter.box \in Sets \cup {0}
  BY DEF CleanupTypes, DeleterStates, NoDeleter

LEMMA CleanerFields ==
    ASSUME CleanupTypes
    PROVE  /\ cleaner \in [at : {"none", "judge", "recover", "unmark"}, box : Sets \cup {0},
                           recover : SUBSET Volumes, alone : BOOLEAN]
           /\ cleaner.at # "none" => cleaner.box \in Sets
  BY DEF CleanupTypes, CleanerStates

\* A deletion or a file of the user in the middle of a cleanup ends its claim to a whole set.
LEMMA TouchedKeeps ==
    ASSUME CleanupTypes, Touched
    PROVE  /\ cleaner' \in CleanerStates /\ restored' = FALSE
           /\ cleaner'.at = cleaner.at /\ (cleaner.at # "none" => ~cleaner'.alone)
  <1>1. cleaner' = [cleaner EXCEPT !.alone = cleaner.at = "none"] /\ restored' = FALSE
    BY DEF Touched
  <1>2. cleaner' = [at |-> cleaner.at, box |-> cleaner.box, recover |-> cleaner.recover,
                    alone |-> cleaner.at = "none"]
    BY <1>1, CleanerFields
  <1> QED BY <1>1, <1>2, CleanerFields DEF CleanerStates

\* While a deletion runs, or a cleanup starts or ends, only the types are left to see to.
LEMMA DeletionKeeps ==
    ASSUME CleanupIInv, deleter.at # "none", UNCHANGED <<cleaner, restored>>, CleanupTypes'
    PROVE  CleanupIInv'
  BY DEF CleanupIInv, CleanupIsExact, RestoredIsWhole

LEMMA PutKeepsBoxes ==
    ASSUME CleanupTypes, NEW s \in Sets, NEW b \in BoxStates, Put(s, b)
    PROVE  boxes' \in [Sets -> BoxStates]
  BY DEF CleanupTypes, Put

LEMMA BoxFields ==
    ASSUME NEW b \in BoxStates, NEW F \in SUBSET Volumes, NEW m \in BOOLEAN
    PROVE  /\ b.there \in BOOLEAN /\ b.marker \in BOOLEAN /\ b.files \in SUBSET Volumes
           /\ [b EXCEPT !.files = F] \in BoxStates /\ [b EXCEPT !.files = F].files = F
           /\ [b EXCEPT !.marker = m] \in BoxStates /\ [b EXCEPT !.marker = m].files = b.files
           /\ [b EXCEPT !.files = F, !.marker = m] \in BoxStates
           /\ NoBox \in BoxStates /\ [NoBox EXCEPT !.there = TRUE] \in BoxStates
  BY DEF BoxStates, NoBox

-----------------------------------------------------------------------------
(* Each step keeps the invariant: the deletion.                            *)

LEMMA StartDeleteKeeps ==
    ASSUME CleanupIInv, StartDelete
    PROVE  CleanupIInv'
  <1>1. PICK s \in Sets : /\ Put(s, [NoBox EXCEPT !.there = TRUE])
                          /\ deleter' = [at |-> "mark", box |-> s, moved |-> {}]
    BY DEF StartDelete
  <1>2. UNCHANGED beside /\ Touched
    BY DEF StartDelete
  <1>3. [NoBox EXCEPT !.there = TRUE] \in BoxStates
    BY DEF BoxStates, NoBox
  <1>4. boxes' \in [Sets -> BoxStates]
    BY <1>1, <1>3, PutKeepsBoxes DEF CleanupIInv
  <1>5. deleter' \in DeleterStates
    BY <1>1 DEF DeleterStates
  <1>6. CleanupTypes' /\ restored' = FALSE /\ (cleaner'.at # "none" => ~cleaner'.alone)
    BY <1>2, <1>4, <1>5, TouchedKeeps DEF CleanupIInv, CleanupTypes
  <1> QED BY <1>6 DEF CleanupIInv, CleanupIsExact, RestoredIsWhole

LEMMA WriteMarkerKeeps ==
    ASSUME CleanupIInv, NEW fails \in BOOLEAN, WriteSetMarker(fails)
    PROVE  CleanupIInv'
  <1>1. deleter.at = "mark" /\ UNCHANGED <<beside, cleaner, restored>>
    BY DEF WriteSetMarker
  <1>2. /\ deleter.box \in Sets /\ Box \in BoxStates
        /\ deleter \in [at : {"mark", "move", "remove", "removing", "undo"}, box : Sets,
                        moved : SUBSET Volumes]
    BY <1>1, DeleterFields DEF CleanupIInv, CleanupTypes, Box
  <1>3. deleter' \in DeleterStates /\ boxes' \in [Sets -> BoxStates]
    <2>1. CASE fails \/ ~Box.there
      BY <2>1 DEF WriteSetMarker, Later, DeleterStates, CleanupIInv, CleanupTypes
    <2>2. CASE ~(fails \/ ~Box.there)
      <3>1. Put(deleter.box, [Box EXCEPT !.marker = TRUE])
            /\ deleter' = [deleter EXCEPT !.at = "move"]
        BY <2>2 DEF WriteSetMarker
      <3>2. [Box EXCEPT !.marker = TRUE] \in BoxStates
        BY <1>2 DEF BoxStates
      <3>3. boxes' \in [Sets -> BoxStates]
        BY <1>2, <3>1, <3>2, PutKeepsBoxes DEF CleanupIInv
      <3>4. deleter' \in DeleterStates
        BY <1>2, <3>1 DEF DeleterStates
      <3> QED BY <3>3, <3>4
    <2> QED BY <2>1, <2>2
  <1>4. CleanupTypes'
    BY <1>1, <1>3 DEF CleanupIInv, CleanupTypes
  <1> QED BY <1>1, <1>4, DeletionKeeps

LEMMA MoveVolumeKeeps ==
    ASSUME CleanupIInv, NEW v \in Volumes, NEW fails \in BOOLEAN, MoveVolume(v, fails)
    PROVE  CleanupIInv'
  <1>1. deleter.at = "move" /\ UNCHANGED <<cleaner, restored>>
    BY DEF MoveVolume
  <1>2. /\ deleter.box \in Sets /\ Box \in BoxStates
        /\ deleter \in [at : {"mark", "move", "remove", "removing", "undo"}, box : Sets,
                        moved : SUBSET Volumes]
    BY <1>1, DeleterFields DEF CleanupIInv, CleanupTypes, Box
  <1>3. /\ deleter' \in DeleterStates /\ boxes' \in [Sets -> BoxStates]
        /\ beside' \in [Volumes -> {"none", "ours", "other"}]
    <2>1. CASE fails \/ ~Box.there \/ beside[v] = "none"
      <3>1. UNCHANGED <<beside, boxes>> /\ deleter' = [deleter EXCEPT !.at = "undo"]
        BY <2>1 DEF MoveVolume
      <3> QED BY <1>2, <3>1 DEF DeleterStates, CleanupIInv, CleanupTypes
    <2>2. CASE ~(fails \/ ~Box.there \/ beside[v] = "none")
      <3> DEFINE F == Box.files \cup {v}
                 M == deleter.moved \cup {v}
                 a == IF M = Volumes THEN "remove" ELSE "move"
      <3>1. /\ Put(deleter.box, [Box EXCEPT !.files = F])
            /\ beside' = [beside EXCEPT ![v] = "none"]
            /\ deleter' = [deleter EXCEPT !.moved = M, !.at = a]
        BY <2>2 DEF MoveVolume
      <3>2. [Box EXCEPT !.files = F] \in BoxStates
        BY <1>2 DEF BoxStates
      <3>3. boxes' \in [Sets -> BoxStates]
        BY <1>2, <3>1, <3>2, PutKeepsBoxes DEF CleanupIInv
      <3>4. M \in SUBSET Volumes /\ a \in {"move", "remove"}
        BY <1>2
      <3> HIDE DEF M, a
      <3>5. deleter' = [at |-> a, box |-> deleter.box, moved |-> M]
        BY <1>2, <3>1
      <3>6. deleter' \in DeleterStates
        BY <1>2, <3>4, <3>5 DEF DeleterStates
      <3> QED BY <3>1, <3>3, <3>6 DEF CleanupIInv, CleanupTypes
    <2> QED BY <2>1, <2>2
  <1>4. CleanupTypes'
    BY <1>1, <1>3 DEF CleanupIInv, CleanupTypes
  <1> QED BY <1>1, <1>4, DeletionKeeps

LEMMA BeginRemoveKeeps ==
    ASSUME CleanupIInv, BeginRemoveVolume
    PROVE  CleanupIInv'
  <1>1. /\ deleter.at = "remove" /\ UNCHANGED <<beside, cleaner, restored>>
        /\ deleter' = [deleter EXCEPT !.at = "removing"]
    BY DEF BeginRemoveVolume
  <1>2. /\ deleter.box \in Sets /\ Box \in BoxStates
        /\ deleter \in [at : {"mark", "move", "remove", "removing", "undo"}, box : Sets,
                        moved : SUBSET Volumes]
    BY <1>1, DeleterFields DEF CleanupIInv, CleanupTypes, Box
  <1>3. PICK kept \in SUBSET Box.files, m \in {FALSE, Box.marker} :
          Put(deleter.box, [Box EXCEPT !.files = kept, !.marker = m])
    BY DEF BeginRemoveVolume
  <1>4. kept \in SUBSET Volumes /\ m \in BOOLEAN
    BY <1>2, <1>3 DEF BoxStates
  <1>5. [Box EXCEPT !.files = kept, !.marker = m] \in BoxStates
    BY <1>2, <1>4 DEF BoxStates
  <1>6. boxes' \in [Sets -> BoxStates]
    BY <1>2, <1>3, <1>5, PutKeepsBoxes DEF CleanupIInv
  <1>7. deleter' \in DeleterStates
    BY <1>1, <1>2 DEF DeleterStates
  <1>8. CleanupTypes'
    BY <1>1, <1>6, <1>7 DEF CleanupIInv, CleanupTypes
  <1> QED BY <1>1, <1>8, DeletionKeeps

LEMMA EndRemoveKeeps ==
    ASSUME CleanupIInv, NEW fails \in BOOLEAN, EndRemoveVolume(fails)
    PROVE  CleanupIInv'
  <1>1. deleter.at = "removing" /\ UNCHANGED <<beside, cleaner, restored>>
    BY DEF EndRemoveVolume
  <1>2. /\ deleter.box \in Sets /\ NoBox \in BoxStates
        /\ deleter \in [at : {"mark", "move", "remove", "removing", "undo"}, box : Sets,
                        moved : SUBSET Volumes]
    BY <1>1, DeleterFields DEF CleanupIInv, BoxStates, NoBox
  <1>3. CASE fails \/ ~Box.there
    <2>1. UNCHANGED boxes /\ deleter' = [deleter EXCEPT !.at = "undo"]
      BY <1>3 DEF EndRemoveVolume
    <2>2. CleanupTypes'
      BY <1>1, <1>2, <2>1 DEF CleanupIInv, CleanupTypes, DeleterStates
    <2> QED BY <1>1, <2>2, DeletionKeeps
  <1>4. CASE ~(fails \/ ~Box.there)
    <2>1. Put(deleter.box, NoBox) /\ deleter' = NoDeleter
      BY <1>4 DEF EndRemoveVolume, Later
    <2>2. boxes' \in [Sets -> BoxStates]
      BY <1>2, <2>1, PutKeepsBoxes DEF CleanupIInv
    <2>3. CleanupTypes'
      BY <1>1, <2>1, <2>2 DEF CleanupIInv, CleanupTypes, DeleterStates
    <2> QED BY <1>1, <2>3, DeletionKeeps
  <1> QED BY <1>3, <1>4

LEMMA UndoKeeps ==
    ASSUME CleanupIInv, NEW stays \in SUBSET Volumes, UndoSet(stays)
    PROVE  CleanupIInv'
  <1> DEFINE back == (deleter.moved \cap Box.files) \ stays
             whole == back = deleter.moved
             m == Box.marker /\ ~whole
             F == Box.files \ back
             b == IF whole /\ Box.files \subseteq back THEN NoBox
                  ELSE [Box EXCEPT !.files = F, !.marker = m]
  <1>1. /\ deleter.at = "undo" /\ UNCHANGED <<cleaner, restored>> /\ deleter' = NoDeleter
        /\ beside' = [v \in Volumes |-> IF v \in back THEN "ours" ELSE beside[v]]
        /\ Put(deleter.box, b)
    BY DEF UndoSet, Later
  <1>2. deleter.box \in Sets /\ Box \in BoxStates
    BY <1>1, DeleterFields DEF CleanupIInv, CleanupTypes, Box
  <1>3. F \in SUBSET Volumes /\ m \in BOOLEAN
    BY <1>2 DEF BoxStates
  <1> HIDE DEF F, m
  <1>4. b \in BoxStates
    BY <1>2, <1>3, BoxFields
  <1> HIDE DEF b
  <1>5. boxes' \in [Sets -> BoxStates]
    BY <1>1, <1>2, <1>4, PutKeepsBoxes DEF CleanupIInv
  <1>6. CleanupTypes'
    BY <1>1, <1>5 DEF CleanupIInv, CleanupTypes, DeleterStates
  <1> QED BY <1>1, <1>6, DeletionKeeps

-----------------------------------------------------------------------------
(* Each step keeps the invariant: the cleanup, the user and a stop.        *)

LEMMA StartCleanupKeeps ==
    ASSUME CleanupIInv, NEW s \in Sets, BeginCleanup(s)
    PROVE  CleanupIInv'
  <1>1. /\ deleter.at = "none" /\ UNCHANGED <<beside, boxes, deleter, restored>>
        /\ cleaner' = [NoCleaner EXCEPT !.at = "judge", !.box = s]
    BY DEF BeginCleanup
  <1>2. cleaner' = [at |-> "judge", box |-> s, recover |-> {}, alone |-> TRUE]
    BY <1>1 DEF NoCleaner
  <1>3. cleaner' \in CleanerStates /\ cleaner'.at = "judge"
    BY <1>2 DEF CleanerStates
  <1> QED BY <1>1, <1>3 DEF CleanupIInv, CleanupTypes, CleanupIsExact, RestoredIsWhole, NotBeside

LEMMA NoCleanerIsIdle == NoCleaner \in CleanerStates /\ NoCleaner.at = "none"
  BY DEF CleanerStates, NoCleaner

\* The cleanup puts back only what is exactly the missing part.
LEMMA JudgeKeeps ==
    ASSUME CleanupIInv, Judge
    PROVE  CleanupIInv'
  <1> DEFINE s == cleaner.box
             found == IF boxes[s].there /\ boxes[s].marker THEN Judged(s) ELSE {}
             settled == boxes[s].marker /\ boxes[s].files = {} /\ \A v \in Volumes : beside[v] # "none"
  <1>1. /\ cleaner.at = "judge" /\ UNCHANGED <<beside, boxes, deleter, restored>>
        /\ cleaner' = IF found # {} THEN [cleaner EXCEPT !.at = "recover", !.recover = found]
                      ELSE IF settled THEN [cleaner EXCEPT !.at = "unmark"] ELSE NoCleaner
    BY DEF Judge
  <1>2. /\ s \in Sets /\ boxes[s] \in BoxStates
        /\ cleaner \in [at : {"none", "judge", "recover", "unmark"}, box : Sets \cup {0},
                        recover : SUBSET Volumes, alone : BOOLEAN]
    BY <1>1, CleanerFields DEF CleanupIInv, CleanupTypes
  <1>3. /\ found \in SUBSET Volumes
        /\ found # {} => found = boxes[s].files /\ found = NotBeside
    BY <1>2 DEF Judged, NotBeside, BoxStates
  <1>4. settled => NotBeside = {}
    BY DEF NotBeside
  <1>5. UNCHANGED NotBeside
    BY <1>1 DEF NotBeside
  <1>6. RestoredIsWhole'
    BY <1>1, <1>5 DEF CleanupIInv, RestoredIsWhole
  <1> HIDE DEF found, settled
  <1>7. CASE found # {}
    <2>1. cleaner' = [at |-> "recover", box |-> s, recover |-> found, alone |-> cleaner.alone]
      BY <1>1, <1>2, <1>7
    <2>2. cleaner' \in CleanerStates
      BY <1>2, <1>3, <2>1 DEF CleanerStates
    <2> QED BY <1>1, <1>3, <1>5, <1>6, <1>7, <2>1, <2>2 DEF CleanupIInv, CleanupTypes, CleanupIsExact
  <1>8. CASE found = {} /\ settled
    <2>1. cleaner' = [at |-> "unmark", box |-> s, recover |-> cleaner.recover,
                      alone |-> cleaner.alone]
      BY <1>1, <1>2, <1>8
    <2>2. cleaner' \in CleanerStates
      BY <1>2, <2>1 DEF CleanerStates
    <2> QED BY <1>1, <1>4, <1>5, <1>6, <1>8, <2>1, <2>2 DEF CleanupIInv, CleanupTypes, CleanupIsExact
  <1>9. CASE found = {} /\ ~settled
    <2>1. cleaner' = NoCleaner
      BY <1>1, <1>9
    <2> QED BY <1>1, <1>6, <2>1, NoCleanerIsIdle DEF CleanupIInv, CleanupTypes, CleanupIsExact
  <1> QED BY <1>7, <1>8, <1>9

LEMMA RecoverKeeps ==
    ASSUME CleanupIInv, NEW v \in Volumes, NEW fails \in BOOLEAN, RecoverSet(v, fails)
    PROVE  CleanupIInv'
  <1> DEFINE s == cleaner.box
             rest == cleaner.recover \ {v}
             a == IF rest = {} THEN "unmark" ELSE "recover"
             F == boxes[s].files \ {v}
  <1>1. /\ cleaner.at = "recover" /\ v \in cleaner.recover /\ UNCHANGED <<deleter, restored>>
    BY DEF RecoverSet
  <1>2. /\ s \in Sets /\ boxes[s] \in BoxStates
        /\ cleaner \in [at : {"none", "judge", "recover", "unmark"}, box : Sets \cup {0},
                        recover : SUBSET Volumes, alone : BOOLEAN]
    BY <1>1, CleanerFields DEF CleanupIInv, CleanupTypes
  <1>3. CASE fails \/ v \notin boxes[s].files
    <2>1. cleaner' = NoCleaner /\ UNCHANGED <<beside, boxes>>
      BY <1>3 DEF RecoverSet
    <2>2. RestoredIsWhole'
      BY <1>1, <2>1 DEF CleanupIInv, RestoredIsWhole, NotBeside
    <2> QED BY <1>1, <2>1, <2>2, NoCleanerIsIdle DEF CleanupIInv, CleanupTypes, CleanupIsExact
  <1>4. CASE ~(fails \/ v \notin boxes[s].files)
    <2>1. /\ beside' = [beside EXCEPT ![v] = "ours"]
          /\ boxes' = [boxes EXCEPT ![s] = [boxes[s] EXCEPT !.files = F]]
          /\ cleaner' = [cleaner EXCEPT !.recover = rest, !.at = a]
      BY <1>4 DEF RecoverSet, Put
    <2>2. rest \in SUBSET Volumes /\ a \in {"unmark", "recover"} /\ F \in SUBSET Volumes
      BY <1>2 DEF BoxStates
    <2>3. NotBeside' = NotBeside \ {v}
      BY <2>1 DEF NotBeside, CleanupIInv, CleanupTypes
    <2>4. /\ [boxes[s] EXCEPT !.files = F] \in BoxStates
          /\ [boxes[s] EXCEPT !.files = F].files = F
      BY <1>2, <2>2 DEF BoxStates
    <2>5. boxes' \in [Sets -> BoxStates] /\ boxes'[s].files = F
      BY <1>2, <2>1, <2>4 DEF CleanupIInv, CleanupTypes
    <2>6. /\ cleaner.alone => rest = NotBeside' /\ F = rest
      BY <1>1, <2>3 DEF CleanupIInv, CleanupIsExact
    <2>7. a = "unmark" => rest = {}
      OBVIOUS
    <2> HIDE DEF rest, a
    <2>8. cleaner' = [at |-> a, box |-> s, recover |-> rest, alone |-> cleaner.alone]
      BY <1>2, <2>1
    <2>9. cleaner' \in CleanerStates
      BY <1>2, <2>2, <2>8 DEF CleanerStates
    <2>10. beside' \in [Volumes -> {"none", "ours", "other"}]
      BY <2>1 DEF CleanupIInv, CleanupTypes
    <2>11. CleanupIsExact'
      BY <1>1, <2>2, <2>5, <2>6, <2>7, <2>8 DEF CleanupIInv, CleanupIsExact
    <2>12. RestoredIsWhole'
      BY <1>1, <2>3 DEF CleanupIInv, RestoredIsWhole
    <2> QED BY <1>1, <2>5, <2>9, <2>10, <2>11, <2>12 DEF CleanupIInv, CleanupTypes
  <1> QED BY <1>3, <1>4

LEMMA UnmarkKeeps ==
    ASSUME CleanupIInv, NEW fails \in BOOLEAN, UnmarkSet(fails)
    PROVE  CleanupIInv'
  <1> DEFINE s == cleaner.box
  <1>1. cleaner.at = "unmark" /\ UNCHANGED <<beside, deleter>> /\ cleaner' = NoCleaner
    BY DEF UnmarkSet
  <1>2. s \in Sets /\ boxes[s] \in BoxStates /\ cleaner.alone \in BOOLEAN
    BY <1>1, CleanerFields DEF CleanupIInv, CleanupTypes
  <1>3. UNCHANGED NotBeside
    BY <1>1 DEF NotBeside
  <1>4. CleanupIsExact'
    BY <1>1, NoCleanerIsIdle DEF CleanupIsExact
  <1>5. CASE fails \/ ~boxes[s].marker
    <2>1. UNCHANGED <<boxes, restored>>
      BY <1>5 DEF UnmarkSet
    <2> QED BY <1>1, <1>3, <1>4, <2>1, NoCleanerIsIdle DEF CleanupIInv, CleanupTypes, RestoredIsWhole
  <1>6. CASE ~(fails \/ ~boxes[s].marker)
    <2> DEFINE b == IF boxes[s].files = {} THEN NoBox ELSE [boxes[s] EXCEPT !.marker = FALSE]
    <2>1. Put(s, b) /\ restored' = (cleaner.alone /\ boxes[s].files = {})
      BY <1>6 DEF UnmarkSet
    <2>2. b \in BoxStates
      BY <1>2 DEF BoxStates, NoBox
    <2> HIDE DEF b
    <2>3. boxes' \in [Sets -> BoxStates]
      BY <1>2, <2>1, <2>2, PutKeepsBoxes DEF CleanupIInv
    <2>4. restored' \in BOOLEAN /\ (restored' => deleter.at = "none" /\ NotBeside = {})
      BY <1>1, <1>2, <2>1 DEF CleanupIInv, CleanupIsExact
    <2> QED BY <1>1, <1>3, <1>4, <2>3, <2>4, NoCleanerIsIdle DEF CleanupIInv, CleanupTypes, RestoredIsWhole
  <1> QED BY <1>5, <1>6

LEMMA UserActsKeeps ==
    ASSUME CleanupIInv, NEW v \in Volumes, NEW file \in {"none", "other"}, CleanupUserActs(v, file)
    PROVE  CleanupIInv'
  <1>1. beside' = [beside EXCEPT ![v] = file] /\ Touched /\ UNCHANGED <<boxes, deleter>>
    BY DEF CleanupUserActs
  <1>2. beside' \in [Volumes -> {"none", "ours", "other"}]
    BY <1>1 DEF CleanupIInv, CleanupTypes
  <1>3. CleanupTypes' /\ restored' = FALSE /\ (cleaner'.at # "none" => ~cleaner'.alone)
    BY <1>1, <1>2, TouchedKeeps DEF CleanupIInv, CleanupTypes
  <1> QED BY <1>3 DEF CleanupIInv, CleanupIsExact, RestoredIsWhole

LEMMA CleanupStopKeeps ==
    ASSUME CleanupIInv, CleanupStop
    PROVE  CleanupIInv'
  <1>1. /\ deleter' = NoDeleter /\ cleaner' = NoCleaner /\ UNCHANGED <<beside, boxes, restored>>
    BY DEF CleanupStop
  <1> QED BY <1>1, NoCleanerIsIdle DEF CleanupIInv, CleanupTypes, DeleterStates, CleanupIsExact, RestoredIsWhole,
                                      NotBeside, NoDeleter

-----------------------------------------------------------------------------
(* The theorems.                                                           *)

\* Until something overlaps it, a cleanup puts back exactly what is missing beside the
\* quarantine: this holds after every step of a deletion, a cleanup, the user and a stop.
THEOREM CleanupInductive == CleanupSpec => []CleanupIInv
  <1>1. CleanupInit => CleanupIInv
    <2> SUFFICES ASSUME CleanupInit PROVE CleanupIInv
      OBVIOUS
    <2>1. NoDeleter \in DeleterStates /\ NoBox \in BoxStates
      BY DEF DeleterStates, BoxStates, NoBox
    <2>2. CleanupTypes
      BY <2>1, NoCleanerIsIdle DEF CleanupInit, CleanupTypes
    <2>3. CleanupIsExact /\ RestoredIsWhole
      BY NoCleanerIsIdle DEF CleanupInit, CleanupIsExact, RestoredIsWhole
    <2> QED BY <2>2, <2>3 DEF CleanupIInv
  <1>2. ASSUME CleanupIInv, [CleanupNext]_cleanupVars PROVE CleanupIInv'
    <2>1. CASE UNCHANGED cleanupVars
      BY <1>2, <2>1 DEF cleanupVars, CleanupIInv, CleanupTypes, CleanupIsExact, RestoredIsWhole, NotBeside
    <2>2. CASE StartDelete \/ BeginRemoveVolume \/ Judge \/ CleanupStop
      BY <1>2, <2>2, StartDeleteKeeps, BeginRemoveKeeps, JudgeKeeps, CleanupStopKeeps
    <2>3. ASSUME NEW fails \in BOOLEAN,
                 \/ WriteSetMarker(fails) \/ EndRemoveVolume(fails) \/ UnmarkSet(fails)
                 \/ \E v \in Volumes : MoveVolume(v, fails) \/ RecoverSet(v, fails)
          PROVE  CleanupIInv'
      BY <1>2, <2>3, WriteMarkerKeeps, EndRemoveKeeps, UnmarkKeeps, MoveVolumeKeeps, RecoverKeeps
    <2>4. CASE \/ \E stays \in SUBSET Volumes : UndoSet(stays)
               \/ \E s \in Sets : BeginCleanup(s)
               \/ \E v \in Volumes, file \in {"none", "other"} : CleanupUserActs(v, file)
      BY <1>2, <2>4, UndoKeeps, StartCleanupKeeps, UserActsKeeps
    <2> QED BY <1>2, <2>1, <2>2, <2>3, <2>4 DEF CleanupNext
  <1> QED BY <1>1, <1>2, PTL DEF CleanupSpec

\* After a cleanup that nothing overlapped every volume of the set is in its folder again: a
\* part of a set is never put back (restore_source_quarantine, dla-archive/src/maintenance.rs).
THEOREM RestoredSetsAreWhole == CleanupSpec => []RestoredSetIsWhole
  <1>1. CleanupIInv => RestoredSetIsWhole
    BY DEF CleanupIInv, RestoredIsWhole, NotBeside, RestoredSetIsWhole
  <1> QED BY <1>1, CleanupInductive, PTL

\* The deletion, the cleanup and the quarantines are of their kinds, and the bounds hold.
THEOREM CleanupTypeCorrect ==
    ASSUME MaxSets \in Nat, MaxCleanupFaults \in Nat, MaxCleanupCrashes \in Nat
    PROVE  CleanupSpec => []CleanupTypeOK
  <1> SUFFICES ASSUME MaxSets \in Nat, MaxCleanupFaults \in Nat, MaxCleanupCrashes \in Nat
               PROVE  CleanupSpec => []CleanupTypeOK
    OBVIOUS
  <1> DEFINE Bounds == cleanupFaults \in 0..MaxCleanupFaults /\ cleanupCrashes \in 0..MaxCleanupCrashes
  <1>1. CleanupInit => Bounds
    BY DEF CleanupInit
  <1>2. ASSUME Bounds, [CleanupNext]_cleanupVars PROVE Bounds'
    <2>1. \/ UNCHANGED <<cleanupFaults, cleanupCrashes>>
          \/ CleanupFault /\ UNCHANGED cleanupCrashes
          \/ CleanupStop
      BY <1>2 DEF CleanupNext, cleanupVars, StartDelete, BeginRemoveVolume, Judge, WriteSetMarker, EndRemoveVolume, UnmarkSet,
                  MoveVolume, RecoverSet, UndoSet, BeginCleanup, CleanupUserActs, Fails
    <2> QED BY <1>2, <2>1 DEF CleanupFault, CleanupStop
  <1>3. ASSUME CleanupIInv, Bounds PROVE CleanupTypeOK
    <2>1. Sets \cup {0} \subseteq 0..MaxSets
      BY DEF Sets
    <2> HIDE DEF Bounds
    <2>2. /\ deleter.at \in {"none", "mark", "move", "remove", "removing", "undo"}
          /\ deleter.box \in 0..MaxSets /\ deleter.moved \subseteq Volumes
      BY <1>3, <2>1, DeleterFields DEF CleanupIInv
    <2>3. /\ cleaner.at \in {"none", "judge", "recover", "unmark"}
          /\ cleaner.box \in 0..MaxSets /\ cleaner.recover \subseteq Volumes
          /\ cleaner.alone \in BOOLEAN
      BY <1>3, <2>1, CleanerFields DEF CleanupIInv
    <2> QED BY <1>3, <2>2, <2>3 DEF CleanupIInv, CleanupTypes, BoxStates, CleanupTypeOK, Bounds
  <1> QED BY <1>1, <1>2, <1>3, CleanupInductive, PTL DEF CleanupSpec

-----------------------------------------------------------------------------
(* Maintenance: the inductive invariant.                                   *)

\* Where a repair is: it builds a folder of its own, exchanges it or gives it up, and is
\* left with the old folder and the row.
Builds == {"create", "unpack", "verify", "sign", "activate", "displace"}
Tries == Builds \cup {"exchange", "abandon"}
Repairing == Tries \cup {"old", "row"}

\* What a thread may carry, and what it goes on to after it removed a folder.
Repairs == [kind : {"repair"}, at : Tries \cup {"old", "row"}, k : 1..MaxRepairs, root : UpkeepNames]
Sweeps == [kind : {"cleanup"}, at : {"list"}, known : UpkeepNames, entry : UpkeepNames]
          \cup [kind : {"cleanup"}, at : {"remove"}, known : UpkeepNames, entry : Leftovers]
Uninstalls == [kind : {"uninstall"}, at : {"remove", "row"}, root : UpkeepNames]
Relocations == [kind : {"relocate"}, at : {"save"}, to : UpkeepNames,
                state : {"healthy", "missing_files", "moved", "repairable"}]
Goals(kind) == CASE kind = "repair" -> {"idle", "row"} [] kind = "cleanup" -> {"list"} [] OTHER -> {"row"}
Removals == {r \in [kind : {"repair", "cleanup", "uninstall"}, at : {"removing"}, path : UpkeepNames,
                    next : {"idle", "list", "row"}, of : Repairs \cup Sweeps \cup Uninstalls] :
               r.kind = r.of.kind /\ r.next \in Goals(r.kind)}
States == {"unknown", "healthy", "missing_files", "moved", "repairable"}
Directories == [marker : {"nothing", "none", "stage", "own", "foreign"},
                files : SUBSET UnpackedFiles, fading : BOOLEAN]

UpkeepTypes ==
    /\ UpkeepTypeOK
    /\ command \in [Callers -> {NoCommand} \cup Repairs \cup Sweeps \cup Uninstalls
                               \cup Relocations \cup Removals]
    /\ \A c \in Callers : command[c].at = "removing" /\ command[c].of.kind = "uninstall"
         => "uninstalled" \in ended

\* What a thread is about: a removal is a part of the command that began it.
Task(c) == IF command[c].at = "removing" THEN command[c].of ELSE command[c]
RepairIs(c, places) == Task(c).kind = "repair" /\ Task(c).at \in places
StageOf(c) == Left("stage", Task(c).k)
RepairOf(c) == Left("repair", Task(c).k)
BackupOf(c) == Left("backup", Task(c).k)

\* A folder with all the user did not delete, and one nobody is in the middle of removing.
WholeAt(n) == UnpackedFiles \ lost \subseteq folder[n].files
Steady(n) == OnDisk(n) /\ ~folder[n].fading

\* A folder that a thread may remove in a step of its own, without another look at the rest:
\* what its repair built, the backup it displaced, the entry a cleanup took for abandoned.
Doomed(n) ==
    \E c \in Callers :
       \/ RepairIs(c, Tries) /\ n \in {StageOf(c), RepairOf(c)}
       \/ RepairIs(c, {"old"}) /\ n = BackupOf(c)
       \/ Task(c).kind = "cleanup" /\ Task(c).at = "remove" /\ n = Task(c).entry

\* A folder the row or a command knows by its name.
Referred(n) ==
    \/ preparedRow = n
    \/ \E c \in Callers :
         \/ Task(c).kind = "repair" /\ Task(c).root = n
         \/ Task(c).kind = "relocate" /\ Task(c).to = n
         \/ Task(c).kind = "cleanup" /\ Task(c).at = "remove" /\ n = Task(c).entry

\* The names of a repair are its own, and what it displaces has a name nothing has yet.
NamesAreNew ==
    /\ \A k \in 1..MaxRepairs, s \in {"stage", "repair", "backup"} :
         k > repairs => folder[Left(s, k)] = NoFolder
    /\ \A c \in Callers : RepairIs(c, Repairing) => Task(c).k <= repairs
    /\ \A c, d \in Callers : c # d /\ RepairIs(c, Repairing) /\ RepairIs(d, Repairing)
         => Task(c).k # Task(d).k
    /\ \A c \in Callers : RepairIs(c, Builds) => folder[BackupOf(c)] = NoFolder

\* A leftover that somebody knows by its name is none of the user's own folders.
ReferredIsOurs ==
    \A n \in Leftovers : Referred(n) =>
        /\ folder[n].marker # "foreign" /\ n[2] <= repairs
        /\ \A c \in Callers : RepairIs(c, Builds) => n # BackupOf(c)

\* A folder of the user's own is not removed: it has the name of a backup at most.
ForeignIsSafe ==
    /\ \A k \in 1..MaxRepairs : /\ folder[Left("stage", k)].marker # "foreign"
                                /\ folder[Left("repair", k)].marker # "foreign"
    /\ \A c \in Callers : RepairIs(c, {"exchange"}) /\ Task(c).root \in Leftovers
         => folder[BackupOf(c)].marker # "foreign"
    /\ \A n \in UpkeepNames : folder[n].fading => folder[n].marker # "foreign"

\* Commands are about the recorded destination, and what has the installation's name, or
\* was moved away, is whole if it is the installation.
AtHome ==
    /\ preparedRow \notin Leftovers
    /\ \A n \in {Dest, Away} : ~folder[n].fading /\ (Owned(n) => WholeAt(n))
    /\ \A c \in Callers : /\ Task(c).kind = "repair" => Task(c).root = Dest
                          /\ Task(c).kind = "cleanup" => Task(c).known = Dest
                          /\ Task(c).kind = "uninstall" => Task(c).at = "remove" /\ command[c].at # "removing"

\* What a repair puts in place of the installation is all of it.
RepairIsWhole ==
    \A c \in Callers :
        /\ RepairIs(c, {"sign", "activate"}) /\ Steady(StageOf(c)) => Missing(StageOf(c)) = {}
        /\ RepairIs(c, {"activate"}) /\ Steady(StageOf(c)) => Owned(StageOf(c))
        /\ RepairIs(c, {"displace", "exchange"}) /\ Steady(RepairOf(c))
             => Owned(RepairOf(c)) /\ Missing(RepairOf(c)) = {}
        /\ RepairIs(c, {"exchange"}) /\ Steady(BackupOf(c)) /\ Owned(BackupOf(c)) => WholeAt(BackupOf(c))

\* A whole folder of the installation that nobody is about to remove.
OneIsSafe == \E n \in UpkeepNames : Owned(n) /\ WholeAt(n) /\ ~folder[n].fading /\ ~Doomed(n)

UpkeepIInv ==
    /\ UpkeepTypes /\ NamesAreNew /\ ReferredIsOurs /\ ForeignIsSafe
    /\ ended = {} => AtHome /\ RepairIsWhole /\ OneIsSafe

-----------------------------------------------------------------------------
(* Maintenance: what the steps have in common, then each step.             *)

\* A thread that removes a folder still is about the command that began it.
LEMMA TaskTypes ==
    ASSUME UpkeepTypes, NEW c \in Callers
    PROVE  /\ command[c].at # "removing" => Task(c) = command[c]
           /\ Task(c) \in {NoCommand} \cup Repairs \cup Sweeps \cup Uninstalls \cup Relocations
           /\ Task(c).kind = "repair" => Task(c) \in Repairs
           /\ Task(c).kind = "cleanup" => Task(c) \in Sweeps
           /\ Task(c).kind = "uninstall" => Task(c) \in Uninstalls
           /\ Task(c).kind = "relocate" => Task(c) \in Relocations
  <1>1. command[c] \in {NoCommand} \cup Repairs \cup Sweeps \cup Uninstalls \cup Relocations \cup Removals
    BY DEF UpkeepTypes
  <1>2. Task(c) \in {NoCommand} \cup Repairs \cup Sweeps \cup Uninstalls \cup Relocations
    BY <1>1 DEF Task, NoCommand, Repairs, Sweeps, Uninstalls, Relocations, Removals, Tries, Builds
  <1>3. QED
    BY <1>2 DEF Task, NoCommand, Repairs, Sweeps, Uninstalls, Relocations

\* The first half of a removal: the folder loses files and stays under its name.
LEMMA RemoveTreeFacts ==
    ASSUME UpkeepTypes, NEW c \in Callers, NEW path \in UpkeepNames, NEW goal,
           command[c] \in Repairs \cup Sweeps \cup Uninstalls,
           goal = "idle" => command[c] \in Repairs,
           goal \in {"idle"} \cup Goals(command[c].kind),
           RemoveTree(c, path, goal)
    PROVE  /\ folder' \in [UpkeepNames -> Directories]
           /\ \A n \in UpkeepNames \ {path} : folder'[n] = folder[n]
           /\ folder'[path].fading /\ folder'[path].files \subseteq folder[path].files
           /\ folder'[path].marker \in {"none", folder[path].marker}
           /\ command' = [command EXCEPT ![c] = command'[c]]
           /\ command'[c] \in Removals /\ command'[c].of = command[c]
           /\ \A d \in Callers : Task(d)' = Task(d)
  <1>1. folder \in [UpkeepNames -> Directories]
    BY DEF UpkeepTypes, UpkeepTypeOK, Directories
  <1>2. PICK kept \in SUBSET folder[path].files, m \in {"none", folder[path].marker} :
           folder' = [folder EXCEPT ![path] = [marker |-> m, files |-> kept, fading |-> TRUE]]
    BY DEF RemoveTree
  <1>3. [marker |-> m, files |-> kept, fading |-> TRUE] \in Directories
    BY <1>1, <1>2 DEF Directories
  <1>4. folder'[path] = [marker |-> m, files |-> kept, fading |-> TRUE]
    BY <1>1, <1>2
  <1>5. command' = [command EXCEPT ![c] = [kind |-> command[c].kind, at |-> "removing",
                                          path |-> path, next |-> goal, of |-> command[c]]]
    BY DEF RemoveTree
  <1>6. command'[c] = [kind |-> command[c].kind, at |-> "removing",
                       path |-> path, next |-> goal, of |-> command[c]]
    BY <1>5 DEF UpkeepTypes
  <1>7. command[c].kind \in {"repair", "cleanup", "uninstall"} /\ command[c].at # "removing"
    BY DEF Repairs, Sweeps, Uninstalls, Tries, Builds
  <1>8. goal \in Goals(command[c].kind)
    BY DEF Repairs, Goals
  <1>9. goal \in {"idle", "list", "row"}
    BY <1>7, <1>8 DEF Goals
  <1>10. command'[c] \in Removals
    BY <1>6, <1>7, <1>8, <1>9 DEF Removals
  <1>11. \A d \in Callers : Task(d)' = Task(d)
    BY <1>5, <1>6, <1>7 DEF UpkeepTypes, Task
  <1>12. folder' \in [UpkeepNames -> Directories] /\ \A n \in UpkeepNames \ {path} : folder'[n] = folder[n]
    BY <1>1, <1>2, <1>3
  <1>13. /\ folder'[path].fading /\ folder'[path].files \subseteq folder[path].files
         /\ folder'[path].marker \in {"none", folder[path].marker}
    BY <1>2, <1>4
  <1>14. command' = [command EXCEPT ![c] = command'[c]]
    BY <1>5, <1>6
  <1>15. command'[c].of = command[c]
    BY <1>6
  <1>16. QED
    BY <1>10, <1>11, <1>12, <1>13, <1>14, <1>15

LEMMA NoFolderIsOne ==
    /\ NoFolder \in Directories
    /\ FolderOf("stage", {}) \in Directories /\ FolderOf("foreign", {}) \in Directories
  BY DEF NoFolder, Directories, FolderOf

\* The names of repairs are apart from each other's and from where the installation is.
LEMMA NamesApart ==
    /\ Dest \in UpkeepNames /\ Away \in UpkeepNames /\ Dest # Away
    /\ Dest \notin Leftovers /\ Away \notin Leftovers /\ Leftovers \subseteq UpkeepNames
    /\ NoRow \notin UpkeepNames
    /\ UpkeepNames \ Leftovers = {Dest, Away}
    /\ \A k \in 1..MaxRepairs, s \in {"stage", "repair", "backup"} : Left(s, k) \in Leftovers
    /\ \A k, j \in 1..MaxRepairs :
         /\ Left("stage", k) # Left("repair", j) /\ Left("stage", k) # Left("backup", j)
         /\ Left("repair", k) # Left("backup", j)
    /\ \A k, j \in 1..MaxRepairs, s \in {"stage", "repair", "backup"} : Left(s, k) = Left(s, j) => k = j
    /\ \A n \in Leftovers : \E k \in 1..MaxRepairs, s \in {"stage", "repair", "backup"} : n = Left(s, k)
    /\ \A k \in 1..MaxRepairs, s \in {"stage", "repair", "backup"} : Left(s, k)[2] = k
  <1>1. Leftovers = {"stage", "repair", "backup"} \X (1..MaxRepairs)
    BY DEF Leftovers
  <1>2. QED
    BY <1>1 DEF Dest, Away, NoRow, UpkeepNames, Left

\* What a rename does to the two names and to no other.
LEMMA RenamedFacts ==
    ASSUME NEW from \in UpkeepNames, NEW to \in UpkeepNames, from # to,
           folder \in [UpkeepNames -> Directories], ended \subseteq {"uninstalled", "chosen", "raced"},
           Renamed(from, to)
    PROVE  /\ folder' \in [UpkeepNames -> Directories]
           /\ \A n \in UpkeepNames \ {from, to} : folder'[n] = folder[n]
           /\ folder'[to] = folder[from] /\ folder'[from] = NoFolder
           /\ ended' \subseteq {"uninstalled", "chosen", "raced"} /\ ended \subseteq ended'
           /\ ended' = {} => ~folder[from].fading
           /\ lost' = lost
  <1>1. folder' = [folder EXCEPT ![to] = folder[from], ![from] = NoFolder]
    BY DEF Renamed
  <1>2. folder' \in [UpkeepNames -> Directories]
    BY <1>1, NoFolderIsOne
  <1>3. QED
    BY <1>1, <1>2, NoFolderIsOne DEF Renamed

\* What a thread may be about, a removal aside.
PlainTasks == {NoCommand} \cup Repairs \cup Sweeps \cup Uninstalls \cup Relocations

\* A thread that goes on to what it may be about keeps the types.
LEMMA CallerMoves ==
    ASSUME UpkeepTypes, NEW c \in Callers, NEW v \in PlainTasks, command' = [command EXCEPT ![c] = v],
           folder' \in [UpkeepNames -> Directories], preparedRow' \in UpkeepNames \cup {NoRow},
           archives' \in BOOLEAN, health' \in States, repairs' \in 0..MaxRepairs,
           acts' \in 0..MaxActs, upkeepCrashes' \in 0..MaxUpkeepCrashes,
           lost' \subseteq UnpackedFiles, ended \subseteq ended',
           ended' \subseteq {"uninstalled", "chosen", "raced"}
    PROVE  /\ UpkeepTypes' /\ command'[c] = v /\ Task(c)' = v
           /\ \A d \in Callers \ {c} : Task(d)' = Task(d) /\ command'[d] = command[d]
  <1>1. command \in [Callers -> PlainTasks \cup Removals]
    BY DEF UpkeepTypes, PlainTasks
  <1>2. v.at # "removing"
    BY DEF PlainTasks, NoCommand, Repairs, Sweeps, Uninstalls, Relocations, Tries, Builds
  <1>3. v.kind \in {"idle", "repair", "cleanup", "uninstall", "relocate"}
    BY DEF PlainTasks, NoCommand, Repairs, Sweeps, Uninstalls, Relocations
  <1>4. command' \in [Callers -> PlainTasks \cup Removals] /\ command'[c] = v
    BY <1>1
  <1>5. \A d \in Callers \ {c} : command'[d] = command[d]
    BY <1>1
  <1>6. Task(c)' = v /\ \A d \in Callers \ {c} : Task(d)' = Task(d)
    BY <1>2, <1>4, <1>5 DEF Task
  <1>7. \A d \in Callers : command'[d].kind \in {"idle", "repair", "cleanup", "uninstall", "relocate"}
    BY <1>3, <1>4, <1>5 DEF UpkeepTypes, UpkeepTypeOK
  <1>8. \A d \in Callers : command'[d].at = "removing" /\ command'[d].of.kind = "uninstall"
                             => "uninstalled" \in ended'
    BY <1>2, <1>4, <1>5 DEF UpkeepTypes
  <1>9. UpkeepTypeOK'
    BY <1>7 DEF UpkeepTypeOK, Directories, States
  <1>10. UpkeepTypes'
    BY <1>4, <1>8, <1>9 DEF UpkeepTypes, PlainTasks
  <1>11. QED
    BY <1>4, <1>5, <1>6, <1>10

\* A command that is over, or that has only its row or its next entry left; or a repair
\* that could not take the place of the installation.
Rests(c) ==
    \/ Task(c)' = NoCommand
    \/ /\ Task(c).kind = "repair" /\ Task(c)'.kind = "repair" /\ Task(c)'.at = "row"
       /\ Task(c)'.k = Task(c).k /\ Task(c)'.root = Task(c).root
    \/ /\ Task(c).kind = "repair" /\ Task(c).at = "exchange"
       /\ Task(c)'.kind = "repair" /\ Task(c)'.at = "abandon"
       /\ Task(c)'.k = Task(c).k /\ Task(c)'.root = Task(c).root
    \/ /\ Task(c).kind = "cleanup" /\ Task(c)'.kind = "cleanup" /\ Task(c)'.at = "list"
       /\ Task(c)'.known = Task(c).known
    \/ /\ Task(c)'.kind = "uninstall" /\ ended' # {}

\* A folder that is being removed goes on to be, or is gone.
Fades(n) ==
    \/ folder'[n] = folder[n]
    \/ folder[n].fading /\ folder'[n] = NoFolder
    \/ /\ OnDisk(n) /\ folder[n].marker # "foreign"
       /\ folder'[n].fading /\ folder'[n].files \subseteq folder[n].files
       /\ folder'[n].marker \in {"none", folder[n].marker}
       /\ ended' = {} => n \in Leftovers /\ Doomed(n)

\* A step that takes no folder from where it is and begins nothing: folders fade, commands
\* end, and the row changes to a name it or a command knew.
LEMMA CalmKeeps ==
    ASSUME UpkeepIInv, UpkeepTypes',
           \A c \in Callers : Task(c)' = Task(c) \/ Rests(c),
           \A c \in Callers : Task(c)' = Task(c) => command'[c] = command[c] \/ ended' # {} \/ Task(c).kind # "uninstall",
           \A n \in UpkeepNames : Fades(n),
           lost' = lost, repairs' = repairs, ended \subseteq ended',
           preparedRow' = NoRow \/ \E n \in UpkeepNames : preparedRow' = n /\ Referred(n),
           ended' = {} => preparedRow' \notin Leftovers
    PROVE  UpkeepIInv'
  <1>t. /\ UpkeepTypes /\ folder \in [UpkeepNames -> Directories] /\ folder' \in [UpkeepNames -> Directories]
        /\ \A c \in Callers : Task(c) \in PlainTasks
        /\ repairs \in 0..MaxRepairs
    BY TaskTypes DEF UpkeepIInv, UpkeepTypes, UpkeepTypeOK, Directories, PlainTasks
  <1>k. \A c \in Callers : Task(c).kind = "repair" => Task(c) \in Repairs
    BY <1>t, TaskTypes
  <1>r. \A c \in Callers : \A s \in SUBSET (Builds \cup {"exchange"}) : RepairIs(c, s)' => RepairIs(c, s) /\ Task(c)' = Task(c)
    BY DEF RepairIs, Rests, NoCommand, Tries, Builds
  <1>q. \A c \in Callers : RepairIs(c, Tries)' =>
          RepairIs(c, Tries) /\ StageOf(c)' = StageOf(c) /\ RepairOf(c)' = RepairOf(c)
    BY DEF RepairIs, Rests, NoCommand, Tries, Builds, StageOf, RepairOf
  <1>o. \A c \in Callers : RepairIs(c, {"old"})' => RepairIs(c, {"old"}) /\ Task(c)' = Task(c)
    BY DEF RepairIs, Rests, NoCommand
  <1>e. \A c \in Callers : RepairIs(c, Repairing)' => RepairIs(c, Repairing) /\ Task(c)'.k = Task(c).k /\ Task(c)'.root = Task(c).root
    BY <1>k DEF RepairIs, Rests, NoCommand, Repairs, Repairing
  <1>d. \A n \in UpkeepNames : Doomed(n)' => Doomed(n)
    <2> SUFFICES ASSUME NEW n \in UpkeepNames, NEW c \in Callers,
             \/ RepairIs(c, Tries)' /\ n \in {StageOf(c), RepairOf(c)}'
             \/ RepairIs(c, {"old"})' /\ n = BackupOf(c)'
             \/ Task(c)'.kind = "cleanup" /\ Task(c)'.at = "remove" /\ n = Task(c)'.entry
           PROVE Doomed(n)
      BY DEF Doomed
    <2>1. CASE RepairIs(c, Tries)' /\ n \in {StageOf(c), RepairOf(c)}'
      BY <2>1, <1>q DEF Doomed
    <2>2. CASE RepairIs(c, {"old"})' /\ n = BackupOf(c)'
      BY <2>2, <1>o DEF Doomed, BackupOf
    <2>3. CASE Task(c)'.kind = "cleanup" /\ Task(c)'.at = "remove" /\ n = Task(c)'.entry
      BY <2>3 DEF Doomed, Rests, NoCommand
    <2>4. QED
      BY <2>1, <2>2, <2>3
  <1>f. \A n \in UpkeepNames : Referred(n)' => Referred(n)
    <2> SUFFICES ASSUME NEW n \in UpkeepNames, Referred(n)' PROVE Referred(n)
      OBVIOUS
    <2>1. CASE preparedRow' = n
      BY <2>1, NamesApart
    <2>2. CASE preparedRow' # n
      BY <2>2 DEF Referred, Rests, NoCommand
    <2>3. QED
      BY <2>1, <2>2
  <1>1. NamesAreNew'
    BY <1>t, <1>k, <1>r, <1>e, NamesApart DEF UpkeepIInv, NamesAreNew, Fades, OnDisk, BackupOf, NoFolder, Tries, Repairs, RepairIs
  <1>2. ReferredIsOurs'
    BY <1>r, <1>f, NamesApart DEF UpkeepIInv, ReferredIsOurs, Fades, BackupOf, NoFolder, Tries
  <1>b. \A c \in Callers : Task(c).kind = "repair" => {StageOf(c), RepairOf(c), BackupOf(c)} \subseteq Leftovers
    BY <1>k, NamesApart DEF StageOf, RepairOf, BackupOf, Repairs
  <1>3. ForeignIsSafe'
    <2>1. \A n \in UpkeepNames : folder[n].marker # "foreign" => folder'[n].marker # "foreign"
      BY DEF Fades, NoFolder
    <2>2. \A k \in 1..MaxRepairs : folder'[Left("stage", k)].marker # "foreign" /\ folder'[Left("repair", k)].marker # "foreign"
      BY <2>1, NamesApart DEF UpkeepIInv, ForeignIsSafe
    <2>3. ASSUME NEW c \in Callers, RepairIs(c, {"exchange"})', Task(c)'.root \in Leftovers
          PROVE  folder'[BackupOf(c)'].marker # "foreign"
      <3>1. RepairIs(c, {"exchange"}) /\ Task(c)' = Task(c)
        BY <1>r, <2>3 DEF Tries
      <3>2. folder[BackupOf(c)].marker # "foreign" /\ BackupOf(c) \in UpkeepNames
        BY <1>b, <2>3, <3>1, NamesApart DEF UpkeepIInv, ForeignIsSafe, RepairIs
      <3>3. QED
        BY <2>1, <3>1, <3>2 DEF BackupOf
    <2>4. \A n \in UpkeepNames : folder'[n].fading => folder'[n].marker # "foreign"
      BY DEF UpkeepIInv, ForeignIsSafe, Fades, NoFolder
    <2>5. QED
      BY <2>2, <2>3, <2>4 DEF ForeignIsSafe
  <1>4. ended' = {} => AtHome'
    BY <1>k, NamesApart DEF UpkeepIInv, AtHome, Fades, Rests, Owned, WholeAt, NoFolder, NoCommand
  <1>5. ended' = {} => RepairIsWhole'
    <2> SUFFICES ASSUME ended' = {}, NEW c \in Callers, RepairIs(c, {"sign", "activate", "displace", "exchange"})'
                 PROVE  /\ RepairIs(c, {"sign", "activate"})' /\ Steady(StageOf(c))' => Missing(StageOf(c))' = {}
                        /\ RepairIs(c, {"activate"})' /\ Steady(StageOf(c))' => Owned(StageOf(c))'
                        /\ RepairIs(c, {"displace", "exchange"})' /\ Steady(RepairOf(c))' => Owned(RepairOf(c))' /\ Missing(RepairOf(c))' = {}
                        /\ RepairIs(c, {"exchange"})' /\ Steady(BackupOf(c))' /\ Owned(BackupOf(c))' => WholeAt(BackupOf(c))'
      BY DEF RepairIsWhole, RepairIs
    <2>1. RepairIs(c, {"sign", "activate", "displace", "exchange"}) /\ Task(c)' = Task(c)
      BY <1>r DEF Tries, Builds
    <2>2. /\ StageOf(c)' = StageOf(c) /\ RepairOf(c)' = RepairOf(c) /\ BackupOf(c)' = BackupOf(c)
          /\ {StageOf(c), RepairOf(c), BackupOf(c)} \subseteq UpkeepNames
      BY <1>b, <2>1, NamesApart DEF StageOf, RepairOf, BackupOf, RepairIs
    <2>3. \A n \in UpkeepNames : Steady(n)' => folder'[n] = folder[n] /\ Steady(n)
      BY DEF Fades, Steady, OnDisk
    <2>4. \A s : RepairIs(c, s)' <=> RepairIs(c, s)
      BY <2>1 DEF RepairIs
    <2>5. RepairIsWhole
      BY DEF UpkeepIInv
    <2>6. QED
      BY <2>2, <2>3, <2>4, <2>5 DEF RepairIsWhole, Missing, Collected, Owned, WholeAt
  <1>6. ended' = {} => OneIsSafe'
    BY <1>d DEF UpkeepIInv, OneIsSafe, Fades, Owned, WholeAt, NoFolder
  <1>7. QED
    BY <1>1, <1>2, <1>3, <1>4, <1>5, <1>6 DEF UpkeepIInv

\* What a repair does before it takes the place of the installation is done to the folders
\* of its own, which nobody relies on.
LEMMA BuildKeeps ==
    ASSUME UpkeepIInv, UpkeepTypes', NEW c \in Callers,
           RepairIs(c, Builds), RepairIs(c, Builds)',
           Task(c)'.k = Task(c).k, Task(c)'.root = Task(c).root,
           \A d \in Callers \ {c} : Task(d)' = Task(d) /\ command'[d] = command[d],
           \A n \in UpkeepNames \ {StageOf(c), RepairOf(c)} : folder'[n] = folder[n],
           folder'[StageOf(c)].marker # "foreign", folder'[RepairOf(c)].marker # "foreign",
           lost' = lost, repairs' = repairs, preparedRow' = preparedRow, ended \subseteq ended',
           ended' = {} /\ Task(c)'.at \in {"sign", "activate"} /\ Steady(StageOf(c))'
             => Missing(StageOf(c))' = {},
           ended' = {} /\ Task(c)'.at = "activate" /\ Steady(StageOf(c))' => Owned(StageOf(c))',
           ended' = {} /\ Task(c)'.at = "displace" /\ Steady(RepairOf(c))'
             => Owned(RepairOf(c))' /\ Missing(RepairOf(c))' = {}
    PROVE  UpkeepIInv'
  <1>t. /\ UpkeepTypes /\ folder \in [UpkeepNames -> Directories] /\ folder' \in [UpkeepNames -> Directories]
        /\ repairs \in 0..MaxRepairs
    BY TaskTypes DEF UpkeepIInv, UpkeepTypes, UpkeepTypeOK, Directories
  <1>k. \A d \in Callers : Task(d).kind = "repair" => Task(d) \in Repairs
    BY <1>t, TaskTypes
  <1>b. \A d \in Callers : Task(d).kind = "repair" => {StageOf(d), RepairOf(d), BackupOf(d)} \subseteq Leftovers
    BY <1>k, NamesApart DEF StageOf, RepairOf, BackupOf, Repairs
  <1>a. Task(c).kind = "repair" /\ Task(c)'.kind = "repair"
    BY DEF RepairIs
  <1>n. \A d \in Callers : Task(d).kind = "repair" =>
          /\ StageOf(d)' = StageOf(d) /\ RepairOf(d)' = RepairOf(d) /\ BackupOf(d)' = BackupOf(d)
    BY DEF StageOf, RepairOf, BackupOf
  <1>o. \A d \in Callers : Task(d)'.kind = Task(d).kind /\ (RepairIs(d, Builds)' <=> RepairIs(d, Builds))
    BY <1>a DEF RepairIs
  <1>u. \A d \in Callers : Task(d).kind = "repair" => BackupOf(d) \notin {StageOf(c), RepairOf(c)}
    BY <1>a, <1>k, NamesApart DEF StageOf, RepairOf, BackupOf, Repairs
  <1>d. \A n \in UpkeepNames : Doomed(n)' => Doomed(n)
    <2> SUFFICES ASSUME NEW n \in UpkeepNames, NEW d \in Callers,
             \/ RepairIs(d, Tries)' /\ n \in {StageOf(d), RepairOf(d)}'
             \/ RepairIs(d, {"old"})' /\ n = BackupOf(d)'
             \/ Task(d)'.kind = "cleanup" /\ Task(d)'.at = "remove" /\ n = Task(d)'.entry
           PROVE Doomed(n)
      BY DEF Doomed
    <2>1. CASE d = c
      BY <2>1, <1>a, <1>n DEF Doomed, RepairIs, Tries, Builds
    <2>2. CASE d # c
      BY <2>2 DEF Doomed, RepairIs, StageOf, RepairOf, BackupOf
    <2>3. QED
      BY <2>1, <2>2
  <1>f. \A n \in UpkeepNames : Referred(n)' => Referred(n)
    BY <1>a DEF Referred
  <1>s. \A k \in 1..MaxRepairs, s \in {"stage", "repair"} : folder'[Left(s, k)].marker # "foreign"
    BY NamesApart DEF UpkeepIInv, ForeignIsSafe
  <1>1. NamesAreNew'
    <2>1. \A k \in 1..MaxRepairs, s \in {"stage", "repair", "backup"} :
             k > repairs => Left(s, k) \notin {StageOf(c), RepairOf(c)}
      <3>1. Task(c).k \in 1..MaxRepairs /\ Task(c).k <= repairs
        BY <1>a, <1>k DEF UpkeepIInv, NamesAreNew, RepairIs, Repairs, Repairing, Tries
      <3>2. QED
        BY <3>1, <1>t, NamesApart DEF StageOf, RepairOf
    <2>2. \A k \in 1..MaxRepairs, s \in {"stage", "repair", "backup"} :
             k > repairs => folder'[Left(s, k)] = NoFolder
      BY <2>1, NamesApart DEF UpkeepIInv, NamesAreNew
    <2>3. \A d \in Callers : RepairIs(d, Repairing)' => RepairIs(d, Repairing) /\ Task(d)'.k = Task(d).k
      BY DEF RepairIs, Repairing, Tries
    <2>4. \A d \in Callers : RepairIs(d, Builds)' => folder'[BackupOf(d)'] = NoFolder
      BY <1>o, <1>n, <1>u, <1>b, NamesApart DEF UpkeepIInv, NamesAreNew, RepairIs
    <2>5. QED
      BY <2>2, <2>3, <2>4, <1>t DEF UpkeepIInv, NamesAreNew
  <1>2. ReferredIsOurs'
    <2>1. \A n \in Leftovers : Referred(n)' => folder'[n].marker # "foreign"
      BY <1>f, NamesApart DEF UpkeepIInv, ReferredIsOurs
    <2>2. QED
      BY <2>1, <1>f, <1>o, <1>n, NamesApart DEF UpkeepIInv, ReferredIsOurs, RepairIs
  <1>3. ForeignIsSafe'
    <2>1. ASSUME NEW d \in Callers, RepairIs(d, {"exchange"})', Task(d)'.root \in Leftovers
          PROVE  folder'[BackupOf(d)'].marker # "foreign"
      <3>1. d # c /\ RepairIs(d, {"exchange"}) /\ Task(d)' = Task(d)
        BY <2>1 DEF RepairIs, Builds
      <3>2. folder'[BackupOf(d)] = folder[BackupOf(d)]
        BY <1>u, <1>b, <3>1, NamesApart DEF RepairIs
      <3>3. QED
        BY <2>1, <3>1, <3>2 DEF UpkeepIInv, ForeignIsSafe, BackupOf
    <2>2. \A n \in UpkeepNames : folder'[n].fading => folder'[n].marker # "foreign"
      BY DEF UpkeepIInv, ForeignIsSafe
    <2>3. QED
      BY <1>s, <2>1, <2>2 DEF ForeignIsSafe
  <1>4. ended' = {} => AtHome'
    <2>1. Dest \notin {StageOf(c), RepairOf(c)} /\ Away \notin {StageOf(c), RepairOf(c)}
      BY <1>a, <1>b, NamesApart
    <2>2. QED
      BY <1>a, <2>1, NamesApart DEF UpkeepIInv, AtHome, Owned, WholeAt
  <1>5. ended' = {} => RepairIsWhole'
    <2> SUFFICES ASSUME ended' = {}, NEW d \in Callers
                 PROVE  /\ RepairIs(d, {"sign", "activate"})' /\ Steady(StageOf(d))' => Missing(StageOf(d))' = {}
                        /\ RepairIs(d, {"activate"})' /\ Steady(StageOf(d))' => Owned(StageOf(d))'
                        /\ RepairIs(d, {"displace", "exchange"})' /\ Steady(RepairOf(d))' => Owned(RepairOf(d))' /\ Missing(RepairOf(d))' = {}
                        /\ RepairIs(d, {"exchange"})' /\ Steady(BackupOf(d))' /\ Owned(BackupOf(d))' => WholeAt(BackupOf(d))'
      BY DEF RepairIsWhole
    <2>1. CASE d = c
      BY <2>1, <1>a DEF RepairIs, Builds
    <2>2. CASE d # c
      <3>1. CASE ~RepairIs(d, Tries)
        BY <2>2, <3>1 DEF RepairIs, Tries, Builds
      <3>2. CASE RepairIs(d, Tries)
        <4>1. Task(d).k # Task(c).k
          BY <2>2, <3>2, <1>a DEF UpkeepIInv, NamesAreNew, RepairIs, Repairing, Tries
        <4>2. {StageOf(d), RepairOf(d), BackupOf(d)} \cap {StageOf(c), RepairOf(c)} = {}
          BY <4>1, <3>2, <1>a, <1>k, NamesApart DEF StageOf, RepairOf, BackupOf, Repairs, RepairIs
        <4>3. \A n \in {StageOf(d), RepairOf(d), BackupOf(d)} : n \in UpkeepNames /\ folder'[n] = folder[n]
          BY <4>2, <3>2, <1>b, NamesApart DEF RepairIs
        <4>4. Task(d)' = Task(d) /\ \A s : RepairIs(d, s)' <=> RepairIs(d, s)
          BY <2>2 DEF RepairIs
        <4>5. StageOf(d)' = StageOf(d) /\ RepairOf(d)' = RepairOf(d) /\ BackupOf(d)' = BackupOf(d)
          BY <4>4 DEF StageOf, RepairOf, BackupOf
        <4>6. RepairIsWhole
          BY DEF UpkeepIInv
        <4>7. QED
          BY <4>3, <4>4, <4>5, <4>6 DEF RepairIsWhole, Steady, OnDisk, Missing, Collected, Owned, WholeAt
      <3>3. QED
        BY <3>1, <3>2
    <2>3. QED
      BY <2>1, <2>2
  <1>6. ended' = {} => OneIsSafe'
    <2> SUFFICES ASSUME ended' = {} PROVE OneIsSafe'
      OBVIOUS
    <2>1. PICK n \in UpkeepNames : Owned(n) /\ WholeAt(n) /\ ~folder[n].fading /\ ~Doomed(n)
      BY DEF UpkeepIInv, OneIsSafe
    <2>2. n \notin {StageOf(c), RepairOf(c)}
      BY <2>1 DEF Doomed, RepairIs, Tries
    <2>3. QED
      BY <2>1, <2>2, <1>d DEF OneIsSafe, Owned, WholeAt
  <1>7. QED
    BY <1>1, <1>2, <1>3, <1>4, <1>5, <1>6 DEF UpkeepIInv

LEMMA StateIsOne == \A n : StateAt(n) \in States \ {"unknown"}
  BY DEF StateAt, HealthState, States

LEMMA RowIsReferred ==
    ASSUME UpkeepTypes
    PROVE  preparedRow = NoRow \/ \E n \in UpkeepNames : preparedRow = n /\ Referred(n)
  BY DEF UpkeepTypes, UpkeepTypeOK, Referred

\* A command that ends without touching the disk.
LEMMA DoneKeeps ==
    ASSUME UpkeepIInv, NEW c \in Callers, Done(c), UNCHANGED <<folder, lost, ended, repairs, user, health>>,
           preparedRow' \in {preparedRow, NoRow}
    PROVE  UpkeepIInv'
  <1>1. UpkeepTypes
    BY DEF UpkeepIInv
  <1>2. /\ UpkeepTypes' /\ command'[c] = NoCommand /\ Task(c)' = NoCommand
        /\ \A d \in Callers \ {c} : Task(d)' = Task(d) /\ command'[d] = command[d]
    BY <1>1, CallerMoves DEF Done, PlainTasks, UpkeepTypes, UpkeepTypeOK, Directories, States, user
  <1>3. \A n \in UpkeepNames : Fades(n)
    BY DEF Fades
  <1>4. \A d \in Callers : Task(d)' = Task(d) \/ Rests(d)
    BY <1>2 DEF Rests
  <1>5. \A d \in Callers : Task(d)' = Task(d) => command'[d] = command[d] \/ ended' # {} \/ Task(d).kind # "uninstall"
    BY <1>2 DEF NoCommand
  <1>6. /\ preparedRow' = NoRow \/ \E n \in UpkeepNames : preparedRow' = n /\ Referred(n)
        /\ ended' = {} => preparedRow' \notin Leftovers
    BY <1>1, RowIsReferred, NamesApart DEF UpkeepIInv, AtHome
  <1>7. QED
    BY <1>2, <1>3, <1>4, <1>5, <1>6, CalmKeeps

\* The removal of a folder begins: one its command may remove, or the uninstalled one.
LEMMA RemovalKeeps ==
    ASSUME UpkeepIInv, NEW c \in Callers, NEW path \in UpkeepNames, NEW goal,
           command[c] \in Repairs \cup Sweeps \cup Uninstalls,
           goal = "idle" => command[c] \in Repairs,
           goal \in {"idle"} \cup Goals(command[c].kind),
           RemoveTree(c, path, goal), OnDisk(path), folder[path].marker # "foreign",
           ended' = {} => path \in Leftovers /\ Doomed(path),
           command[c].kind = "uninstall" => "uninstalled" \in ended',
           ended \subseteq ended', ended' \subseteq {"uninstalled", "chosen", "raced"},
           UNCHANGED <<preparedRow, health, repairs, user, lost>>
    PROVE  UpkeepIInv'
  <1>1. UpkeepTypes
    BY DEF UpkeepIInv
  <1>2. /\ folder' \in [UpkeepNames -> Directories]
        /\ \A n \in UpkeepNames \ {path} : folder'[n] = folder[n]
        /\ folder'[path].fading /\ folder'[path].files \subseteq folder[path].files
        /\ folder'[path].marker \in {"none", folder[path].marker}
        /\ command' = [command EXCEPT ![c] = command'[c]]
        /\ command'[c] \in Removals /\ command'[c].of = command[c]
        /\ \A d \in Callers : Task(d)' = Task(d)
    BY <1>1, RemoveTreeFacts
  <1>3. command'[c].kind = command[c].kind
    BY <1>2 DEF Removals
  <1>4. command \in [Callers -> PlainTasks \cup Removals]
    BY <1>1 DEF UpkeepTypes, PlainTasks
  <1>5. command' \in [Callers -> PlainTasks \cup Removals] /\ \A d \in Callers \ {c} : command'[d] = command[d]
    BY <1>2, <1>4
  <1>6. command[c].kind \in {"repair", "cleanup", "uninstall"}
    BY DEF Repairs, Sweeps, Uninstalls
  <1>7. UpkeepTypeOK'
    BY <1>1, <1>2, <1>3, <1>5, <1>6 DEF UpkeepTypes, UpkeepTypeOK, Directories, user
  <1>8. \A d \in Callers : command'[d].at = "removing" /\ command'[d].of.kind = "uninstall"
                             => "uninstalled" \in ended'
    BY <1>1, <1>2, <1>5 DEF UpkeepTypes
  <1>9. UpkeepTypes'
    BY <1>5, <1>7, <1>8 DEF UpkeepTypes, PlainTasks
  <1>10. \A n \in UpkeepNames : Fades(n)
    BY <1>2 DEF Fades
  <1>11. \A d \in Callers : Task(d)' = Task(d) => command'[d] = command[d] \/ ended' # {} \/ Task(d).kind # "uninstall"
    <2>1. command[c].at # "removing"
      BY DEF Repairs, Sweeps, Uninstalls, Tries, Builds
    <2>2. Task(c) = command[c]
      BY <2>1 DEF Task
    <2>3. QED
      BY <1>5, <2>2
  <1>12. /\ preparedRow' = NoRow \/ \E n \in UpkeepNames : preparedRow' = n /\ Referred(n)
         /\ ended' = {} => preparedRow' \notin Leftovers
    BY <1>1, RowIsReferred DEF UpkeepIInv, AtHome
  <1>13. QED
    BY <1>2, <1>9, <1>10, <1>11, <1>12, CalmKeeps

\* What is read and saved without a folder changing.
LEMMA OtherKeeps ==
    ASSUME UpkeepIInv, Verify \/ RemoveFromLibrary \/ DeleteArchives
    PROVE  UpkeepIInv'
  <1>1. UpkeepTypes
    BY DEF UpkeepIInv
  <1>2. /\ command' = command /\ UNCHANGED <<folder, lost, ended, repairs>>
        /\ preparedRow' \in {preparedRow, NoRow}
    BY DEF Verify, RemoveFromLibrary, DeleteArchives, disk, user
  <1>3. /\ archives' \in BOOLEAN /\ health' \in States
        /\ acts' \in 0..MaxActs /\ upkeepCrashes' \in 0..MaxUpkeepCrashes
    <2>1. CASE Verify
      BY <1>1, <2>1, UpkeepBounds, StateIsOne DEF Verify, SaveHealth, UpkeepActs, UpkeepTypes, UpkeepTypeOK, States
    <2>2. CASE RemoveFromLibrary
      BY <1>1, <2>2 DEF RemoveFromLibrary, user, UpkeepTypes, UpkeepTypeOK, States
    <2>3. CASE DeleteArchives
      <3>1. archives' \in BOOLEAN
        BY <2>3 DEF DeleteArchives
      <3>2. acts' \in 0..MaxActs
        BY <1>1, <2>3, UpkeepBounds DEF DeleteArchives, UpkeepActs, UpkeepTypes, UpkeepTypeOK
      <3>3. health' \in States /\ upkeepCrashes' \in 0..MaxUpkeepCrashes
        BY <1>1, <2>3 DEF DeleteArchives, UpkeepTypes, UpkeepTypeOK, States
      <3>4. QED
        BY <3>1, <3>2, <3>3
    <2>4. QED
      BY <2>1, <2>2, <2>3
  <1>4. UpkeepTypes'
    BY <1>1, <1>2, <1>3 DEF UpkeepTypes, UpkeepTypeOK, States
  <1>5. \A c \in Callers : Task(c)' = Task(c)
    BY <1>2 DEF Task
  <1>6. \A n \in UpkeepNames : Fades(n)
    BY <1>2 DEF Fades
  <1>7. /\ preparedRow' = NoRow \/ \E n \in UpkeepNames : preparedRow' = n /\ Referred(n)
        /\ ended' = {} => preparedRow' \notin Leftovers
    BY <1>1, <1>2, RowIsReferred, NamesApart DEF UpkeepIInv, AtHome
  <1>8. QED
    BY <1>2, <1>4, <1>5, <1>6, <1>7, CalmKeeps

LEMMA SaveRelocationKeeps ==
    ASSUME UpkeepIInv, NEW c \in Callers, SaveRelocation(c)
    PROVE  UpkeepIInv'
  <1>1. UpkeepTypes
    BY DEF UpkeepIInv
  <1>2. command[c] \in Relocations /\ Task(c) = command[c]
    BY <1>1, TaskTypes DEF SaveRelocation, CallerAt
  <1>3. CASE preparedRow = NoRow
    BY <1>3, DoneKeeps DEF SaveRelocation
  <1>4. CASE preparedRow # NoRow
    <2>1. /\ preparedRow' = command[c].to /\ health' = command[c].state
          /\ ended' = IF command[c].to \in Leftovers THEN ended \cup {"chosen"} ELSE ended
          /\ UNCHANGED <<folder, lost, repairs, user>>
      BY <1>4 DEF SaveRelocation, SaveHealth
    <2>2. command[c].to \in UpkeepNames /\ command[c].state \in States
      BY <1>2 DEF Relocations, States
    <2>3. /\ UpkeepTypes' /\ command'[c] = NoCommand /\ Task(c)' = NoCommand
          /\ \A d \in Callers \ {c} : Task(d)' = Task(d) /\ command'[d] = command[d]
      BY <1>1, <2>1, <2>2, CallerMoves
      DEF SaveRelocation, Done, PlainTasks, UpkeepTypes, UpkeepTypeOK, Directories, States, user
    <2>4. \A n \in UpkeepNames : Fades(n)
      BY <2>1 DEF Fades
    <2>5. \A d \in Callers : Task(d)' = Task(d) \/ Rests(d)
      BY <2>3 DEF Rests
    <2>6. \A d \in Callers : Task(d)' = Task(d) => command'[d] = command[d] \/ ended' # {} \/ Task(d).kind # "uninstall"
      BY <2>3 DEF NoCommand
    <2>7. Referred(command[c].to)
      BY <1>2 DEF Referred, Relocations
    <2>8. ended \subseteq ended' /\ (ended' = {} => preparedRow' \notin Leftovers)
      BY <2>1
    <2>9. QED
      BY <2>1, <2>2, <2>3, <2>4, <2>5, <2>6, <2>7, <2>8, CalmKeeps
  <1>5. QED
    BY <1>3, <1>4

LEMMA SaveRepairKeeps ==
    ASSUME UpkeepIInv, NEW c \in Callers, SaveRepair(c)
    PROVE  UpkeepIInv'
  <1>1. UpkeepTypes
    BY DEF UpkeepIInv
  <1>2. command[c] \in Repairs /\ Task(c) = command[c]
    BY <1>1, TaskTypes DEF SaveRepair, CallerAt
  <1>3. CASE preparedRow = NoRow
    BY <1>3, DoneKeeps DEF SaveRepair, disk
  <1>4. CASE preparedRow # NoRow
    <2>1. preparedRow' = command[c].root /\ UNCHANGED <<folder, lost, ended, repairs, user>>
      BY <1>4 DEF SaveRepair, disk
    <2>2. health' \in States
      BY <1>4, StateIsOne DEF SaveRepair, SaveHealth
    <2>3. command[c].root \in UpkeepNames
      BY <1>2 DEF Repairs
    <2>4. /\ UpkeepTypes' /\ command'[c] = NoCommand /\ Task(c)' = NoCommand
          /\ \A d \in Callers \ {c} : Task(d)' = Task(d) /\ command'[d] = command[d]
      BY <1>1, <2>1, <2>2, <2>3, CallerMoves
      DEF SaveRepair, Done, PlainTasks, UpkeepTypes, UpkeepTypeOK, Directories, user
    <2>5. \A n \in UpkeepNames : Fades(n)
      BY <2>1 DEF Fades
    <2>6. \A d \in Callers : Task(d)' = Task(d) \/ Rests(d)
      BY <2>4 DEF Rests
    <2>7. \A d \in Callers : Task(d)' = Task(d) => command'[d] = command[d] \/ ended' # {} \/ Task(d).kind # "uninstall"
      BY <2>4 DEF NoCommand
    <2>8. Referred(command[c].root)
      BY <1>2 DEF Referred, Repairs
    <2>9. ended' = {} => preparedRow' \notin Leftovers
      BY <1>2, <2>1, NamesApart DEF UpkeepIInv, AtHome, Repairs
    <2>10. QED
      BY <2>1, <2>3, <2>4, <2>5, <2>6, <2>7, <2>8, <2>9, CalmKeeps
  <1>5. QED
    BY <1>3, <1>4

\* The second half of a removal.
LEMMA RemovedKeeps ==
    ASSUME UpkeepIInv, NEW c \in Callers, Removed(c)
    PROVE  UpkeepIInv'
  <1>1. UpkeepTypes
    BY DEF UpkeepIInv
  <1>2. command[c] \in Removals /\ Task(c) = command[c].of
    BY <1>1
    DEF Removed, Task, UpkeepTypes, NoCommand, Repairs, Sweeps, Uninstalls, Relocations, Tries, Builds
  <1> DEFINE there == folder[command[c].path].fading
             on == command[c].next # "idle" /\ (there \/ command[c].kind = "repair")
             onward == [command[c].of EXCEPT !.at = command[c].next]
             v == IF on THEN onward ELSE NoCommand
  <1>3. /\ folder' = IF there THEN [folder EXCEPT ![command[c].path] = NoFolder] ELSE folder
        /\ command' = [command EXCEPT ![c] = v]
        /\ UNCHANGED <<preparedRow, health, repairs, user, lost, ended>>
    BY DEF Removed
  <1>4. /\ command[c].path \in UpkeepNames /\ command[c].kind = command[c].of.kind
        /\ command[c].next \in {"idle", "list", "row"} /\ command[c].next \in Goals(command[c].kind)
        /\ command[c].of \in Repairs \cup Sweeps \cup Uninstalls
    BY <1>2 DEF Removals
  <1>5. ASSUME command[c].next # "idle"
        PROVE  /\ onward \in PlainTasks /\ onward.kind = command[c].of.kind
               /\ onward.kind = "repair" => onward.at = "row" /\ onward.k = Task(c).k /\ onward.root = Task(c).root
               /\ onward.kind = "cleanup" => onward.at = "list" /\ onward.known = Task(c).known
               /\ onward.kind = "uninstall" => ended # {}
    <2>1. CASE command[c].of \in Repairs
      BY <1>2, <1>4, <1>5, <2>1 DEF Repairs, Goals, PlainTasks
    <2>2. CASE command[c].of \in Sweeps
      BY <1>2, <1>4, <1>5, <2>2, NamesApart DEF Sweeps, Goals, PlainTasks
    <2>3. CASE command[c].of \in Uninstalls
      BY <1>1, <1>2, <1>4, <1>5, <2>3 DEF Uninstalls, Goals, PlainTasks, UpkeepTypes, Removals
    <2>4. QED
      BY <1>4, <2>1, <2>2, <2>3
  <1>6. v \in PlainTasks
    BY <1>5 DEF PlainTasks
  <1>7. folder' \in [UpkeepNames -> Directories]
    BY <1>1, <1>3, <1>4, NoFolderIsOne DEF UpkeepTypes, UpkeepTypeOK, Directories
  <1> HIDE DEF v
  <1>8. /\ UpkeepTypes' /\ command'[c] = v /\ Task(c)' = v
        /\ \A d \in Callers \ {c} : Task(d)' = Task(d) /\ command'[d] = command[d]
    BY <1>1, <1>3, <1>6, <1>7, CallerMoves DEF UpkeepTypes, UpkeepTypeOK, States, user
  <1>9. \A n \in UpkeepNames : Fades(n)
    BY <1>1, <1>3, <1>4 DEF Fades, UpkeepTypes, UpkeepTypeOK
  <1>10. Rests(c)
    <2>1. CASE on
      <3>1. v = onward /\ command[c].next # "idle"
        BY <2>1 DEF v
      <3> HIDE DEF onward
      <3>2. Task(c)' = onward
        BY <1>8, <3>1
      <3>3. onward.kind \in {"repair", "cleanup", "uninstall"}
        BY <1>5, <1>4, <3>1 DEF Repairs, Sweeps, Uninstalls
      <3>4. QED
        BY <1>2, <1>3, <1>5, <3>1, <3>2, <3>3 DEF Rests
    <2>2. CASE ~on
      BY <1>8, <2>2 DEF Rests, v
    <2>3. QED
      BY <2>1, <2>2
  <1>11. \A d \in Callers : Task(d)' = Task(d) => command'[d] = command[d] \/ ended' # {} \/ Task(d).kind # "uninstall"
    <2>1. Task(c).kind = "uninstall" => ended' # {}
      BY <1>1, <1>2, <1>3 DEF UpkeepTypes, Removals
    <2>2. QED
      BY <1>8, <2>1
  <1>12. /\ preparedRow' = NoRow \/ \E n \in UpkeepNames : preparedRow' = n /\ Referred(n)
         /\ ended' = {} => preparedRow' \notin Leftovers
    BY <1>1, <1>3, RowIsReferred DEF UpkeepIInv, AtHome
  <1>13. QED
    BY <1>3, <1>8, <1>9, <1>10, <1>11, <1>12, CalmKeeps

\* The folders of a repair, by the names its thread and the invariant have for them.
LEMMA RepairStands ==
    ASSUME UpkeepTypes, NEW c \in Callers, NEW at \in Tries \cup {"old", "row"}, CallerAt(c, "repair", at)
    PROVE  /\ command[c] \in Repairs /\ Task(c) = command[c] /\ Task(c).kind = "repair" /\ Task(c).at = at
           /\ Stage(c) = StageOf(c) /\ Repair(c) = RepairOf(c) /\ Backup(c) = BackupOf(c)
           /\ {StageOf(c), RepairOf(c), BackupOf(c)} \subseteq Leftovers
           /\ Task(c).k \in 1..MaxRepairs /\ Task(c).root \in UpkeepNames
  <1>1. at # "removing"
    BY DEF Tries, Builds
  <1>2. command[c] \in Repairs /\ Task(c) = command[c]
    BY <1>1, TaskTypes DEF CallerAt
  <1>3. QED
    BY <1>2, NamesApart DEF Stage, Repair, Backup, StageOf, RepairOf, BackupOf, Repairs, CallerAt

LEMMA AbandonStageKeeps ==
    ASSUME UpkeepIInv, NEW c \in Callers, NEW at \in Tries, CallerAt(c, "repair", at),
           NEW path \in {StageOf(c), RepairOf(c)}, AbandonStage(c, path),
           UNCHANGED <<preparedRow, health, repairs, user, lost, ended>>
    PROVE  UpkeepIInv'
  <1>1. UpkeepTypes
    BY DEF UpkeepIInv
  <1>2. /\ command[c] \in Repairs /\ Task(c) = command[c] /\ Task(c).kind = "repair" /\ Task(c).at = at
        /\ path \in Leftovers /\ Task(c).k \in 1..MaxRepairs
    BY <1>1, RepairStands
  <1>3. CASE OnDisk(path)
    <2>1. RemoveTree(c, path, "idle")
      BY <1>3 DEF AbandonStage
    <2>2. folder[path].marker # "foreign"
      BY <1>2 DEF UpkeepIInv, ForeignIsSafe, StageOf, RepairOf
    <2>3. Doomed(path)
      BY <1>2 DEF Doomed, RepairIs
    <2>4. ended' = ended /\ ended \subseteq {"uninstalled", "chosen", "raced"}
      BY <1>1 DEF UpkeepTypes, UpkeepTypeOK
    <2>5. command[c].kind # "uninstall"
      BY <1>2
    <2>6. QED
      BY <1>2, <1>3, <2>1, <2>2, <2>3, <2>4, <2>5, RemovalKeeps, NamesApart
  <1>4. CASE ~OnDisk(path)
    BY <1>4, DoneKeeps DEF AbandonStage
  <1>5. QED
    BY <1>3, <1>4

LEMMA AbandonRepairKeeps ==
    ASSUME UpkeepIInv, NEW c \in Callers, AbandonRepair(c)
    PROVE  UpkeepIInv'
  <1>1. CallerAt(c, "repair", "abandon") /\ "abandon" \in Tries
    BY DEF AbandonRepair, Tries
  <1>2. Repair(c) = RepairOf(c)
    BY <1>1, RepairStands DEF UpkeepIInv
  <1>3. QED
    BY <1>1, <1>2, AbandonStageKeeps DEF AbandonRepair

LEMMA RemoveOldKeeps ==
    ASSUME UpkeepIInv, NEW c \in Callers, RemoveOld(c)
    PROVE  UpkeepIInv'
  <1>1. UpkeepTypes
    BY DEF UpkeepIInv
  <1>2. CallerAt(c, "repair", "old") /\ UNCHANGED <<preparedRow, health, repairs, user, lost, ended>>
    BY DEF RemoveOld
  <1>3. /\ command[c] \in Repairs /\ Task(c) = command[c] /\ Task(c).kind = "repair" /\ Task(c).at = "old"
        /\ Backup(c) = BackupOf(c) /\ BackupOf(c) \in Leftovers
    BY <1>1, <1>2, RepairStands
  <1>4. ended' = ended /\ ended \subseteq {"uninstalled", "chosen", "raced"}
    BY <1>1, <1>2 DEF UpkeepTypes, UpkeepTypeOK
  <1>5. CASE Owned(BackupOf(c))
    <2>1. RemoveTree(c, BackupOf(c), "row")
      BY <1>3, <1>5 DEF RemoveOld
    <2>2. OnDisk(BackupOf(c)) /\ folder[BackupOf(c)].marker # "foreign"
      BY <1>5 DEF Owned, OnDisk, NoFolder
    <2>3. Doomed(BackupOf(c))
      BY <1>3 DEF Doomed, RepairIs
    <2>4. "row" \in Goals(command[c].kind) /\ command[c].kind # "uninstall"
      BY <1>3 DEF Goals
    <2>5. QED
      BY <1>2, <1>3, <1>4, <2>1, <2>2, <2>3, <2>4, RemovalKeeps, NamesApart
  <1>6. CASE ~Owned(BackupOf(c))
    <2> DEFINE v == [command[c] EXCEPT !.at = "row"]
    <2>1. command' = [command EXCEPT ![c] = v] /\ UNCHANGED folder
      BY <1>1, <1>3, <1>6 DEF RemoveOld, CallerGoes, UpkeepTypes
    <2>2. v \in PlainTasks /\ v.kind = "repair" /\ v.at = "row" /\ v.k = Task(c).k /\ v.root = Task(c).root
      BY <1>3 DEF Repairs, PlainTasks
    <2> HIDE DEF v
    <2>3. /\ UpkeepTypes' /\ command'[c] = v /\ Task(c)' = v
          /\ \A d \in Callers \ {c} : Task(d)' = Task(d) /\ command'[d] = command[d]
      BY <1>1, <1>2, <2>1, <2>2, CallerMoves DEF UpkeepTypes, UpkeepTypeOK, Directories, States, user
    <2>4. \A n \in UpkeepNames : Fades(n)
      BY <2>1 DEF Fades
    <2>5. \A d \in Callers : Task(d)' = Task(d) \/ Rests(d)
      BY <1>3, <2>2, <2>3 DEF Rests
    <2>6. \A d \in Callers : Task(d)' = Task(d) => command'[d] = command[d] \/ ended' # {} \/ Task(d).kind # "uninstall"
      BY <1>3, <2>3
    <2>7. /\ preparedRow' = NoRow \/ \E n \in UpkeepNames : preparedRow' = n /\ Referred(n)
          /\ ended' = {} => preparedRow' \notin Leftovers
      BY <1>1, <1>2, RowIsReferred DEF UpkeepIInv, AtHome
    <2>8. QED
      BY <1>2, <2>3, <2>4, <2>5, <2>6, <2>7, CalmKeeps
  <1>7. QED
    BY <1>5, <1>6

LEMMA UninstallKeeps ==
    ASSUME UpkeepIInv, NEW c \in Callers, UninstallFolder(c) \/ UninstallRow(c)
    PROVE  UpkeepIInv'
  <1>1. UpkeepTypes
    BY DEF UpkeepIInv
  <1>2. CASE UninstallRow(c)
    BY <1>2, DoneKeeps DEF UninstallRow, disk
  <1>3. CASE UninstallFolder(c)
    <2>1. command[c] \in Uninstalls /\ command[c].root \in UpkeepNames
      BY <1>1, <1>3, TaskTypes DEF UninstallFolder, CallerAt, Uninstalls
    <2>2. CASE Owned(command[c].root)
      <3>1. RemoveTree(c, command[c].root, "row") /\ ended' = ended \cup {"uninstalled"}
        BY <1>3, <2>2 DEF UninstallFolder
      <3>2. OnDisk(command[c].root) /\ folder[command[c].root].marker # "foreign"
        BY <2>2 DEF Owned, OnDisk, NoFolder
      <3>3. "row" \in Goals(command[c].kind)
        BY <2>1 DEF Goals, Uninstalls
      <3>4. ended' \subseteq {"uninstalled", "chosen", "raced"} /\ ended' # {}
        BY <1>1, <3>1 DEF UpkeepTypes, UpkeepTypeOK
      <3>5. QED
        BY <1>3, <2>1, <3>1, <3>2, <3>3, <3>4, RemovalKeeps DEF UninstallFolder
    <2>3. CASE ~Owned(command[c].root)
      BY <1>3, <2>3, DoneKeeps DEF UninstallFolder
    <2>4. QED
      BY <2>2, <2>3
  <1>4. QED
    BY <1>2, <1>3

LEMMA SweepEntryKeeps ==
    ASSUME UpkeepIInv, NEW c \in Callers, RemoveEntry(c) \/ EndCleanup(c)
    PROVE  UpkeepIInv'
  <1>1. UpkeepTypes
    BY DEF UpkeepIInv
  <1>2. CASE EndCleanup(c)
    BY <1>2, DoneKeeps DEF EndCleanup, disk
  <1>3. CASE RemoveEntry(c)
    <2>1. /\ command[c] \in Sweeps /\ Task(c) = command[c] /\ command[c].at = "remove"
          /\ command[c].kind = "cleanup"
      BY <1>1, <1>3, TaskTypes DEF RemoveEntry, CallerAt
    <2>2. command[c].entry \in Leftovers
      BY <2>1 DEF Sweeps
    <2>3. CASE OnDisk(command[c].entry)
      <3>1. RemoveTree(c, command[c].entry, "list")
        BY <1>3, <2>3 DEF RemoveEntry
      <3>2. Referred(command[c].entry) /\ Doomed(command[c].entry)
        BY <2>1 DEF Referred, Doomed
      <3>3. folder[command[c].entry].marker # "foreign"
        BY <2>2, <3>2 DEF UpkeepIInv, ReferredIsOurs
      <3>4. "list" \in Goals(command[c].kind)
        BY <2>1 DEF Goals
      <3>5. ended' = ended /\ ended \subseteq {"uninstalled", "chosen", "raced"}
        BY <1>1, <1>3 DEF RemoveEntry, UpkeepTypes, UpkeepTypeOK
      <3>6. QED
        BY <1>3, <2>1, <2>2, <2>3, <3>1, <3>2, <3>3, <3>4, <3>5, RemovalKeeps, NamesApart DEF RemoveEntry
    <2>4. CASE ~OnDisk(command[c].entry)
      BY <1>3, <2>4, DoneKeeps DEF RemoveEntry
    <2>5. QED
      BY <2>3, <2>4
  <1>4. QED
    BY <1>2, <1>3

\* What the steps of a repair up to its own name have in common.
LEMMA BuildMoves ==
    ASSUME UpkeepTypes, NEW c \in Callers, NEW at \in Builds, NEW to \in Builds,
           CallerAt(c, "repair", at), CallerGoes(c, to),
           folder' \in [UpkeepNames -> Directories], ended \subseteq ended',
           ended' \subseteq {"uninstalled", "chosen", "raced"},
           UNCHANGED <<preparedRow, health, repairs, user, lost>>
    PROVE  /\ UpkeepTypes' /\ RepairIs(c, Builds) /\ RepairIs(c, Builds)'
           /\ Task(c)'.k = Task(c).k /\ Task(c)'.root = Task(c).root /\ Task(c)'.at = to
           /\ \A d \in Callers \ {c} : Task(d)' = Task(d) /\ command'[d] = command[d]
           /\ StageOf(c)' = StageOf(c) /\ RepairOf(c)' = RepairOf(c)
           /\ Stage(c) = StageOf(c) /\ Repair(c) = RepairOf(c)
           /\ StageOf(c) \in UpkeepNames /\ RepairOf(c) \in UpkeepNames /\ StageOf(c) # RepairOf(c)
  <1>1. at \in Tries \cup {"old", "row"}
    BY DEF Tries
  <1>2. /\ command[c] \in Repairs /\ Task(c) = command[c] /\ Task(c).kind = "repair" /\ Task(c).at = at
        /\ Stage(c) = StageOf(c) /\ Repair(c) = RepairOf(c)
        /\ {StageOf(c), RepairOf(c)} \subseteq Leftovers /\ Task(c).k \in 1..MaxRepairs
    BY <1>1, RepairStands
  <1> DEFINE v == [command[c] EXCEPT !.at = to]
  <1>3. command' = [command EXCEPT ![c] = v]
    BY DEF CallerGoes, UpkeepTypes
  <1>4. v \in Repairs /\ v.kind = "repair" /\ v.at = to /\ v.k = Task(c).k /\ v.root = Task(c).root
    BY <1>2 DEF Repairs, Tries
  <1> HIDE DEF v
  <1>5. /\ UpkeepTypes' /\ Task(c)' = v
        /\ \A d \in Callers \ {c} : Task(d)' = Task(d) /\ command'[d] = command[d]
    BY <1>3, <1>4, CallerMoves DEF PlainTasks, UpkeepTypes, UpkeepTypeOK, Directories, States, user
  <1>6. StageOf(c)' = StageOf(c) /\ RepairOf(c)' = RepairOf(c) /\ StageOf(c) # RepairOf(c)
    BY <1>2, <1>4, <1>5, NamesApart DEF StageOf, RepairOf
  <1>7. RepairIs(c, Builds) /\ RepairIs(c, Builds)'
    BY <1>2, <1>4, <1>5 DEF RepairIs
  <1>8. QED
    BY <1>2, <1>4, <1>5, <1>6, <1>7, NamesApart

LEMMA OwnFoldersAreOurs ==
    ASSUME UpkeepIInv, NEW c \in Callers, Task(c).k \in 1..MaxRepairs
    PROVE  folder[StageOf(c)].marker # "foreign" /\ folder[RepairOf(c)].marker # "foreign"
  BY DEF UpkeepIInv, ForeignIsSafe, StageOf, RepairOf

\* The steps that change nothing but the staging folder.
LEMMA StageStepKeeps ==
    ASSUME UpkeepIInv, NEW c \in Callers, NEW at \in Builds, NEW to \in {"unpack", "verify", "sign", "activate"},
           CallerAt(c, "repair", at), CallerGoes(c, to), NEW f \in Directories,
           folder' = [folder EXCEPT ![Stage(c)] = f], f.marker # "foreign",
           ended = {} /\ to \in {"sign", "activate"} /\ f # NoFolder /\ ~f.fading
             => UnpackedFiles \subseteq f.files,
           to = "activate" /\ f # NoFolder => f.marker = "own",
           UNCHANGED <<preparedRow, health, repairs, user, lost, ended>>
    PROVE  UpkeepIInv'
  <1>1. UpkeepTypes /\ folder \in [UpkeepNames -> Directories] /\ ended \subseteq {"uninstalled", "chosen", "raced"}
    BY DEF UpkeepIInv, UpkeepTypes, UpkeepTypeOK, Directories
  <1>2. at \in Tries \cup {"old", "row"} /\ to \in Builds
    BY DEF Tries, Builds
  <1>3. Stage(c) = StageOf(c) /\ StageOf(c) \in UpkeepNames /\ Task(c).k \in 1..MaxRepairs
    BY <1>1, <1>2, RepairStands, NamesApart
  <1>4. folder' \in [UpkeepNames -> Directories] /\ folder'[StageOf(c)] = f
    BY <1>1, <1>3
  <1>5. /\ UpkeepTypes' /\ RepairIs(c, Builds) /\ RepairIs(c, Builds)'
        /\ Task(c)'.k = Task(c).k /\ Task(c)'.root = Task(c).root /\ Task(c)'.at = to
        /\ \A d \in Callers \ {c} : Task(d)' = Task(d) /\ command'[d] = command[d]
        /\ StageOf(c)' = StageOf(c) /\ RepairOf(c)' = RepairOf(c)
        /\ RepairOf(c) \in UpkeepNames /\ StageOf(c) # RepairOf(c)
    BY <1>1, <1>2, <1>4, BuildMoves
  <1>6. \A n \in UpkeepNames \ {StageOf(c)} : folder'[n] = folder[n]
    BY <1>1, <1>3
  <1>7. folder'[RepairOf(c)].marker # "foreign"
    BY <1>3, <1>5, <1>6, OwnFoldersAreOurs
  <1>8. Steady(StageOf(c))' => f # NoFolder /\ ~f.fading
    BY <1>4, <1>5 DEF Steady, OnDisk
  <1>9. /\ ended' = {} /\ Task(c)'.at \in {"sign", "activate"} /\ Steady(StageOf(c))' => Missing(StageOf(c))' = {}
        /\ Task(c)'.at = "activate" /\ Steady(StageOf(c))' => Owned(StageOf(c))'
    BY <1>4, <1>5, <1>8 DEF Missing, Collected, Owned
  <1>10. QED
    BY <1>4, <1>5, <1>6, <1>7, <1>9, BuildKeeps

LEMMA CreateStageKeeps ==
    ASSUME UpkeepIInv, NEW c \in Callers, CreateStage(c)
    PROVE  UpkeepIInv'
  <1> DEFINE f == FolderOf("stage", {})
  <1>1. f \in Directories /\ f.marker # "foreign"
    BY DEF FolderOf, Directories
  <1>2. /\ CallerAt(c, "repair", "create") /\ CallerGoes(c, "unpack")
        /\ folder' = [folder EXCEPT ![Stage(c)] = f]
        /\ UNCHANGED <<preparedRow, health, repairs, user, lost, ended>>
    BY DEF CreateStage
  <1> HIDE DEF f
  <1>3. QED
    BY <1>1, <1>2, StageStepKeeps DEF Builds

LEMMA UnpackRepairKeeps ==
    ASSUME UpkeepIInv, NEW c \in Callers, UnpackRepair(c)
    PROVE  UpkeepIInv'
  <1>1. folder \in [UpkeepNames -> Directories] /\ UpkeepTypes
    BY DEF UpkeepIInv, UpkeepTypes, UpkeepTypeOK, Directories
  <1>2. /\ CallerAt(c, "repair", "unpack") /\ "unpack" \in Builds /\ "unpack" \in Tries
        /\ UNCHANGED <<preparedRow, health, repairs, user, lost, ended>>
    BY DEF UnpackRepair, Builds, Tries
  <1>3. Stage(c) = StageOf(c) /\ StageOf(c) \in UpkeepNames /\ Task(c).k \in 1..MaxRepairs
    BY <1>1, <1>2, RepairStands, NamesApart
  <1>4. CASE archives /\ OnDisk(Stage(c))
    <2> DEFINE f == [folder[Stage(c)] EXCEPT !.files = UnpackedFiles]
    <2>1. folder' = [folder EXCEPT ![Stage(c)] = f] /\ CallerGoes(c, "verify")
      BY <1>1, <1>4 DEF UnpackRepair
    <2>2. f \in Directories /\ f.marker = folder[Stage(c)].marker
      BY <1>1, <1>3 DEF Directories
    <2>3. f.marker # "foreign"
      BY <1>3, <2>2, OwnFoldersAreOurs
    <2> HIDE DEF f
    <2>4. QED
      BY <1>2, <2>1, <2>2, <2>3, StageStepKeeps
  <1>5. CASE ~(archives /\ OnDisk(Stage(c)))
    <2>1. AbandonStage(c, StageOf(c))
      BY <1>3, <1>5 DEF UnpackRepair
    <2>2. QED
      BY <1>2, <2>1, AbandonStageKeeps
  <1>6. QED
    BY <1>4, <1>5

LEMMA VerifyStageKeeps ==
    ASSUME UpkeepIInv, NEW c \in Callers, VerifyStage(c)
    PROVE  UpkeepIInv'
  <1>1. folder \in [UpkeepNames -> Directories] /\ UpkeepTypes
    BY DEF UpkeepIInv, UpkeepTypes, UpkeepTypeOK, Directories
  <1>2. /\ CallerAt(c, "repair", "verify") /\ "verify" \in Builds /\ "verify" \in Tries
        /\ UNCHANGED <<preparedRow, health, repairs, user, lost, ended>>
    BY DEF VerifyStage, Builds, Tries
  <1>3. Stage(c) = StageOf(c) /\ StageOf(c) \in UpkeepNames
    BY <1>1, <1>2, RepairStands, NamesApart
  <1>4. CASE Missing(Stage(c)) = {} /\ folder[Stage(c)].marker = "stage"
    <2> DEFINE f == [folder[Stage(c)] EXCEPT !.marker = "none"]
    <2>1. folder' = [folder EXCEPT ![Stage(c)] = f] /\ CallerGoes(c, "sign")
      BY <1>1, <1>4 DEF VerifyStage
    <2>2. f \in Directories /\ f.marker = "none" /\ UnpackedFiles \subseteq f.files
      BY <1>1, <1>3, <1>4 DEF Directories, Missing, Collected
    <2> HIDE DEF f
    <2>3. QED
      BY <1>2, <2>1, <2>2, StageStepKeeps
  <1>5. CASE ~(Missing(Stage(c)) = {} /\ folder[Stage(c)].marker = "stage")
    <2>1. AbandonStage(c, StageOf(c))
      BY <1>3, <1>5 DEF VerifyStage
    <2>2. QED
      BY <1>2, <2>1, AbandonStageKeeps
  <1>6. QED
    BY <1>4, <1>5

LEMMA SignStageKeeps ==
    ASSUME UpkeepIInv, NEW c \in Callers, SignStage(c)
    PROVE  UpkeepIInv'
  <1>1. folder \in [UpkeepNames -> Directories] /\ UpkeepTypes
    BY DEF UpkeepIInv, UpkeepTypes, UpkeepTypeOK, Directories
  <1>2. /\ CallerAt(c, "repair", "sign") /\ "sign" \in Builds /\ "sign" \in Tries
        /\ UNCHANGED <<preparedRow, health, repairs, user, lost, ended>>
    BY DEF SignStage, Builds, Tries
  <1>3. /\ Stage(c) = StageOf(c) /\ StageOf(c) \in UpkeepNames
        /\ Task(c).kind = "repair" /\ Task(c).at = "sign"
    BY <1>1, <1>2, RepairStands, NamesApart
  <1>4. CASE OnDisk(Stage(c))
    <2> DEFINE f == [folder[Stage(c)] EXCEPT !.marker = "own"]
    <2>1. folder' = [folder EXCEPT ![Stage(c)] = f] /\ CallerGoes(c, "activate")
      BY <1>1, <1>4 DEF SignStage
    <2>2. /\ f \in Directories /\ f.marker = "own"
          /\ f.files = folder[Stage(c)].files /\ f.fading = folder[Stage(c)].fading
      BY <1>1, <1>3 DEF Directories
    <2>3. ended = {} /\ ~f.fading => UnpackedFiles \subseteq f.files
      BY <1>3, <1>4, <2>2 DEF UpkeepIInv, RepairIsWhole, RepairIs, Steady, Missing, Collected
    <2> HIDE DEF f
    <2>4. QED
      BY <1>2, <2>1, <2>2, <2>3, StageStepKeeps
  <1>5. CASE ~OnDisk(Stage(c))
    BY <1>2, <1>5, DoneKeeps DEF SignStage
  <1>6. QED
    BY <1>4, <1>5

LEMMA NameRepairKeeps ==
    ASSUME UpkeepIInv, NEW c \in Callers, NameRepair(c)
    PROVE  UpkeepIInv'
  <1>1. folder \in [UpkeepNames -> Directories] /\ UpkeepTypes /\ ended \subseteq {"uninstalled", "chosen", "raced"}
    BY DEF UpkeepIInv, UpkeepTypes, UpkeepTypeOK, Directories
  <1>2. /\ CallerAt(c, "repair", "activate") /\ "activate" \in Builds /\ "activate" \in Tries
        /\ "displace" \in Builds /\ UNCHANGED <<preparedRow, health, repairs, user>>
    BY DEF NameRepair, Builds, Tries
  <1>3. /\ Stage(c) = StageOf(c) /\ StageOf(c) \in UpkeepNames /\ Repair(c) = RepairOf(c)
        /\ RepairOf(c) \in UpkeepNames /\ StageOf(c) # RepairOf(c)
        /\ Task(c).kind = "repair" /\ Task(c).at = "activate" /\ Task(c).k \in 1..MaxRepairs
    BY <1>1, <1>2, RepairStands, NamesApart DEF StageOf, RepairOf
  <1>4. CASE OnDisk(Stage(c))
    <2>1. Renamed(StageOf(c), RepairOf(c)) /\ CallerGoes(c, "displace")
      BY <1>3, <1>4 DEF NameRepair
    <2>2. /\ folder' \in [UpkeepNames -> Directories]
          /\ \A n \in UpkeepNames \ {StageOf(c), RepairOf(c)} : folder'[n] = folder[n]
          /\ folder'[RepairOf(c)] = folder[StageOf(c)] /\ folder'[StageOf(c)] = NoFolder
          /\ ended' \subseteq {"uninstalled", "chosen", "raced"} /\ ended \subseteq ended'
          /\ ended' = {} => ~folder[StageOf(c)].fading
          /\ lost' = lost
      BY <1>1, <1>3, <2>1, RenamedFacts
    <2>3. /\ UpkeepTypes' /\ RepairIs(c, Builds) /\ RepairIs(c, Builds)'
          /\ Task(c)'.k = Task(c).k /\ Task(c)'.root = Task(c).root /\ Task(c)'.at = "displace"
          /\ \A d \in Callers \ {c} : Task(d)' = Task(d) /\ command'[d] = command[d]
          /\ StageOf(c)' = StageOf(c) /\ RepairOf(c)' = RepairOf(c)
      BY <1>1, <1>2, <2>1, <2>2, BuildMoves
    <2>4. folder'[StageOf(c)].marker # "foreign" /\ folder'[RepairOf(c)].marker # "foreign"
      BY <1>3, <2>2, OwnFoldersAreOurs DEF NoFolder
    <2>5. ended' = {} => Owned(RepairOf(c))' /\ Missing(RepairOf(c))' = {}
      BY <1>3, <1>4, <2>2, <2>3
      DEF UpkeepIInv, RepairIsWhole, RepairIs, Steady, Missing, Collected, Owned
    <2>6. QED
      BY <1>2, <2>2, <2>3, <2>4, <2>5, BuildKeeps
  <1>5. CASE ~OnDisk(Stage(c))
    BY <1>2, <1>5, DoneKeeps DEF NameRepair, disk
  <1>6. QED
    BY <1>4, <1>5

\* A thread begins something, or a cleanup takes an entry for abandoned: nothing on the
\* disk changes, and what it may remove later is not what the others rely on.
LEMMA BeginKeeps ==
    ASSUME UpkeepIInv, NEW c \in Callers, UpkeepTypes',
           Task(c).kind \in {"idle", "cleanup"}, Task(c)' \in PlainTasks, command'[c] = Task(c)',
           \A d \in Callers \ {c} : Task(d)' = Task(d) /\ command'[d] = command[d],
           UNCHANGED <<folder, lost, ended, preparedRow>>,
           repairs' = IF Task(c)'.kind = "repair" THEN repairs + 1 ELSE repairs,
           Task(c)'.kind = "repair" => /\ Task(c)'.at = "create" /\ Task(c)'.k = repairs + 1
                                       /\ Task(c)'.root = preparedRow /\ InParent(preparedRow),
           Task(c)'.kind = "relocate" => Owned(Task(c)'.to),
           Task(c)'.kind = "uninstall" => Task(c)'.at = "remove",
           Task(c)'.kind = "cleanup" /\ ended = {} => Task(c)'.known = Dest,
           Task(c)'.kind = "cleanup" /\ Task(c)'.at = "remove" =>
             /\ Task(c)'.entry \in Leftovers
             /\ OnDisk(Task(c)'.entry) /\ folder[Task(c)'.entry].marker # "foreign"
             /\ ended = {} /\ Owned(Task(c)'.entry) => Owned(Dest)
    PROVE  UpkeepIInv'
  <1>t. /\ UpkeepTypes /\ folder \in [UpkeepNames -> Directories] /\ repairs \in 0..MaxRepairs
        /\ repairs' \in 0..MaxRepairs
    BY TaskTypes DEF UpkeepIInv, UpkeepTypes, UpkeepTypeOK, Directories
  <1>k. \A d \in Callers : Task(d).kind = "repair" => Task(d) \in Repairs
    BY <1>t, TaskTypes
  <1>v. \A d \in Callers : Task(d)'.kind = "repair" => Task(d)' \in Repairs
    BY <1>k DEF PlainTasks, NoCommand, Sweeps, Uninstalls, Relocations
  <1>s. \A d \in Callers : Task(d)'.kind = "cleanup" /\ Task(d)'.at = "remove" => Task(d)'.entry \in Leftovers
    BY <1>t, TaskTypes DEF Sweeps
  <1>w. Task(c)'.kind = "repair" => repairs + 1 \in 1..MaxRepairs /\ repairs' = repairs + 1
    BY <1>t
  <1>o. \A d \in Callers \ {c} : /\ \A s : RepairIs(d, s)' <=> RepairIs(d, s)
                                 /\ StageOf(d)' = StageOf(d) /\ RepairOf(d)' = RepairOf(d) /\ BackupOf(d)' = BackupOf(d)
    BY DEF RepairIs, StageOf, RepairOf, BackupOf
  <1>c. \A s : ~RepairIs(c, s)
    BY DEF RepairIs
  <1>n. \A s \in SUBSET Repairing : RepairIs(c, s)' =>
          /\ Task(c)'.kind = "repair" /\ Task(c)'.at = "create" /\ "create" \in s
          /\ Task(c)'.k = repairs + 1 /\ repairs' = repairs + 1
          /\ StageOf(c)' = Left("stage", repairs + 1) /\ RepairOf(c)' = Left("repair", repairs + 1)
          /\ BackupOf(c)' = Left("backup", repairs + 1)
    BY DEF RepairIs, StageOf, RepairOf, BackupOf
  <1>f. \A n \in UpkeepNames : Referred(n)' =>
          Referred(n) \/ (OnDisk(n) /\ folder[n].marker # "foreign")
    BY DEF Referred, Owned, OnDisk, NoFolder
  <1>l. \A n \in Leftovers : OnDisk(n) => n[2] <= repairs
    BY <1>t, NamesApart DEF UpkeepIInv, NamesAreNew, OnDisk
  <1>1. NamesAreNew'
    <2>1. \A k \in 1..MaxRepairs, s \in {"stage", "repair", "backup"} :
             k > repairs' => folder[Left(s, k)] = NoFolder
      BY <1>t DEF UpkeepIInv, NamesAreNew
    <2>2. \A d \in Callers \ {c} : RepairIs(d, Repairing)' =>
             Task(d)'.k = Task(d).k /\ Task(d).k <= repairs /\ RepairIs(d, Repairing) /\ Task(d).k \in 1..MaxRepairs
      BY <1>o, <1>k DEF UpkeepIInv, NamesAreNew, RepairIs, Repairs
    <2>3. RepairIs(c, Repairing)' => Task(c)'.k = repairs + 1 /\ repairs' = repairs + 1
      BY <1>n
    <2>4. \A d \in Callers : RepairIs(d, Repairing)' => Task(d)'.k <= repairs'
      BY <1>t, <2>2, <2>3
    <2>5. ASSUME NEW d \in Callers, NEW e \in Callers, d # e, RepairIs(d, Repairing)', RepairIs(e, Repairing)'
          PROVE  Task(d)'.k # Task(e)'.k
      <3>1. CASE d # c /\ e # c
        BY <2>2, <2>5, <3>1 DEF UpkeepIInv, NamesAreNew
      <3>2. CASE d = c \/ e = c
        BY <1>t, <2>2, <2>3, <2>5, <3>2
      <3>3. QED
        BY <3>1, <3>2
    <2>6. \A d \in Callers \ {c} : RepairIs(d, Builds)' => folder[BackupOf(d)'] = NoFolder
      BY <1>o DEF UpkeepIInv, NamesAreNew
    <2>7. RepairIs(c, Builds)' => folder[BackupOf(c)'] = NoFolder
      <3>1. Builds \in SUBSET Repairing
        BY DEF Repairing, Tries
      <3>2. SUFFICES ASSUME RepairIs(c, Builds)' PROVE folder[BackupOf(c)'] = NoFolder
        OBVIOUS
      <3>3. Task(c)'.kind = "repair" /\ BackupOf(c)' = Left("backup", repairs + 1)
        BY <1>n, <3>1, <3>2
      <3>4. repairs + 1 \in 1..MaxRepairs /\ repairs + 1 > repairs
        BY <1>t, <1>w, <3>3
      <3>5. QED
        BY <3>3, <3>4 DEF UpkeepIInv, NamesAreNew
    <2>8. QED
      BY <2>1, <2>4, <2>5, <2>6, <2>7 DEF NamesAreNew
  <1>2. ReferredIsOurs'
    <2> SUFFICES ASSUME NEW n \in Leftovers, Referred(n)'
                 PROVE  /\ folder[n].marker # "foreign" /\ n[2] <= repairs'
                        /\ \A d \in Callers : RepairIs(d, Builds)' => n # BackupOf(d)'
      BY DEF ReferredIsOurs
    <2>1. folder[n].marker # "foreign" /\ n[2] <= repairs
      BY <1>f, <1>l, NamesApart DEF UpkeepIInv, ReferredIsOurs, OnDisk
    <2>2. n[2] <= repairs' /\ n \in UpkeepNames
      BY <2>1, <1>t, NamesApart
    <2>3. \A d \in Callers \ {c} : RepairIs(d, Builds)' => n # BackupOf(d)'
      <3>1. CASE Referred(n)
        BY <1>o, <3>1 DEF UpkeepIInv, ReferredIsOurs
      <3>2. CASE OnDisk(n)
        BY <1>o, <3>2 DEF UpkeepIInv, NamesAreNew, OnDisk
      <3>3. QED
        BY <1>f, <2>2, <3>1, <3>2
    <2>4. RepairIs(c, Builds)' => n # BackupOf(c)'
      BY <1>n, <1>t, <1>w, <2>1, NamesApart DEF Repairing, Tries
    <2>5. QED
      BY <2>1, <2>2, <2>3, <2>4
  <1>3. ForeignIsSafe'
    BY <1>o, <1>n DEF UpkeepIInv, ForeignIsSafe, Repairing, Tries
  <1>4. ended' = {} => AtHome'
    <2> SUFFICES ASSUME ended = {} PROVE AtHome'
      OBVIOUS
    <2>1. AtHome
      BY DEF UpkeepIInv
    <2>2. preparedRow' \notin Leftovers /\ \A n \in {Dest, Away} : ~folder'[n].fading /\ (Owned(n)' => WholeAt(n)')
      BY <2>1 DEF AtHome, Owned, WholeAt
    <2>3. ASSUME NEW d \in Callers
          PROVE  /\ Task(d)'.kind = "repair" => Task(d)'.root = Dest
                 /\ Task(d)'.kind = "cleanup" => Task(d)'.known = Dest
                 /\ Task(d)'.kind = "uninstall" => Task(d)'.at = "remove" /\ command'[d].at # "removing"
      <3>1. CASE d # c
        BY <2>1, <3>1 DEF AtHome
      <3>2. CASE d = c
        <4>1. Task(c)'.kind = "repair" => preparedRow = Dest
          <5>1. Task(c)'.kind = "repair" => preparedRow \in UpkeepNames
            BY <1>v, NamesApart DEF Repairs
          <5>2. QED
            BY <2>1, <5>1, NamesApart DEF AtHome, InParent
        <4>2. QED
          BY <3>2, <4>1
      <3>3. QED
        BY <3>1, <3>2
    <2>4. QED
      BY <2>2, <2>3 DEF AtHome
  <1>5. ended' = {} => RepairIsWhole'
    BY <1>o, <1>n DEF UpkeepIInv, RepairIsWhole, Steady, OnDisk, Owned, Missing, Collected, WholeAt, Repairing, Tries, Builds
  <1>6. ended' = {} => OneIsSafe'
    <2> SUFFICES ASSUME ended = {} PROVE OneIsSafe'
      OBVIOUS
    <2>1. CASE Task(c)'.kind = "cleanup" /\ Task(c)'.at = "remove" /\ Owned(Task(c)'.entry)
      <3>1. ~Doomed(Dest)'
        <4> SUFFICES ASSUME NEW d \in Callers,
                  \/ RepairIs(d, Tries)' /\ Dest \in {StageOf(d), RepairOf(d)}'
                  \/ RepairIs(d, {"old"})' /\ Dest = BackupOf(d)'
                  \/ Task(d)'.kind = "cleanup" /\ Task(d)'.at = "remove" /\ Dest = Task(d)'.entry
                PROVE FALSE
          BY DEF Doomed
        <4>1. CASE Task(d)'.kind = "repair"
          <5>1. Dest \notin {StageOf(d)', RepairOf(d)', BackupOf(d)'}
            BY <1>v, <4>1, NamesApart DEF StageOf, RepairOf, BackupOf, Repairs
          <5>2. QED
            BY <4>1, <5>1 DEF RepairIs
        <4>2. CASE Task(d)'.kind = "cleanup" /\ Task(d)'.at = "remove"
          <5>1. Task(d)'.entry \in Leftovers
            BY <1>s, <4>2
          <5>2. QED
            BY <4>2, <5>1, NamesApart DEF RepairIs
        <4>3. QED
          BY <4>1, <4>2 DEF RepairIs
      <3>2. QED
        BY <2>1, <3>1, NamesApart DEF UpkeepIInv, AtHome, OneIsSafe, Owned, WholeAt
    <2>2. CASE ~(Task(c)'.kind = "cleanup" /\ Task(c)'.at = "remove" /\ Owned(Task(c)'.entry))
      <3>1. PICK n \in UpkeepNames : Owned(n) /\ WholeAt(n) /\ ~folder[n].fading /\ ~Doomed(n)
        BY DEF UpkeepIInv, OneIsSafe
      <3>2. ~Doomed(n)'
        <4> SUFFICES ASSUME NEW d \in Callers,
                  \/ RepairIs(d, Tries)' /\ n \in {StageOf(d)', RepairOf(d)'}
                  \/ RepairIs(d, {"old"})' /\ n = BackupOf(d)'
                  \/ Task(d)'.kind = "cleanup" /\ Task(d)'.at = "remove" /\ n = Task(d)'.entry
                PROVE FALSE
          BY DEF Doomed
        <4>1. CASE d # c
          <5>1. Doomed(n)
            BY <1>o, <4>1 DEF Doomed
          <5>2. QED
            BY <3>1, <5>1
        <4>2. CASE d = c
          <5>1. RepairIs(c, Tries)' /\ n \in {StageOf(c)', RepairOf(c)'}
            BY <1>n, <2>2, <3>1, <4>2 DEF Repairing, Tries, Builds
          <5>2. n \in {Left("stage", repairs + 1), Left("repair", repairs + 1)} /\ Task(c)'.kind = "repair"
            BY <1>n, <5>1 DEF Repairing
          <5>3. repairs + 1 \in 1..MaxRepairs /\ repairs + 1 > repairs
            BY <1>t, <1>w, <5>2
          <5>4. folder[n] = NoFolder
            BY <5>2, <5>3 DEF UpkeepIInv, NamesAreNew
          <5>5. QED
            BY <3>1, <5>4 DEF Owned, NoFolder
        <4>3. QED
          BY <4>1, <4>2
      <3>3. QED
        BY <3>1, <3>2 DEF OneIsSafe, Owned, WholeAt
    <2>3. QED
      BY <2>1, <2>2
  <1>7. QED
    BY <1>1, <1>2, <1>3, <1>4, <1>5, <1>6 DEF UpkeepIInv

LEMMA BeginActsKeep ==
    ASSUME UpkeepIInv, NEW c \in Callers,
           \/ \E n \in UpkeepNames : Relocate(c, n)
           \/ StartRepair(c) \/ StartUninstall(c) \/ StartSweep(c)
           \/ \E n \in Leftovers : JudgeEntry(c, n)
    PROVE  UpkeepIInv'
  <1>1. UpkeepTypes /\ ended \subseteq {"uninstalled", "chosen", "raced"} /\ preparedRow \in UpkeepNames \cup {NoRow}
    BY DEF UpkeepIInv, UpkeepTypes, UpkeepTypeOK
  <1>2. ASSUME NEW v \in PlainTasks, command' = [command EXCEPT ![c] = v], Task(c).kind \in {"idle", "cleanup"},
               UNCHANGED <<folder, lost, ended, preparedRow, archives, health, upkeepCrashes>>,
               acts' \in 0..MaxActs, repairs' \in 0..MaxRepairs,
               repairs' = IF v.kind = "repair" THEN repairs + 1 ELSE repairs,
               v.kind = "repair" => /\ v.at = "create" /\ v.k = repairs + 1
                                    /\ v.root = preparedRow /\ InParent(preparedRow),
               v.kind = "relocate" => Owned(v.to),
               v.kind = "uninstall" => v.at = "remove",
               v.kind = "cleanup" /\ ended = {} => v.known = Dest,
               v.kind = "cleanup" /\ v.at = "remove" =>
                 /\ v.entry \in Leftovers /\ OnDisk(v.entry) /\ folder[v.entry].marker # "foreign"
                 /\ ended = {} /\ Owned(v.entry) => Owned(Dest)
        PROVE  UpkeepIInv'
    <2>1. /\ UpkeepTypes' /\ command'[c] = v /\ Task(c)' = v
          /\ \A d \in Callers \ {c} : Task(d)' = Task(d) /\ command'[d] = command[d]
      BY <1>1, <1>2, CallerMoves DEF UpkeepTypes, UpkeepTypeOK, Directories, States
    <2>2. QED
      BY <1>2, <2>1, BeginKeeps
  <1>3. command[c] = NoCommand => Task(c).kind = "idle"
    BY DEF Task, NoCommand
  <1>4. acts \in 0..MaxActs /\ repairs \in 0..MaxRepairs
    BY <1>1 DEF UpkeepTypes, UpkeepTypeOK
  <1>5. ASSUME NEW n \in UpkeepNames, Relocate(c, n) PROVE UpkeepIInv'
    <2> DEFINE v == [kind |-> "relocate", at |-> "save", to |-> n, state |-> StateAt(n)]
    <2>1. v \in PlainTasks /\ v.kind = "relocate" /\ v.to = n
      BY StateIsOne DEF PlainTasks, Relocations, States
    <2>2. /\ command[c] = NoCommand /\ command' = [command EXCEPT ![c] = v] /\ Owned(n)
          /\ UNCHANGED <<folder, lost, ended, preparedRow, archives, health, repairs, upkeepCrashes>>
      BY <1>5 DEF Relocate, Begin, disk
    <2>3. acts' \in 0..MaxActs
      BY <1>4, <1>5, UpkeepBounds DEF Relocate, UpkeepActs
    <2> HIDE DEF v
    <2>4. QED
      BY <1>2, <1>3, <1>4, <2>1, <2>2, <2>3
  <1>6. ASSUME StartRepair(c) PROVE UpkeepIInv'
    <2> DEFINE v == [kind |-> "repair", at |-> "create", k |-> repairs + 1, root |-> preparedRow]
    <2>1. repairs + 1 \in 1..MaxRepairs /\ repairs' = repairs + 1 /\ preparedRow \in UpkeepNames
      BY <1>1, <1>4, <1>6, UpkeepBounds DEF StartRepair
    <2>2. v \in PlainTasks /\ v.kind = "repair" /\ v.at = "create" /\ v.k = repairs + 1 /\ v.root = preparedRow
      BY <2>1 DEF PlainTasks, Repairs, Tries, Builds
    <2>3. /\ command[c] = NoCommand /\ command' = [command EXCEPT ![c] = v] /\ InParent(preparedRow)
          /\ UNCHANGED <<folder, lost, ended, preparedRow, archives, health, acts, upkeepCrashes>>
      BY <1>6 DEF StartRepair, Begin, disk, user
    <2> HIDE DEF v
    <2>4. repairs' \in 0..MaxRepairs
      BY <2>1
    <2>5. QED
      BY <1>2, <1>3, <1>4, <2>1, <2>2, <2>3, <2>4
  <1>7. ASSUME StartUninstall(c) PROVE UpkeepIInv'
    <2> DEFINE v == [kind |-> "uninstall", at |-> "remove", root |-> preparedRow]
    <2>1. v \in PlainTasks /\ v.kind = "uninstall" /\ v.at = "remove"
      BY <1>1, <1>7 DEF PlainTasks, Uninstalls, StartUninstall
    <2>2. /\ command[c] = NoCommand /\ command' = [command EXCEPT ![c] = v]
          /\ UNCHANGED <<folder, lost, ended, preparedRow, archives, health, acts, repairs, upkeepCrashes>>
      BY <1>7 DEF StartUninstall, Begin, disk, user
    <2> HIDE DEF v
    <2>3. QED
      BY <1>2, <1>3, <1>4, <2>1, <2>2
  <1>8. ASSUME StartSweep(c) PROVE UpkeepIInv'
    <2> DEFINE v == [kind |-> "cleanup", at |-> "list", known |-> preparedRow, entry |-> preparedRow]
    <2>1. v \in PlainTasks /\ v.kind = "cleanup" /\ v.at = "list" /\ v.known = preparedRow
      BY <1>1, <1>8 DEF PlainTasks, Sweeps, StartSweep
    <2>2. /\ command[c] = NoCommand /\ command' = [command EXCEPT ![c] = v]
          /\ preparedRow \in UpkeepNames /\ InParent(preparedRow)
          /\ UNCHANGED <<folder, lost, ended, preparedRow, archives, health, acts, repairs, upkeepCrashes>>
      BY <1>1, <1>8 DEF StartSweep, Begin, disk, user
    <2>3. ended = {} => preparedRow = Dest
      BY <2>2, NamesApart DEF UpkeepIInv, AtHome, InParent
    <2> HIDE DEF v
    <2>4. QED
      BY <1>2, <1>3, <1>4, <2>1, <2>2, <2>3
  <1>9. ASSUME NEW n \in Leftovers, JudgeEntry(c, n) PROVE UpkeepIInv'
    <2>1. command[c] \in Sweeps /\ Task(c) = command[c] /\ Task(c).kind = "cleanup"
      BY <1>1, <1>9, TaskTypes DEF JudgeEntry, CallerAt
    <2> DEFINE v == [command[c] EXCEPT !.entry = n, !.at = "remove"]
    <2>2. v \in Sweeps /\ v.kind = "cleanup" /\ v.at = "remove" /\ v.known = command[c].known /\ v.entry = n
      BY <2>1, NamesApart DEF Sweeps
    <2>3. command' = [command EXCEPT ![c] = v]
      <3>1. command' = [command EXCEPT ![c].entry = n, ![c].at = "remove"]
        BY <1>9 DEF JudgeEntry
      <3>2. command \in [Callers -> PlainTasks \cup Removals]
        BY <1>1 DEF UpkeepTypes, PlainTasks
      <3>3. QED
        BY <3>1, <3>2
    <2>4. UNCHANGED <<folder, lost, ended, preparedRow, archives, health, acts, repairs, upkeepCrashes>>
      BY <1>9 DEF JudgeEntry, disk, user
    <2>5. ended = {} => command[c].known = Dest
      BY <2>1 DEF UpkeepIInv, AtHome
    <2>6. OnDisk(n) /\ folder[n].marker # "foreign" /\ (Owned(n) => Owned(command[c].known))
      <3>1. OnDisk(n) /\ Abandoned(n, command[c].known)
        BY <1>9 DEF JudgeEntry
      <3>2. QED
        BY <3>1 DEF Abandoned, Owned
    <2> HIDE DEF v
    <2>7. QED
      BY <1>2, <1>4, <2>1, <2>2, <2>3, <2>4, <2>5, <2>6 DEF PlainTasks
  <1>10. QED
    BY <1>5, <1>6, <1>7, <1>8, <1>9

\* The steps of a repair that rename a folder.
Advances(c) ==
    /\ Task(c).kind = "repair" /\ Task(c)'.kind = "repair"
    /\ Task(c)'.k = Task(c).k /\ Task(c)'.root = Task(c).root
    /\ <<Task(c).at, Task(c)'.at>> \in {<<"displace", "exchange">>, <<"exchange", "old">>, <<"exchange", "abandon">>}

\* The common part of every rename: what was safe under the one name is so under the other,
\* if nobody may remove that.
LEMMA RenameKeeps ==
    ASSUME UpkeepIInv, UpkeepTypes', NEW from \in UpkeepNames, NEW to \in UpkeepNames, from # to,
           Renamed(from, to), repairs' = repairs, preparedRow' = preparedRow,
           \A d \in Callers : \/ Task(d)' = Task(d) /\ command'[d] = command[d]
                              \/ Advances(d),
           to \in Leftovers => to[2] <= repairs,
           \A d \in Callers : RepairIs(d, Builds)' => to # BackupOf(d)',
           to \in Leftovers /\ folder[from].marker = "foreign" =>
             /\ ~Referred(to) /\ \A k \in 1..MaxRepairs : to # Left("stage", k) /\ to # Left("repair", k)
             /\ \A d \in Callers : RepairIs(d, {"exchange"})' /\ Task(d)'.root \in Leftovers => BackupOf(d)' # to,
           ended' = {} =>
             /\ to \in {Dest, Away} /\ Owned(from) => WholeAt(from)
             /\ \A d \in Callers : RepairIs(d, Tries)' =>
                  to \notin {StageOf(d)', RepairOf(d)'} /\ (to = BackupOf(d)' /\ Owned(from) => WholeAt(from))
             /\ ~Doomed(to)'
             /\ \/ Owned(from) /\ WholeAt(from)
                \/ ~OnDisk(to) /\ \A n \in UpkeepNames : Doomed(n)' => Doomed(n),
           \A d \in Callers : RepairIs(d, {"exchange"})' /\ ~RepairIs(d, {"exchange"}) /\ Task(d)'.root \in Leftovers
             => folder[from].marker # "foreign" /\ to = BackupOf(d)',
           ended' = {} => \A d \in Callers : RepairIs(d, {"exchange"})' /\ ~RepairIs(d, {"exchange"}) => to = BackupOf(d)'
    PROVE  UpkeepIInv'
  <1>t. /\ UpkeepTypes /\ folder \in [UpkeepNames -> Directories] /\ repairs \in 0..MaxRepairs
        /\ ended \subseteq {"uninstalled", "chosen", "raced"}
    BY DEF UpkeepIInv, UpkeepTypes, UpkeepTypeOK, Directories
  <1>m. /\ folder' \in [UpkeepNames -> Directories]
        /\ \A n \in UpkeepNames \ {from, to} : folder'[n] = folder[n]
        /\ folder'[to] = folder[from] /\ folder'[from] = NoFolder
        /\ ended \subseteq ended' /\ lost' = lost
        /\ ended' = {} => ~folder[from].fading
    BY <1>t, RenamedFacts
  <1>k. \A d \in Callers : Task(d).kind = "repair" => Task(d) \in Repairs
    BY <1>t, TaskTypes
  <1>b. \A d \in Callers : Task(d).kind = "repair" => {StageOf(d), RepairOf(d), BackupOf(d)} \subseteq Leftovers
    BY <1>k, NamesApart DEF StageOf, RepairOf, BackupOf, Repairs
  <1>a. \A d \in Callers : /\ Task(d)'.kind = Task(d).kind
                           /\ Task(d).kind = "repair" => Task(d)'.k = Task(d).k /\ Task(d)'.root = Task(d).root
                           /\ Task(d).kind # "repair" => Task(d)' = Task(d) /\ command'[d] = command[d]
    BY DEF Advances
  <1>n. \A d \in Callers : Task(d).kind = "repair" =>
          /\ StageOf(d)' = StageOf(d) /\ RepairOf(d)' = RepairOf(d) /\ BackupOf(d)' = BackupOf(d)
    BY <1>a DEF StageOf, RepairOf, BackupOf
  <1>i. \A d \in Callers : /\ RepairIs(d, Builds)' => RepairIs(d, Builds)
                           /\ RepairIs(d, Repairing)' => RepairIs(d, Repairing)
                           /\ RepairIs(d, Tries)' => RepairIs(d, Tries)
                           /\ RepairIs(d, {"sign", "activate"})' => RepairIs(d, {"sign", "activate"})
                           /\ RepairIs(d, {"activate"})' => RepairIs(d, {"activate"})
                           /\ RepairIs(d, {"displace", "exchange"})' => RepairIs(d, {"displace", "exchange"})
    BY DEF RepairIs, Advances, Builds, Tries, Repairing
  <1>f. \A n \in UpkeepNames : Referred(n)' => Referred(n)
    BY <1>a DEF Referred
  <1>1. NamesAreNew'
    <2>1. \A k \in 1..MaxRepairs, s \in {"stage", "repair", "backup"} :
             k > repairs => folder'[Left(s, k)] = NoFolder
      BY <1>t, <1>m, NamesApart DEF UpkeepIInv, NamesAreNew
    <2>2. \A d \in Callers : RepairIs(d, Builds)' => folder'[BackupOf(d)'] = NoFolder
      BY <1>m, <1>i, <1>n, <1>b, NamesApart DEF UpkeepIInv, NamesAreNew, RepairIs
    <2>3. \A d \in Callers : RepairIs(d, Repairing)' => RepairIs(d, Repairing) /\ Task(d)'.k = Task(d).k
      BY <1>i, <1>a DEF RepairIs
    <2>4. QED
      BY <2>1, <2>2, <2>3, <1>t DEF UpkeepIInv, NamesAreNew
  <1>2. ReferredIsOurs'
    <2>1. \A n \in Leftovers : Referred(n)' => folder'[n].marker # "foreign"
      BY <1>f, <1>m, NamesApart DEF UpkeepIInv, ReferredIsOurs, NoFolder
    <2>2. QED
      BY <2>1, <1>f, <1>i, <1>n, NamesApart DEF UpkeepIInv, ReferredIsOurs, RepairIs
  <1>3. ForeignIsSafe'
    <2>1. \A k \in 1..MaxRepairs, s \in {"stage", "repair"} : folder'[Left(s, k)].marker # "foreign"
      BY <1>m, NamesApart DEF UpkeepIInv, ForeignIsSafe, NoFolder
    <2>2. ASSUME NEW d \in Callers, RepairIs(d, {"exchange"})', Task(d)'.root \in Leftovers
          PROVE  folder'[BackupOf(d)'].marker # "foreign"
      <3>1. BackupOf(d)' = BackupOf(d) /\ BackupOf(d) \in UpkeepNames /\ Task(d)'.root = Task(d).root
        BY <1>n, <1>b, <1>a, <2>2, NamesApart DEF RepairIs
      <3>2. CASE BackupOf(d) = to
        BY <1>m, <1>b, <1>a, <2>2, <3>1, <3>2 DEF RepairIs
      <3>3. CASE BackupOf(d) = from
        BY <1>m, <3>1, <3>3 DEF NoFolder
      <3>4. CASE BackupOf(d) \notin {from, to}
        BY <1>m, <2>2, <3>1, <3>4 DEF UpkeepIInv, ForeignIsSafe
      <3>5. QED
        BY <3>2, <3>3, <3>4
    <2>3. \A n \in UpkeepNames : folder'[n].fading => folder'[n].marker # "foreign"
      BY <1>m DEF UpkeepIInv, ForeignIsSafe, NoFolder
    <2>4. QED
      BY <2>1, <2>2, <2>3 DEF ForeignIsSafe
  <1>4. ended' = {} => AtHome'
    <2> SUFFICES ASSUME ended' = {} PROVE AtHome'
      OBVIOUS
    <2>1. AtHome
      BY <1>m DEF UpkeepIInv
    <2>2. \A n \in {Dest, Away} : ~folder'[n].fading /\ (folder'[n].marker = "own" => UnpackedFiles \ lost \subseteq folder'[n].files)
      BY <2>1, <1>m, NamesApart DEF AtHome, Owned, WholeAt, NoFolder
    <2>3. QED
      BY <2>1, <2>2, <1>a, <1>m DEF AtHome, Owned, WholeAt
  <1>5. ended' = {} => RepairIsWhole'
    <2> SUFFICES ASSUME ended' = {}, NEW d \in Callers, RepairIs(d, Tries)'
                 PROVE  /\ RepairIs(d, {"sign", "activate"})' /\ Steady(StageOf(d))' => Missing(StageOf(d))' = {}
                        /\ RepairIs(d, {"activate"})' /\ Steady(StageOf(d))' => Owned(StageOf(d))'
                        /\ RepairIs(d, {"displace", "exchange"})' /\ Steady(RepairOf(d))' => Owned(RepairOf(d))' /\ Missing(RepairOf(d))' = {}
                        /\ RepairIs(d, {"exchange"})' /\ Steady(BackupOf(d))' /\ Owned(BackupOf(d))' => WholeAt(BackupOf(d))'
      BY DEF RepairIsWhole, RepairIs, Tries, Builds
    <2>1. RepairIsWhole
      BY <1>m DEF UpkeepIInv
    <2>2. /\ StageOf(d)' = StageOf(d) /\ RepairOf(d)' = RepairOf(d) /\ BackupOf(d)' = BackupOf(d)
          /\ StageOf(d) \in UpkeepNames \ {to} /\ RepairOf(d) \in UpkeepNames \ {to} /\ BackupOf(d) \in UpkeepNames
      BY <1>n, <1>b, <1>a, NamesApart DEF RepairIs
    <2>3. \A n \in UpkeepNames \ {to} : OnDisk(n)' => folder'[n] = folder[n]
      BY <1>m DEF OnDisk
    <2>4. Steady(StageOf(d))' => Steady(StageOf(d)) /\ folder'[StageOf(d)] = folder[StageOf(d)]
      BY <2>2, <2>3 DEF Steady, OnDisk
    <2>5. Steady(RepairOf(d))' => Steady(RepairOf(d)) /\ folder'[RepairOf(d)] = folder[RepairOf(d)]
      BY <2>2, <2>3 DEF Steady, OnDisk
    <2>6. /\ RepairIs(d, {"sign", "activate"})' /\ Steady(StageOf(d))' => Missing(StageOf(d))' = {}
          /\ RepairIs(d, {"activate"})' /\ Steady(StageOf(d))' => Owned(StageOf(d))'
      BY <1>i, <2>1, <2>2, <2>4 DEF RepairIsWhole, Missing, Collected, Owned
    <2>7. RepairIs(d, {"displace", "exchange"})' /\ Steady(RepairOf(d))' => Owned(RepairOf(d))' /\ Missing(RepairOf(d))' = {}
      BY <1>i, <2>1, <2>2, <2>5 DEF RepairIsWhole, Missing, Collected, Owned
    <2>8. ASSUME RepairIs(d, {"exchange"})', Steady(BackupOf(d))', Owned(BackupOf(d))'
          PROVE  WholeAt(BackupOf(d))'
      <3>1. CASE BackupOf(d) = to
        BY <1>m, <2>2, <2>8, <3>1 DEF Owned, WholeAt
      <3>2. CASE BackupOf(d) # to
        <4>1. Steady(BackupOf(d)) /\ folder'[BackupOf(d)] = folder[BackupOf(d)]
          BY <2>2, <2>3, <2>8, <3>2 DEF Steady, OnDisk
        <4>2. RepairIs(d, {"exchange"})
          BY <2>2, <2>8, <3>2
        <4>3. QED
          BY <1>m, <2>1, <2>2, <2>8, <4>1, <4>2 DEF RepairIsWhole, Owned, WholeAt
      <3>3. QED
        BY <3>1, <3>2
    <2>9. QED
      BY <2>6, <2>7, <2>8
  <1>6. ended' = {} => OneIsSafe'
    <2> SUFFICES ASSUME ended' = {} PROVE OneIsSafe'
      OBVIOUS
    <2>1. CASE Owned(from) /\ WholeAt(from)
      BY <1>m, <2>1 DEF OneIsSafe, Owned, WholeAt
    <2>2. CASE ~OnDisk(to) /\ \A n \in UpkeepNames : Doomed(n)' => Doomed(n)
      <3>1. PICK n \in UpkeepNames : Owned(n) /\ WholeAt(n) /\ ~folder[n].fading /\ ~Doomed(n)
        BY <1>m DEF UpkeepIInv, OneIsSafe
      <3>2. n # to
        BY <2>2, <3>1 DEF Owned, OnDisk, NoFolder
      <3>3. CASE n = from
        BY <2>1, <3>1, <3>3
      <3>4. CASE n # from
        BY <1>m, <2>2, <3>1, <3>2, <3>4 DEF OneIsSafe, Owned, WholeAt
      <3>5. QED
        BY <3>3, <3>4
    <2>3. QED
      BY <2>1, <2>2
  <1>7. QED
    BY <1>1, <1>2, <1>3, <1>4, <1>5, <1>6 DEF UpkeepIInv

\* Nobody is about to remove the folder at the installation's name.
LEMMA HomeIsNotDoomed ==
    ASSUME UpkeepTypes, NEW n \in {Dest, Away}
    PROVE  ~Doomed(n)
  <1> SUFFICES ASSUME NEW c \in Callers,
                  \/ RepairIs(c, Tries) /\ n \in {StageOf(c), RepairOf(c)}
                  \/ RepairIs(c, {"old"}) /\ n = BackupOf(c)
                  \/ Task(c).kind = "cleanup" /\ Task(c).at = "remove" /\ n = Task(c).entry
               PROVE FALSE
    BY DEF Doomed
  <1>1. CASE Task(c).kind = "repair"
    <2>1. Task(c).k \in 1..MaxRepairs
      BY <1>1, TaskTypes DEF Repairs
    <2>2. n \notin {StageOf(c), RepairOf(c), BackupOf(c)}
      BY <2>1, NamesApart DEF StageOf, RepairOf, BackupOf
    <2>3. QED
      BY <1>1, <2>2 DEF RepairIs
  <1>2. CASE Task(c).kind = "cleanup" /\ Task(c).at = "remove"
    <2>1. Task(c).entry \in Leftovers
      BY <1>2, TaskTypes DEF Sweeps
    <2>2. QED
      BY <1>2, <2>1, NamesApart DEF RepairIs
  <1>3. QED
    BY <1>1, <1>2 DEF RepairIs

LEMMA DisplaceKeeps ==
    ASSUME UpkeepIInv, NEW c \in Callers, Displace(c)
    PROVE  UpkeepIInv'
  <1>1. /\ UpkeepTypes /\ folder \in [UpkeepNames -> Directories] /\ ended \subseteq {"uninstalled", "chosen", "raced"}
    BY DEF UpkeepIInv, UpkeepTypes, UpkeepTypeOK, Directories
  <1>2. /\ CallerAt(c, "repair", "displace") /\ "displace" \in Tries
        /\ UNCHANGED <<preparedRow, health, repairs, user>>
    BY DEF Displace, Tries, Builds
  <1>3. /\ command[c] \in Repairs /\ Task(c) = command[c] /\ Task(c).kind = "repair" /\ Task(c).at = "displace"
        /\ Repair(c) = RepairOf(c) /\ Backup(c) = BackupOf(c)
        /\ BackupOf(c) \in Leftovers /\ Task(c).k \in 1..MaxRepairs /\ Task(c).root \in UpkeepNames
    BY <1>1, <1>2, RepairStands
  <1>n. PICK from \in UpkeepNames, to \in UpkeepNames : from = Task(c).root /\ to = BackupOf(c)
    BY <1>3, NamesApart
  <1> USE <1>n
  <1>4. CASE OnDisk(from)
    <2>1. Renamed(from, to) /\ CallerGoes(c, "exchange")
      BY <1>3, <1>4 DEF Displace
    <2>2. RepairIs(c, Builds) /\ RepairIs(c, Repairing)
      BY <1>3 DEF RepairIs, Builds, Tries, Repairing
    <2>3. folder[to] = NoFolder /\ from # to /\ to \in UpkeepNames
      BY <1>3, <1>4, <2>2, NamesApart DEF UpkeepIInv, NamesAreNew, OnDisk
    <2>4. /\ folder' \in [UpkeepNames -> Directories] /\ ended \subseteq ended' /\ lost' = lost
          /\ ended' \subseteq {"uninstalled", "chosen", "raced"}
      BY <1>1, <1>3, <2>1, <2>3, RenamedFacts
    <2> DEFINE v == [command[c] EXCEPT !.at = "exchange"]
    <2>5. command' = [command EXCEPT ![c] = v]
      BY <1>1, <2>1 DEF CallerGoes, UpkeepTypes
    <2>6. v \in Repairs /\ v.kind = "repair" /\ v.at = "exchange" /\ v.k = Task(c).k /\ v.root = Task(c).root
      BY <1>3 DEF Repairs, Tries
    <2> HIDE DEF v
    <2>7. /\ UpkeepTypes' /\ Task(c)' = v
          /\ \A d \in Callers \ {c} : Task(d)' = Task(d) /\ command'[d] = command[d]
      BY <1>1, <1>2, <2>4, <2>5, <2>6, CallerMoves DEF PlainTasks, UpkeepTypes, UpkeepTypeOK, Directories, States, user
    <2>8. Advances(c) /\ BackupOf(c)' = to
      BY <1>3, <2>6, <2>7 DEF Advances, BackupOf
    <2>9. \A d \in Callers \ {c} : RepairIs(d, Repairing)' => BackupOf(d)' # to
      <3>1. ASSUME NEW d \in Callers \ {c}, RepairIs(d, Repairing)' PROVE BackupOf(d)' # to
        <4>1. Task(d)' = Task(d) /\ RepairIs(d, Repairing)
          BY <2>7, <3>1 DEF RepairIs
        <4>2. Task(d).k # Task(c).k
          BY <2>2, <3>1, <4>1 DEF UpkeepIInv, NamesAreNew
        <4>3. Task(d).k \in 1..MaxRepairs
          BY <1>1, <3>1, <4>1, TaskTypes DEF RepairIs, Repairs
        <4>4. QED
          BY <1>3, <4>1, <4>2, <4>3, NamesApart DEF BackupOf
      <3>2. QED
        BY <3>1
    <2>10. ~Referred(to)
      BY <1>3, <2>2 DEF UpkeepIInv, ReferredIsOurs
    <2>11. Referred(from)
      BY <1>3 DEF Referred
    <2>12. from \in Leftovers => folder[from].marker # "foreign"
      BY <2>11 DEF UpkeepIInv, ReferredIsOurs
    <2>13. to[2] <= repairs /\ \A k \in 1..MaxRepairs : to # Left("stage", k) /\ to # Left("repair", k)
      BY <1>3, <2>2, NamesApart DEF UpkeepIInv, NamesAreNew, BackupOf
    <2>14. \A d \in Callers : RepairIs(d, Builds)' => to # BackupOf(d)'
      BY <2>6, <2>7, <2>9 DEF RepairIs, Builds, Tries, Repairing
    <2>15. \A d \in Callers : RepairIs(d, {"exchange"})' /\ Task(d)'.root \in Leftovers /\ folder[from].marker = "foreign"
             => BackupOf(d)' # to
      BY <2>6, <2>7, <2>9, <2>12 DEF RepairIs, Tries, Repairing
    <2>16. \A d \in Callers : RepairIs(d, {"exchange"})' /\ ~RepairIs(d, {"exchange"})
             => d = c /\ to = BackupOf(d)'
      BY <2>7, <2>8 DEF RepairIs
    <2>17. \A n \in UpkeepNames : Doomed(n)' => Doomed(n)
      <3> SUFFICES ASSUME NEW n \in UpkeepNames, NEW d \in Callers,
               \/ RepairIs(d, Tries)' /\ n \in {StageOf(d), RepairOf(d)}'
               \/ RepairIs(d, {"old"})' /\ n = BackupOf(d)'
               \/ Task(d)'.kind = "cleanup" /\ Task(d)'.at = "remove" /\ n = Task(d)'.entry
             PROVE Doomed(n)
        BY DEF Doomed
      <3>1. CASE d = c
        BY <1>2, <1>3, <2>6, <2>7, <3>1 DEF Doomed, RepairIs, StageOf, RepairOf
      <3>2. CASE d # c
        BY <2>7, <3>2 DEF Doomed, RepairIs, StageOf, RepairOf, BackupOf
      <3>3. QED
        BY <3>1, <3>2
    <2>18. ~Doomed(to)
      <3> SUFFICES ASSUME NEW d \in Callers,
                  \/ RepairIs(d, Tries) /\ to \in {StageOf(d), RepairOf(d)}
                  \/ RepairIs(d, {"old"}) /\ to = BackupOf(d)
                  \/ Task(d).kind = "cleanup" /\ Task(d).at = "remove" /\ to = Task(d).entry
               PROVE FALSE
        BY DEF Doomed
      <3>1. CASE RepairIs(d, Tries) /\ to \in {StageOf(d), RepairOf(d)}
        BY <1>1, <2>13, <3>1, TaskTypes DEF RepairIs, Repairs, StageOf, RepairOf
      <3>2. CASE RepairIs(d, {"old"}) /\ to = BackupOf(d)
        BY <1>3, <2>7, <2>9, <3>2 DEF RepairIs, Repairing, BackupOf
      <3>3. CASE Task(d).kind = "cleanup" /\ Task(d).at = "remove" /\ to = Task(d).entry
        BY <2>10, <3>3 DEF Referred
      <3>4. QED
        BY <3>1, <3>2, <3>3
    <2>19. ended' = {} => from = Dest /\ (Owned(from) => WholeAt(from))
      BY <1>3, <2>4 DEF UpkeepIInv, AtHome
    <2>20. \A d \in Callers : RepairIs(d, Tries)' => to \notin {StageOf(d)', RepairOf(d)'}
      <3>1. ASSUME NEW d \in Callers, RepairIs(d, Tries)' PROVE to \notin {StageOf(d)', RepairOf(d)'}
        <4>1. Task(d)'.k \in 1..MaxRepairs
          BY <1>1, <1>3, <2>6, <2>7, <3>1, TaskTypes DEF RepairIs, Repairs
        <4>2. QED
          BY <2>13, <4>1 DEF StageOf, RepairOf
      <3>2. QED
        BY <3>1
    <2>21. to \notin {Dest, Away} /\ ~OnDisk(to)
      BY <1>3, <2>3, NamesApart DEF OnDisk
    <2>22. \A d \in Callers : (Task(d)' = Task(d) /\ command'[d] = command[d]) \/ Advances(d)
      BY <2>7, <2>8
    <2>23. QED
      BY <1>2, <1>3, <2>1, <2>3, <2>7, <2>10, <2>12, <2>13, <2>14, <2>15, <2>16, <2>17, <2>18, <2>19, <2>20, <2>21, <2>22, RenameKeeps
  <1>5. CASE ~OnDisk(from)
    <2>1. AbandonStage(c, RepairOf(c)) /\ UNCHANGED <<lost, ended>>
      BY <1>3, <1>5 DEF Displace
    <2>2. QED
      BY <1>2, <2>1, AbandonStageKeeps
  <1>6. QED
    BY <1>4, <1>5

\* A rename of a repair that takes a folder to where the installation is, as the repaired
\* one or, when that failed, as the one displaced before.
LEMMA ToRootKeeps ==
    ASSUME UpkeepIInv, NEW c \in Callers, CallerAt(c, "repair", "exchange"),
           NEW from \in UpkeepNames, NEW to \in UpkeepNames, to = Task(c).root,
           NEW at \in {"old", "abandon"},
           from = IF at = "old" THEN RepairOf(c) ELSE BackupOf(c),
           Renamed(from, to), CallerGoes(c, at), OnDisk(from), ~OnDisk(to),
           UNCHANGED <<preparedRow, health, repairs, user>>
    PROVE  UpkeepIInv'
  <1>1. /\ UpkeepTypes /\ folder \in [UpkeepNames -> Directories] /\ ended \subseteq {"uninstalled", "chosen", "raced"}
    BY DEF UpkeepIInv, UpkeepTypes, UpkeepTypeOK, Directories
  <1>2. /\ command[c] \in Repairs /\ Task(c) = command[c] /\ Task(c).kind = "repair" /\ Task(c).at = "exchange"
        /\ RepairOf(c) \in Leftovers /\ BackupOf(c) \in Leftovers /\ Task(c).k \in 1..MaxRepairs
    BY <1>1, RepairStands DEF Tries
  <1>3. from # to
    OBVIOUS
  <1>4. /\ folder' \in [UpkeepNames -> Directories] /\ ended \subseteq ended' /\ lost' = lost
        /\ ended' \subseteq {"uninstalled", "chosen", "raced"} /\ (ended' = {} => ~folder[from].fading)
    BY <1>1, <1>3, RenamedFacts
  <1> DEFINE v == [command[c] EXCEPT !.at = at]
  <1>5. command' = [command EXCEPT ![c] = v]
    BY <1>1 DEF CallerGoes, UpkeepTypes
  <1>6. v \in Repairs /\ v.kind = "repair" /\ v.at = at /\ v.k = Task(c).k /\ v.root = Task(c).root
    BY <1>2 DEF Repairs, Tries
  <1> HIDE DEF v
  <1>7. /\ UpkeepTypes' /\ Task(c)' = v
        /\ \A d \in Callers \ {c} : Task(d)' = Task(d) /\ command'[d] = command[d]
    BY <1>1, <1>4, <1>5, <1>6, CallerMoves DEF PlainTasks, UpkeepTypes, UpkeepTypeOK, Directories, States, user
  <1>8. \A d \in Callers : (Task(d)' = Task(d) /\ command'[d] = command[d]) \/ Advances(d)
    BY <1>2, <1>6, <1>7 DEF Advances
  <1>9. Referred(to)
    BY <1>2 DEF Referred
  <1>10. to \in Leftovers => to[2] <= repairs /\ \A d \in Callers : RepairIs(d, Builds) => to # BackupOf(d)
    BY <1>9 DEF UpkeepIInv, ReferredIsOurs
  <1>11. \A d \in Callers : RepairIs(d, Builds)' =>
            RepairIs(d, Builds) /\ BackupOf(d)' = BackupOf(d) /\ BackupOf(d) \in Leftovers
    <2>1. ASSUME NEW d \in Callers, RepairIs(d, Builds)'
          PROVE  RepairIs(d, Builds) /\ BackupOf(d)' = BackupOf(d) /\ BackupOf(d) \in Leftovers
      <3>1. d # c
        BY <1>6, <1>7, <2>1 DEF RepairIs, Builds
      <3>2. Task(d)' = Task(d) /\ RepairIs(d, Builds)
        BY <1>7, <2>1, <3>1 DEF RepairIs
      <3>3. BackupOf(d) \in Leftovers
        BY <1>1, <3>2, TaskTypes, NamesApart DEF RepairIs, Repairs, BackupOf
      <3>4. QED
        BY <3>2, <3>3 DEF BackupOf
    <2>2. QED
      BY <2>1
  <1>12. \A d \in Callers : RepairIs(d, Builds)' => to # BackupOf(d)'
    BY <1>10, <1>11
  <1>13. to \in Leftovers => folder[from].marker # "foreign"
    <2>1. CASE at = "old"
      BY <1>2, <2>1, OwnFoldersAreOurs
    <2>2. CASE at = "abandon"
      BY <1>2, <2>2 DEF UpkeepIInv, ForeignIsSafe, RepairIs
    <2>3. QED
      BY <2>1, <2>2
  <1>14. \A d \in Callers : RepairIs(d, {"exchange"})' => RepairIs(d, {"exchange"})
    BY <1>6, <1>7 DEF RepairIs
  <1>15. ASSUME ended' = {}
         PROVE  /\ to = Dest /\ (Owned(from) => WholeAt(from))
                /\ at = "old" => Owned(from)
    <2>1. ended = {} /\ ~folder[from].fading /\ Steady(from)
      BY <1>4, <1>15 DEF Steady
    <2>2. to = Dest
      BY <1>2, <2>1 DEF UpkeepIInv, AtHome
    <2>3. CASE at = "old"
      BY <1>2, <2>1, <2>2, <2>3 DEF UpkeepIInv, RepairIsWhole, RepairIs, Missing, Collected, WholeAt
    <2>4. CASE at = "abandon"
      BY <1>2, <2>1, <2>2, <2>4 DEF UpkeepIInv, RepairIsWhole, RepairIs
    <2>5. QED
      BY <2>2, <2>3, <2>4
  <1>16. \A d \in Callers : RepairIs(d, Tries)' => {StageOf(d)', RepairOf(d)', BackupOf(d)'} \subseteq Leftovers
    <2>1. ASSUME NEW d \in Callers, RepairIs(d, Tries)'
          PROVE  {StageOf(d)', RepairOf(d)', BackupOf(d)'} \subseteq Leftovers
      <3>1. Task(d)'.k \in 1..MaxRepairs
        BY <1>1, <1>2, <1>6, <1>7, <2>1, TaskTypes DEF RepairIs, Repairs
      <3>2. QED
        BY <3>1, NamesApart DEF StageOf, RepairOf, BackupOf
    <2>2. QED
      BY <2>1
  <1>17. ASSUME ended' = {} PROVE ~Doomed(to)'
    <2> SUFFICES ASSUME NEW d \in Callers,
             \/ RepairIs(d, Tries)' /\ to \in {StageOf(d)', RepairOf(d)'}
             \/ RepairIs(d, {"old"})' /\ to = BackupOf(d)'
             \/ Task(d)'.kind = "cleanup" /\ Task(d)'.at = "remove" /\ to = Task(d)'.entry
           PROVE FALSE
      BY DEF Doomed
    <2>1. to \notin Leftovers
      BY <1>15, <1>17, NamesApart
    <2>2. CASE RepairIs(d, Tries)' /\ to \in {StageOf(d)', RepairOf(d)'}
      BY <1>16, <2>1, <2>2
    <2>3. CASE RepairIs(d, {"old"})' /\ to = BackupOf(d)'
      <3>1. Task(d)'.k \in 1..MaxRepairs
        BY <1>1, <1>2, <1>6, <1>7, <2>3, TaskTypes DEF RepairIs, Repairs
      <3>2. QED
        BY <2>1, <2>3, <3>1, NamesApart DEF BackupOf
    <2>4. CASE Task(d)'.kind = "cleanup" /\ Task(d)'.at = "remove" /\ to = Task(d)'.entry
      <3>1. Task(d)' = Task(d)
        BY <1>6, <1>7, <2>4
      <3>2. QED
        BY <1>1, <2>1, <2>4, <3>1, TaskTypes DEF Sweeps
    <2>5. QED
      BY <2>2, <2>3, <2>4
  <1>18. at = "abandon" => \A n \in UpkeepNames : Doomed(n)' => Doomed(n)
    <2> SUFFICES ASSUME at = "abandon", NEW n \in UpkeepNames, NEW d \in Callers,
             \/ RepairIs(d, Tries)' /\ n \in {StageOf(d), RepairOf(d)}'
             \/ RepairIs(d, {"old"})' /\ n = BackupOf(d)'
             \/ Task(d)'.kind = "cleanup" /\ Task(d)'.at = "remove" /\ n = Task(d)'.entry
           PROVE Doomed(n)
      BY DEF Doomed
    <2>1. CASE d = c
      BY <1>2, <1>6, <1>7, <2>1 DEF Doomed, RepairIs, StageOf, RepairOf, Tries
    <2>2. CASE d # c
      BY <1>7, <2>2 DEF Doomed, RepairIs, StageOf, RepairOf, BackupOf
    <2>3. QED
      BY <2>1, <2>2
  <1>19. ended' = {} => \/ Owned(from) /\ WholeAt(from)
                        \/ \A n \in UpkeepNames : Doomed(n)' => Doomed(n)
    BY <1>15, <1>18
  <1>20. ended' = {} => /\ to \in {Dest, Away} /\ Owned(from) => WholeAt(from)
                        /\ \A d \in Callers : RepairIs(d, Tries)' =>
                             to \notin {StageOf(d)', RepairOf(d)'} /\ (to = BackupOf(d)' /\ Owned(from) => WholeAt(from))
    BY <1>15, <1>16, NamesApart
  <1>21. QED
    BY <1>3, <1>7, <1>8, <1>10, <1>12, <1>13, <1>14, <1>17, <1>19, <1>20, RenameKeeps

LEMMA ExchangeKeeps ==
    ASSUME UpkeepIInv, NEW c \in Callers, Exchange(c)
    PROVE  UpkeepIInv'
  <1>1. UpkeepTypes
    BY DEF UpkeepIInv
  <1>2. CallerAt(c, "repair", "exchange") /\ UNCHANGED <<preparedRow, health, repairs, user>>
    BY DEF Exchange
  <1>3. /\ command[c] \in Repairs /\ Task(c) = command[c] /\ Task(c).kind = "repair" /\ Task(c).at = "exchange"
        /\ Repair(c) = RepairOf(c) /\ Backup(c) = BackupOf(c)
        /\ RepairOf(c) \in UpkeepNames /\ BackupOf(c) \in UpkeepNames /\ Task(c).root \in UpkeepNames
    BY <1>1, <1>2, RepairStands, NamesApart DEF Tries
  <1>n. PICK repair \in UpkeepNames, backup \in UpkeepNames, to \in UpkeepNames :
           repair = RepairOf(c) /\ backup = BackupOf(c) /\ to = Task(c).root
    BY <1>3
  <1>4. CASE OnDisk(repair) /\ ~OnDisk(to)
    <2>1. Renamed(repair, to) /\ CallerGoes(c, "old")
      BY <1>n, <1>3, <1>4 DEF Exchange
    <2>2. QED
      BY <1>n, <1>2, <1>4, <2>1, ToRootKeeps
  <1>5. CASE ~(OnDisk(repair) /\ ~OnDisk(to)) /\ OnDisk(backup) /\ ~OnDisk(to)
    <2>1. Renamed(backup, to) /\ CallerGoes(c, "abandon")
      BY <1>n, <1>3, <1>5 DEF Exchange
    <2>2. QED
      BY <1>n, <1>2, <1>5, <2>1, ToRootKeeps
  <1>6. CASE ~(OnDisk(repair) /\ ~OnDisk(to)) /\ ~(OnDisk(backup) /\ ~OnDisk(to))
    <2>1. UNCHANGED <<folder, lost, ended>> /\ CallerGoes(c, "abandon")
      BY <1>n, <1>3, <1>6 DEF Exchange, disk
    <2> DEFINE v == [command[c] EXCEPT !.at = "abandon"]
    <2>2. command' = [command EXCEPT ![c] = v]
      BY <1>1, <2>1 DEF CallerGoes, UpkeepTypes
    <2>3. v \in Repairs /\ v.kind = "repair" /\ v.at = "abandon" /\ v.k = Task(c).k /\ v.root = Task(c).root
      BY <1>3 DEF Repairs, Tries
    <2> HIDE DEF v
    <2>4. /\ UpkeepTypes' /\ Task(c)' = v
          /\ \A d \in Callers \ {c} : Task(d)' = Task(d) /\ command'[d] = command[d]
      BY <1>1, <1>2, <2>1, <2>2, <2>3, CallerMoves DEF PlainTasks, UpkeepTypes, UpkeepTypeOK, Directories, States, user
    <2>5. \A n \in UpkeepNames : Fades(n)
      BY <2>1 DEF Fades
    <2>6. \A d \in Callers : Task(d)' = Task(d) \/ Rests(d)
      BY <1>3, <2>3, <2>4 DEF Rests
    <2>7. \A d \in Callers : Task(d)' = Task(d) => command'[d] = command[d] \/ ended' # {} \/ Task(d).kind # "uninstall"
      BY <1>3, <2>4
    <2>8. /\ preparedRow' = NoRow \/ \E n \in UpkeepNames : preparedRow' = n /\ Referred(n)
          /\ ended' = {} => preparedRow' \notin Leftovers
      BY <1>1, <1>2, <2>1, RowIsReferred DEF UpkeepIInv, AtHome
    <2>9. QED
      BY <1>2, <2>1, <2>4, <2>5, <2>6, <2>7, <2>8, CalmKeeps
  <1>7. QED
    BY <1>4, <1>5, <1>6

LEMMA MoveFolderKeeps ==
    ASSUME UpkeepIInv, NEW from \in UpkeepNames, NEW to \in {Dest, Away}, MoveFolder(from, to)
    PROVE  UpkeepIInv'
  <1>1. /\ UpkeepTypes /\ folder \in [UpkeepNames -> Directories] /\ ended \subseteq {"uninstalled", "chosen", "raced"}
    BY DEF UpkeepIInv, UpkeepTypes, UpkeepTypeOK, Directories
  <1>2. /\ from # to /\ to \in UpkeepNames /\ Renamed(from, to) /\ OnDisk(from) /\ ~OnDisk(to)
        /\ from \in Leftovers => WholeAt(from)
        /\ UNCHANGED <<preparedRow, archives, command, health, repairs, upkeepCrashes>>
    BY NamesApart DEF MoveFolder, WholeAt
  <1>3. acts' \in 0..MaxActs
    BY <1>1, UpkeepBounds DEF MoveFolder, UpkeepActs, UpkeepTypes, UpkeepTypeOK
  <1>4. /\ folder' \in [UpkeepNames -> Directories] /\ ended \subseteq ended' /\ lost' = lost
        /\ ended' \subseteq {"uninstalled", "chosen", "raced"}
    BY <1>1, <1>2, RenamedFacts
  <1>5. UpkeepTypes'
    BY <1>1, <1>2, <1>3, <1>4 DEF UpkeepTypes, UpkeepTypeOK, Directories
  <1>6. \A d \in Callers : Task(d)' = Task(d) /\ command'[d] = command[d]
    BY <1>2 DEF Task
  <1>7. \A d \in Callers : /\ \A s : RepairIs(d, s)' <=> RepairIs(d, s)
                           /\ StageOf(d)' = StageOf(d) /\ RepairOf(d)' = RepairOf(d) /\ BackupOf(d)' = BackupOf(d)
    BY <1>6 DEF RepairIs, StageOf, RepairOf, BackupOf
  <1>8. \A d \in Callers : \A s : RepairIs(d, s) => {StageOf(d), RepairOf(d), BackupOf(d)} \subseteq Leftovers
    BY <1>1, TaskTypes, NamesApart DEF RepairIs, Repairs, StageOf, RepairOf, BackupOf
  <1>9. to \notin Leftovers
    BY NamesApart
  <1>10. \A n : Doomed(n)' <=> Doomed(n)
    BY <1>6, <1>7 DEF Doomed
  <1>11. ~Doomed(to)
    BY <1>1, HomeIsNotDoomed
  <1>12. ended' = {} => (Owned(from) => WholeAt(from))
    BY <1>2, <1>4, NamesApart DEF UpkeepIInv, AtHome
  <1>13. QED
    BY <1>2, <1>5, <1>6, <1>7, <1>8, <1>9, <1>10, <1>11, <1>12, RenameKeeps

\* What the user does to the folder of the installation.
LEMMA DestKeeps ==
    ASSUME UpkeepIInv, (\E f \in UnpackedFiles : LoseFile(f)) \/ PutFolder
    PROVE  UpkeepIInv'
  <1>1. /\ UpkeepTypes /\ folder \in [UpkeepNames -> Directories] /\ acts \in 0..MaxActs /\ Dest \in UpkeepNames
    BY NamesApart DEF UpkeepIInv, UpkeepTypes, UpkeepTypeOK, Directories
  <1>2. UNCHANGED <<preparedRow, archives, command, health, repairs, upkeepCrashes, ended>>
    BY DEF LoseFile, PutFolder
  <1>3. acts' \in 0..MaxActs
    BY <1>1, UpkeepBounds DEF LoseFile, PutFolder, UpkeepActs
  <1> DEFINE Result ==
         /\ folder' \in [UpkeepNames -> Directories] /\ \A n \in UpkeepNames \ {Dest} : folder'[n] = folder[n]
         /\ lost \subseteq lost' /\ lost' \subseteq UnpackedFiles
         /\ folder'[Dest].fading => folder[Dest].fading /\ folder'[Dest].marker # "foreign"
         /\ folder'[Dest].marker = "own" <=> folder[Dest].marker = "own"
         /\ UnpackedFiles \ lost \subseteq folder[Dest].files /\ folder[Dest].marker = "own"
              => UnpackedFiles \ lost' \subseteq folder'[Dest].files
  <1>4. Result
    <2>1. ASSUME NEW f \in UnpackedFiles, LoseFile(f) PROVE Result
      <3>1. folder' = [folder EXCEPT ![Dest].files = @ \ {f}] /\ lost' = lost \cup {f} /\ folder[Dest].marker = "own"
        BY <2>1 DEF LoseFile, Owned
      <3>2. lost \subseteq UnpackedFiles
        BY <1>1 DEF UpkeepTypes, UpkeepTypeOK
      <3>3. folder'[Dest] = [folder[Dest] EXCEPT !.files = @ \ {f}]
        BY <1>1, <3>1
      <3>4. /\ folder'[Dest].marker = "own" /\ folder'[Dest].fading = folder[Dest].fading
            /\ folder'[Dest].files = folder[Dest].files \ {f} /\ folder'[Dest] \in Directories
        BY <1>1, <3>1, <3>3 DEF Directories
      <3>5. folder' \in [UpkeepNames -> Directories] /\ \A n \in UpkeepNames \ {Dest} : folder'[n] = folder[n]
        BY <1>1, <3>1, <3>3, <3>4
      <3>6. QED
        BY <3>1, <3>2, <3>4, <3>5
    <2>2. ASSUME PutFolder PROVE Result
      <3>1. folder' = [folder EXCEPT ![Dest] = FolderOf("foreign", {})] /\ lost' = lost /\ folder[Dest] = NoFolder
        BY <2>2 DEF PutFolder, OnDisk
      <3>2. lost \subseteq UnpackedFiles
        BY <1>1 DEF UpkeepTypes, UpkeepTypeOK
      <3>3. folder' \in [UpkeepNames -> Directories] /\ folder'[Dest] = FolderOf("foreign", {})
        BY <1>1, <3>1, NoFolderIsOne
      <3>4. \A n \in UpkeepNames \ {Dest} : folder'[n] = folder[n]
        BY <1>1, <3>1
      <3>5. QED
        BY <3>1, <3>2, <3>3, <3>4 DEF FolderOf, NoFolder
    <2>3. QED
      BY <2>1, <2>2
  <1>5. UpkeepTypes'
    BY <1>1, <1>2, <1>3, <1>4 DEF UpkeepTypes, UpkeepTypeOK, Directories
  <1>6. \A d \in Callers : Task(d)' = Task(d) /\ command'[d] = command[d]
    BY <1>2 DEF Task
  <1>7. \A d \in Callers : /\ \A s : RepairIs(d, s)' <=> RepairIs(d, s)
                           /\ StageOf(d)' = StageOf(d) /\ RepairOf(d)' = RepairOf(d) /\ BackupOf(d)' = BackupOf(d)
    BY <1>6 DEF RepairIs, StageOf, RepairOf, BackupOf
  <1>8. \A d \in Callers : \A s : RepairIs(d, s) => {StageOf(d), RepairOf(d), BackupOf(d)} \subseteq Leftovers
    BY <1>1, TaskTypes, NamesApart DEF RepairIs, Repairs, StageOf, RepairOf, BackupOf
  <1>9. \A n : (Doomed(n)' <=> Doomed(n)) /\ (Referred(n)' <=> Referred(n))
    BY <1>2, <1>6, <1>7 DEF Doomed, Referred
  <1>10. \A n \in Leftovers : n \in UpkeepNames /\ folder'[n] = folder[n]
    BY <1>4, NamesApart
  <1> HIDE DEF Result
  <1>11. NamesAreNew'
    <2>1. \A k \in 1..MaxRepairs, s \in {"stage", "repair", "backup"} :
             k > repairs => folder'[Left(s, k)] = NoFolder
      BY <1>10, NamesApart DEF UpkeepIInv, NamesAreNew
    <2>2. \A d \in Callers : RepairIs(d, Builds)' => folder'[BackupOf(d)'] = NoFolder
      BY <1>7, <1>8, <1>10 DEF UpkeepIInv, NamesAreNew
    <2>3. QED
      BY <1>2, <1>6, <1>7, <2>1, <2>2 DEF UpkeepIInv, NamesAreNew
  <1>12. ReferredIsOurs'
    BY <1>2, <1>7, <1>9, <1>10 DEF UpkeepIInv, ReferredIsOurs
  <1>13. ForeignIsSafe'
    <2>1. \A n \in UpkeepNames : folder'[n].fading => folder'[n].marker # "foreign"
      BY <1>4 DEF Result, UpkeepIInv, ForeignIsSafe
    <2>2. \A k \in 1..MaxRepairs, s \in {"stage", "repair"} : folder'[Left(s, k)].marker # "foreign"
      BY <1>10, NamesApart DEF UpkeepIInv, ForeignIsSafe
    <2>3. \A d \in Callers : RepairIs(d, {"exchange"})' /\ Task(d)'.root \in Leftovers => folder'[BackupOf(d)'].marker # "foreign"
      BY <1>6, <1>7, <1>8, <1>10 DEF UpkeepIInv, ForeignIsSafe
    <2>4. QED
      BY <2>1, <2>2, <2>3 DEF ForeignIsSafe
  <1>14. ended' = {} => AtHome'
    <2> SUFFICES ASSUME ended = {} PROVE AtHome'
      BY <1>2
    <2>1. AtHome
      BY DEF UpkeepIInv
    <2>2. \A n \in {Dest, Away} : ~folder'[n].fading /\ (folder'[n].marker = "own" => UnpackedFiles \ lost' \subseteq folder'[n].files)
      BY <2>1, <1>4, NamesApart DEF Result, AtHome, Owned, WholeAt
    <2>3. QED
      BY <2>1, <2>2, <1>2, <1>6 DEF AtHome, Owned, WholeAt
  <1>15. ended' = {} => RepairIsWhole'
    <2> SUFFICES ASSUME ended = {}, NEW d \in Callers
                 PROVE  /\ RepairIs(d, {"sign", "activate"})' /\ Steady(StageOf(d))' => Missing(StageOf(d))' = {}
                        /\ RepairIs(d, {"activate"})' /\ Steady(StageOf(d))' => Owned(StageOf(d))'
                        /\ RepairIs(d, {"displace", "exchange"})' /\ Steady(RepairOf(d))' => Owned(RepairOf(d))' /\ Missing(RepairOf(d))' = {}
                        /\ RepairIs(d, {"exchange"})' /\ Steady(BackupOf(d))' /\ Owned(BackupOf(d))' => WholeAt(BackupOf(d))'
      BY <1>2 DEF RepairIsWhole
    <2>1. RepairIsWhole /\ lost \subseteq lost'
      BY <1>4 DEF Result, UpkeepIInv
    <2>2. \A s : RepairIs(d, s) =>
            /\ folder'[StageOf(d)] = folder[StageOf(d)] /\ folder'[RepairOf(d)] = folder[RepairOf(d)]
            /\ folder'[BackupOf(d)] = folder[BackupOf(d)]
      BY <1>8, <1>10
    <2>3. QED
      BY <1>7, <2>1, <2>2 DEF RepairIsWhole, Steady, OnDisk, Missing, Collected, Owned, WholeAt
  <1>16. ended' = {} => OneIsSafe'
    <2> SUFFICES ASSUME ended = {} PROVE OneIsSafe'
      BY <1>2
    <2>1. PICK n \in UpkeepNames : Owned(n) /\ WholeAt(n) /\ ~folder[n].fading /\ ~Doomed(n)
      BY DEF UpkeepIInv, OneIsSafe
    <2>2. ~Doomed(n)'
      BY <1>9, <2>1
    <2>3. CASE n = Dest
      BY <1>4, <2>1, <2>2, <2>3 DEF Result, OneIsSafe, Owned, WholeAt
    <2>4. CASE n # Dest
      BY <1>4, <2>1, <2>2, <2>4 DEF Result, OneIsSafe, Owned, WholeAt
    <2>5. QED
      BY <2>3, <2>4
  <1>17. QED
    BY <1>5, <1>11, <1>12, <1>13, <1>14, <1>15, <1>16 DEF UpkeepIInv

LEMMA UpkeepStopKeeps ==
    ASSUME UpkeepIInv, UpkeepStop
    PROVE  UpkeepIInv'
  <1>1. /\ UpkeepTypes /\ folder \in [UpkeepNames -> Directories]
    BY DEF UpkeepIInv, UpkeepTypes, UpkeepTypeOK, Directories
  <1>2. /\ UNCHANGED <<lost, ended, preparedRow, archives, health, repairs, acts>>
        /\ command' = [c \in Callers |-> NoCommand]
        /\ folder' = [n \in UpkeepNames |-> [folder[n] EXCEPT !.fading = FALSE]]
    BY DEF UpkeepStop
  <1>3. \A n \in UpkeepNames : /\ folder'[n] \in Directories /\ folder'[n].marker = folder[n].marker
                               /\ folder'[n].files = folder[n].files /\ ~folder'[n].fading
    BY <1>1, <1>2 DEF Directories
  <1>4. ASSUME NEW n \in UpkeepNames, folder[n] = NoFolder PROVE folder'[n] = NoFolder
    <2>1. folder'[n] \in Directories /\ NoFolder \in Directories
      BY <1>3, NoFolderIsOne
    <2>2. /\ folder'[n].marker = NoFolder.marker /\ folder'[n].files = NoFolder.files
          /\ ~folder'[n].fading /\ ~NoFolder.fading
      BY <1>3, <1>4 DEF NoFolder
    <2>3. folder'[n].fading = NoFolder.fading
      BY <2>1, <2>2 DEF Directories
    <2>4. QED
      BY <2>1, <2>2, <2>3 DEF Directories
  <1>5. upkeepCrashes' \in 0..MaxUpkeepCrashes
    BY <1>1, UpkeepBounds DEF UpkeepStop, UpkeepTypes, UpkeepTypeOK
  <1>6. \A c \in Callers : command'[c] = NoCommand /\ Task(c)' = NoCommand
    BY <1>2 DEF Task, NoCommand
  <1>7. folder' \in [UpkeepNames -> Directories]
    BY <1>2, <1>3
  <1>8. UpkeepTypes'
    BY <1>1, <1>2, <1>5, <1>6, <1>7 DEF UpkeepTypes, UpkeepTypeOK, Directories, NoCommand
  <1>9. \A c \in Callers : \A s : ~RepairIs(c, s)'
    BY <1>6 DEF RepairIs, NoCommand
  <1>10. /\ \A n \in UpkeepNames : ~Doomed(n)'
         /\ \A n \in UpkeepNames : Referred(n)' => Referred(n)
    BY <1>2, <1>6, <1>9 DEF Doomed, Referred, NoCommand
  <1>11. NamesAreNew'
    BY <1>2, <1>4, <1>9, NamesApart DEF UpkeepIInv, NamesAreNew
  <1>12. ReferredIsOurs'
    BY <1>2, <1>3, <1>9, <1>10, NamesApart DEF UpkeepIInv, ReferredIsOurs
  <1>13. ForeignIsSafe'
    BY <1>3, <1>9, NamesApart DEF UpkeepIInv, ForeignIsSafe
  <1>14. ended' = {} => AtHome'
    BY <1>2, <1>3, <1>6, NamesApart DEF UpkeepIInv, AtHome, Owned, WholeAt, NoCommand
  <1>15. ended' = {} => RepairIsWhole'
    BY <1>9 DEF RepairIsWhole
  <1>16. ended' = {} => OneIsSafe'
    BY <1>2, <1>3, <1>10 DEF UpkeepIInv, OneIsSafe, Owned, WholeAt
  <1>17. QED
    BY <1>8, <1>11, <1>12, <1>13, <1>14, <1>15, <1>16 DEF UpkeepIInv

LEMMA UpkeepInitHolds == UpkeepInit => UpkeepIInv
  <1> SUFFICES ASSUME UpkeepInit PROVE UpkeepIInv
    OBVIOUS
  <1>1. \A n \in UpkeepNames : folder[n] = IF n = Dest THEN FolderOf("own", UnpackedFiles) ELSE NoFolder
    BY DEF UpkeepInit
  <1>2. FolderOf("own", UnpackedFiles) \in Directories
    BY DEF FolderOf, Directories
  <1>3. folder \in [UpkeepNames -> Directories]
    BY <1>2, NoFolderIsOne DEF UpkeepInit
  <1>4. \A c \in Callers : command[c] = NoCommand /\ Task(c) = NoCommand
    BY DEF UpkeepInit, Task, NoCommand
  <1>5. UpkeepTypes
    BY <1>3, <1>4, NamesApart, UpkeepBounds DEF UpkeepInit, UpkeepTypes, UpkeepTypeOK, Directories, NoCommand
  <1>6. \A c \in Callers : \A s : ~RepairIs(c, s)
    BY <1>4 DEF RepairIs, NoCommand
  <1>7. \A n \in Leftovers : folder[n] = NoFolder /\ ~Referred(n)
    BY <1>1, <1>4, NamesApart DEF UpkeepInit, Referred, NoCommand
  <1>8. NamesAreNew /\ ReferredIsOurs
    BY <1>6, <1>7, NamesApart DEF NamesAreNew, ReferredIsOurs
  <1>9. ForeignIsSafe
    BY <1>1, <1>6, NamesApart DEF ForeignIsSafe, FolderOf, NoFolder
  <1>10. AtHome
    BY <1>1, <1>4, NamesApart DEF UpkeepInit, AtHome, Owned, WholeAt, FolderOf, NoFolder, NoCommand
  <1>11. RepairIsWhole
    BY <1>6 DEF RepairIsWhole
  <1>12. OneIsSafe
    <2>1. ~Doomed(Dest)
      BY <1>4, <1>6 DEF Doomed, NoCommand
    <2>2. QED
      BY <1>1, <2>1, NamesApart DEF OneIsSafe, Owned, WholeAt, FolderOf
  <1>13. QED
    BY <1>5, <1>8, <1>9, <1>10, <1>11, <1>12 DEF UpkeepIInv

LEMMA UpkeepStutterKeeps ==
    ASSUME UpkeepIInv, UNCHANGED upkeepVars
    PROVE  UpkeepIInv'
  <1>1. UNCHANGED <<folder, preparedRow, archives, command, health, repairs, acts, upkeepCrashes, lost, ended>>
    BY DEF upkeepVars
  <1>2. UpkeepTypes' /\ \A c \in Callers : Task(c)' = Task(c)
    BY <1>1 DEF UpkeepIInv, UpkeepTypes, UpkeepTypeOK, Task
  <1>3. \A n \in UpkeepNames : Fades(n)
    BY <1>1 DEF Fades
  <1>4. /\ preparedRow' = NoRow \/ \E n \in UpkeepNames : preparedRow' = n /\ Referred(n)
        /\ ended' = {} => preparedRow' \notin Leftovers
    BY <1>1, RowIsReferred DEF UpkeepIInv, AtHome
  <1>5. QED
    BY <1>1, <1>2, <1>3, <1>4, CalmKeeps

-----------------------------------------------------------------------------
(* Maintenance: the theorems.                                              *)

\* Every command, removal, move and stop keeps it: there is a whole folder of the
\* installation that none of the running commands is about to remove.
THEOREM UpkeepInductive == UpkeepSpec => []UpkeepIInv
  <1>1. ASSUME UpkeepIInv, [UpkeepNext]_upkeepVars PROVE UpkeepIInv'
    <2>1. ASSUME NEW c \in Callers,
                 \/ SaveRelocation(c) \/ \E n \in UpkeepNames : Relocate(c, n)
                 \/ StartRepair(c) \/ CreateStage(c) \/ UnpackRepair(c) \/ VerifyStage(c) \/ SignStage(c)
                 \/ NameRepair(c) \/ Displace(c) \/ Exchange(c) \/ AbandonRepair(c) \/ RemoveOld(c)
                 \/ SaveRepair(c)
                 \/ StartUninstall(c) \/ UninstallFolder(c) \/ UninstallRow(c)
                 \/ StartSweep(c) \/ RemoveEntry(c) \/ EndCleanup(c)
                 \/ \E n \in Leftovers : JudgeEntry(c, n)
                 \/ Removed(c)
          PROVE  UpkeepIInv'
      BY <1>1, <2>1, SaveRelocationKeeps, BeginActsKeep, CreateStageKeeps, UnpackRepairKeeps,
         VerifyStageKeeps, SignStageKeeps, NameRepairKeeps, DisplaceKeeps, ExchangeKeeps,
         AbandonRepairKeeps, RemoveOldKeeps, SaveRepairKeeps, UninstallKeeps, SweepEntryKeeps,
         RemovedKeeps
    <2>2. CASE Verify \/ RemoveFromLibrary \/ DeleteArchives
      BY <1>1, <2>2, OtherKeeps
    <2>3. CASE (\E f \in UnpackedFiles : LoseFile(f)) \/ PutFolder
      BY <1>1, <2>3, DestKeeps
    <2>4. CASE UpkeepStop
      BY <1>1, <2>4, UpkeepStopKeeps
    <2>5. CASE \E from \in UpkeepNames, to \in {Dest, Away} : MoveFolder(from, to)
      BY <1>1, <2>5, MoveFolderKeeps
    <2>6. CASE UNCHANGED upkeepVars
      BY <1>1, <2>6, UpkeepStutterKeeps
    <2>7. QED
      BY <1>1, <2>1, <2>2, <2>3, <2>4, <2>5, <2>6 DEF UpkeepNext
  <1>2. QED
    BY <1>1, UpkeepInitHolds, PTL DEF UpkeepSpec

\* Repairs, cleanups and stops of the launcher leave what the user did not delete of an
\* installation in one folder that carries its marker, and never remove a folder of the
\* user's own (repair in dla-archive/src/installer.rs, cleanup_abandoned).
THEOREM InstallationStays == UpkeepSpec => []InstallationSurvives
  <1>1. UpkeepIInv => InstallationSurvives
    BY DEF UpkeepIInv, OneIsSafe, ForeignIsSafe, InstallationSurvives, WholeAt
  <1>2. QED
    BY <1>1, UpkeepInductive, PTL

\* Folders, commands and the stored report are of their kinds, and the bounds hold.
THEOREM UpkeepTypeCorrect == UpkeepSpec => []UpkeepTypeOK
  <1>1. UpkeepIInv => UpkeepTypeOK
    BY DEF UpkeepIInv, UpkeepTypes
  <1>2. QED
    BY <1>1, UpkeepInductive, PTL

-----------------------------------------------------------------------------
(***************************************************************************)
(* Sums over a finite set, as the folds of the community modules compute   *)
(* them: an element is chosen, and what is left is summed.  The result     *)
(* does not depend on the choice, which a least counterexample shows.      *)
(***************************************************************************)

Chosen(s) == CHOOSE x \in s : TRUE

\* g is, for every part of S, the sum of the weights w of its elements.
SumsUp(g, w, S) ==
    g = [s \in SUBSET S |-> IF s = {} THEN 0 ELSE w[Chosen(s)] + g[s \ {Chosen(s)}]]

SumOf(w, S) == (CHOOSE g : SumsUp(g, w, S))[S]

LEMMA LeastNumber ==
    ASSUME NEW N \in SUBSET Nat, N # {}
    PROVE  \E i \in N : \A j \in Nat : j < i => j \notin N
  <1>1. PICK x \in N : \A y \in N : ~ (<<y, x>> \in OpToRel(<, Nat))
    BY NatLessThanWellFounded, WFMin
  <1>2. \A y \in N : ~ (y < x)
    BY <1>1 DEF OpToRel
  <1>3. QED
    BY <1>2

LEMMA SmallerPart ==
    ASSUME NEW s, IsFiniteSet(s), NEW x \in s
    PROVE  /\ IsFiniteSet(s \ {x})
           /\ Cardinality(s) \in Nat /\ Cardinality(s \ {x}) \in Nat
           /\ Cardinality(s \ {x}) = Cardinality(s) - 1
  BY FS_RemoveElement, FS_CardinalityType, FS_Subset

LEMMA ChosenIsIn ==
    ASSUME NEW s, s # {}
    PROVE  Chosen(s) \in s
  BY DEF Chosen

\* g folds, from base, what is picked of every part of S into what its rest comes to.
FoldsUp(g, S, base, pick, step) ==
    /\ g[{}] = base
    /\ \A s \in SUBSET S : s # {} => g[s] = step[<<pick[s], g[s \ {pick[s]}]>>]

\* A fold over a finite set exists, whatever it chooses and computes: from one on the parts
\* of up to n elements, one on those of up to n + 1.
LEMMA FoldsExist ==
    ASSUME NEW S, IsFiniteSet(S), NEW V, NEW base \in V, NEW pick, NEW step,
           \A s \in SUBSET S : s # {} => pick[s] \in s,
           \A x \in S : \A v \in V : step[<<x, v>>] \in V
    PROVE  \E g \in [SUBSET S -> V] : FoldsUp(g, S, base, pick, step)
  <1> DEFINE Parts(n) == {s \in SUBSET S : Cardinality(s) <= n}
             Step(g, s) == IF s = {} THEN base ELSE step[<<pick[s], g[s \ {pick[s]}]>>]
             Good(g, n) == g \in [Parts(n) -> V] /\ \A s \in Parts(n) : g[s] = Step(g, s)
             Bad == {n \in Nat : ~ \E g : Good(g, n)}
  <1>1. \A s \in SUBSET S : IsFiniteSet(s) /\ Cardinality(s) \in Nat
    BY FS_Subset, FS_CardinalityType
  <1>2. ASSUME NEW n \in Nat, NEW s \in Parts(n), s # {}
        PROVE  pick[s] \in s /\ n # 0 /\ s \ {pick[s]} \in Parts(n - 1)
    <2>1. pick[s] \in s
      BY <1>2
    <2>2. Cardinality(s) \in Nat /\ Cardinality(s \ {pick[s]}) = Cardinality(s) - 1
          /\ Cardinality(s \ {pick[s]}) \in Nat
      BY <1>1, <2>1, SmallerPart
    <2>3. QED
      BY <1>2, <2>1, <2>2
  <1>3. Bad = {}
    <2>1. SUFFICES ASSUME Bad # {} PROVE FALSE
      OBVIOUS
    <2>2. PICK n \in Bad : \A m \in Nat : m < n => m \notin Bad
      BY <2>1, LeastNumber
    <2>3. CASE n = 0
      <3> DEFINE g == [s \in Parts(0) |-> base]
      <3>1. \A s \in Parts(0) : s = {}
        BY <1>2
      <3>2. Good(g, 0)
        BY <3>1
      <3>3. QED
        BY <2>2, <2>3, <3>2
    <2>4. CASE n # 0
      <3>1. n - 1 \in Nat /\ n - 1 \notin Bad
        <4>1. n - 1 \in Nat /\ n - 1 < n
          BY <2>4
        <4> HIDE DEF Bad
        <4>2. QED
          BY <2>2, <4>1
      <3>2. PICK g : Good(g, n - 1)
        BY <3>1
      <3> DEFINE h == [s \in Parts(n) |-> Step(g, s)]
      <3>3. \A s \in Parts(n - 1) : s \in Parts(n) /\ h[s] = g[s]
        BY <1>1, <2>2, <3>1, <3>2
      <3>4. ASSUME NEW s \in Parts(n) PROVE h[s] \in V /\ h[s] = Step(h, s)
        <4>1. CASE s = {}
          BY <4>1
        <4>2. CASE s # {}
          <5>1. pick[s] \in S /\ s \ {pick[s]} \in Parts(n - 1)
            BY <1>2, <2>2, <4>2
          <5>2. g[s \ {pick[s]}] \in V /\ h[s \ {pick[s]}] = g[s \ {pick[s]}]
            BY <3>2, <3>3, <5>1
          <5>3. h[s] = step[<<pick[s], g[s \ {pick[s]}]>>]
            BY <4>2
          <5>4. QED
            BY <4>2, <5>1, <5>2, <5>3
        <4>3. QED
          BY <4>1, <4>2
      <3> HIDE DEF h
      <3>5. h \in [Parts(n) -> V]
        BY <3>4 DEF h
      <3>6. Good(h, n)
        BY <3>4, <3>5
      <3>7. QED
        BY <2>2, <3>6
    <2>5. QED
      BY <2>3, <2>4
  <1>4. PICK g : Good(g, Cardinality(S))
    BY <1>1, <1>3
  <1>5. Parts(Cardinality(S)) = SUBSET S
    BY FS_Subset
  <1>6. g \in [SUBSET S -> V] /\ \A s \in SUBSET S : g[s] = Step(g, s)
    BY <1>4, <1>5
  <1>7. FoldsUp(g, S, base, pick, step)
    BY <1>6 DEF FoldsUp
  <1>8. QED
    BY <1>6, <1>7

LEMMA SumsExist ==
    ASSUME NEW S, IsFiniteSet(S), NEW w, \A x \in S : w[x] \in Nat
    PROVE  \E g : g \in [SUBSET S -> Nat] /\ SumsUp(g, w, S)
  <1> DEFINE pick == [s \in SUBSET S |-> Chosen(s)]
             step == [p \in S \X Nat |-> w[p[1]] + p[2]]
  <1>1. \A s \in SUBSET S : s # {} => pick[s] = Chosen(s) /\ Chosen(s) \in s
    BY ChosenIsIn
  <1>2. \A x \in S : \A v \in Nat : step[<<x, v>>] = w[x] + v /\ step[<<x, v>>] \in Nat
    OBVIOUS
  <1> HIDE DEF pick, step
  <1>3. PICK g \in [SUBSET S -> Nat] : FoldsUp(g, S, 0, pick, step)
    <2>1. 0 \in Nat
      OBVIOUS
    <2>2. \A s \in SUBSET S : s # {} => pick[s] \in s
      BY <1>1
    <2>3. \A x \in S : \A v \in Nat : step[<<x, v>>] \in Nat
      BY <1>2
    <2>4. QED
      BY <2>1, <2>2, <2>3, FoldsExist
  <1>4. ASSUME NEW s \in SUBSET S
        PROVE  g[s] = IF s = {} THEN 0 ELSE w[Chosen(s)] + g[s \ {Chosen(s)}]
    <2>1. CASE s = {}
      BY <1>3, <2>1 DEF FoldsUp
    <2>2. CASE s # {}
      <3>1. Chosen(s) \in S /\ pick[s] = Chosen(s) /\ g[s \ {Chosen(s)}] \in Nat
        BY <1>1, <1>3, <2>2
      <3>2. g[s] = step[<<Chosen(s), g[s \ {Chosen(s)}]>>]
        BY <1>3, <2>2, <3>1 DEF FoldsUp
      <3>3. QED
        BY <1>2, <2>2, <3>1, <3>2
    <2>3. QED
      BY <2>1, <2>2
  <1>5. SumsUp(g, w, S)
    BY <1>3, <1>4 DEF SumsUp
  <1>6. QED
    BY <1>3, <1>5

\* Two functions that sum up the same weights agree on every part they share.
LEMMA SumsAgree ==
    ASSUME NEW S, NEW w, NEW g, SumsUp(g, w, S),
           NEW T, NEW v, NEW h, SumsUp(h, v, T),
           NEW U, IsFiniteSet(U), U \subseteq S, U \subseteq T, \A x \in U : w[x] = v[x]
    PROVE  g[U] = h[U]
  <1> DEFINE Bad == {n \in Nat : \E s \in SUBSET U : Cardinality(s) = n /\ g[s] # h[s]}
  <1>1. \A s \in SUBSET U : IsFiniteSet(s) /\ Cardinality(s) \in Nat
    BY FS_Subset, FS_CardinalityType
  <1>2. Bad = {}
    <2>1. SUFFICES ASSUME Bad # {} PROVE FALSE
      OBVIOUS
    <2>2. PICK n \in Bad : \A m \in Nat : m < n => m \notin Bad
      BY <2>1, LeastNumber
    <2>3. PICK s \in SUBSET U : Cardinality(s) = n /\ g[s] # h[s]
      BY <2>2
    <2>4. s \in SUBSET S /\ s \in SUBSET T
      OBVIOUS
    <2>5. s # {}
      BY <2>3, <2>4 DEF SumsUp
    <2>6. Chosen(s) \in s
      BY <2>5, ChosenIsIn
    <2>7. /\ g[s] = w[Chosen(s)] + g[s \ {Chosen(s)}]
          /\ h[s] = v[Chosen(s)] + h[s \ {Chosen(s)}]
      BY <2>4, <2>5 DEF SumsUp
    <2>8. Cardinality(s \ {Chosen(s)}) \in Nat /\ Cardinality(s \ {Chosen(s)}) = n - 1
      BY <1>1, <2>3, <2>6, SmallerPart
    <2>9. s \ {Chosen(s)} \in SUBSET U /\ Cardinality(s \ {Chosen(s)}) \notin Bad
      <3>1. n - 1 < n
        OBVIOUS
      <3> HIDE DEF Bad
      <3>2. QED
        BY <2>2, <2>8, <3>1
    <2>10. g[s \ {Chosen(s)}] = h[s \ {Chosen(s)}]
      BY <2>8, <2>9
    <2>11. w[Chosen(s)] = v[Chosen(s)]
      BY <2>6
    <2>12. QED
      BY <2>3, <2>7, <2>10, <2>11
  <1>3. Cardinality(U) \in Nat /\ Cardinality(U) \notin Bad
    BY <1>1, <1>2
  <1>4. QED
    BY <1>3

\* What a fold over a set chooses sums up its weights.
LEMMA SumOfSumsUp ==
    ASSUME NEW S, IsFiniteSet(S), NEW w, \A x \in S : w[x] \in Nat
    PROVE  \E g : g \in [SUBSET S -> Nat] /\ SumsUp(g, w, S) /\ SumOf(w, S) = g[S]
  <1> DEFINE c == CHOOSE g : SumsUp(g, w, S)
  <1>1. PICK g : g \in [SUBSET S -> Nat] /\ SumsUp(g, w, S)
    BY SumsExist
  <1>2. SumsUp(c, w, S)
    BY <1>1
  <1>3. SumOf(w, S) = c[S]
    BY DEF SumOf
  <1> HIDE DEF c
  <1>4. c[S] = g[S]
    BY <1>1, <1>2, SumsAgree
  <1>5. QED
    BY <1>1, <1>3, <1>4

LEMMA SumType ==
    ASSUME NEW S, IsFiniteSet(S), NEW w, \A x \in S : w[x] \in Nat
    PROVE  SumOf(w, S) \in Nat
  <1>1. PICK g : g \in [SUBSET S -> Nat] /\ SumOf(w, S) = g[S]
    BY SumOfSumsUp
  <1>2. S \in SUBSET S
    OBVIOUS
  <1>3. QED
    BY <1>1, <1>2

LEMMA SumOfNothing ==
    ASSUME NEW w
    PROVE  SumOf(w, {}) = 0
  <1>1. PICK g : g \in [SUBSET {} -> Nat] /\ SumsUp(g, w, {}) /\ SumOf(w, {}) = g[{}]
    BY SumOfSumsUp, FS_EmptySet
  <1>2. QED
    BY <1>1 DEF SumsUp

\* Equal weights have equal sums.
LEMMA SumOfSame ==
    ASSUME NEW S, IsFiniteSet(S), NEW w, \A x \in S : w[x] \in Nat,
           NEW v, \A x \in S : v[x] = w[x]
    PROVE  SumOf(v, S) = SumOf(w, S)
  <1>1. PICK g : SumsUp(g, w, S) /\ SumOf(w, S) = g[S]
    BY SumOfSumsUp
  <1>2. PICK h : SumsUp(h, v, S) /\ SumOf(v, S) = h[S]
    BY SumOfSumsUp
  <1>3. QED
    BY <1>1, <1>2, SumsAgree

\* Any element may be taken out first.
LEMMA SumTakesOut ==
    ASSUME NEW S, IsFiniteSet(S), NEW w, \A x \in S : w[x] \in Nat, NEW e \in S
    PROVE  SumOf(w, S) = w[e] + SumOf(w, S \ {e})
  <1>1. PICK g : g \in [SUBSET S -> Nat] /\ SumsUp(g, w, S) /\ SumOf(w, S) = g[S]
    BY SumOfSumsUp
  <1> DEFINE Bad == {n \in Nat : \E s \in SUBSET S : Cardinality(s) = n /\ \E x \in s : g[s] # w[x] + g[s \ {x}]}
  <1>2. \A s \in SUBSET S : IsFiniteSet(s) /\ Cardinality(s) \in Nat
    BY FS_Subset, FS_CardinalityType
  <1>3. Bad = {}
    <2>1. SUFFICES ASSUME Bad # {} PROVE FALSE
      OBVIOUS
    <2>2. PICK n \in Bad : \A m \in Nat : m < n => m \notin Bad
      BY <2>1, LeastNumber
    <2>3. PICK s \in SUBSET S : Cardinality(s) = n /\ \E x \in s : g[s] # w[x] + g[s \ {x}]
      BY <2>2
    <2>4. PICK x \in s : g[s] # w[x] + g[s \ {x}]
      BY <2>3
    <2>5. PICK c : c = Chosen(s)
      OBVIOUS
    <2>6. c \in s /\ s # {}
      BY <2>4, <2>5, ChosenIsIn
    <2>7. g[s] = w[c] + g[s \ {c}]
      BY <1>1, <2>5, <2>6 DEF SumsUp
    <2>8. x # c
      BY <2>4, <2>7
    <2>9. ASSUME NEW y \in s PROVE \A z \in s \ {y} : g[s \ {y}] = w[z] + g[(s \ {y}) \ {z}]
      <3>1. Cardinality(s \ {y}) \in Nat /\ Cardinality(s \ {y}) = n - 1
        BY <1>2, <2>3, SmallerPart
      <3>2. s \ {y} \in SUBSET S /\ Cardinality(s \ {y}) \notin Bad
        <4>1. n - 1 < n
          OBVIOUS
        <4> HIDE DEF Bad
        <4>2. QED
          BY <2>2, <3>1, <4>1
      <3>3. QED
        BY <3>1, <3>2
    <2>10. g[s \ {c}] = w[x] + g[(s \ {c}) \ {x}]
      BY <2>4, <2>6, <2>8, <2>9
    <2>11. g[s \ {x}] = w[c] + g[(s \ {x}) \ {c}]
      BY <2>4, <2>6, <2>8, <2>9
    <2>12. (s \ {x}) \ {c} = (s \ {c}) \ {x}
      OBVIOUS
    <2>13. w[x] \in Nat /\ w[c] \in Nat /\ g[(s \ {c}) \ {x}] \in Nat
      BY <1>1, <2>4, <2>6
    <2>14. g[s] = w[c] + (w[x] + g[(s \ {c}) \ {x}])
      BY <2>7, <2>10
    <2>15. g[s \ {x}] = w[c] + g[(s \ {c}) \ {x}]
      BY <2>11, <2>12
    <2>16. g[s] = w[x] + g[s \ {x}]
      BY <2>13, <2>14, <2>15
    <2>17. QED
      BY <2>4, <2>16
  <1>4. g[S] = w[e] + g[S \ {e}]
    <2>1. Cardinality(S) \in Nat /\ Cardinality(S) \notin Bad
      BY <1>2, <1>3
    <2>2. QED
      BY <2>1
  <1>5. PICK h : SumsUp(h, w, S \ {e}) /\ SumOf(w, S \ {e}) = h[S \ {e}]
    BY SumOfSumsUp, FS_Subset
  <1>6. g[S \ {e}] = h[S \ {e}]
    BY <1>1, <1>2, <1>5, SumsAgree
  <1>7. QED
    BY <1>1, <1>4, <1>5, <1>6

\* A part has no greater sum, and the same when the rest weighs nothing.
LEMMA SumOfPart ==
    ASSUME NEW S, IsFiniteSet(S), NEW w, \A x \in S : w[x] \in Nat, NEW T \in SUBSET S
    PROVE  /\ SumOf(w, T) <= SumOf(w, S)
           /\ (\A x \in S \ T : w[x] = 0) => SumOf(w, T) = SumOf(w, S)
  <1> DEFINE Holds(s) == /\ SumOf(w, T) <= SumOf(w, s)
                         /\ (\A x \in s \ T : w[x] = 0) => SumOf(w, T) = SumOf(w, s)
             Bad == {n \in Nat : \E s \in SUBSET S : Cardinality(s) = n /\ T \subseteq s /\ ~Holds(s)}
  <1>1. \A s \in SUBSET S : IsFiniteSet(s) /\ Cardinality(s) \in Nat /\ SumOf(w, s) \in Nat
    BY FS_Subset, FS_CardinalityType, SumType
  <1>2. Bad = {}
    <2>1. SUFFICES ASSUME Bad # {} PROVE FALSE
      OBVIOUS
    <2>2. PICK n \in Bad : \A m \in Nat : m < n => m \notin Bad
      BY <2>1, LeastNumber
    <2>3. PICK s \in SUBSET S : Cardinality(s) = n /\ T \subseteq s /\ ~Holds(s)
      BY <2>2
    <2>4. s # T
      BY <1>1, <2>3
    <2>5. PICK x \in s : x \notin T
      BY <2>3, <2>4
    <2>6. Cardinality(s \ {x}) \in Nat /\ Cardinality(s \ {x}) = n - 1
      BY <1>1, <2>3, SmallerPart
    <2>7. s \ {x} \in SUBSET S /\ T \subseteq s \ {x} /\ Cardinality(s \ {x}) \notin Bad
      BY <2>2, <2>3, <2>5, <2>6
    <2>8. Holds(s \ {x})
      BY <2>6, <2>7
    <2>9. SumOf(w, s) = w[x] + SumOf(w, s \ {x})
      BY <1>1, SumTakesOut
    <2>10. w[x] \in Nat /\ SumOf(w, T) \in Nat /\ SumOf(w, s \ {x}) \in Nat
      BY <1>1
    <2>11. SumOf(w, T) <= SumOf(w, s)
      BY <2>8, <2>9, <2>10
    <2>12. (\A y \in s \ T : w[y] = 0) => SumOf(w, T) = SumOf(w, s)
      BY <2>5, <2>8, <2>9, <2>10
    <2>13. QED
      BY <2>3, <2>11, <2>12
  <1>3. Cardinality(S) \in Nat /\ Cardinality(S) \notin Bad
    BY <1>1, <1>2
  <1>4. QED
    BY <1>3

-----------------------------------------------------------------------------
(* CoverCache: the inductive invariant.                                    *)

CacheEntries == [size : 0..MaxSize, at : 0..MaxTime]
LoadPlaces == {"idle", "meta", "body", "drop", "fetch", "refresh", "write", "commit"}
Loads == [at : LoadPlaces, key : Keys \cup {"none"}, entry : CacheEntries,
          size : 0..MaxSize, old : 0..MaxSize, since : 0..MaxTime]

CacheTypes ==
    /\ body \in [Keys -> 0..MaxSize] /\ meta \in [Keys -> CacheEntries]
    /\ usage \in [bytes : Nat, entries : Nat]
    /\ settings \in SettingChoices /\ stored \in SettingChoices
    /\ loader \in [Loaders -> Loads] /\ holder \in Loaders \cup {"nobody"}
    /\ now \in 0..MaxTime /\ cacheFaults \in 0..MaxCacheFaults
    /\ restarts \in 0..MaxRestarts /\ missed \in BOOLEAN

\* A request at work is for a cover.
KeysAreGiven == \A c \in Loaders : loader[c].at # "idle" => Key(c) \in Keys

\* The request that wrote a body is the one that holds the lock, and its body stays.
LockIsHeld ==
    \A c \in Loaders : /\ loader[c].at = "commit" <=> holder = c
                       /\ holder = c => body[Key(c)] = loader[c].size

\* The bodies the count in memory is about: of the cover that is written, the old one.
CountedBodies == IF holder = "nobody" THEN body
                 ELSE [body EXCEPT ![Key(holder)] = loader[holder].old]

\* The count in memory never understates the bodies, and they keep to the limit.
CountIsEnough ==
    ~missed => /\ BytesOf(Keys, CountedBodies) <= usage.bytes
               /\ ~settings.unlimited => BytesOf(Keys, CountedBodies) <= MaxBytes

CacheIInv == CacheTypes /\ KeysAreGiven /\ LockIsHeld /\ CountIsEnough

-----------------------------------------------------------------------------
(* The bytes of some bodies.                                               *)

LEMMA BytesAreSum ==
    ASSUME NEW ks, NEW b
    PROVE  BytesOf(ks, b) = SumOf(b, ks)
  BY DEF BytesOf, MapThenSumSet, MapThenFoldSet, SumOf, SumsUp, Chosen

LEMMA BytesType ==
    ASSUME NEW b \in [Keys -> Nat], NEW ks \in SUBSET Keys
    PROVE  BytesOf(ks, b) \in Nat
  <1>1. IsFiniteSet(ks) /\ \A x \in ks : b[x] \in Nat
    BY CacheBounds, FS_Subset
  <1>2. QED
    BY <1>1, BytesAreSum, SumType

\* A body that is written, cut or removed.
LEMMA BytesOfChange ==
    ASSUME NEW b \in [Keys -> Nat], NEW k \in Keys, NEW n \in Nat,
           NEW d, d = [b EXCEPT ![k] = n]
    PROVE  BytesOf(Keys, d) = BytesOf(Keys, b) - b[k] + n
  <1>1. IsFiniteSet(Keys) /\ IsFiniteSet(Keys \ {k})
    BY CacheBounds, FS_Subset
  <1>2. /\ \A x \in Keys : b[x] \in Nat
        /\ \A x \in Keys : d[x] \in Nat
        /\ \A x \in Keys \ {k} : b[x] \in Nat
        /\ \A x \in Keys \ {k} : d[x] = b[x]
        /\ d[k] = n
    OBVIOUS
  <1>3. SumOf(b, Keys) = b[k] + SumOf(b, Keys \ {k})
    BY <1>1, <1>2, SumTakesOut
  <1>4. SumOf(d, Keys) = d[k] + SumOf(d, Keys \ {k})
    BY <1>1, <1>2, SumTakesOut
  <1>5. SumOf(d, Keys \ {k}) = SumOf(b, Keys \ {k})
    BY <1>1, <1>2, SumOfSame
  <1>6. SumOf(b, Keys \ {k}) \in Nat /\ b[k] \in Nat
    BY <1>1, <1>2, SumType
  <1>7. SumOf(d, Keys) = SumOf(b, Keys) - b[k] + n
    BY <1>2, <1>3, <1>4, <1>5, <1>6
  <1>8. QED
    BY <1>7, BytesAreSum

\* What is left of the bodies after a reconciliation.
LEMMA BytesOfKept ==
    ASSUME NEW b \in [Keys -> Nat], NEW ks \in SUBSET Keys,
           NEW d, d = [k \in Keys |-> IF k \in ks THEN b[k] ELSE 0]
    PROVE  BytesOf(Keys, d) = BytesOf(ks, b)
  <1>1. IsFiniteSet(Keys) /\ IsFiniteSet(ks)
    BY CacheBounds, FS_Subset
  <1>2. /\ \A x \in Keys : d[x] \in Nat
        /\ \A x \in Keys \ ks : d[x] = 0
        /\ \A x \in ks : b[x] \in Nat
        /\ \A x \in ks : d[x] = b[x]
    OBVIOUS
  <1>3. SumOf(d, ks) = SumOf(d, Keys)
    BY <1>1, <1>2, SumOfPart
  <1>4. SumOf(d, ks) = SumOf(b, ks)
    BY <1>1, <1>2, SumOfSame
  <1>5. QED
    BY <1>3, <1>4, BytesAreSum

-----------------------------------------------------------------------------
(* What the steps of a request change.                                     *)

LEMMA LoadTypes ==
    ASSUME CacheTypes, NEW c \in Loaders
    PROVE  /\ loader[c] \in Loads /\ loader[c].at \in LoadPlaces /\ loader[c].entry \in CacheEntries
           /\ loader[c].size \in 0..MaxSize /\ loader[c].old \in 0..MaxSize
           /\ loader[c].since \in 0..MaxTime /\ loader[c].key \in Keys \cup {"none"}
           /\ Key(c) = loader[c].key
  BY DEF CacheTypes, Loads, Key

LEMMA ZeroIsSmall ==
    /\ 0 \in 0..MaxSize /\ 0 \in 0..MaxTime /\ NoEntry \in CacheEntries /\ NoLoad \in Loads
    /\ NoLoad.at = "idle"
  <1>1. 0 \in 0..MaxSize /\ 0 \in 0..MaxTime
    BY CacheBounds
  <1>2. NoEntry \in CacheEntries
    BY <1>1 DEF NoEntry, CacheEntries
  <1>3. QED
    BY <1>1, <1>2 DEF NoLoad, Loads, LoadPlaces

LEMMA SizesAreNumbers ==
    ASSUME CacheTypes
    PROVE  body \in [Keys -> Nat]
  BY CacheBounds DEF CacheTypes

\* A step of a request that neither takes nor gives back the lock.
LEMMA LoadStep ==
    ASSUME CacheIInv, NEW c \in Loaders, NEW r \in Loads, loader' = [loader EXCEPT ![c] = r],
           loader[c].at # "commit", r.at # "commit", r.at # "idle" => r.key \in Keys,
           holder' = holder, body' = body \/ holder = "nobody"
    PROVE  /\ loader' \in [Loaders -> Loads] /\ KeysAreGiven' /\ LockIsHeld'
           /\ holder = "nobody" => CountedBodies' = body'
           /\ body' = body => CountedBodies' = CountedBodies
  <1>1. loader \in [Loaders -> Loads] /\ KeysAreGiven /\ LockIsHeld /\ holder # c
    BY DEF CacheIInv, CacheTypes, LockIsHeld
  <1>2. loader' \in [Loaders -> Loads] /\ loader'[c] = r
        /\ \A d \in Loaders \ {c} : loader'[d] = loader[d]
    BY <1>1
  <1>3. KeysAreGiven'
    BY <1>1, <1>2 DEF KeysAreGiven, Key
  <1>4. ASSUME NEW d \in Loaders
        PROVE  /\ loader'[d].at = "commit" <=> holder' = d
               /\ holder' = d => body'[loader'[d].key] = loader'[d].size
    <2>1. CASE d = c
      BY <1>1, <1>2, <2>1
    <2>2. CASE d # c
      <3>1. loader'[d] = loader[d] /\ holder' = holder
        BY <1>2, <2>2
      <3>2. holder = d => body' = body
        BY CacheBounds
      <3>3. QED
        BY <1>1, <3>1, <3>2 DEF LockIsHeld, Key
    <2>3. QED
      BY <2>1, <2>2
  <1>5. LockIsHeld'
    BY <1>4 DEF LockIsHeld, Key
  <1>6. holder = "nobody" => CountedBodies' = body'
    BY DEF CountedBodies
  <1>7. body' = body => CountedBodies' = CountedBodies
    <2>1. CASE holder = "nobody"
      BY <2>1 DEF CountedBodies
    <2>2. CASE holder # "nobody"
      <3>1. holder \in Loaders \ {c}
        BY <1>1, <2>2 DEF CacheIInv, CacheTypes
      <3>2. loader'[holder] = loader[holder]
        BY <1>2, <3>1
      <3>3. loader'[holder'] = loader[holder] /\ holder' # "nobody"
        BY <2>2, <3>2
      <3>4. CountedBodies' = [body' EXCEPT ![loader'[holder'].key] = loader'[holder'].old]
        BY <3>3 DEF CountedBodies, Key
      <3>5. CountedBodies = [body EXCEPT ![loader[holder].key] = loader[holder].old]
        BY <2>2 DEF CountedBodies, Key
      <3>6. QED
        BY <3>3, <3>4, <3>5
    <2>3. QED
      BY <2>1, <2>2
  <1>8. QED
    BY <1>2, <1>3, <1>5, <1>6, <1>7

\* A step that changes no file and no count.
LEMMA QuietLoadStep ==
    ASSUME CacheIInv, NEW c \in Loaders, NEW r \in Loads, loader' = [loader EXCEPT ![c] = r],
           loader[c].at # "commit", r.at # "commit", r.at # "idle" => r.key \in Keys,
           UNCHANGED <<cacheFiles, holder, cacheFaults, missed, still>>
    PROVE  CacheIInv'
  <1>1. /\ loader' \in [Loaders -> Loads] /\ KeysAreGiven' /\ LockIsHeld'
        /\ CountedBodies' = CountedBodies
    BY LoadStep DEF cacheFiles
  <1>2. CacheTypes'
    BY <1>1 DEF CacheIInv, CacheTypes, cacheFiles, still
  <1>3. BytesOf(Keys, CountedBodies)' = BytesOf(Keys, CountedBodies)
    BY <1>1
  <1>4. CountIsEnough'
    BY <1>3 DEF CacheIInv, CountIsEnough, cacheFiles, still
  <1>5. QED
    BY <1>1, <1>2, <1>4 DEF CacheIInv

LEMMA LoadKeepsInv ==
    ASSUME CacheIInv, NEW c \in Loaders, NEW k \in Keys, Load(c, k)
    PROVE  CacheIInv'
  <1> DEFINE r == [NoLoad EXCEPT !.at = "meta", !.key = k, !.since = now]
  <1>1. r \in Loads /\ r.at = "meta" /\ r.key = k
    <2>1. now \in 0..MaxTime
      BY DEF CacheIInv, CacheTypes
    <2>2. QED
      BY <2>1, ZeroIsSmall DEF NoLoad, Loads, LoadPlaces
  <1>2. loader[c].at # "commit" /\ loader' = [loader EXCEPT ![c] = r]
        /\ UNCHANGED <<cacheFiles, holder, cacheFaults, missed, still>>
    BY DEF Load, NoLoad
  <1>3. QED
    BY <1>1, <1>2, QuietLoadStep

LEMMA ReadKeepsInv ==
    ASSUME CacheIInv, NEW c \in Loaders, ReadMetadata(c) \/ ReadBody(c)
    PROVE  CacheIInv'
  <1>1. CacheTypes /\ loader[c] \in Loads /\ loader[c].at \in {"meta", "body"} /\ loader[c].key \in Keys
        /\ UNCHANGED <<cacheFiles, holder, cacheFaults, missed, still>>
    BY LoadTypes DEF CacheIInv, KeysAreGiven, Key, ReadMetadata, ReadBody
  <1>2. ASSUME ReadMetadata(c) PROVE CacheIInv'
    <2> DEFINE r == [loader[c] EXCEPT !.entry = meta[Key(c)],
                       !.at = IF meta[Key(c)].size > 0 THEN "body" ELSE IF body[Key(c)] > 0 THEN "drop" ELSE "fetch"]
    <2>1. meta[Key(c)] \in CacheEntries
      BY <1>1 DEF CacheTypes, Key
    <2>2. r \in Loads /\ r.at \in {"body", "drop", "fetch"} /\ r.key = loader[c].key
      BY <1>1, <2>1 DEF Loads, LoadPlaces
    <2>3. loader' = [loader EXCEPT ![c] = r]
      BY <1>1, <1>2 DEF ReadMetadata, CacheTypes
    <2>4. QED
      BY <1>1, <2>2, <2>3, QuietLoadStep
  <1>3. ASSUME ReadBody(c) PROVE CacheIInv'
    <2>1. ASSUME NEW at \in {"drop", "fetch"}, LoadGoes(c, at) PROVE CacheIInv'
      <3> DEFINE r == [loader[c] EXCEPT !.at = at]
      <3>1. r \in Loads /\ r.at = at /\ r.key = loader[c].key
        BY <1>1 DEF Loads, LoadPlaces
      <3>2. loader' = [loader EXCEPT ![c] = r]
        BY <2>1 DEF LoadGoes
      <3>3. QED
        BY <1>1, <3>1, <3>2, QuietLoadStep
    <2>2. ASSUME EndsLoad(c) PROVE CacheIInv'
      BY <1>1, <2>2, ZeroIsSmall, QuietLoadStep DEF EndsLoad
    <2>3. QED
      BY <1>3, <2>1, <2>2 DEF ReadBody
  <1>4. QED
    BY <1>2, <1>3

\* What is fetched is no larger than a cover may be.
LEMMA FetchedFits ==
    ASSUME NEW x \in Exchanges, Fetched(x).kind = "cover"
    PROVE  Fetched(x).size \in 0..MaxSize
  <1>1. Unavailable.kind = "error" /\ [Unavailable EXCEPT !.kind = "same"].kind = "same"
    BY DEF Unavailable
  <1>2. /\ Fetched(x) = [kind |-> "cover", size |-> x.size, image |-> x.image]
        /\ ~(x.size > MaxSize)
    BY <1>1 DEF Fetched
  <1>3. QED
    BY <1>2, CacheBounds

LEMMA FetchKeepsInv ==
    ASSUME CacheIInv, NEW c \in Loaders, NEW x \in Exchanges, Fetch(c, x)
    PROVE  CacheIInv'
  <1>1. CacheTypes /\ loader[c] \in Loads /\ loader[c].at = "fetch" /\ loader[c].key \in Keys
        /\ UNCHANGED <<cacheFiles, holder, cacheFaults, missed, still>>
    BY LoadTypes DEF CacheIInv, KeysAreGiven, Key, Fetch
  <1>2. ASSUME LoadGoes(c, "refresh") PROVE CacheIInv'
    <2> DEFINE r == [loader[c] EXCEPT !.at = "refresh"]
    <2>1. r \in Loads /\ r.at = "refresh" /\ r.key = loader[c].key
      BY <1>1 DEF Loads, LoadPlaces
    <2>2. loader' = [loader EXCEPT ![c] = r]
      BY <1>2 DEF LoadGoes
    <2>3. QED
      BY <1>1, <2>1, <2>2, QuietLoadStep
  <1>3. ASSUME Fetched(x).kind = "cover",
               loader' = [loader EXCEPT ![c].at = "write", ![c].size = Fetched(x).size]
        PROVE  CacheIInv'
    <2> DEFINE r == [loader[c] EXCEPT !.at = "write", !.size = Fetched(x).size]
    <2>1. Fetched(x).size \in 0..MaxSize
      BY <1>3, FetchedFits
    <2>2. r \in Loads /\ r.at = "write" /\ r.key = loader[c].key
      BY <1>1, <2>1 DEF Loads, LoadPlaces
    <2>3. loader' = [loader EXCEPT ![c] = r]
      BY <1>1, <1>3 DEF CacheTypes
    <2>4. QED
      BY <1>1, <2>2, <2>3, QuietLoadStep
  <1>4. ASSUME EndsLoad(c) PROVE CacheIInv'
    BY <1>1, <1>4, ZeroIsSmall, QuietLoadStep DEF EndsLoad
  <1>5. QED
    BY <1>2, <1>3, <1>4 DEF Fetch

-----------------------------------------------------------------------------
(* The steps under the commit lock.                                        *)

LEMMA FaultTypes ==
    ASSUME CacheTypes, NEW fails, LoadFails(fails)
    PROVE  cacheFaults' \in 0..MaxCacheFaults
  BY CacheBounds DEF CacheTypes, LoadFails, CacheFault

\* While nobody holds the lock, the count is about the bodies themselves.
LEMMA FreeCount ==
    ASSUME CacheIInv, holder = "nobody", ~missed
    PROVE  /\ BytesOf(Keys, body) <= usage.bytes
           /\ ~settings.unlimited => BytesOf(Keys, body) <= MaxBytes
  BY DEF CacheIInv, CountIsEnough, CountedBodies

\* A body that goes, counted or not.
LEMMA BodyGoes ==
    ASSUME CacheIInv, holder = "nobody", NEW k \in Keys, NEW b, b \in {body, [body EXCEPT ![k] = 0]},
           ~missed
    PROVE  /\ b \in [Keys -> 0..MaxSize]
           /\ BytesOf(Keys, b) <= usage.bytes
           /\ ~settings.unlimited => BytesOf(Keys, b) <= MaxBytes
           /\ b # body => BytesOf(Keys, b) <= Less(usage.bytes, body[k])
  <1>1. CacheTypes /\ body \in [Keys -> Nat] /\ usage.bytes \in Nat
    BY SizesAreNumbers DEF CacheIInv, CacheTypes
  <1>2. BytesOf(Keys, body) \in Nat /\ body[k] \in Nat
    BY <1>1, BytesType
  <1>3. /\ BytesOf(Keys, body) <= usage.bytes
        /\ ~settings.unlimited => BytesOf(Keys, body) <= MaxBytes
    BY FreeCount
  <1>4. CASE b = body
    BY <1>1, <1>3, <1>4 DEF CacheTypes
  <1>5. CASE b = [body EXCEPT ![k] = 0]
    <2>1. b \in [Keys -> 0..MaxSize]
      BY <1>1, <1>5, ZeroIsSmall DEF CacheTypes
    <2>2. BytesOf(Keys, b) = BytesOf(Keys, body) - body[k] + 0
      BY <1>1, <1>5, BytesOfChange
    <2>3. b \in [Keys -> Nat]
      BY <2>1, CacheBounds
    <2>4. BytesOf(Keys, b) \in Nat
      BY <2>3, BytesType
    <2>5. BytesOf(Keys, b) <= Less(usage.bytes, body[k])
      BY <1>1, <1>2, <1>3, <2>2, <2>4 DEF Less
    <2>6. QED
      BY <1>1, <1>2, <1>3, <2>1, <2>2, <2>5, CacheBounds
  <1>6. QED
    BY <1>4, <1>5

LEMMA DropKeepsInv ==
    ASSUME CacheIInv, NEW c \in Loaders, NEW fails \in BOOLEAN, DropCover(c, fails)
    PROVE  CacheIInv'
  <1>1. CacheTypes /\ loader[c] \in Loads /\ loader[c].at = "drop" /\ Key(c) \in Keys /\ Key(c) = loader[c].key
        /\ holder = "nobody" /\ UNCHANGED <<holder, missed, still>> /\ cacheFaults' \in 0..MaxCacheFaults
    BY LoadTypes, FaultTypes DEF CacheIInv, KeysAreGiven, Key, DropCover
  <1>2. body[Key(c)] \in 0..MaxSize /\ usage.bytes \in Nat /\ usage.entries \in Nat
    BY <1>1 DEF CacheTypes
  <1>3. CASE fails
    <2>1. /\ body' \in {body, [body EXCEPT ![Key(c)] = 0]}
          /\ loader' = [loader EXCEPT ![c] = NoLoad] /\ UNCHANGED <<meta, usage>>
      BY <1>3 DEF DropCover, EndsLoad
    <2>2. /\ loader' \in [Loaders -> Loads] /\ KeysAreGiven' /\ LockIsHeld' /\ CountedBodies' = body'
      BY <1>1, <2>1, ZeroIsSmall, LoadStep
    <2>3. body' \in [Keys -> 0..MaxSize]
      BY <1>1, <2>1, ZeroIsSmall DEF CacheTypes
    <2>4. CacheTypes'
      BY <1>1, <2>1, <2>2, <2>3 DEF CacheTypes, still
    <2>5. CountIsEnough'
      <3>1. ~missed => /\ BytesOf(Keys, body') <= usage.bytes
                       /\ ~settings.unlimited => BytesOf(Keys, body') <= MaxBytes
        BY <1>1, <2>1, BodyGoes
      <3>2. QED
        BY <1>1, <2>1, <2>2, <3>1 DEF CountIsEnough, still
    <2>6. QED
      BY <2>2, <2>4, <2>5 DEF CacheIInv
  <1>4. CASE ~fails
    <2> DEFINE k == Key(c)
               existed == meta[k].size > 0 \/ body[k] > 0
               r == [loader[c] EXCEPT !.at = "fetch", !.entry = NoEntry]
    <2>1. /\ body' = [body EXCEPT ![k] = 0] /\ meta' = [meta EXCEPT ![k] = NoEntry]
          /\ usage' = IF existed THEN [bytes |-> Less(usage.bytes, body[k]),
                                       entries |-> Less(usage.entries, 1)] ELSE usage
          /\ loader' = [loader EXCEPT ![c].at = "fetch", ![c].entry = NoEntry]
      BY <1>4 DEF DropCover
    <2>2. r \in Loads /\ r.at = "fetch" /\ r.key = loader[c].key
      BY <1>1, ZeroIsSmall DEF Loads, LoadPlaces
    <2>3. loader' = [loader EXCEPT ![c] = r]
      BY <1>1, <2>1 DEF CacheTypes
    <2>4. /\ loader' \in [Loaders -> Loads] /\ KeysAreGiven' /\ LockIsHeld' /\ CountedBodies' = body'
      BY <1>1, <2>2, <2>3, LoadStep
    <2>5. body' \in [Keys -> 0..MaxSize] /\ meta' \in [Keys -> CacheEntries]
      BY <1>1, <2>1, ZeroIsSmall DEF CacheTypes
    <2>6. Less(usage.bytes, body[k]) \in Nat /\ Less(usage.entries, 1) \in Nat
      BY <1>2, CacheBounds DEF Less
    <2>7. usage' \in [bytes : Nat, entries : Nat]
      BY <1>1, <2>1, <2>6 DEF CacheTypes
    <2>8. CacheTypes'
      BY <1>1, <2>4, <2>5, <2>7 DEF CacheTypes, still
    <2>9. ASSUME ~missed PROVE BytesOf(Keys, body') <= usage'.bytes
                               /\ (~settings.unlimited => BytesOf(Keys, body') <= MaxBytes)
      <3>1. /\ BytesOf(Keys, body') <= usage.bytes
            /\ ~settings.unlimited => BytesOf(Keys, body') <= MaxBytes
            /\ body' # body => BytesOf(Keys, body') <= Less(usage.bytes, body[k])
        BY <1>1, <2>1, <2>9, BodyGoes
      <3>2. CASE existed
        <4>1. usage'.bytes = Less(usage.bytes, body[k])
          BY <2>1, <3>2
        <4>2. CASE body' # body
          BY <3>1, <4>1, <4>2
        <4>3. CASE body' = body
          <5>1. body[k] = 0
            BY <1>1, <2>1, <4>3 DEF CacheTypes
          <5>2. Less(usage.bytes, body[k]) = usage.bytes
            BY <1>2, <5>1 DEF Less
          <5>3. QED
            BY <3>1, <4>1, <5>2
        <4>4. QED
          BY <4>2, <4>3
      <3>3. CASE ~existed
        BY <2>1, <3>1, <3>3
      <3>4. QED
        BY <3>2, <3>3
    <2>10. CountIsEnough'
      BY <1>1, <2>4, <2>9 DEF CountIsEnough, still
    <2>11. QED
      BY <2>4, <2>8, <2>10 DEF CacheIInv
  <1>5. QED
    BY <1>3, <1>4

LEMMA RefreshKeepsInv ==
    ASSUME CacheIInv, NEW c \in Loaders, NEW fails \in BOOLEAN, Refresh(c, fails)
    PROVE  CacheIInv'
  <1>1. CacheTypes /\ loader[c] \in Loads /\ loader[c].at = "refresh" /\ Key(c) \in Keys
        /\ loader[c].entry \in CacheEntries /\ loader[c].since \in 0..MaxTime
        /\ UNCHANGED <<body, usage, holder, missed, still>> /\ cacheFaults' \in 0..MaxCacheFaults
        /\ loader' = [loader EXCEPT ![c] = NoLoad]
    BY LoadTypes, FaultTypes DEF CacheIInv, KeysAreGiven, Key, Refresh, EndsLoad
  <1>2. /\ loader' \in [Loaders -> Loads] /\ KeysAreGiven' /\ LockIsHeld' /\ CountedBodies' = CountedBodies
    BY <1>1, ZeroIsSmall, LoadStep
  <1>3. [loader[c].entry EXCEPT !.at = loader[c].since] \in CacheEntries
    BY <1>1 DEF CacheEntries
  <1>4. meta' \in [Keys -> CacheEntries]
    BY <1>1, <1>3 DEF Refresh, CacheTypes
  <1>5. CacheTypes'
    BY <1>1, <1>2, <1>4 DEF CacheTypes, still
  <1>6. BytesOf(Keys, CountedBodies)' = BytesOf(Keys, CountedBodies)
    BY <1>2
  <1>7. CountIsEnough'
    BY <1>1, <1>6 DEF CacheIInv, CountIsEnough, still
  <1>8. QED
    BY <1>2, <1>5, <1>7 DEF CacheIInv

LEMMA WriteKeepsInv ==
    ASSUME CacheIInv, NEW c \in Loaders, NEW fails \in BOOLEAN, WriteBody(c, fails)
    PROVE  CacheIInv'
  <1>1. CacheTypes /\ loader[c] \in Loads /\ loader[c].at = "write" /\ Key(c) \in Keys /\ Key(c) = loader[c].key
        /\ loader[c].size \in 0..MaxSize
        /\ holder = "nobody" /\ UNCHANGED <<meta, usage, missed, still>> /\ cacheFaults' \in 0..MaxCacheFaults
    BY LoadTypes, FaultTypes DEF CacheIInv, KeysAreGiven, Key, WriteBody
  <1>2. CASE fails
    <2>1. UNCHANGED <<body, holder>> /\ loader' = [loader EXCEPT ![c] = NoLoad]
      BY <1>2 DEF WriteBody, EndsLoad
    <2>2. /\ loader' \in [Loaders -> Loads] /\ KeysAreGiven' /\ LockIsHeld' /\ CountedBodies' = CountedBodies
      BY <1>1, <2>1, ZeroIsSmall, LoadStep
    <2>3. CacheTypes'
      BY <1>1, <2>1, <2>2 DEF CacheTypes, still
    <2>4. BytesOf(Keys, CountedBodies)' = BytesOf(Keys, CountedBodies)
      BY <2>2
    <2>5. CountIsEnough'
      BY <1>1, <2>4 DEF CacheIInv, CountIsEnough, still
    <2>6. QED
      BY <2>2, <2>3, <2>5 DEF CacheIInv
  <1>3. CASE ~fails
    <2> DEFINE k == Key(c)
               r == [loader[c] EXCEPT !.at = "commit", !.old = body[k]]
    <2>1. /\ body' = [body EXCEPT ![k] = loader[c].size] /\ holder' = c
          /\ loader' = [loader EXCEPT ![c].at = "commit", ![c].old = body[k]]
      BY <1>3 DEF WriteBody
    <2>2. body[k] \in 0..MaxSize /\ body \in [Keys -> 0..MaxSize] /\ loader \in [Loaders -> Loads]
      BY <1>1 DEF CacheTypes
    <2>3. r \in Loads /\ r.at = "commit" /\ r.key = loader[c].key /\ r.old = body[k] /\ r.size = loader[c].size
      BY <1>1, <2>2 DEF Loads, LoadPlaces
    <2>4. loader' = [loader EXCEPT ![c] = r]
      BY <2>1, <2>2
    <2>5. /\ loader' \in [Loaders -> Loads] /\ loader'[c] = r
          /\ \A d \in Loaders \ {c} : loader'[d] = loader[d]
      BY <2>2, <2>3, <2>4
    <2>6. body' \in [Keys -> 0..MaxSize] /\ body'[k] = loader[c].size
      BY <1>1, <2>1, <2>2
    <2>7. CacheTypes'
      BY <1>1, <2>1, <2>5, <2>6 DEF CacheTypes, still
    <2>8. KeysAreGiven'
      BY <1>1, <2>3, <2>5 DEF CacheIInv, KeysAreGiven, Key
    <2>9. LockIsHeld'
      BY <1>1, <2>1, <2>3, <2>5, <2>6, CacheBounds DEF CacheIInv, LockIsHeld, Key
    <2>10. CountedBodies' = body
      <3>1. holder' # "nobody" /\ Key(c)' = k /\ loader'[holder'].old = body[k]
        BY <1>1, <2>1, <2>3, <2>5, CacheBounds DEF Key
      <3>2. CountedBodies' = [body' EXCEPT ![Key(c)'] = body[k]]
        BY <2>1, <3>1 DEF CountedBodies, Key
      <3>3. [body' EXCEPT ![k] = body[k]] = body
        BY <2>1, <2>2
      <3>4. QED
        BY <3>1, <3>2, <3>3
    <2>11. CountIsEnough'
      BY <1>1, <2>10, FreeCount DEF CountIsEnough, still
    <2>12. QED
      BY <2>7, <2>8, <2>9, <2>11 DEF CacheIInv
  <1>4. QED
    BY <1>2, <1>3

\* Whoever gives the lock back leaves the bodies themselves to be counted.
LEMMA LockGoesBack ==
    ASSUME CacheIInv, NEW c \in Loaders, loader[c].at = "commit",
           loader' = [loader EXCEPT ![c] = NoLoad], holder' = "nobody"
    PROVE  /\ loader' \in [Loaders -> Loads] /\ KeysAreGiven' /\ LockIsHeld' /\ CountedBodies' = body'
           /\ holder = c /\ c # "nobody" /\ Key(c) \in Keys /\ body[Key(c)] = loader[c].size
           /\ CountedBodies = [body EXCEPT ![Key(c)] = loader[c].old]
  <1>1. loader \in [Loaders -> Loads] /\ holder = c /\ c # "nobody" /\ Key(c) \in Keys
        /\ body[Key(c)] = loader[c].size
    BY CacheBounds DEF CacheIInv, CacheTypes, LockIsHeld, KeysAreGiven
  <1>2. /\ loader' \in [Loaders -> Loads] /\ loader'[c] = NoLoad
        /\ \A d \in Loaders \ {c} : loader'[d] = loader[d]
    BY <1>1, ZeroIsSmall
  <1>3. KeysAreGiven'
    BY <1>2, ZeroIsSmall DEF CacheIInv, KeysAreGiven, Key
  <1>4. \A d \in Loaders : loader'[d].at # "commit"
    BY <1>1, <1>2, ZeroIsSmall DEF CacheIInv, LockIsHeld
  <1>5. LockIsHeld'
    BY <1>4, CacheBounds DEF LockIsHeld
  <1>6. QED
    BY <1>1, <1>2, <1>3, <1>5 DEF CountedBodies

LEMMA UndoKeepsInv ==
    ASSUME CacheIInv, NEW c \in Loaders, UndoBody(c)
    PROVE  CacheIInv'
  <1>1. loader[c].at = "commit" /\ CacheFault /\ loader' = [loader EXCEPT ![c] = NoLoad]
        /\ holder' = "nobody" /\ UNCHANGED <<meta, usage, still>>
        /\ \/ body' = [body EXCEPT ![Key(c)] = 0] /\ UNCHANGED missed
           \/ UNCHANGED body /\ missed' = TRUE
    BY DEF UndoBody, EndsLoad
  <1>2. /\ loader' \in [Loaders -> Loads] /\ KeysAreGiven' /\ LockIsHeld' /\ CountedBodies' = body'
        /\ Key(c) \in Keys /\ CountedBodies = [body EXCEPT ![Key(c)] = loader[c].old]
    BY <1>1, LockGoesBack
  <1>3. CacheTypes /\ body \in [Keys -> Nat] /\ loader[c].old \in 0..MaxSize /\ usage.bytes \in Nat
    BY LoadTypes, SizesAreNumbers DEF CacheIInv, CacheTypes
  <1>4. body' \in [Keys -> 0..MaxSize] /\ missed' \in BOOLEAN
    BY <1>1, <1>3, ZeroIsSmall DEF CacheTypes
  <1>5. CacheTypes'
    BY <1>1, <1>2, <1>3, <1>4, CacheBounds DEF CacheTypes, still, CacheFault
  <1>6. ASSUME ~missed'
        PROVE  BytesOf(Keys, body') <= usage.bytes /\ (~settings.unlimited => BytesOf(Keys, body') <= MaxBytes)
    <2> DEFINE k == Key(c)
               n == loader[c].old
    <2>1. body' = [body EXCEPT ![k] = 0] /\ ~missed
      BY <1>1, <1>6
    <2>2. n \in Nat /\ 0 \in Nat
      BY <1>3, CacheBounds
    <2>3. BytesOf(Keys, body') = BytesOf(Keys, body) - body[k] + 0
      BY <1>2, <1>3, <2>1, BytesOfChange
    <2>4. BytesOf(Keys, CountedBodies) = BytesOf(Keys, body) - body[k] + n
      BY <1>2, <1>3, <2>2, BytesOfChange
    <2>5. BytesOf(Keys, body) \in Nat /\ body[k] \in Nat
      BY <1>2, <1>3, BytesType
    <2>6. /\ BytesOf(Keys, CountedBodies) <= usage.bytes
          /\ ~settings.unlimited => BytesOf(Keys, CountedBodies) <= MaxBytes
      BY <2>1 DEF CacheIInv, CountIsEnough
    <2> HIDE DEF k, n
    <2>7. QED
      BY <1>3, <2>2, <2>3, <2>4, <2>5, <2>6, CacheBounds
  <1>7. CountIsEnough'
    BY <1>1, <1>2, <1>6 DEF CountIsEnough, still
  <1>8. QED
    BY <1>2, <1>5, <1>7 DEF CacheIInv

-----------------------------------------------------------------------------
(* Reconciliation.                                                         *)

LEMMA SurvivorsFit ==
    ASSUME NEW b, NEW m, NEW s, NEW p, NEW ks \in Survivors(b, m, s, p)
    PROVE  ks \in SUBSET Keys /\ (~s.unlimited => BytesOf(ks, b) <= MaxBytes)
  <1>1. Whole(b, m, s) \subseteq Keys
    BY DEF Whole
  <1>2. CASE s.unlimited
    BY <1>1, <1>2 DEF Survivors
  <1>3. CASE ~s.unlimited
    BY <1>1, <1>3 DEF Survivors, Fits
  <1>4. QED
    BY <1>2, <1>3

\* After a reconciliation the count is what the bodies take, and that is within the limit.
LEMMA ReconciledCount ==
    ASSUME NEW b \in [Keys -> 0..MaxSize], NEW m \in [Keys -> CacheEntries], NEW s, NEW p,
           Reconciled(b, m, s, p)
    PROVE  /\ body' \in [Keys -> 0..MaxSize] /\ meta' \in [Keys -> CacheEntries]
           /\ usage' \in [bytes : Nat, entries : Nat] /\ missed' = FALSE
           /\ BytesOf(Keys, body') <= usage'.bytes
           /\ ~s.unlimited => BytesOf(Keys, body') <= MaxBytes
  <1>1. PICK ks \in Survivors(b, m, s, p) :
          /\ body' = [k \in Keys |-> IF k \in ks THEN b[k] ELSE 0]
          /\ meta' = [k \in Keys |-> IF k \in ks THEN m[k] ELSE NoEntry]
          /\ usage' = [bytes |-> BytesOf(ks, b), entries |-> Cardinality(ks)]
          /\ missed' = FALSE
    BY DEF Reconciled
  <1>2. ks \in SUBSET Keys /\ (~s.unlimited => BytesOf(ks, b) <= MaxBytes)
    BY SurvivorsFit
  <1>3. b \in [Keys -> Nat]
    BY CacheBounds
  <1>4. BytesOf(ks, b) \in Nat /\ Cardinality(ks) \in Nat
    BY <1>2, <1>3, BytesType, CacheBounds, FS_Subset, FS_CardinalityType
  <1>5. BytesOf(Keys, body') = BytesOf(ks, b)
    BY <1>1, <1>2, <1>3, BytesOfKept
  <1>6. body' \in [Keys -> 0..MaxSize]
    BY <1>1, ZeroIsSmall
  <1>7. meta' \in [Keys -> CacheEntries]
    BY <1>1, ZeroIsSmall
  <1>8. usage' \in [bytes : Nat, entries : Nat] /\ usage'.bytes = BytesOf(ks, b)
    BY <1>1, <1>4
  <1>9. QED
    BY <1>1, <1>2, <1>4, <1>5, <1>6, <1>7, <1>8

LEMMA RemovalFailsTypes ==
    ASSUME NEW b \in [Keys -> 0..MaxSize], NEW m \in [Keys -> CacheEntries], NEW s, NEW p,
           NEW counted, RemovalFails(b, m, s, p, counted)
    PROVE  /\ body' \in [Keys -> 0..MaxSize] /\ meta' \in [Keys -> CacheEntries]
           /\ usage' = counted /\ missed' = TRUE
  BY ZeroIsSmall DEF RemovalFails

LEMMA CommitKeepsInv ==
    ASSUME CacheIInv, NEW c \in Loaders, NEW fails \in BOOLEAN, CommitCover(c, fails)
    PROVE  CacheIInv'
  <1> DEFINE k == Key(c)
             m == [meta EXCEPT ![k] = [size |-> loader[c].size, at |-> loader[c].since]]
             known == meta[k].size > 0 /\ loader[c].old > 0
             counted == [bytes |-> Less(usage.bytes, loader[c].old) + loader[c].size,
                         entries |-> usage.entries + (IF known THEN 0 ELSE 1)]
             over == ~settings.unlimited /\ (counted.bytes > MaxBytes \/ counted.entries > MaxCovers)
  <1>1. loader[c].at = "commit" /\ LoadFails(fails) /\ loader' = [loader EXCEPT ![c] = NoLoad]
        /\ holder' = "nobody" /\ UNCHANGED still
    BY DEF CommitCover, EndsLoad
  <1>2. /\ ~over => meta' = m /\ usage' = counted /\ UNCHANGED <<body, missed>>
        /\ over /\ fails => RemovalFails(body, m, settings, k, counted)
        /\ over /\ ~fails => Reconciled(body, m, settings, k)
    BY DEF CommitCover
  <1>3. /\ loader' \in [Loaders -> Loads] /\ KeysAreGiven' /\ LockIsHeld' /\ CountedBodies' = body'
        /\ k \in Keys /\ body[k] = loader[c].size
        /\ CountedBodies = [body EXCEPT ![k] = loader[c].old]
    BY <1>1, LockGoesBack
  <1>4. CacheTypes /\ body \in [Keys -> Nat] /\ loader[c].old \in 0..MaxSize /\ loader[c].size \in 0..MaxSize
        /\ loader[c].since \in 0..MaxTime /\ usage.bytes \in Nat /\ usage.entries \in Nat
    BY LoadTypes, SizesAreNumbers DEF CacheIInv, CacheTypes
  <1>5. m \in [Keys -> CacheEntries]
    <2>1. [size |-> loader[c].size, at |-> loader[c].since] \in CacheEntries
      BY <1>4 DEF CacheEntries
    <2>2. QED
      BY <1>3, <1>4, <2>1 DEF CacheTypes
  <1>6. counted \in [bytes : Nat, entries : Nat]
    <2>1. Less(usage.bytes, loader[c].old) + loader[c].size \in Nat
      BY <1>4, CacheBounds DEF Less
    <2>2. usage.entries + (IF known THEN 0 ELSE 1) \in Nat
      BY <1>4
    <2>3. QED
      BY <2>1, <2>2
  <1>7. ~missed => BytesOf(Keys, body) <= counted.bytes
    <2>1. loader[c].old \in Nat /\ loader[c].size \in Nat
      BY <1>4, CacheBounds
    <2>2. BytesOf(Keys, CountedBodies) = BytesOf(Keys, body) - body[k] + loader[c].old
      BY <1>3, <1>4, <2>1, BytesOfChange
    <2>3. BytesOf(Keys, body) \in Nat
      BY <1>4, BytesType
    <2>4. ~missed => BytesOf(Keys, CountedBodies) <= usage.bytes
      BY DEF CacheIInv, CountIsEnough
    <2>5. counted.bytes = Less(usage.bytes, loader[c].old) + loader[c].size
      OBVIOUS
    <2>6. QED
      BY <1>3, <1>4, <2>1, <2>2, <2>3, <2>4, <2>5 DEF Less
  <1>8. /\ body' \in [Keys -> 0..MaxSize] /\ meta' \in [Keys -> CacheEntries]
        /\ usage' \in [bytes : Nat, entries : Nat] /\ missed' \in BOOLEAN
        /\ ~missed' => /\ BytesOf(Keys, body') <= usage'.bytes
                       /\ ~settings.unlimited => BytesOf(Keys, body') <= MaxBytes
    <2>1. body \in [Keys -> 0..MaxSize] /\ missed \in BOOLEAN
      BY <1>4 DEF CacheTypes
    <2>2. CASE ~over
      <3>1. meta' = m /\ usage' = counted /\ body' = body /\ missed' = missed
        BY <1>2, <2>2
      <3>2. ~settings.unlimited => counted.bytes <= MaxBytes
        BY <1>6, <2>2, CacheBounds
      <3>3. BytesOf(Keys, body) \in Nat
        BY <1>4, BytesType
      <3>4. counted.bytes \in Nat
        BY <1>6
      <3> HIDE DEF counted, over, m
      <3>5. QED
        BY <1>5, <1>6, <1>7, <2>1, <3>1, <3>2, <3>3, <3>4, CacheBounds
    <2>3. CASE over /\ fails
      BY <1>2, <1>5, <1>6, <2>1, <2>3, RemovalFailsTypes
    <2>4. CASE over /\ ~fails
      BY <1>2, <1>5, <2>1, <2>4, ReconciledCount
    <2>5. QED
      BY <2>2, <2>3, <2>4
  <1>9. CacheTypes'
    BY <1>1, <1>3, <1>4, <1>8, FaultTypes DEF CacheTypes, still
  <1>10. CountIsEnough'
    BY <1>1, <1>3, <1>8 DEF CountIsEnough, still
  <1>11. QED
    BY <1>3, <1>9, <1>10 DEF CacheIInv

LEMMA ConfigureKeepsInv ==
    ASSUME CacheIInv, NEW s \in SettingChoices, NEW fails \in BOOLEAN, Configure(s, fails)
    PROVE  CacheIInv'
  <1>1. CacheTypes /\ holder = "nobody" /\ LoadFails(fails) /\ stored' = s
        /\ UNCHANGED <<loader, holder, now, restarts>> /\ cacheFaults' \in 0..MaxCacheFaults
    BY FaultTypes DEF CacheIInv, Configure
  <1>2. KeysAreGiven' /\ CountedBodies' = body'
    BY <1>1 DEF CacheIInv, KeysAreGiven, Key, CountedBodies
  <1>3. LockIsHeld'
    BY <1>1, CacheBounds DEF CacheIInv, LockIsHeld
  <1>4. CASE fails
    <2>1. UNCHANGED <<body, meta, usage, missed, settings>>
      BY <1>4 DEF Configure, cacheFiles
    <2>2. CacheTypes'
      BY <1>1, <2>1 DEF CacheTypes
    <2>3. CountIsEnough'
      BY <1>1, <1>2, <2>1, FreeCount DEF CountIsEnough
    <2>4. QED
      BY <1>2, <1>3, <2>2, <2>3 DEF CacheIInv
  <1>5. CASE ~fails
    <2>1. Reconciled(body, meta, s, "nobody") /\ settings' = s
      BY <1>5 DEF Configure
    <2>2. body \in [Keys -> 0..MaxSize] /\ meta \in [Keys -> CacheEntries]
      BY <1>1 DEF CacheTypes
    <2>3. /\ body' \in [Keys -> 0..MaxSize] /\ meta' \in [Keys -> CacheEntries]
          /\ usage' \in [bytes : Nat, entries : Nat] /\ missed' = FALSE
          /\ BytesOf(Keys, body') <= usage'.bytes
          /\ ~s.unlimited => BytesOf(Keys, body') <= MaxBytes
      BY <2>1, <2>2, ReconciledCount
    <2>4. CacheTypes'
      BY <1>1, <2>1, <2>3 DEF CacheTypes
    <2>5. CountIsEnough'
      BY <1>2, <2>1, <2>3 DEF CountIsEnough
    <2>6. QED
      BY <1>2, <1>3, <2>4, <2>5 DEF CacheIInv
  <1>6. QED
    BY <1>4, <1>5

LEMMA CacheRestartKeepsInv ==
    ASSUME CacheIInv, Restart
    PROVE  CacheIInv'
  <1>1. CacheTypes /\ restarts < MaxRestarts /\ restarts' = restarts + 1 /\ settings' = stored
        /\ Reconciled(body, meta, stored, "nobody")
        /\ loader' = [c \in Loaders |-> NoLoad] /\ holder' = "nobody"
        /\ UNCHANGED <<stored, now, cacheFaults>>
    BY DEF CacheIInv, Restart
  <1>2. body \in [Keys -> 0..MaxSize] /\ meta \in [Keys -> CacheEntries]
    BY <1>1 DEF CacheTypes
  <1>3. /\ body' \in [Keys -> 0..MaxSize] /\ meta' \in [Keys -> CacheEntries]
        /\ usage' \in [bytes : Nat, entries : Nat] /\ missed' = FALSE
        /\ BytesOf(Keys, body') <= usage'.bytes
        /\ ~stored.unlimited => BytesOf(Keys, body') <= MaxBytes
    BY <1>1, <1>2, ReconciledCount
  <1>4. \A c \in Loaders : loader'[c].at = "idle"
    BY <1>1, ZeroIsSmall
  <1>5. KeysAreGiven' /\ LockIsHeld' /\ CountedBodies' = body'
    BY <1>1, <1>4, CacheBounds DEF KeysAreGiven, LockIsHeld, CountedBodies
  <1>6. loader' \in [Loaders -> Loads]
    BY <1>1, ZeroIsSmall
  <1>7. CacheTypes'
    <2>1. restarts' \in 0..MaxRestarts
      BY <1>1, CacheBounds DEF CacheTypes
    <2>2. QED
      BY <1>1, <1>3, <1>6, <2>1 DEF CacheTypes
  <1>8. CountIsEnough'
    BY <1>1, <1>3, <1>5 DEF CountIsEnough
  <1>9. QED
    BY <1>5, <1>7, <1>8 DEF CacheIInv

\* A step that changes neither files nor requests.
LEMMA CacheStutter ==
    ASSUME CacheIInv, now' \in 0..MaxTime,
           UNCHANGED <<cacheFiles, settings, stored, loader, holder, cacheFaults, restarts, missed>>
    PROVE  CacheIInv'
  <1>1. CacheTypes' /\ KeysAreGiven' /\ LockIsHeld' /\ CountedBodies' = CountedBodies
    BY DEF CacheIInv, CacheTypes, KeysAreGiven, LockIsHeld, CountedBodies, Key, cacheFiles
  <1>2. CountIsEnough'
    BY <1>1 DEF CacheIInv, CountIsEnough, cacheFiles
  <1>3. QED
    BY <1>1, <1>2 DEF CacheIInv

-----------------------------------------------------------------------------
LEMMA CacheInitHolds ==
    ASSUME CacheInit
    PROVE  CacheIInv
  <1> USE DEF CacheInit
  <1>0. 0 \in 0..MaxCacheFaults /\ 0 \in 0..MaxRestarts /\ Default \in SettingChoices
    BY CacheBounds DEF Default
  <1>1. CacheTypes
    <2>1. loader \in [Loaders -> Loads] /\ meta \in [Keys -> CacheEntries] /\ body \in [Keys -> 0..MaxSize]
      BY ZeroIsSmall
    <2>2. usage \in [bytes : Nat, entries : Nat]
      OBVIOUS
    <2>3. QED
      BY <1>0, <2>1, <2>2, ZeroIsSmall DEF CacheTypes
  <1>2. \A c \in Loaders : loader[c].at = "idle"
    BY ZeroIsSmall DEF CacheInit
  <1>3. KeysAreGiven /\ LockIsHeld /\ CountedBodies = body
    BY <1>2, CacheBounds DEF CacheInit, KeysAreGiven, LockIsHeld, CountedBodies
  <1>4. BytesOf(Keys, body) = 0
    <2>1. {} \in SUBSET Keys /\ IsFiniteSet({})
      BY FS_EmptySet
    <2>2. body \in [Keys -> Nat] /\ body = [k \in Keys |-> IF k \in {} THEN body[k] ELSE 0]
      BY DEF CacheInit
    <2>3. BytesOf(Keys, body) = BytesOf({}, body)
      BY <2>1, <2>2, BytesOfKept
    <2>4. QED
      BY <2>3, BytesAreSum, SumOfNothing
  <1>5. usage.bytes = 0
    BY DEF CacheInit
  <1>6. CountIsEnough
    BY <1>3, <1>4, <1>5, CacheBounds DEF CountIsEnough
  <1>7. QED
    BY <1>1, <1>3, <1>6 DEF CacheIInv

LEMMA CacheStepKeepsInv ==
    ASSUME CacheIInv, [CacheNext]_cacheVars
    PROVE  CacheIInv'
  <1>1. CASE \E c \in Loaders, k \in Keys : Load(c, k)
    BY <1>1, LoadKeepsInv
  <1>2. CASE \E c \in Loaders : ReadMetadata(c) \/ ReadBody(c)
    BY <1>2, ReadKeepsInv
  <1>3. CASE \E c \in Loaders : UndoBody(c)
    BY <1>3, UndoKeepsInv
  <1>4. CASE \E c \in Loaders, x \in Exchanges : Fetch(c, x)
    BY <1>4, FetchKeepsInv
  <1>5. CASE \E c \in Loaders, fails \in BOOLEAN : DropCover(c, fails)
    BY <1>5, DropKeepsInv
  <1>6. CASE \E c \in Loaders, fails \in BOOLEAN : Refresh(c, fails)
    BY <1>6, RefreshKeepsInv
  <1>7. CASE \E c \in Loaders, fails \in BOOLEAN : WriteBody(c, fails)
    BY <1>7, WriteKeepsInv
  <1>8. CASE \E c \in Loaders, fails \in BOOLEAN : CommitCover(c, fails)
    BY <1>8, CommitKeepsInv
  <1>9. CASE \E s \in SettingChoices, fails \in BOOLEAN : Configure(s, fails)
    BY <1>9, ConfigureKeepsInv
  <1>10. CASE Restart
    BY <1>10, CacheRestartKeepsInv
  <1>11. CASE Tick
    <2>1. now' \in 0..MaxTime
      BY <1>11, CacheBounds DEF Tick, CacheIInv, CacheTypes
    <2>2. QED
      BY <1>11, <2>1, CacheStutter DEF Tick
  <1>12. CASE UNCHANGED cacheVars
    <2>1. now' \in 0..MaxTime
      BY <1>12 DEF cacheVars, CacheIInv, CacheTypes
    <2>2. QED
      BY <1>12, <2>1, CacheStutter DEF cacheVars, cacheFiles
  <1>13. QED
    BY <1>1, <1>2, <1>3, <1>4, <1>5, <1>6, <1>7, <1>8, <1>9, <1>10, <1>11, <1>12 DEF CacheNext

\* The invariant holds in every reachable state.
THEOREM CacheInductive == CacheSpec => []CacheIInv
  BY CacheInitHolds, CacheStepKeepsInv, PTL DEF CacheSpec

\* The bodies of the covers take no more than the limit whenever no cover is being written:
\* the count that write_entry compares with the limit never understates them, through failing
\* writes and removals, stops between two files, other requests and changed settings.
THEOREM CacheKeepsItsLimit == CacheSpec => []CacheStaysInLimit
  <1>1. CacheIInv => CacheStaysInLimit
    BY FreeCount DEF CacheStaysInLimit
  <1>2. QED
    BY <1>1, CacheInductive, PTL

\* Files, count, settings, requests and counters are well typed in every reachable state.
THEOREM CacheTypeCorrect == CacheSpec => []CacheTypeOK
  <1>1. CacheIInv => CacheTypeOK
    BY DEF CacheIInv, CacheTypes, CacheTypeOK, CacheEntries, Loads, LoadPlaces
  <1>2. QED
    BY <1>1, CacheInductive, PTL

-----------------------------------------------------------------------------
(* Extraction: the inductive invariant.                                    *)

FileRecords == [size : Nat, content : Nat]

\* Nobody replaced a volume since the scan.
AllScanned == \A v \in request.volumes : volumeState[v] = "scanned"

\* What an archive must be to pass the listing.
Passes(a) ==
    /\ a \in Seq(Entries) /\ Len(a) <= MaxEntries
    /\ ManifestOf(a).issues = {} /\ ~TakesMarker(ManifestOf(a))

\* The listing is that of an archive that passed, of the scanned one if nobody replaced it.
IsListed ==
    \E a \in {archive, other} :
      manifest = ManifestOf(a) /\ Passes(a) /\ (AllScanned => a = archive)

UnpackTypes ==
    /\ UnpackTypeOK
    /\ manifest.total \in Nat /\ manifest.files \in Nat
    /\ opened \in Seq(Entries)
    /\ stagingFolder \in [there : BOOLEAN, marks : SUBSET {"stage", "install"},
                          files : {stagingFolder.files}, folders : SUBSET EntryNames]
    /\ stagingFolder.files \in [DOMAIN stagingFolder.files -> FileRecords]
    /\ progress \in [bytes : Nat, files : Nat]

BeforeUnpacking == {"read", "resolve", "hash", "open"}
Unpacking == {"zip", "rar", "verify", "mark"}
Checked == {"mark", "sign", "activate", "ready"}

\* What each phase says of the tool and of the staging folder.
PhaseFits ==
    /\ running <=> phase = "rar"
    /\ phase \in {"read", "resolve", "hash"} => stagingFolder = NoStaging
    /\ phase = "open" => stagingFolder = [NoStaging EXCEPT !.there = TRUE, !.marks = {"stage"}]
    /\ phase \in BeforeUnpacking => next = 1 /\ progress = NoProgress
    /\ phase \in Unpacking => stagingFolder.there /\ stagingFolder.marks = {"stage"}
    /\ phase = "sign" => stagingFolder.there /\ stagingFolder.marks = {}
    /\ phase \in {"activate", "ready"} => stagingFolder.there /\ stagingFolder.marks = {"install"}
    /\ phase = "zip" => request.reader = "zip"

ListingFits ==
    \/ IsListed
    \/ manifest = NoManifest /\ phase \in {"read", "clean", "failed"}

\* What was compared with its hash is still what was scanned.
HashedIsScanned == \A v \in hashed : volumeState[v] = "scanned"

\* Of an archive nobody replaced, each file that is unpacked is that of an entry passed.
FilesAreEntries ==
    AllScanned => \A n \in DOMAIN stagingFolder.files : \E j \in Files(archive) :
      j < next /\ archive[j].name = n /\ stagingFolder.files[n] = Written(archive[j])

\* What verify_staging saw stays so.
CheckedMatches ==
    phase \in Checked =>
      /\ Matches(manifest, stagingFolder)
      /\ request.target # "none" /\ request.catalog # 0 =>
           /\ HoldsFile(request.target)
           /\ \E n \in DOMAIN stagingFolder.files :
                Same(n, request.target) /\ stagingFolder.files[n].content = request.catalog

\* The sizes of what a function holds: of the files of a folder, of the entries of a listing.
SizesOf(f) == [x \in DOMAIN f |-> f[x].size]

\* The ZIP reader counts the entries it passed; what a tool is measured at next is no less.
FilesBefore(a, k) == {i \in Files(a) : i < k}
ZipCounts ==
    phase = "zip" =>
      /\ next <= Len(manifest.entries) + 1
      /\ AllScanned =>
           /\ opened = archive
           /\ progress.bytes <= SumOf(SizesOf(archive), 1..(next - 1))
           /\ progress.files <= Cardinality(FilesBefore(archive, next))
ToolCounts ==
    running => /\ progress.bytes <= AtMost(Measured.bytes, manifest.total)
               /\ progress.files <= AtMost(Measured.files, manifest.files)

UnpackIInv ==
    /\ UnpackTypes /\ PhaseFits /\ ListingFits /\ HashedIsScanned
    /\ FilesAreEntries /\ CheckedMatches /\ ZipCounts /\ ToolCounts
    /\ FailedLeavesNothing /\ ProgressFits

-----------------------------------------------------------------------------
(* Extraction: folds over the folder, over a listing and over a line.      *)

\* What a fold keeps at each step holds of what it yields.
LEMMA FoldStays ==
    ASSUME NEW S, IsFiniteSet(S), NEW V, NEW g, NEW pick, g[{}] \in V,
           \A s \in SUBSET S : s # {} =>
             pick[s] \in s /\ (g[s \ {pick[s]}] \in V => g[s] \in V)
    PROVE  \A s \in SUBSET S : g[s] \in V
  <1> DEFINE Bad == {n \in Nat : \E s \in SUBSET S : Cardinality(s) = n /\ g[s] \notin V}
  <1>1. \A s \in SUBSET S : IsFiniteSet(s) /\ Cardinality(s) \in Nat
    BY FS_Subset, FS_CardinalityType
  <1>2. Bad = {}
    <2>1. SUFFICES ASSUME Bad # {} PROVE FALSE
      OBVIOUS
    <2>2. PICK n \in Bad : \A m \in Nat : m < n => m \notin Bad
      BY <2>1, LeastNumber
    <2>3. PICK s \in SUBSET S : Cardinality(s) = n /\ g[s] \notin V
      BY <2>2
    <2>4. s # {} /\ pick[s] \in s /\ g[s \ {pick[s]}] \notin V
      BY <2>3
    <2>5. Cardinality(s \ {pick[s]}) \in Nat /\ Cardinality(s \ {pick[s]}) = n - 1
      BY <1>1, <2>3, <2>4, SmallerPart
    <2>6. s \ {pick[s]} \in SUBSET S /\ Cardinality(s \ {pick[s]}) \notin Bad
      <3>1. n - 1 < n
        OBVIOUS
      <3> HIDE DEF Bad
      <3>2. QED
        BY <2>2, <2>5, <3>1
    <2>7. QED
      BY <2>4, <2>5, <2>6
  <1>3. ASSUME NEW s \in SUBSET S PROVE g[s] \in V
    <2>1. Cardinality(s) \in Nat /\ Cardinality(s) \notin Bad
      BY <1>1, <1>2
    <2>2. QED
      BY <2>1
  <1>4. QED
    BY <1>3

LEMMA SizesSumUp ==
    ASSUME NEW f, IsFiniteSet(DOMAIN f), \A x \in DOMAIN f : f[x].size \in Nat
    PROVE  (CHOOSE g : g = [s \in SUBSET DOMAIN f |->
                IF s = {} THEN 0 ELSE f[Chosen(s)].size + g[s \ {Chosen(s)}]])[DOMAIN f]
             = SumOf(SizesOf(f), DOMAIN f)
  <1> DEFINE S == DOMAIN f
             w == SizesOf(f)
             Folds(g) == g = [s \in SUBSET S |->
                IF s = {} THEN 0 ELSE f[Chosen(s)].size + g[s \ {Chosen(s)}]]
             c == CHOOSE g : Folds(g)
  <1>1. \A x \in S : w[x] = f[x].size /\ w[x] \in Nat
    BY DEF SizesOf
  <1>2. ASSUME NEW g PROVE Folds(g) <=> SumsUp(g, w, S)
    <2> DEFINE one(s) == IF s = {} THEN 0 ELSE f[Chosen(s)].size + g[s \ {Chosen(s)}]
               two(s) == IF s = {} THEN 0 ELSE w[Chosen(s)] + g[s \ {Chosen(s)}]
    <2>1. ASSUME NEW s \in SUBSET S PROVE one(s) = two(s)
      <3>1. CASE s = {}
        BY <3>1
      <3>2. CASE s # {}
        <4>1. Chosen(s) \in S
          BY <3>2, ChosenIsIn
        <4>2. QED
          BY <1>1, <3>2, <4>1
      <3>3. QED
        BY <3>1, <3>2
    <2> HIDE DEF one, two
    <2>2. [s \in SUBSET S |-> one(s)] = [s \in SUBSET S |-> two(s)]
      BY <2>1
    <2>3. QED
      BY <2>2 DEF one, two, SumsUp
  <1>3. PICK g : SumsUp(g, w, S) /\ SumOf(w, S) = g[S]
    BY <1>1, SumOfSumsUp
  <1>4. Folds(g)
    BY <1>2, <1>3
  <1>5. Folds(c)
    BY <1>4
  <1> HIDE DEF c
  <1>6. SumsUp(c, w, S)
    BY <1>2, <1>5
  <1>7. c[S] = g[S]
    BY <1>1, <1>3, <1>6, SumsAgree
  <1>8. QED
    BY <1>3, <1>7 DEF c

LEMMA TotalSumsUp ==
    ASSUME NEW a \in Seq(Entries)
    PROVE  Total(a) = SumOf(SizesOf(a), 1..Len(a)) /\ Total(a) \in Nat
  <1>1. DOMAIN a = 1..Len(a) /\ Len(a) \in Nat /\ \A i \in DOMAIN a : a[i] \in Entries
    OBVIOUS
  <1>2. IsFiniteSet(DOMAIN a)
    BY <1>1, FS_Interval
  <1>3. \A i \in DOMAIN a : a[i].size \in Nat
    BY <1>1 DEF Entries
  <1>4. Total(a) = (CHOOSE g : g = [s \in SUBSET DOMAIN a |->
                IF s = {} THEN 0 ELSE a[Chosen(s)].size + g[s \ {Chosen(s)}]])[DOMAIN a]
    BY DEF Total, FoldSeq, FoldFunction, FoldFunctionOnSet, MapThenFoldSet, Chosen
  <1>5. Total(a) = SumOf(SizesOf(a), DOMAIN a)
    BY <1>2, <1>3, <1>4, SizesSumUp
  <1>6. \A i \in DOMAIN a : SizesOf(a)[i] \in Nat
    BY <1>3 DEF SizesOf
  <1>7. QED
    BY <1>1, <1>2, <1>5, <1>6, SumType

\* The files of a folder.
FilesOfFolder(f) == DOMAIN f \subseteq EntryNames /\ f \in [DOMAIN f -> FileRecords]

LEMMA FolderIsFinite ==
    ASSUME NEW f, FilesOfFolder(f)
    PROVE  IsFiniteSet(DOMAIN f) /\ Cardinality(DOMAIN f) \in Nat
  <1>1. IsFiniteSet(EntryNames)
    <2>1. IsFiniteSet({"game"} \cup {"GAME"} \cup {"work"} \cup {"work/game"})
      BY FS_Singleton, FS_Union
    <2>2. IsFiniteSet({Outside} \cup {".dla-stage.json"} \cup {".DLA-STAGE.JSON"})
      BY FS_Singleton, FS_Union
    <2>3. EntryNames = ({"game"} \cup {"GAME"} \cup {"work"} \cup {"work/game"})
                       \cup ({Outside} \cup {".dla-stage.json"} \cup {".DLA-STAGE.JSON"})
      BY DEF EntryNames
    <2>4. QED
      BY <2>1, <2>2, <2>3, FS_Union
  <1>2. QED
    BY <1>1, FS_Subset, FS_CardinalityType DEF FilesOfFolder

LEMMA BytesSumUp ==
    ASSUME NEW f, FilesOfFolder(f)
    PROVE  BytesIn(f) = SumOf(SizesOf(f), DOMAIN f) /\ BytesIn(f) \in Nat
  <1>1. IsFiniteSet(DOMAIN f)
    BY FolderIsFinite
  <1>2. \A n \in DOMAIN f : f[n].size \in Nat /\ SizesOf(f)[n] \in Nat
    BY DEF FilesOfFolder, FileRecords, SizesOf
  <1>3. BytesIn(f) = (CHOOSE g : g = [s \in SUBSET DOMAIN f |->
                IF s = {} THEN 0 ELSE f[Chosen(s)].size + g[s \ {Chosen(s)}]])[DOMAIN f]
    BY DEF BytesIn, FoldSet, MapThenFoldSet, Chosen
  <1>4. QED
    BY <1>1, <1>2, <1>3, SizesSumUp, SumType

\* A file under a name of its own makes the folder larger by that file.
LEMMA OneMoreFile ==
    ASSUME NEW f, FilesOfFolder(f), NEW n \in EntryNames \ DOMAIN f, NEW file \in FileRecords,
           NEW h, h = [m \in (DOMAIN f) \cup {n} |-> IF m = n THEN file ELSE f[m]]
    PROVE  /\ FilesOfFolder(h)
           /\ BytesIn(h) = file.size + BytesIn(f)
           /\ Cardinality(DOMAIN h) = Cardinality(DOMAIN f) + 1
  <1>1. DOMAIN h = (DOMAIN f) \cup {n} /\ h[n] = file /\ \A m \in DOMAIN f : h[m] = f[m]
    OBVIOUS
  <1>2. FilesOfFolder(h)
    BY <1>1 DEF FilesOfFolder
  <1>3. \A m \in DOMAIN h : SizesOf(h)[m] = h[m].size /\ h[m].size \in Nat
    BY <1>2 DEF FilesOfFolder, FileRecords, SizesOf
  <1>4. \A m \in DOMAIN f : SizesOf(f)[m] = SizesOf(h)[m] /\ SizesOf(f)[m] \in Nat
    BY <1>1, <1>3 DEF SizesOf
  <1>5. SumOf(SizesOf(h), DOMAIN h) = SizesOf(h)[n] + SumOf(SizesOf(h), (DOMAIN h) \ {n})
    <2>1. IsFiniteSet(DOMAIN h) /\ n \in DOMAIN h
      BY <1>1, <1>2, FolderIsFinite
    <2>2. \A m \in DOMAIN h : SizesOf(h)[m] \in Nat
      BY <1>3
    <2>3. PICK D, v : D = DOMAIN h /\ v = SizesOf(h)
      OBVIOUS
    <2>4. IsFiniteSet(D) /\ n \in D /\ \A m \in D : v[m] \in Nat
      BY <2>1, <2>2, <2>3
    <2>5. SumOf(v, D) = v[n] + SumOf(v, D \ {n})
      BY <2>4, SumTakesOut
    <2>6. QED
      BY <2>3, <2>5
  <1>6. (DOMAIN h) \ {n} = DOMAIN f
    BY <1>1
  <1>7. SumOf(SizesOf(h), DOMAIN f) = SumOf(SizesOf(f), DOMAIN f)
    BY <1>4, FolderIsFinite, SumOfSame
  <1>8. SizesOf(h)[n] = file.size
    BY <1>1, <1>3
  <1>9. BytesIn(h) = file.size + BytesIn(f)
    BY <1>2, <1>5, <1>6, <1>7, <1>8, BytesSumUp
  <1>10. Cardinality(DOMAIN h) = Cardinality(DOMAIN f) + 1
    BY <1>1, FolderIsFinite, FS_AddElement
  <1>11. QED
    BY <1>2, <1>9, <1>10

LEMMA MaxIsIn ==
    ASSUME NEW k \in Nat, NEW s \in SUBSET (1..k), s # {}
    PROVE  Max(s) \in s
  <1> DEFINE N == {i \in Nat : \E x \in s : i = k - x}
  <1>1. PICK x \in s : TRUE
    OBVIOUS
  <1>2. k - x \in N
    OBVIOUS
  <1>3. PICK i \in N : \A j \in Nat : j < i => j \notin N
    BY <1>2, LeastNumber
  <1>4. PICK y \in s : i = k - y
    BY <1>3
  <1>5. ASSUME NEW z \in s PROVE y >= z
    <2>1. k - z \in N
      OBVIOUS
    <2>2. ~ (k - z < k - y)
      BY <1>3, <1>4, <2>1
    <2>3. QED
      BY <2>2
  <1>6. QED
    BY <1>5 DEF Max

\* Where follow_percent is in a line.
Reading(h) == [digits : Int, inName : BOOLEAN, best : h..100]

LEMMA TakeCharReads ==
    ASSUME NEW h \in 0..100, NEW s \in Reading(h), NEW c
    PROVE  TakeChar(c, s) \in Reading(h)
  <1>1. s.digits \in Int /\ s.inName \in BOOLEAN /\ s.best \in h..100
    BY DEF Reading
  <1>2. CASE c = Redraw
    <2>1. TakeChar(c, s) = [s EXCEPT !.digits = -1, !.inName = FALSE]
      BY <1>2 DEF TakeChar, Redraw, Percent
    <2>2. (-1) \in Int
      OBVIOUS
    <2>3. QED
      BY <2>1, <2>2 DEF Reading
  <1>3. CASE c # Redraw /\ c \in 0..9 /\ ~s.inName
    <2>1. TakeChar(c, s) = [s EXCEPT !.digits = IF s.digits = -1 THEN c ELSE 10 * s.digits + c]
      BY <1>3 DEF TakeChar, Redraw, Percent
    <2>2. (IF s.digits = -1 THEN c ELSE 10 * s.digits + c) \in Int
      BY <1>1, <1>3
    <2>3. QED
      BY <2>1, <2>2 DEF Reading
  <1>4. CASE c = Percent /\ ~s.inName
    <2>1. TakeChar(c, s) = [digits |-> -1, inName |-> TRUE,
                best |-> IF s.digits \in (s.best + 1)..100 THEN s.digits ELSE s.best]
      BY <1>4 DEF TakeChar, Redraw, Percent
    <2>2. (IF s.digits \in (s.best + 1)..100 THEN s.digits ELSE s.best) \in h..100
      BY <1>1
    <2>3. QED
      BY <2>1, <2>2 DEF Reading
  <1>5. CASE c # Redraw /\ ~(c \in 0..9 /\ ~s.inName) /\ ~(c = Percent /\ ~s.inName)
    <2>1. TakeChar(c, s) = [s EXCEPT !.digits = -1]
      BY <1>5 DEF TakeChar
    <2>2. QED
      BY <2>1 DEF Reading
  <1>6. QED
    BY <1>2, <1>3, <1>4, <1>5

LEMMA FollowGoesUp ==
    ASSUME NEW line \in Lines, NEW h \in 0..100
    PROVE  Follow(line, h) \in h..100
  <1> DEFINE S == DOMAIN line
             V == Reading(h)
             start == [digits |-> -1, inName |-> FALSE, best |-> h]
             Folds(g) == g = [s \in SUBSET S |->
                IF s = {} THEN start ELSE TakeChar(line[Max(s)], g[s \ {Max(s)}])]
             c == CHOOSE g : Folds(g)
             pick == [s \in SUBSET S |-> Max(s)]
             step == [p \in S \X V |-> TakeChar(line[p[1]], p[2])]
  <1>1. PICK k \in Nat : S = 1..k
    <2>1. <<4, 0, Percent, Letter, 9, 9, Percent, Redraw, 8, 0, Percent>> \in Seq(Nat)
      BY DEF Percent, Redraw, Letter
    <2>2. <<2, 0, 0, Percent>> \in Seq(Nat) /\ <<Letter, 1, 0, Percent>> \in Seq(Nat)
          /\ <<5, 0, Letter, Percent>> \in Seq(Nat)
      BY DEF Percent, Letter
    <2>3. line \in Seq(Nat)
      BY <2>1, <2>2 DEF Lines
    <2>4. QED
      BY <2>3
  <1>2. IsFiniteSet(S)
    BY <1>1, FS_Interval
  <1>3. start \in V
    BY DEF Reading
  <1>4. \A s \in SUBSET S : s # {} => pick[s] = Max(s) /\ Max(s) \in s
    BY <1>1, MaxIsIn
  <1>5. \A x \in S : \A v \in V : step[<<x, v>>] = TakeChar(line[x], v) /\ step[<<x, v>>] \in V
    BY TakeCharReads
  <1>6. Follow(line, h) = c[S].best
    BY DEF Follow, FoldLeft, MapThenFoldSet
  <1> HIDE DEF c, start, V, S, pick, step
  <1>7. PICK g \in [SUBSET S -> V] : FoldsUp(g, S, start, pick, step)
    <2>1. \A s \in SUBSET S : s # {} => pick[s] \in s
      BY <1>4
    <2>2. \A x \in S : \A v \in V : step[<<x, v>>] \in V
      BY <1>5
    <2>3. QED
      BY <1>2, <1>3, <2>1, <2>2, FoldsExist
  <1>8. Folds(g)
    <2>1. ASSUME NEW s \in SUBSET S
          PROVE  g[s] = IF s = {} THEN start ELSE TakeChar(line[Max(s)], g[s \ {Max(s)}])
      <3>1. CASE s = {}
        BY <1>7, <3>1 DEF FoldsUp
      <3>2. CASE s # {}
        <4>1. Max(s) \in S /\ pick[s] = Max(s) /\ g[s \ {Max(s)}] \in V
          BY <1>4, <1>7, <3>2
        <4>2. g[s] = step[<<Max(s), g[s \ {Max(s)}]>>]
          BY <1>7, <3>2, <4>1 DEF FoldsUp
        <4>3. QED
          BY <1>5, <3>2, <4>1, <4>2
      <3>3. QED
        BY <3>1, <3>2
    <2>2. QED
      BY <1>7, <2>1
  <1>9. Folds(c)
    BY <1>8 DEF c
  <1>10. /\ c[{}] = start
         /\ \A s \in SUBSET S : s # {} => c[s] = TakeChar(line[Max(s)], c[s \ {Max(s)}])
    BY <1>9
  <1>11. c[{}] \in V
    BY <1>3, <1>10
  <1>12. ASSUME NEW s \in SUBSET S, s # {}
         PROVE  pick[s] \in s /\ (c[s \ {pick[s]}] \in V => c[s] \in V)
    <2>1. pick[s] = Max(s) /\ Max(s) \in s
      BY <1>4, <1>12
    <2>2. c[s] = TakeChar(line[Max(s)], c[s \ {Max(s)}])
      BY <1>10, <1>12
    <2>3. \A v \in V : TakeChar(line[Max(s)], v) \in V
      BY TakeCharReads DEF V
    <2>4. QED
      BY <2>1, <2>2, <2>3
  <1>13. \A s \in SUBSET S : c[s] \in V
    BY <1>2, <1>11, <1>12, FoldStays
  <1>14. c[S] \in V
    BY <1>13
  <1>15. QED
    BY <1>6, <1>14 DEF V, Reading

-----------------------------------------------------------------------------
(* What a listing, and an archive that passed, say.                        *)

LEMMA ListingTypes ==
    ASSUME NEW a \in Seq(Entries)
    PROVE  /\ DOMAIN a = 1..Len(a) /\ Len(a) \in Nat
           /\ \A i \in DOMAIN a : a[i] \in Entries
           /\ Files(a) \subseteq 1..Len(a) /\ IsFiniteSet(Files(a))
           /\ ManifestOf(a).entries = a
           /\ ManifestOf(a).total = Total(a) /\ ManifestOf(a).total \in Nat
           /\ ManifestOf(a).files = Cardinality(Files(a)) /\ ManifestOf(a).files \in Nat
           /\ ManifestOf(a).issues \subseteq
                {"unsafe_archive_path", "archive_symlink", "encrypted_archive_entry",
                 "duplicate_archive_path", "case_colliding_archive_path"}
  <1>1. /\ DOMAIN a = 1..Len(a) /\ Len(a) \in Nat
        /\ \A i \in DOMAIN a : a[i] \in Entries
    OBVIOUS
  <1>2. Files(a) \subseteq 1..Len(a)
    BY <1>1 DEF Files
  <1>3. IsFiniteSet(Files(a)) /\ Cardinality(Files(a)) \in Nat
    <2>1. IsFiniteSet(1..Len(a))
      BY <1>1, FS_Interval
    <2>2. QED
      BY <1>2, <2>1, FS_Subset, FS_CardinalityType
  <1>4. ManifestOf(a).total = Total(a) /\ ManifestOf(a).entries = a
        /\ ManifestOf(a).files = Cardinality(Files(a))
    BY DEF ManifestOf
  <1>5. \A i \in DOMAIN a : IssuesOf(a, i) \subseteq
          {"unsafe_archive_path", "archive_symlink", "encrypted_archive_entry",
           "duplicate_archive_path", "case_colliding_archive_path"}
    BY DEF IssuesOf
  <1>6. ManifestOf(a).issues = UNION {IssuesOf(a, i) : i \in DOMAIN a}
    BY DEF ManifestOf
  <1>7. QED
    BY <1>1, <1>2, <1>3, <1>4, <1>5, <1>6, TotalSumsUp

LEMMA NoManifestTypes ==
    NoManifest.total = 0 /\ NoManifest.files = 0 /\ NoManifest.issues = {}
  BY DEF NoManifest

LEMMA PassedEntries ==
    ASSUME NEW a, Passes(a)
    PROVE  /\ a \in Seq(Entries) /\ Len(a) \in 0..MaxEntries /\ DOMAIN a = 1..Len(a)
           /\ \A i \in 1..Len(a) : /\ a[i] \in Entries /\ Enclosed(a[i].name)
                                   /\ a[i].flaw # "link" /\ a[i].flaw # "encrypted"
                                   /\ Lower(a[i].name) \notin Reserved
           /\ \A i, j \in 1..Len(a) : Lower(a[i].name) = Lower(a[j].name) => i = j
  <1>1. a \in Seq(Entries) /\ Len(a) \in 0..MaxEntries /\ DOMAIN a = 1..Len(a)
        /\ \A i \in 1..Len(a) : a[i] \in Entries
    BY ExtractBounds DEF Passes
  <1>2. ManifestOf(a).entries = a
    BY <1>1, ListingTypes
  <1>3. ManifestOf(a).issues = UNION {IssuesOf(a, i) : i \in DOMAIN a}
    BY DEF ManifestOf
  <1>4. ASSUME NEW i \in 1..Len(a) PROVE IssuesOf(a, i) = {}
    BY <1>1, <1>3 DEF Passes
  <1>5. ASSUME NEW i \in 1..Len(a)
        PROVE  Enclosed(a[i].name) /\ a[i].flaw # "link" /\ a[i].flaw # "encrypted"
    BY <1>4 DEF IssuesOf
  <1>6. \A i \in 1..Len(a) : Lower(a[i].name) \notin Reserved
    BY <1>1, <1>2 DEF Passes, TakesMarker
  <1>7. ASSUME NEW i \in 1..Len(a), NEW j \in 1..Len(a), j < i
        PROVE  Lower(a[j].name) # Lower(a[i].name)
    <2>1. j \in 1..(i - 1)
      BY <1>1, <1>7
    <2>2. Enclosed(a[j].name) /\ Enclosed(a[i].name)
      BY <1>5
    <2>3. j \in {k \in 1..(i - 1) : Enclosed(a[k].name)}
      BY <2>1, <2>2
    <2>4. IssuesOf(a, i) = {}
      BY <1>4
    <2>5. QED
      BY <2>2, <2>3, <2>4 DEF IssuesOf
  <1>8. ASSUME NEW i \in 1..Len(a), NEW j \in 1..Len(a), Lower(a[i].name) = Lower(a[j].name)
        PROVE  i = j
    <2>1. i \in Int /\ j \in Int
      BY <1>1
    <2>2. ~ (i < j) /\ ~ (j < i)
      BY <1>7, <1>8
    <2>3. QED
      BY <2>1, <2>2
  <1>9. QED
    BY <1>1, <1>5, <1>6, <1>8

\* The sum of the entries passed grows with the next one, and stays within the total.
LEMMA PrefixGrows ==
    ASSUME NEW a \in Seq(Entries), NEW k \in 1..Len(a)
    PROVE  /\ SumOf(SizesOf(a), 1..(k - 1)) \in Nat
           /\ SumOf(SizesOf(a), 1..k) = a[k].size + SumOf(SizesOf(a), 1..(k - 1))
           /\ Cardinality(FilesBefore(a, k)) \in Nat
           /\ Cardinality(FilesBefore(a, k + 1)) =
                Cardinality(FilesBefore(a, k)) + (IF a[k].dir THEN 0 ELSE 1)
  <1>1. Len(a) \in Nat /\ DOMAIN a = 1..Len(a) /\ k \in Nat
    OBVIOUS
  <1>2. PICK w : w = SizesOf(a)
    OBVIOUS
  <1>3. \A i \in 1..Len(a) : w[i] = a[i].size /\ a[i].size \in Nat
    BY <1>1, <1>2, ListingTypes DEF SizesOf, Entries
  <1>4. \A i \in 1..k : w[i] \in Nat
    BY <1>1, <1>3
  <1>5. IsFiniteSet(1..k) /\ IsFiniteSet(1..(k - 1)) /\ k \in 1..k
    BY <1>1, FS_Interval
  <1>6. SumOf(w, 1..k) = w[k] + SumOf(w, (1..k) \ {k})
    BY <1>4, <1>5, SumTakesOut
  <1>7. (1..k) \ {k} = 1..(k - 1)
    BY <1>1
  <1>8. SumOf(w, 1..(k - 1)) \in Nat
    <2>1. \A i \in 1..(k - 1) : w[i] \in Nat
      BY <1>1, <1>4
    <2>2. QED
      BY <1>5, <2>1, SumType
  <1>9. IsFiniteSet(FilesBefore(a, k)) /\ Cardinality(FilesBefore(a, k)) \in Nat
    BY ListingTypes, FS_Subset, FS_CardinalityType DEF FilesBefore
  <1>10. CASE a[k].dir
    <2>1. FilesBefore(a, k + 1) = FilesBefore(a, k)
      BY <1>1, <1>10 DEF FilesBefore, Files
    <2>2. Cardinality(FilesBefore(a, k + 1)) =
            Cardinality(FilesBefore(a, k)) + (IF a[k].dir THEN 0 ELSE 1)
      BY <1>9, <1>10, <2>1
    <2>3. QED
      BY <1>2, <1>3, <1>6, <1>7, <1>8, <1>9, <2>2
  <1>11. CASE ~a[k].dir
    <2>1. FilesBefore(a, k + 1) = FilesBefore(a, k) \cup {k} /\ k \notin FilesBefore(a, k)
      BY <1>1, <1>11 DEF FilesBefore, Files
    <2>2. Cardinality(FilesBefore(a, k + 1)) = Cardinality(FilesBefore(a, k)) + 1
      BY <1>9, <2>1, FS_AddElement
    <2>3. Cardinality(FilesBefore(a, k + 1)) =
            Cardinality(FilesBefore(a, k)) + (IF a[k].dir THEN 0 ELSE 1)
      BY <1>11, <2>2
    <2>4. QED
      BY <1>2, <1>3, <1>6, <1>7, <1>8, <1>9, <2>3
  <1>12. QED
    BY <1>10, <1>11

LEMMA PrefixStaysIn ==
    ASSUME NEW a \in Seq(Entries), NEW k \in 1..(Len(a) + 1)
    PROVE  /\ SumOf(SizesOf(a), 1..(k - 1)) \in Nat
           /\ SumOf(SizesOf(a), 1..(k - 1)) <= Total(a)
           /\ Cardinality(FilesBefore(a, k)) \in Nat
           /\ Cardinality(FilesBefore(a, k)) <= Cardinality(Files(a))
  <1>1. Len(a) \in Nat /\ DOMAIN a = 1..Len(a) /\ k \in Nat
    OBVIOUS
  <1>2. PICK w : w = SizesOf(a)
    OBVIOUS
  <1>3. \A i \in 1..Len(a) : w[i] \in Nat
    BY <1>1, <1>2, ListingTypes DEF SizesOf, Entries
  <1>4. 1..(k - 1) \in SUBSET (1..Len(a)) /\ IsFiniteSet(1..Len(a)) /\ IsFiniteSet(1..(k - 1))
    <2>1. 1..(k - 1) \in SUBSET (1..Len(a))
      BY <1>1
    <2>2. IsFiniteSet(1..Len(a))
      BY <1>1, FS_Interval
    <2>3. QED
      BY <2>1, <2>2, FS_Subset
  <1>5. SumOf(w, 1..(k - 1)) <= SumOf(w, 1..Len(a))
    BY <1>3, <1>4, SumOfPart
  <1>6. SumOf(w, 1..(k - 1)) \in Nat
    BY <1>3, <1>4, SumType
  <1>7. FilesBefore(a, k) \subseteq Files(a) /\ IsFiniteSet(Files(a))
    BY ListingTypes DEF FilesBefore
  <1>8. Cardinality(FilesBefore(a, k)) \in Nat
        /\ Cardinality(FilesBefore(a, k)) <= Cardinality(Files(a))
    BY <1>7, FS_Subset, FS_CardinalityType
  <1>9. QED
    BY <1>2, <1>5, <1>6, <1>8, TotalSumsUp

LEMMA SharesGrow ==
    ASSUME NEW t \in Nat, NEW p \in 0..100, NEW q \in p..100
    PROVE  (t * p) \div 100 \in Nat /\ (t * p) \div 100 <= (t * q) \div 100
  <1>1. PICK d \in Nat : q = p + d
    <2>1. q - p \in Nat /\ q = p + (q - p)
      OBVIOUS
    <2>2. QED
      BY <2>1
  <1>2. t * q = t * p + t * d /\ t * p \in Nat /\ t * d \in Nat
    BY <1>1
  <1>3. QED
    BY <1>2

-----------------------------------------------------------------------------
(* Extraction: what most steps leave alone.                                *)

LEMMA UnpackInitially ==
    ASSUME UnpackInit
    PROVE  UnpackIInv
  <1>1. UnpackTypes
    <2>1. UnpackTypeOK
      <3>1. next \in 1..(MaxEntries + 1) /\ percent \in 0..100 /\ unpackFaults \in 0..MaxUnpackFaults
        BY ExtractBounds DEF UnpackInit
      <3>2. manifest.issues = {} /\ stagingFolder.marks = {} /\ DOMAIN stagingFolder.files = {}
        BY DEF UnpackInit, NoManifest, NoStaging
      <3>3. volumeState \in [request.volumes -> {"scanned", "other", "resized", "link", "gone"}]
        BY DEF UnpackInit
      <3>4. todo \subseteq request.volumes
        BY ExtractBounds DEF UnpackInit
      <3>5. QED
        BY <3>1, <3>2, <3>3, <3>4 DEF UnpackInit, UnpackTypeOK
    <2>2. stagingFolder = NoStaging /\ progress = NoProgress /\ opened = <<>>
          /\ manifest = NoManifest
      BY DEF UnpackInit
    <2>3. <<>> \in Seq(Entries) /\ DOMAIN <<>> = {}
      OBVIOUS
    <2>4. stagingFolder.files = <<>> /\ stagingFolder.files \in [DOMAIN stagingFolder.files -> FileRecords]
      BY <2>2, <2>3 DEF NoStaging
    <2>5. QED
      BY <2>1, <2>2, <2>3, <2>4, NoManifestTypes DEF UnpackTypes, NoStaging, NoProgress
  <1>2. PhaseFits
    BY DEF UnpackInit, PhaseFits, BeforeUnpacking, Unpacking
  <1>3. ListingFits /\ HashedIsScanned
    BY DEF UnpackInit, ListingFits, HashedIsScanned
  <1>4. FilesAreEntries
    BY DEF UnpackInit, FilesAreEntries, NoStaging
  <1>5. CheckedMatches /\ ZipCounts /\ ToolCounts /\ FailedLeavesNothing
    BY DEF UnpackInit, CheckedMatches, Checked, ZipCounts, ToolCounts, FailedLeavesNothing
  <1>6. ProgressFits
    BY NoManifestTypes DEF UnpackInit, ProgressFits, NoProgress
  <1>7. QED
    BY <1>1, <1>2, <1>3, <1>4, <1>5, <1>6 DEF UnpackIInv

\* What was asked, and what the volumes hold, do not change.
Undisturbed == UNCHANGED <<request, archive, other, volumeState>>

LEMMA Frames ==
    ASSUME UnpackIInv, Undisturbed
    PROVE  /\ AllScanned' = AllScanned
           /\ UNCHANGED manifest /\ IsListed => IsListed'
           /\ UNCHANGED hashed => HashedIsScanned'
           /\ UNCHANGED stagingFolder /\ next' \in Nat /\ next <= next' => FilesAreEntries'
           /\ UNCHANGED <<manifest, progress, shrunk>> => ProgressFits'
  <1>1. request' = request /\ archive' = archive /\ other' = other /\ volumeState' = volumeState
    BY DEF Undisturbed
  <1>2. AllScanned' = AllScanned
    BY <1>1 DEF AllScanned
  <1>3. UNCHANGED manifest /\ IsListed => IsListed'
    BY <1>1, <1>2 DEF IsListed
  <1>4. UNCHANGED hashed => HashedIsScanned'
    BY <1>1 DEF UnpackIInv, HashedIsScanned
  <1>5. ASSUME UNCHANGED stagingFolder, next' \in Nat, next <= next'
        PROVE  FilesAreEntries'
    <2>1. SUFFICES ASSUME AllScanned', NEW n \in DOMAIN stagingFolder'.files
                   PROVE  \E j \in Files(archive') : j < next' /\ archive'[j].name = n
                            /\ stagingFolder'.files[n] = Written(archive'[j])
      BY DEF FilesAreEntries
    <2>2. PICK j \in Files(archive) : j < next /\ archive[j].name = n
                                      /\ stagingFolder.files[n] = Written(archive[j])
      BY <1>2, <1>5, <2>1 DEF UnpackIInv, FilesAreEntries
    <2>3. j \in Nat /\ next \in Nat
      BY <2>2, ExtractBounds DEF UnpackIInv, UnpackTypes, UnpackTypeOK, Files
    <2>4. j < next'
      BY <1>5, <2>2, <2>3
    <2>5. QED
      BY <1>1, <1>5, <2>2, <2>4
  <1>6. UNCHANGED <<manifest, progress, shrunk>> => ProgressFits'
    BY <1>1 DEF UnpackIInv, ProgressFits
  <1>7. QED
    BY <1>2, <1>3, <1>4, <1>5, <1>6

LEMMA FaultCounts ==
    ASSUME UnpackIInv, NEW fails, UnpackFails(fails)
    PROVE  unpackFaults' \in 0..MaxUnpackFaults
  BY ExtractBounds DEF UnpackIInv, UnpackTypes, UnpackTypeOK, UnpackFails, UnpackFault

\* An error: what was unpacked stays until it is removed, and the tool is over.
LEMMA LeaveKeeps ==
    ASSUME UnpackIInv, Leave, running' = FALSE, unpackFaults' \in 0..MaxUnpackFaults,
           next' \in next..(MaxEntries + 1), unpackCancelled' = unpackCancelled, Undisturbed,
           UNCHANGED <<manifest, opened, todo, percent, stagingFolder, progress, hashed, shrunk,
                       left>>
    PROVE  UnpackIInv'
  <1>1. phase' \in {"clean", "failed"} /\ (phase' = "failed" => ~stagingFolder.there)
    BY DEF Leave
  <1>2. next \in 1..(MaxEntries + 1) /\ next' \in 1..(MaxEntries + 1) /\ next <= next' /\ next' \in Nat
    BY ExtractBounds DEF UnpackIInv, UnpackTypes, UnpackTypeOK
  <1>3. UnpackTypes'
    BY <1>1, <1>2 DEF UnpackIInv, UnpackTypes, UnpackTypeOK, Undisturbed
  <1>4. PhaseFits'
    BY <1>1 DEF PhaseFits, BeforeUnpacking, Unpacking
  <1>5. ListingFits'
    BY <1>1, Frames DEF UnpackIInv, ListingFits
  <1>6. HashedIsScanned' /\ FilesAreEntries' /\ ProgressFits'
    BY <1>2, Frames
  <1>7. CheckedMatches' /\ ZipCounts' /\ ToolCounts'
    BY <1>1 DEF CheckedMatches, Checked, ZipCounts, ToolCounts
  <1>8. FailedLeavesNothing'
    BY <1>1 DEF FailedLeavesNothing
  <1>9. QED
    BY <1>3, <1>4, <1>5, <1>6, <1>7, <1>8 DEF UnpackIInv

\* A step that only goes on to a phase, with what it notes of the volumes and of the tool.
LEMMA GoesOn ==
    ASSUME UnpackIInv, Undisturbed, unpackFaults' \in 0..MaxUnpackFaults,
           UNCHANGED <<manifest, next, percent, stagingFolder, progress, shrunk, left>>,
           phase' \in {"resolve", "hash", "open", "zip", "rar", "verify", "mark", "ready", phase},
           phase' # "failed", phase' = phase \/ phase \notin {"read", "clean", "failed"},
           unpackCancelled' \in BOOLEAN, opened' \in Seq(Entries), todo' \subseteq request.volumes,
           running' \in BOOLEAN, hashed' \subseteq request.volumes,
           PhaseFits', HashedIsScanned', CheckedMatches', ZipCounts', ToolCounts'
    PROVE  UnpackIInv'
  <1>1. next \in Nat
    BY ExtractBounds DEF UnpackIInv, UnpackTypes, UnpackTypeOK
  <1>2. UnpackTypes'
    <2>1. phase' \in {"read", "resolve", "hash", "open", "zip", "rar", "verify", "mark", "sign",
                      "activate", "ready", "clean", "failed"}
      BY DEF UnpackIInv, UnpackTypes, UnpackTypeOK
    <2>2. UnpackTypeOK'
      BY <2>1 DEF UnpackIInv, UnpackTypes, UnpackTypeOK, Undisturbed
    <2>3. QED
      BY <2>2 DEF UnpackIInv, UnpackTypes
  <1>3. ListingFits'
    BY Frames DEF UnpackIInv, ListingFits
  <1>4. FilesAreEntries' /\ ProgressFits'
    BY <1>1, Frames
  <1>5. FailedLeavesNothing'
    BY DEF FailedLeavesNothing
  <1>6. QED
    BY <1>2, <1>3, <1>4, <1>5 DEF UnpackIInv

-----------------------------------------------------------------------------
(* extract up to the staging folder.                                       *)

LEMMA PresentIsEither ==
    ASSUME UnpackIInv
    PROVE  /\ Present \in {archive, other} /\ Present \in Seq(Entries)
           /\ AllScanned => Present = archive
           /\ archive \in Seq(Entries) /\ other \in Seq(Entries)
  BY ExtractBounds DEF UnpackIInv, UnpackTypes, UnpackTypeOK, Present, AllScanned

LEMMA ReadManifestKeeps ==
    ASSUME UnpackIInv, NEW fails \in BOOLEAN, ReadManifest(fails)
    PROVE  UnpackIInv'
  <1>1. /\ phase = "read" /\ UnpackFails(fails) /\ Undisturbed
        /\ UNCHANGED <<opened, todo, next, running, percent, stagingFolder, progress,
                       unpackCancelled, hashed, shrunk, left>>
    BY DEF ReadManifest, asked, Undisturbed
  <1>2. unpackFaults' \in 0..MaxUnpackFaults /\ next \in 1..(MaxEntries + 1) /\ running = FALSE
    BY <1>1, FaultCounts DEF UnpackIInv, UnpackTypes, UnpackTypeOK, PhaseFits
  <1>3. CASE Leave /\ UNCHANGED manifest
    <2>1. next' \in next..(MaxEntries + 1)
      BY <1>1, <1>2
    <2>2. QED
      BY <1>1, <1>2, <1>3, <2>1, LeaveKeeps
  <1>4. CASE ~ (Leave /\ UNCHANGED manifest)
    <2>1. /\ manifest' = ManifestOf(Present) /\ phase' = "resolve"
          /\ ManifestOf(Present).issues = {} /\ ~TakesMarker(ManifestOf(Present))
          /\ IF request.reader = "zip" THEN There /\ ZipListed(Present)
             ELSE Resolved /\ InstalledTools # {} /\ RarListed(Present)
      BY <1>4 DEF ReadManifest
    <2>2. Len(Present) <= MaxEntries
      BY <2>1 DEF ZipListed, RarListed
    <2>3. Passes(Present)
      BY <2>1, <2>2, PresentIsEither DEF Passes
    <2>4. IsListed'
      <3>1. \E a \in {archive, other} : manifest' = ManifestOf(a) /\ Passes(a) /\ (AllScanned => a = archive)
        BY <2>1, <2>3, PresentIsEither
      <3>2. QED
        BY <1>1, <3>1, Frames DEF IsListed, Undisturbed
    <2>5. manifest'.total \in Nat /\ manifest'.files \in Nat /\ manifest'.issues = {}
      BY <2>1, PresentIsEither, ListingTypes
    <2>6. UnpackTypes'
      <3>1. UnpackTypeOK'
        BY <1>1, <1>2, <2>1, <2>5 DEF UnpackIInv, UnpackTypes, UnpackTypeOK, Undisturbed
      <3>2. QED
        BY <1>1, <2>5, <3>1 DEF UnpackIInv, UnpackTypes
    <2>7. PhaseFits'
      BY <1>1, <2>1 DEF UnpackIInv, PhaseFits, BeforeUnpacking, Unpacking
    <2>8. ListingFits'
      BY <2>4 DEF ListingFits
    <2>9. HashedIsScanned' /\ FilesAreEntries'
      BY <1>1, <1>2, ExtractBounds, Frames
    <2>10. CheckedMatches' /\ ZipCounts' /\ ToolCounts' /\ FailedLeavesNothing'
      BY <1>1, <1>2, <2>1 DEF CheckedMatches, Checked, ZipCounts, ToolCounts, FailedLeavesNothing
    <2>11. ProgressFits'
      <3>1. progress = NoProgress
        BY <1>1 DEF UnpackIInv, PhaseFits, BeforeUnpacking
      <3>2. progress'.bytes = 0 /\ progress'.files = 0 /\ ~shrunk'
        BY <1>1, <3>1 DEF NoProgress, UnpackIInv, ProgressFits
      <3>3. QED
        BY <2>5, <3>2 DEF ProgressFits
    <2>12. QED
      BY <2>6, <2>7, <2>8, <2>9, <2>10, <2>11 DEF UnpackIInv
  <1>5. QED
    BY <1>3, <1>4

LEMMA ResolveSourcesKeeps ==
    ASSUME UnpackIInv, ResolveSources
    PROVE  UnpackIInv'
  <1>1. /\ phase = "resolve" /\ Undisturbed /\ UNCHANGED unpackFaults
        /\ UNCHANGED <<manifest, opened, todo, next, running, percent, stagingFolder, progress,
                       unpackCancelled, hashed, shrunk, left>>
    BY DEF ResolveSources, asked, Undisturbed
  <1>2. unpackFaults' \in 0..MaxUnpackFaults /\ next \in 1..(MaxEntries + 1) /\ running = FALSE
    BY <1>1 DEF UnpackIInv, UnpackTypes, UnpackTypeOK, PhaseFits
  <1>3. CASE Leave
    <2>1. next' \in next..(MaxEntries + 1)
      BY <1>1, <1>2
    <2>2. QED
      BY <1>1, <1>2, <1>3, <2>1, LeaveKeeps
  <1>4. CASE phase' = "hash"
    <2>1. PhaseFits'
      BY <1>1, <1>4 DEF UnpackIInv, PhaseFits, BeforeUnpacking, Unpacking
    <2>2. HashedIsScanned'
      BY <1>1, Frames
    <2>3. CheckedMatches' /\ ZipCounts' /\ ToolCounts'
      BY <1>1, <1>2, <1>4 DEF CheckedMatches, Checked, ZipCounts, ToolCounts
    <2>4. opened' \in Seq(Entries) /\ todo' \subseteq request.volumes /\ running' \in BOOLEAN
          /\ unpackCancelled' \in BOOLEAN /\ hashed' \subseteq request.volumes
      BY <1>1 DEF UnpackIInv, UnpackTypes, UnpackTypeOK
    <2>5. QED
      BY <1>1, <1>2, <1>4, <2>1, <2>2, <2>3, <2>4, GoesOn
  <1>5. QED
    BY <1>3, <1>4 DEF ResolveSources

LEMMA HashVolumeKeeps ==
    ASSUME UnpackIInv, NEW v \in request.volumes, HashVolume(v)
    PROVE  UnpackIInv'
  <1>1. /\ phase = "hash" /\ Undisturbed /\ UNCHANGED unpackFaults
        /\ UNCHANGED <<manifest, opened, next, running, percent, stagingFolder, progress,
                       unpackCancelled, shrunk, left>>
    BY DEF HashVolume, asked, Undisturbed
  <1>2. unpackFaults' \in 0..MaxUnpackFaults /\ next \in 1..(MaxEntries + 1) /\ running = FALSE
    BY <1>1 DEF UnpackIInv, UnpackTypes, UnpackTypeOK, PhaseFits
  <1>3. CASE volumeState[v] # "scanned"
    <2>1. next' \in next..(MaxEntries + 1) /\ Leave /\ UNCHANGED <<hashed, todo>>
      BY <1>1, <1>2, <1>3 DEF HashVolume
    <2>2. QED
      BY <1>1, <1>2, <2>1, LeaveKeeps
  <1>4. CASE volumeState[v] = "scanned"
    <2>1. hashed' = hashed \cup {v} /\ todo' = todo \ {v} /\ phase' = phase
      BY <1>4 DEF HashVolume
    <2>2. PhaseFits'
      BY <1>1, <2>1 DEF UnpackIInv, PhaseFits, BeforeUnpacking, Unpacking
    <2>3. HashedIsScanned'
      BY <1>1, <1>4, <2>1 DEF UnpackIInv, HashedIsScanned, Undisturbed
    <2>4. CheckedMatches' /\ ZipCounts' /\ ToolCounts'
      BY <1>1, <1>2, <2>1 DEF CheckedMatches, Checked, ZipCounts, ToolCounts
    <2>5. opened' \in Seq(Entries) /\ todo' \subseteq request.volumes /\ running' \in BOOLEAN
          /\ unpackCancelled' \in BOOLEAN /\ hashed' \subseteq request.volumes
      BY <1>1, <2>1 DEF UnpackIInv, UnpackTypes, UnpackTypeOK
    <2>6. QED
      BY <1>1, <1>2, <2>1, <2>2, <2>3, <2>4, <2>5, GoesOn
  <1>5. QED
    BY <1>3, <1>4

LEMMA MakeStagingKeeps ==
    ASSUME UnpackIInv, NEW fails \in BOOLEAN, MakeStaging(fails)
    PROVE  UnpackIInv'
  <1>1. /\ phase = "hash" /\ UnpackFails(fails) /\ Undisturbed
        /\ UNCHANGED <<manifest, opened, todo, next, running, percent, progress,
                       unpackCancelled, hashed, shrunk, left>>
    BY DEF MakeStaging, asked, Undisturbed
  <1>2. unpackFaults' \in 0..MaxUnpackFaults /\ next \in 1..(MaxEntries + 1) /\ running = FALSE
    BY <1>1, FaultCounts DEF UnpackIInv, UnpackTypes, UnpackTypeOK, PhaseFits
  <1>3. CASE fails
    <2>1. next' \in next..(MaxEntries + 1) /\ Leave /\ UNCHANGED stagingFolder
      BY <1>1, <1>2, <1>3 DEF MakeStaging
    <2>2. QED
      BY <1>1, <1>2, <2>1, LeaveKeeps
  <1>4. CASE ~fails
    <2>1. stagingFolder' = [NoStaging EXCEPT !.there = TRUE, !.marks = {"stage"}] /\ phase' = "open"
      BY <1>4 DEF MakeStaging
    <2>2. stagingFolder' = [there |-> TRUE, marks |-> {"stage"}, files |-> <<>>, folders |-> {}]
      BY <2>1 DEF NoStaging
    <2>3. <<>> \in [DOMAIN <<>> -> FileRecords] /\ DOMAIN <<>> = {}
      OBVIOUS
    <2>4. UnpackTypes'
      <3>1. UnpackTypeOK'
        <4>1. stagingFolder'.marks = {"stage"} /\ DOMAIN stagingFolder'.files = {}
          BY <2>2, <2>3
        <4>2. QED
          BY <1>1, <1>2, <2>1, <4>1 DEF UnpackIInv, UnpackTypes, UnpackTypeOK, Undisturbed
      <3>2. stagingFolder'.files \in [DOMAIN stagingFolder'.files -> FileRecords]
        BY <2>2, <2>3
      <3>3. QED
        BY <1>1, <2>2, <3>1, <3>2 DEF UnpackIInv, UnpackTypes
    <2>5. PhaseFits'
      BY <1>1, <2>1 DEF UnpackIInv, PhaseFits, BeforeUnpacking, Unpacking
    <2>6. ListingFits' /\ HashedIsScanned' /\ ProgressFits'
      BY <1>1, Frames DEF UnpackIInv, ListingFits
    <2>7. FilesAreEntries'
      BY <2>2, <2>3 DEF FilesAreEntries
    <2>8. CheckedMatches' /\ ZipCounts' /\ ToolCounts' /\ FailedLeavesNothing'
      BY <1>1, <1>2, <2>1 DEF CheckedMatches, Checked, ZipCounts, ToolCounts, FailedLeavesNothing
    <2>9. QED
      BY <2>4, <2>5, <2>6, <2>7, <2>8 DEF UnpackIInv
  <1>5. QED
    BY <1>3, <1>4

LEMMA MeasuredIsNatural ==
    ASSUME UnpackIInv
    PROVE  Measured.bytes \in Nat /\ Measured.files \in Nat
  <1>1. manifest.total \in Nat /\ manifest.files \in Nat /\ percent \in 0..100
    BY DEF UnpackIInv, UnpackTypes, UnpackTypeOK
  <1>2. (manifest.total * percent) \div 100 \in Nat /\ (manifest.files * percent) \div 100 \in Nat
    <2>1. percent \in percent..100
      BY <1>1
    <2>2. QED
      BY <1>1, <2>1, SharesGrow
  <1>3. FilesOfFolder(stagingFolder.files)
    BY DEF UnpackIInv, UnpackTypes, UnpackTypeOK, FilesOfFolder
  <1>4. BytesIn(stagingFolder.files) \in Nat /\ Cardinality(DOMAIN stagingFolder.files) \in Nat
    BY <1>3, BytesSumUp, FolderIsFinite
  <1>5. QED
    BY <1>2, <1>4 DEF Measured, MarkerSize

LEMMA OpenKeeps ==
    ASSUME UnpackIInv, NEW fails \in BOOLEAN, Open(fails)
    PROVE  UnpackIInv'
  <1>1. /\ phase = "open" /\ UnpackFails(fails) /\ Undisturbed
        /\ UNCHANGED <<manifest, todo, next, percent, stagingFolder, progress,
                       unpackCancelled, hashed, shrunk, left>>
    BY DEF Open, asked, Undisturbed
  <1>2. unpackFaults' \in 0..MaxUnpackFaults /\ next = 1 /\ running = FALSE
        /\ progress = NoProgress
    BY <1>1, FaultCounts DEF UnpackIInv, PhaseFits, BeforeUnpacking
  <1>3. stagingFolder.there /\ stagingFolder.marks = {"stage"}
    BY <1>1 DEF UnpackIInv, PhaseFits, NoStaging
  <1>4. opened \in Seq(Entries) /\ todo' \subseteq request.volumes
        /\ unpackCancelled' \in BOOLEAN /\ hashed' \subseteq request.volumes
    BY <1>1 DEF UnpackIInv, UnpackTypes, UnpackTypeOK
  <1>5. HashedIsScanned'
    BY <1>1, Frames
  <1>6. CASE Leave /\ UNCHANGED <<opened, running>>
    <2>1. next' \in next..(MaxEntries + 1)
      BY <1>1, <1>2, ExtractBounds
    <2>2. QED
      BY <1>1, <1>2, <1>6, <2>1, LeaveKeeps
  <1>7. CASE request.reader = "zip" /\ opened' = Present /\ phase' = "zip" /\ UNCHANGED running
    <2>1. PhaseFits'
      BY <1>1, <1>2, <1>3, <1>7 DEF PhaseFits, BeforeUnpacking, Unpacking, Undisturbed
    <2>2. ZipCounts'
      <3>1. IsListed
        BY <1>1 DEF UnpackIInv, ListingFits
      <3>2. PICK a \in {archive, other} : manifest = ManifestOf(a) /\ Passes(a)
        BY <3>1 DEF IsListed
      <3>3. next' <= Len(manifest'.entries) + 1
        BY <1>1, <1>2, <3>2, PassedEntries, ListingTypes
      <3>4. ASSUME AllScanned'
            PROVE  /\ opened' = archive'
                   /\ progress'.bytes <= SumOf(SizesOf(archive'), 1..(next' - 1))
                   /\ progress'.files <= Cardinality(FilesBefore(archive', next'))
        <4>1. opened' = archive' /\ archive' = archive /\ archive \in Seq(Entries)
          BY <1>1, <1>7, <3>4, Frames, PresentIsEither DEF Undisturbed
        <4>2. 1 \in 1..(Len(archive) + 1)
          BY <4>1
        <4>3. SumOf(SizesOf(archive), 1..(1 - 1)) \in Nat /\ Cardinality(FilesBefore(archive, 1)) \in Nat
          BY <4>1, <4>2, PrefixStaysIn
        <4>4. progress'.bytes = 0 /\ progress'.files = 0 /\ next' = 1
          BY <1>1, <1>2 DEF NoProgress
        <4>5. QED
          BY <4>1, <4>3, <4>4
      <3>5. QED
        BY <3>3, <3>4 DEF ZipCounts
    <2>3. CheckedMatches' /\ ToolCounts'
      BY <1>2, <1>7 DEF CheckedMatches, Checked, ToolCounts
    <2>4. opened' \in Seq(Entries) /\ running' \in BOOLEAN
      BY <1>2, <1>7, PresentIsEither
    <2>5. QED
      BY <1>1, <1>2, <1>4, <1>5, <1>7, <2>1, <2>2, <2>3, <2>4, GoesOn
  <1>8. CASE running' = TRUE /\ phase' = "rar" /\ UNCHANGED opened
    <2>1. PhaseFits'
      BY <1>1, <1>2, <1>3, <1>8 DEF PhaseFits, BeforeUnpacking, Unpacking
    <2>2. CheckedMatches' /\ ZipCounts'
      BY <1>8 DEF CheckedMatches, Checked, ZipCounts
    <2>3. ToolCounts'
      <3>1. UNCHANGED <<Measured, manifest>>
        BY <1>1 DEF Measured, Tool, InstalledTools, Undisturbed
      <3>2. 0 <= AtMost(Measured.bytes, manifest.total) /\ 0 <= AtMost(Measured.files, manifest.files)
        BY MeasuredIsNatural DEF AtMost, UnpackIInv, UnpackTypes
      <3>3. progress'.bytes = 0 /\ progress'.files = 0
        BY <1>1, <1>2 DEF NoProgress
      <3>4. QED
        BY <3>1, <3>2, <3>3 DEF ToolCounts
    <2>4. QED
      BY <1>1, <1>2, <1>4, <1>5, <1>8, <2>1, <2>2, <2>3, GoesOn
  <1>9. QED
    BY <1>6, <1>7, <1>8 DEF Open

-----------------------------------------------------------------------------
(* What is written below the staging folder.                               *)

\* The file is under its name, or under the one that is there and differs by case only.
LEMMA FileIsWritten ==
    ASSUME UnpackIInv, NEW n \in EntryNames, NEW file \in FileRecords
    PROVE  \E name \in EntryNames :
             /\ Same(name, n)
             /\ ~HoldsFile(n) => name = n /\ name \notin DOMAIN stagingFolder.files
             /\ WithFile(n, file).files =
                  [m \in (DOMAIN stagingFolder.files) \cup {name} |->
                     IF m = name THEN file ELSE stagingFolder.files[m]]
             /\ FilesOfFolder(WithFile(n, file).files)
             /\ WithFile(n, file) \in [there : {TRUE}, marks : {stagingFolder.marks},
                                       files : {WithFile(n, file).files}, folders : SUBSET EntryNames]
  <1> DEFINE taken == {m \in DOMAIN stagingFolder.files : Same(m, n)}
             name == IF taken = {} THEN n ELSE CHOOSE m \in taken : TRUE
             more == [m \in (DOMAIN stagingFolder.files) \cup {name} |->
                        IF m = name THEN file ELSE stagingFolder.files[m]]
             under == stagingFolder.folders \cup (IF FirstPart(n) = n THEN {} ELSE {FirstPart(n)})
  <1>1. FilesOfFolder(stagingFolder.files)
    BY DEF UnpackIInv, UnpackTypes, UnpackTypeOK, FilesOfFolder
  <1>2. name \in EntryNames /\ Same(name, n)
    <2>1. CASE taken = {}
      BY <2>1 DEF Same
    <2>2. CASE taken # {}
      <3>1. name \in taken
        BY <2>2
      <3>2. QED
        BY <1>1, <3>1 DEF FilesOfFolder
    <2>3. QED
      BY <2>1, <2>2
  <1>3. ~HoldsFile(n) => name = n /\ name \notin DOMAIN stagingFolder.files
    <2>1. ~HoldsFile(n) => taken = {} /\ name = n
      BY DEF HoldsFile
    <2>2. Same(n, n)
      BY DEF Same
    <2>3. QED
      BY <2>1, <2>2
  <1>4. under \in SUBSET EntryNames
    <2>1. FirstPart(n) \in EntryNames
      BY DEF FirstPart, EntryNames
    <2>2. stagingFolder.folders \in SUBSET EntryNames
      BY DEF UnpackIInv, UnpackTypes
    <2>3. QED
      BY <2>1, <2>2
  <1>5. WithFile(n, file) = [stagingFolder EXCEPT !.there = TRUE, !.files = more, !.folders = under]
    BY DEF WithFile
  <1> HIDE DEF name, more, under
  <1>6. WithFile(n, file) = [there |-> TRUE, marks |-> stagingFolder.marks, files |-> more,
                             folders |-> under]
    BY <1>5 DEF UnpackIInv, UnpackTypes
  <1>7. FilesOfFolder(more)
    <2>1. DOMAIN more = (DOMAIN stagingFolder.files) \cup {name}
      BY DEF more
    <2>2. \A m \in DOMAIN more : more[m] \in FileRecords
      BY <1>1 DEF more, FilesOfFolder
    <2>3. more = [m \in DOMAIN more |-> more[m]]
      BY DEF more
    <2>4. QED
      BY <1>1, <1>2, <2>1, <2>2, <2>3 DEF FilesOfFolder
  <1>8. QED
    BY <1>2, <1>3, <1>4, <1>6, <1>7 DEF more

LEMMA WrittenTypes ==
    ASSUME NEW e \in Entries
    PROVE  Written(e) \in FileRecords /\ Written(e).size = e.real
           /\ (e.flaw # "link" => Written(e).content = e.content)
  BY DEF Written, FileRecords, Entries

\* An entry of the archive nobody replaced is written, the files before it kept.
LEMMA EntryIsWritten ==
    ASSUME UnpackIInv, Undisturbed, NEW e \in Entries, next' = next + 1,
           stagingFolder' = WithFile(e.name, Written(e)),
           AllScanned => next \in Files(archive) /\ e = archive[next] /\ manifest = ManifestOf(archive)
                         /\ Passes(archive)
    PROVE  FilesAreEntries'
  <1>1. SUFFICES ASSUME AllScanned', NEW n \in DOMAIN stagingFolder'.files
                 PROVE  \E j \in Files(archive') : j < next' /\ archive'[j].name = n
                          /\ stagingFolder'.files[n] = Written(archive'[j])
    BY DEF FilesAreEntries
  <1>2. AllScanned /\ archive' = archive
    BY <1>1, Frames DEF Undisturbed
  <1>3. next \in Files(archive) /\ e = archive[next] /\ Passes(archive) /\ next \in Nat
    BY <1>2, ExtractBounds DEF UnpackIInv, UnpackTypes, UnpackTypeOK
  <1>4. e.name \in EntryNames /\ Written(e) \in FileRecords
    BY WrittenTypes DEF Entries
  <1>5. PICK name \in EntryNames :
          /\ Same(name, e.name) /\ (~HoldsFile(e.name) => name = e.name)
          /\ WithFile(e.name, Written(e)).files =
               [m \in (DOMAIN stagingFolder.files) \cup {name} |->
                  IF m = name THEN Written(e) ELSE stagingFolder.files[m]]
    BY <1>4, FileIsWritten
  <1>6. /\ DOMAIN stagingFolder'.files = (DOMAIN stagingFolder.files) \cup {name}
        /\ stagingFolder'.files[n] = IF n = name THEN Written(e) ELSE stagingFolder.files[n]
    BY <1>1, <1>5
  <1>7. ASSUME NEW m \in DOMAIN stagingFolder.files
        PROVE  \E j \in Files(archive) : j < next /\ archive[j].name = m
                                         /\ stagingFolder.files[m] = Written(archive[j])
    BY <1>2 DEF UnpackIInv, FilesAreEntries
  <1>8. \A j \in Files(archive) : j \in 1..Len(archive) /\ j \in Nat
    BY <1>3, PassedEntries DEF Files
  <1>9. CASE n # name
    <2>1. PICK j \in Files(archive) : j < next /\ archive[j].name = n
                                      /\ stagingFolder.files[n] = Written(archive[j])
      BY <1>1, <1>6, <1>7, <1>9
    <2>2. j \in Nat /\ j < next /\ next' = next + 1
      BY <1>8, <2>1
    <2>3. j < next'
      BY <1>3, <2>2
    <2>4. QED
      BY <1>2, <1>6, <1>9, <2>1, <2>3
  <1>10. CASE n = name
    <2>1. name \notin DOMAIN stagingFolder.files
      <3>1. SUFFICES ASSUME name \in DOMAIN stagingFolder.files PROVE FALSE
        OBVIOUS
      <3>2. PICK j \in Files(archive) : j < next /\ archive[j].name = name
        BY <1>7, <3>1
      <3>3. Lower(archive[j].name) = Lower(archive[next].name)
        BY <1>3, <1>5, <3>2 DEF Same
      <3>4. j = next
        BY <1>3, <1>8, <3>3, PassedEntries
      <3>5. QED
        BY <1>3, <3>2, <3>4
    <2>2. name = e.name
      <3>1. CASE HoldsFile(e.name)
        <4>1. PICK m \in DOMAIN stagingFolder.files : Same(m, e.name)
          BY <3>1 DEF HoldsFile
        <4>2. PICK j \in Files(archive) : j < next /\ archive[j].name = m
          BY <1>7, <4>1
        <4>3. Lower(archive[j].name) = Lower(archive[next].name)
          BY <1>3, <4>1, <4>2 DEF Same
        <4>4. j = next
          BY <1>3, <1>8, <4>3, PassedEntries
        <4>5. QED
          BY <1>3, <4>2, <4>4
      <3>2. CASE ~HoldsFile(e.name)
        BY <1>5, <3>2
      <3>3. QED
        BY <3>1, <3>2
    <2>3. next < next' /\ archive'[next].name = n /\ stagingFolder'.files[n] = Written(archive'[next])
      BY <1>2, <1>3, <1>6, <1>10, <2>2
    <2>4. QED
      BY <1>2, <1>3, <2>3
  <1>11. QED
    BY <1>9, <1>10

\* A listing that fits is that of an archive that passed.
LEMMA ListedEntries ==
    ASSUME UnpackIInv, phase \notin {"read", "clean", "failed"}
    PROVE  \E a \in {archive, other} :
             /\ manifest = ManifestOf(a) /\ Passes(a) /\ (AllScanned => a = archive)
             /\ manifest.entries = a /\ manifest.total = Total(a)
             /\ manifest.files = Cardinality(Files(a))
  BY ListingTypes DEF UnpackIInv, ListingFits, IsListed, Passes

-----------------------------------------------------------------------------
(* extract_zip and extract_rar.                                            *)

LEMMA UnpackZipKeeps ==
    ASSUME UnpackIInv, NEW fails \in BOOLEAN, UnpackZip(fails)
    PROVE  UnpackIInv'
  <1>1. /\ phase = "zip" /\ UnpackFails(fails) /\ Undisturbed /\ next' = next + 1
        /\ next <= Len(manifest.entries)
        /\ UNCHANGED <<manifest, opened, todo, running, percent, unpackCancelled, hashed, left>>
    BY DEF UnpackZip, asked, Undisturbed
  <1>2. PICK a \in {archive, other} :
          /\ manifest = ManifestOf(a) /\ Passes(a) /\ (AllScanned => a = archive)
          /\ manifest.entries = a /\ manifest.total = Total(a)
          /\ manifest.files = Cardinality(Files(a))
    BY <1>1, ListedEntries
  <1>3. /\ a \in Seq(Entries) /\ Len(a) \in 0..MaxEntries /\ next \in 1..Len(a)
        /\ a[next] \in Entries
    <2>1. a \in Seq(Entries) /\ Len(a) \in 0..MaxEntries /\ DOMAIN a = 1..Len(a)
      BY <1>2, PassedEntries
    <2>2. next \in 1..(MaxEntries + 1)
      BY DEF UnpackIInv, UnpackTypes, UnpackTypeOK
    <2>3. next \in 1..Len(a)
      BY <1>1, <1>2, <2>1, <2>2, ExtractBounds
    <2>4. QED
      BY <1>2, <2>1, <2>3, PassedEntries
  <1>4. /\ unpackFaults' \in 0..MaxUnpackFaults /\ running = FALSE
        /\ next' \in 1..(MaxEntries + 1) /\ next \in Nat /\ next' \in Nat /\ next <= next'
        /\ next' \in 1..(Len(a) + 1)
        /\ stagingFolder.there /\ stagingFolder.marks = {"stage"} /\ request.reader = "zip"
    BY <1>1, <1>3, FaultCounts, ExtractBounds DEF UnpackIInv, PhaseFits, Unpacking
  <1>5. CASE Leave /\ UNCHANGED <<stagingFolder, progress, shrunk>>
    <2>1. next' \in next..(MaxEntries + 1)
      BY <1>4, ExtractBounds
    <2>2. QED
      BY <1>1, <1>4, <1>5, <2>1, LeaveKeeps
  <1> DEFINE e == opened[next]
             expected == manifest.entries[next]
  <1>6. CASE /\ next <= Len(opened) /\ e.dir /\ phase' = phase
             /\ stagingFolder' = WithFolder(expected.name) /\ UNCHANGED <<progress, shrunk>>
    <2>1. stagingFolder' = [there |-> TRUE, marks |-> {"stage"}, files |-> stagingFolder.files,
                            folders |-> stagingFolder.folders \cup {a[next].name}]
      BY <1>2, <1>4, <1>6 DEF WithFolder, UnpackIInv, UnpackTypes
    <2>2. a[next].name \in EntryNames
      BY <1>3 DEF Entries
    <2>3. UnpackTypes'
      <3>1. UnpackTypeOK'
        <4>1. stagingFolder'.marks = {"stage"} /\ stagingFolder'.files = stagingFolder.files
          BY <2>1
        <4>2. QED
          BY <1>1, <1>4, <1>6, <4>1 DEF UnpackIInv, UnpackTypes, UnpackTypeOK, Undisturbed
      <3>2. stagingFolder'.folders \in SUBSET EntryNames
        BY <2>1, <2>2 DEF UnpackIInv, UnpackTypes
      <3>3. QED
        BY <1>1, <1>6, <2>1, <3>1, <3>2 DEF UnpackIInv, UnpackTypes
    <2>4. PhaseFits'
      BY <1>1, <1>4, <1>6, <2>1 DEF PhaseFits, BeforeUnpacking, Unpacking, Undisturbed
    <2>5. ListingFits' /\ HashedIsScanned' /\ ProgressFits'
      BY <1>1, <1>6, Frames DEF UnpackIInv, ListingFits
    <2>6. FilesAreEntries'
      <3>1. SUFFICES ASSUME AllScanned', NEW n \in DOMAIN stagingFolder'.files
                     PROVE  \E j \in Files(archive') : j < next' /\ archive'[j].name = n
                              /\ stagingFolder'.files[n] = Written(archive'[j])
        BY DEF FilesAreEntries
      <3>2. AllScanned /\ archive' = archive /\ stagingFolder'.files = stagingFolder.files
        BY <1>1, <2>1, <3>1, Frames DEF Undisturbed
      <3>3. PICK j \in Files(archive) : j < next /\ archive[j].name = n
                                        /\ stagingFolder.files[n] = Written(archive[j])
        BY <3>1, <3>2 DEF UnpackIInv, FilesAreEntries
      <3>4. j \in Nat
        BY <3>3, PresentIsEither, ListingTypes DEF Files
      <3>5. j < next'
        BY <1>1, <1>4, <3>3, <3>4
      <3>6. QED
        BY <3>2, <3>3, <3>5
    <2>7. CheckedMatches' /\ ToolCounts' /\ FailedLeavesNothing'
      BY <1>1, <1>4, <1>6 DEF CheckedMatches, Checked, ToolCounts, FailedLeavesNothing
    <2>8. ZipCounts'
      <3>1. next' <= Len(manifest'.entries) + 1
        BY <1>1, <1>2, <1>3, <1>4
      <3>2. ASSUME AllScanned'
            PROVE  /\ opened' = archive'
                   /\ progress'.bytes <= SumOf(SizesOf(archive'), 1..(next' - 1))
                   /\ progress'.files <= Cardinality(FilesBefore(archive', next'))
        <4>1. AllScanned /\ archive' = archive /\ a = archive
          BY <1>1, <1>2, <3>2, Frames DEF Undisturbed
        <4>2. /\ opened = archive
              /\ progress.bytes <= SumOf(SizesOf(archive), 1..(next - 1))
              /\ progress.files <= Cardinality(FilesBefore(archive, next))
          BY <1>1, <4>1 DEF UnpackIInv, ZipCounts
        <4>3. /\ SumOf(SizesOf(archive), 1..(next - 1)) \in Nat
              /\ SumOf(SizesOf(archive), 1..next) =
                   archive[next].size + SumOf(SizesOf(archive), 1..(next - 1))
              /\ Cardinality(FilesBefore(archive, next)) \in Nat
              /\ Cardinality(FilesBefore(archive, next + 1)) =
                   Cardinality(FilesBefore(archive, next)) + (IF archive[next].dir THEN 0 ELSE 1)
          BY <1>3, <4>1, PrefixGrows
        <4>4. archive[next].size \in Nat /\ progress.bytes \in Nat /\ progress.files \in Nat
          BY <1>3, <4>1 DEF Entries, UnpackIInv, UnpackTypes
        <4>5. next' - 1 = next
          BY <1>1, <1>4
        <4>6. (IF archive[next].dir THEN 0 ELSE 1) \in Nat
          OBVIOUS
        <4>7. progress.bytes <= SumOf(SizesOf(archive), 1..next)
          BY <4>2, <4>3, <4>4
        <4>8. progress.files <= Cardinality(FilesBefore(archive, next + 1))
          BY <4>2, <4>3, <4>4, <4>6
        <4>9. QED
          BY <1>1, <1>6, <4>1, <4>2, <4>5, <4>7, <4>8
      <3>3. QED
        BY <3>1, <3>2 DEF ZipCounts
    <2>9. QED
      BY <2>3, <2>4, <2>5, <2>6, <2>7, <2>8 DEF UnpackIInv
  <1>7. CASE /\ next <= Len(opened) /\ ~e.dir /\ phase' = phase
             /\ e.flaw = "none" /\ e.size = expected.size /\ e.real = expected.size
             /\ ~HoldsFile(expected.name)
             /\ stagingFolder' = WithFile(expected.name, Written(e))
             /\ Publish(progress.bytes + e.real, progress.files + 1)
    <2>1. e \in Entries /\ opened \in Seq(Entries) /\ next \in 1..Len(opened)
      <3>1. opened \in Seq(Entries)
        BY DEF UnpackIInv, UnpackTypes
      <3>2. next \in 1..Len(opened)
        BY <1>4, <1>7, <3>1, <1>3
      <3>3. QED
        BY <3>1, <3>2
    <2>2. expected = a[next] /\ expected.name \in EntryNames
      BY <1>2, <1>3 DEF Entries
    <2>3. Written(e) \in FileRecords /\ e.real \in Nat
      BY <2>1, WrittenTypes DEF Entries
    <2>4. /\ FilesOfFolder(stagingFolder'.files)
          /\ stagingFolder' \in [there : {TRUE}, marks : {{"stage"}}, files : {stagingFolder'.files},
                                 folders : SUBSET EntryNames]
      <3>1. PICK f : f = WithFile(expected.name, Written(e))
        OBVIOUS
      <3>2. /\ FilesOfFolder(f.files)
            /\ f \in [there : {TRUE}, marks : {stagingFolder.marks}, files : {f.files},
                      folders : SUBSET EntryNames]
        BY <2>2, <2>3, <3>1, FileIsWritten
      <3>3. f.marks = stagingFolder.marks /\ stagingFolder' = f
        BY <1>7, <3>1, <3>2
      <3>4. QED
        BY <1>4, <3>2, <3>3
    <2>5. /\ progress' = [bytes |-> progress.bytes + e.real, files |-> progress.files + 1]
          /\ progress.bytes \in Nat /\ progress.files \in Nat
          /\ shrunk' = FALSE
      <3>1. progress.bytes \in Nat /\ progress.files \in Nat /\ shrunk = FALSE
        BY DEF UnpackIInv, UnpackTypes, UnpackTypeOK, ProgressFits
      <3>2. ~ (progress.bytes + e.real < progress.bytes) /\ ~ (progress.files + 1 < progress.files)
        BY <2>3, <3>1
      <3>3. QED
        BY <1>7, <3>1, <3>2 DEF Publish
    <2>6. UnpackTypes'
      <3>1. UnpackTypeOK'
        <4>1. stagingFolder'.marks = {"stage"} /\ DOMAIN stagingFolder'.files \subseteq EntryNames
          BY <2>4 DEF FilesOfFolder
        <4>2. QED
          BY <1>1, <1>4, <1>7, <2>5, <4>1 DEF UnpackIInv, UnpackTypes, UnpackTypeOK, Undisturbed
      <3>2. progress' \in [bytes : Nat, files : Nat]
        BY <2>3, <2>5
      <3>3. stagingFolder' \in [there : BOOLEAN, marks : SUBSET {"stage", "install"},
                                files : {stagingFolder'.files}, folders : SUBSET EntryNames]
        BY <2>4
      <3>4. QED
        BY <1>1, <2>4, <3>1, <3>2, <3>3 DEF UnpackIInv, UnpackTypes, FilesOfFolder
    <2>7. PhaseFits'
      BY <1>1, <1>4, <1>7, <2>4 DEF PhaseFits, BeforeUnpacking, Unpacking, Undisturbed
    <2>8. ListingFits' /\ HashedIsScanned'
      BY <1>1, <1>7, Frames DEF UnpackIInv, ListingFits
    <2>9. AllScanned => e = archive[next] /\ a = archive /\ opened = archive
      BY <1>1, <1>2 DEF UnpackIInv, ZipCounts
    <2>10. FilesAreEntries'
      <3>1. CASE AllScanned
        <4>1. next \in Files(archive)
          BY <1>3, <1>7, <2>9, <3>1, PassedEntries DEF Files
        <4>2. stagingFolder' = WithFile(e.name, Written(e))
          BY <1>7, <2>2, <2>9, <3>1
        <4>3. QED
          BY <1>1, <1>2, <2>1, <2>9, <3>1, <4>1, <4>2, EntryIsWritten
      <3>2. CASE ~AllScanned
        BY <1>1, <3>2, Frames DEF FilesAreEntries
      <3>3. QED
        BY <3>1, <3>2
    <2>11. CheckedMatches' /\ ToolCounts' /\ FailedLeavesNothing'
      BY <1>1, <1>4, <1>7 DEF CheckedMatches, Checked, ToolCounts, FailedLeavesNothing
    <2>12. ASSUME AllScanned'
           PROVE  /\ archive' = archive /\ a = archive /\ opened = archive
                  /\ progress'.bytes <= SumOf(SizesOf(archive), 1..next)
                  /\ progress'.files <= Cardinality(FilesBefore(archive, next + 1))
      <3>1. AllScanned /\ archive' = archive
        BY <1>1, <2>12, Frames DEF Undisturbed
      <3>2. /\ progress.bytes <= SumOf(SizesOf(archive), 1..(next - 1))
            /\ progress.files <= Cardinality(FilesBefore(archive, next))
        BY <1>1, <3>1 DEF UnpackIInv, ZipCounts
      <3>3. /\ SumOf(SizesOf(archive), 1..(next - 1)) \in Nat
            /\ SumOf(SizesOf(archive), 1..next) =
                 archive[next].size + SumOf(SizesOf(archive), 1..(next - 1))
            /\ Cardinality(FilesBefore(archive, next)) \in Nat
            /\ Cardinality(FilesBefore(archive, next + 1)) =
                 Cardinality(FilesBefore(archive, next)) + (IF archive[next].dir THEN 0 ELSE 1)
        BY <1>3, <2>9, <3>1, PrefixGrows
      <3>4. e.real = archive[next].size /\ ~archive[next].dir
        BY <1>7, <2>2, <2>9, <3>1
      <3>5. progress'.bytes = progress.bytes + e.real /\ progress'.files = progress.files + 1
        BY <2>5
      <3>6. progress'.bytes <= SumOf(SizesOf(archive), 1..next)
        BY <2>3, <2>5, <3>2, <3>3, <3>4, <3>5
      <3>7. Cardinality(FilesBefore(archive, next + 1)) = Cardinality(FilesBefore(archive, next)) + 1
        BY <3>3, <3>4
      <3>8. progress'.files <= Cardinality(FilesBefore(archive, next + 1))
        BY <2>5, <3>2, <3>3, <3>5, <3>7
      <3>9. QED
        BY <2>9, <3>1, <3>6, <3>8
    <2>13. next' - 1 = next /\ next' = next + 1
      BY <1>1, <1>4
    <2>14. ZipCounts'
      <3>1. next' <= Len(manifest'.entries) + 1
        BY <1>1, <1>2, <1>3, <1>4
      <3>2. QED
        BY <1>1, <2>12, <2>13, <3>1 DEF ZipCounts
    <2>15. ProgressFits'
      <3>1. SUFFICES ASSUME AllScanned'
                     PROVE  progress'.bytes <= manifest'.total /\ progress'.files <= manifest'.files
        BY <1>1, <1>4, <2>5 DEF ProgressFits, AllScanned, Undisturbed
      <3>2. /\ SumOf(SizesOf(a), 1..next) \in Nat /\ SumOf(SizesOf(a), 1..next) <= Total(a)
            /\ Cardinality(FilesBefore(a, next + 1)) \in Nat
            /\ Cardinality(FilesBefore(a, next + 1)) <= Cardinality(Files(a))
        <4>1. PICK k \in 1..(Len(a) + 1) : k = next'
          BY <1>4
        <4>2. /\ SumOf(SizesOf(a), 1..(k - 1)) \in Nat /\ SumOf(SizesOf(a), 1..(k - 1)) <= Total(a)
              /\ Cardinality(FilesBefore(a, k)) \in Nat
              /\ Cardinality(FilesBefore(a, k)) <= Cardinality(Files(a))
          BY <1>3, PrefixStaysIn
        <4>3. k - 1 = next /\ k = next + 1
          BY <2>13, <4>1
        <4>4. QED
          BY <4>2, <4>3
      <3>3. /\ progress'.bytes <= SumOf(SizesOf(a), 1..next)
            /\ progress'.files <= Cardinality(FilesBefore(a, next + 1))
        BY <2>12, <3>1
      <3>4. manifest'.total = Total(a) /\ manifest'.files = Cardinality(Files(a))
            /\ Total(a) \in Nat /\ Cardinality(Files(a)) \in Nat
        BY <1>1, <1>2, <1>3, ListingTypes
      <3>5. progress'.bytes \in Nat /\ progress'.files \in Nat
        BY <2>3, <2>5
      <3>6. QED
        BY <3>2, <3>3, <3>4, <3>5
    <2>16. QED
      BY <2>6, <2>7, <2>8, <2>10, <2>11, <2>14, <2>15 DEF UnpackIInv
  <1>8. QED
    <2>1. Len(opened) \in Nat
      BY DEF UnpackIInv, UnpackTypes
    <2>2. next > Len(opened) \/ next <= Len(opened)
      BY <1>4, <2>1
    <2>3. \/ Leave /\ UNCHANGED <<stagingFolder, progress, shrunk>>
          \/ /\ ~ (next > Len(opened)) /\ e.dir /\ phase' = phase
             /\ stagingFolder' = WithFolder(expected.name) /\ UNCHANGED <<progress, shrunk>>
          \/ /\ ~ (next > Len(opened)) /\ ~e.dir /\ phase' = phase
             /\ e.flaw = "none" /\ e.size = expected.size /\ e.real = expected.size
             /\ ~HoldsFile(expected.name)
             /\ stagingFolder' = WithFile(expected.name, Written(e))
             /\ Publish(progress.bytes + e.real, progress.files + 1)
      BY DEF UnpackZip
    <2>4. QED
      BY <1>5, <1>6, <1>7, <2>2, <2>3

LEMMA EndZipKeeps ==
    ASSUME UnpackIInv, EndZip
    PROVE  UnpackIInv'
  <1>1. /\ phase = "zip" /\ phase' = "verify" /\ Undisturbed
        /\ UNCHANGED <<manifest, opened, todo, next, running, percent, stagingFolder, progress,
                       unpackCancelled, unpackFaults, hashed, shrunk, left>>
    BY DEF EndZip, asked, Undisturbed
  <1>2. running = FALSE /\ stagingFolder.there /\ stagingFolder.marks = {"stage"}
    BY <1>1 DEF UnpackIInv, PhaseFits, Unpacking
  <1>3. PhaseFits'
    BY <1>1, <1>2 DEF PhaseFits, BeforeUnpacking, Unpacking
  <1>4. HashedIsScanned'
    BY <1>1, Frames
  <1>5. CheckedMatches' /\ ZipCounts' /\ ToolCounts'
    BY <1>1, <1>2 DEF CheckedMatches, Checked, ZipCounts, ToolCounts
  <1>6. /\ opened' \in Seq(Entries) /\ todo' \subseteq request.volumes /\ running' \in BOOLEAN
        /\ unpackCancelled' \in BOOLEAN /\ hashed' \subseteq request.volumes
        /\ unpackFaults' \in 0..MaxUnpackFaults
    BY <1>1 DEF UnpackIInv, UnpackTypes, UnpackTypeOK
  <1>7. QED
    BY <1>1, <1>3, <1>4, <1>5, <1>6, GoesOn

LEMMA ToolWritesKeeps ==
    ASSUME UnpackIInv, ToolWrites
    PROVE  UnpackIInv'
  <1> DEFINE e == Present[next]
             skips == \/ ~Enclosed(e.name) \/ Lower(e.name) \in Reserved
                      \/ Tool # "7z" /\ (e.flaw = "link" \/ HoldsFile(e.name))
  <1>1. /\ running /\ Undisturbed /\ next' = next + 1 /\ next <= Len(Present) /\ next <= MaxEntries
        /\ stagingFolder' = (IF skips THEN stagingFolder ELSE IF e.dir THEN WithFolder(e.name)
                             ELSE WithFile(e.name, Written(e)))
        /\ UNCHANGED <<phase, manifest, opened, todo, running, progress, unpackCancelled,
                       unpackFaults, hashed, shrunk, left>>
    BY DEF ToolWrites, asked, Undisturbed
  <1>2. /\ phase = "rar" /\ stagingFolder.there /\ stagingFolder.marks = {"stage"}
    BY <1>1 DEF UnpackIInv, PhaseFits, Unpacking
  <1>3. /\ next \in Nat /\ next' \in Nat /\ next <= next' /\ next' \in 1..(MaxEntries + 1)
        /\ Present \in Seq(Entries) /\ next \in 1..Len(Present) /\ e \in Entries
    <2>1. next \in 1..(MaxEntries + 1) /\ Present \in Seq(Entries)
      BY PresentIsEither DEF UnpackIInv, UnpackTypes, UnpackTypeOK
    <2>2. next \in 1..Len(Present)
      BY <1>1, <2>1, ExtractBounds
    <2>3. QED
      BY <1>1, <2>1, <2>2, ExtractBounds
  <1>4. PICK a \in {archive, other} :
          /\ manifest = ManifestOf(a) /\ Passes(a) /\ (AllScanned => a = archive)
          /\ manifest.entries = a
    BY <1>2, ListedEntries
  <1>5. percent' \in percent..100 /\ percent' \in 0..100 /\ (Tool # "7z" => percent' = percent)
    <2>1. percent \in 0..100
      BY DEF UnpackIInv, UnpackTypes, UnpackTypeOK
    <2>2. CASE Tool = "7z"
      <3>1. PICK line \in Lines : percent' = Follow(line, percent)
        BY <2>2 DEF ToolWrites
      <3>2. percent' \in percent..100
        BY <2>1, <3>1, FollowGoesUp
      <3>3. QED
        BY <2>1, <2>2, <3>2
    <2>3. CASE Tool # "7z"
      <3>1. percent' = percent
        BY <2>3 DEF ToolWrites
      <3>2. QED
        BY <2>1, <3>1
    <2>4. QED
      BY <2>2, <2>3
  <1>6. e.name \in EntryNames /\ Written(e) \in FileRecords
    BY <1>3, WrittenTypes DEF Entries
  \* What the folder is afterwards.
  <1>7. /\ FilesOfFolder(stagingFolder.files)
        /\ stagingFolder \in [there : {TRUE}, marks : {{"stage"}}, files : {stagingFolder.files},
                              folders : SUBSET EntryNames]
    BY <1>2 DEF UnpackIInv, UnpackTypes, UnpackTypeOK, FilesOfFolder
  <1>8. /\ FilesOfFolder(stagingFolder'.files)
        /\ stagingFolder' \in [there : {TRUE}, marks : {{"stage"}}, files : {stagingFolder'.files},
                               folders : SUBSET EntryNames]
        /\ FilesAreEntries'
        /\ Tool # "7z" => /\ BytesIn(stagingFolder.files) <= BytesIn(stagingFolder'.files)
                          /\ Cardinality(DOMAIN stagingFolder.files) <=
                               Cardinality(DOMAIN stagingFolder'.files)
    <2>1. CASE skips
      <3>1. stagingFolder' = stagingFolder
        BY <1>1, <2>1
      <3>2. FilesAreEntries'
        BY <1>1, <1>3, <3>1, Frames
      <3>3. BytesIn(stagingFolder.files) \in Nat /\ Cardinality(DOMAIN stagingFolder.files) \in Nat
        BY <1>7, BytesSumUp, FolderIsFinite
      <3>4. PICK s : s = stagingFolder
        OBVIOUS
      <3>5. /\ FilesOfFolder(s.files)
            /\ s \in [there : {TRUE}, marks : {{"stage"}}, files : {s.files},
                     folders : SUBSET EntryNames]
            /\ BytesIn(s.files) \in Nat /\ Cardinality(DOMAIN s.files) \in Nat
        BY <1>7, <3>3, <3>4
      <3>6. stagingFolder' = s
        BY <3>1, <3>4
      <3>7. /\ BytesIn(s.files) <= BytesIn(s.files)
            /\ Cardinality(DOMAIN s.files) <= Cardinality(DOMAIN s.files)
        BY <3>5
      <3>8. QED
        BY <3>2, <3>4, <3>5, <3>6, <3>7
    <2>2. CASE ~skips /\ e.dir
      <3>1. stagingFolder' = [there |-> TRUE, marks |-> {"stage"}, files |-> stagingFolder.files,
                              folders |-> stagingFolder.folders \cup {e.name}]
        BY <1>1, <1>7, <2>2 DEF WithFolder
      <3>2. PICK f : f = stagingFolder.files
        OBVIOUS
      <3>3. stagingFolder'.files = f /\ stagingFolder.folders \cup {e.name} \in SUBSET EntryNames
        BY <1>6, <1>7, <3>1, <3>2
      <3>4. BytesIn(f) \in Nat /\ Cardinality(DOMAIN f) \in Nat /\ FilesOfFolder(f)
        BY <1>7, <3>2, BytesSumUp, FolderIsFinite
      <3>5. FilesAreEntries'
        <4>1. SUFFICES ASSUME AllScanned', NEW n \in DOMAIN f
                       PROVE  \E j \in Files(archive') : j < next' /\ archive'[j].name = n
                                /\ f[n] = Written(archive'[j])
          BY <3>3 DEF FilesAreEntries
        <4>2. AllScanned /\ archive' = archive
          BY <1>1, <4>1, Frames DEF Undisturbed
        <4>3. PICK j \in Files(archive) : j < next /\ archive[j].name = n
                                          /\ f[n] = Written(archive[j])
          BY <3>2, <4>1, <4>2 DEF UnpackIInv, FilesAreEntries
        <4>4. j \in Nat
          BY <4>3, PresentIsEither, ListingTypes DEF Files
        <4>5. j < next'
          BY <1>1, <1>3, <4>3, <4>4
        <4>6. QED
          BY <4>2, <4>3, <4>5
      <3>6. QED
        BY <3>1, <3>2, <3>3, <3>4, <3>5
    <2>3. CASE ~skips /\ ~e.dir
      <3>1. stagingFolder' = WithFile(e.name, Written(e))
        BY <1>1, <2>3
      <3>2. PICK name \in EntryNames :
              /\ ~HoldsFile(e.name) => name = e.name /\ name \notin DOMAIN stagingFolder.files
              /\ WithFile(e.name, Written(e)).files =
                   [m \in (DOMAIN stagingFolder.files) \cup {name} |->
                      IF m = name THEN Written(e) ELSE stagingFolder.files[m]]
              /\ FilesOfFolder(WithFile(e.name, Written(e)).files)
              /\ WithFile(e.name, Written(e)) \in
                   [there : {TRUE}, marks : {stagingFolder.marks},
                    files : {WithFile(e.name, Written(e)).files}, folders : SUBSET EntryNames]
        BY <1>6, FileIsWritten
      <3>3. /\ FilesOfFolder(stagingFolder'.files)
            /\ stagingFolder' \in [there : {TRUE}, marks : {{"stage"}},
                                   files : {stagingFolder'.files}, folders : SUBSET EntryNames]
        BY <1>2, <3>1, <3>2
      <3>4. FilesAreEntries'
        <4>1. AllScanned => /\ next \in Files(archive) /\ e = archive[next]
                            /\ manifest = ManifestOf(archive) /\ Passes(archive)
          <5>1. ASSUME AllScanned PROVE a = archive /\ Present = archive
            BY <1>4, <5>1, PresentIsEither
          <5>2. next \in DOMAIN Present /\ ~Present[next].dir
            BY <1>3, <2>3
          <5>3. QED
            BY <1>4, <5>1, <5>2 DEF Files
        <4>2. QED
          BY <1>1, <1>3, <3>1, <4>1, EntryIsWritten
      <3>5. ASSUME Tool # "7z"
            PROVE  /\ BytesIn(stagingFolder.files) <= BytesIn(stagingFolder'.files)
                   /\ Cardinality(DOMAIN stagingFolder.files) <= Cardinality(DOMAIN stagingFolder'.files)
        <4>1. ~HoldsFile(e.name)
          BY <2>3, <3>5
        <4>2. PICK f, h : f = stagingFolder.files /\ h = WithFile(e.name, Written(e)).files
          OBVIOUS
        <4>3. /\ FilesOfFolder(f) /\ e.name \in EntryNames \ DOMAIN f
              /\ h = [m \in (DOMAIN f) \cup {e.name} |-> IF m = e.name THEN Written(e) ELSE f[m]]
          BY <1>6, <1>7, <3>2, <4>1, <4>2
        <4>4. BytesIn(h) = Written(e).size + BytesIn(f)
              /\ Cardinality(DOMAIN h) = Cardinality(DOMAIN f) + 1
          BY <1>6, <4>3, OneMoreFile
        <4>5. Written(e).size \in Nat
          BY <1>6 DEF FileRecords
        <4>6. BytesIn(f) \in Nat /\ Cardinality(DOMAIN f) \in Nat
          BY <4>3, BytesSumUp, FolderIsFinite
        <4>7. BytesIn(f) <= BytesIn(h) /\ Cardinality(DOMAIN f) <= Cardinality(DOMAIN h)
          BY <4>4, <4>5, <4>6
        <4>8. stagingFolder'.files = h
          BY <3>1, <4>2
        <4>9. QED
          BY <4>2, <4>7, <4>8
      <3>6. QED
        BY <3>3, <3>4, <3>5
    <2>4. QED
      BY <2>1, <2>2, <2>3
  <1>9. UnpackTypes'
    <2>1. UnpackTypeOK'
      <3>1. stagingFolder'.marks = {"stage"} /\ DOMAIN stagingFolder'.files \subseteq EntryNames
        BY <1>8 DEF FilesOfFolder
      <3>2. QED
        BY <1>1, <1>3, <1>5, <3>1 DEF UnpackIInv, UnpackTypes, UnpackTypeOK, Undisturbed
    <2>2. stagingFolder' \in [there : BOOLEAN, marks : SUBSET {"stage", "install"},
                              files : {stagingFolder'.files}, folders : SUBSET EntryNames]
      BY <1>8
    <2>3. QED
      BY <1>1, <1>8, <2>1, <2>2 DEF UnpackIInv, UnpackTypes, FilesOfFolder
  <1>10. PhaseFits'
    BY <1>1, <1>2, <1>8 DEF PhaseFits, BeforeUnpacking, Unpacking
  <1>11. ListingFits' /\ HashedIsScanned' /\ ProgressFits'
    BY <1>1, Frames DEF UnpackIInv, ListingFits
  <1>12. CheckedMatches' /\ ZipCounts' /\ FailedLeavesNothing'
    BY <1>1, <1>2 DEF CheckedMatches, Checked, ZipCounts, FailedLeavesNothing
  <1>13. ToolCounts'
    <2>1. Tool' = Tool /\ manifest' = manifest /\ progress' = progress
      BY <1>1 DEF Tool, InstalledTools, Undisturbed
    <2>2. /\ progress.bytes <= AtMost(Measured.bytes, manifest.total)
          /\ progress.files <= AtMost(Measured.files, manifest.files)
      BY <1>1 DEF UnpackIInv, ToolCounts
    <2>3. /\ progress.bytes \in Nat /\ progress.files \in Nat
          /\ manifest.total \in Nat /\ manifest.files \in Nat
          /\ Measured.bytes \in Nat /\ Measured.files \in Nat
      BY MeasuredIsNatural DEF UnpackIInv, UnpackTypes
    <2>4. /\ Measured'.bytes \in Nat /\ Measured.bytes <= Measured'.bytes
          /\ Measured'.files \in Nat /\ Measured.files <= Measured'.files
      <3>1. CASE Tool = "7z"
        <4>1. percent \in 0..100
          BY DEF UnpackIInv, UnpackTypes, UnpackTypeOK
        <4>2. /\ Measured = [bytes |-> (manifest.total * percent) \div 100,
                            files |-> (manifest.files * percent) \div 100]
              /\ Measured' = [bytes |-> (manifest.total * percent') \div 100,
                             files |-> (manifest.files * percent') \div 100]
          BY <2>1, <3>1 DEF Measured
        <4>3. PICK p, q, t, k : p = percent /\ q = percent' /\ t = manifest.total /\ k = manifest.files
          OBVIOUS
        <4>4. p \in 0..100 /\ q \in p..100 /\ q \in 0..100 /\ q \in q..100 /\ t \in Nat /\ k \in Nat
          BY <1>5, <2>3, <4>1, <4>3
        <4>5. /\ (t * q) \div 100 \in Nat /\ (t * p) \div 100 <= (t * q) \div 100
              /\ (k * q) \div 100 \in Nat /\ (k * p) \div 100 <= (k * q) \div 100
          BY <4>4, SharesGrow
        <4>6. QED
          BY <4>2, <4>3, <4>5
      <3>2. CASE Tool # "7z"
        <4>1. PICK f, h : f = stagingFolder.files /\ h = stagingFolder'.files
          OBVIOUS
        <4>2. /\ FilesOfFolder(f) /\ FilesOfFolder(h) /\ BytesIn(f) <= BytesIn(h)
              /\ Cardinality(DOMAIN f) <= Cardinality(DOMAIN h)
          BY <1>7, <1>8, <3>2, <4>1
        <4>3. /\ BytesIn(f) \in Nat /\ BytesIn(h) \in Nat
              /\ Cardinality(DOMAIN f) \in Nat /\ Cardinality(DOMAIN h) \in Nat
          BY <4>2, BytesSumUp, FolderIsFinite
        <4>4. Measured = [bytes |-> BytesIn(f) + 1, files |-> Cardinality(DOMAIN f) + 1]
          BY <3>2, <4>1 DEF Measured, MarkerSize
        <4>5. Measured' = [bytes |-> BytesIn(h) + 1, files |-> Cardinality(DOMAIN h) + 1]
          BY <2>1, <3>2, <4>1 DEF Measured, MarkerSize
        <4>6. QED
          BY <4>2, <4>3, <4>4, <4>5
      <3>3. QED
        BY <3>1, <3>2
    <2>5. /\ progress.bytes <= AtMost(Measured'.bytes, manifest.total)
          /\ progress.files <= AtMost(Measured'.files, manifest.files)
      BY <2>2, <2>3, <2>4 DEF AtMost
    <2>6. QED
      BY <2>1, <2>5 DEF ToolCounts
  <1>14. QED
    BY <1>8, <1>9, <1>10, <1>11, <1>12, <1>13 DEF UnpackIInv

LEMMA ToolEndsKeeps ==
    ASSUME UnpackIInv, NEW fails \in BOOLEAN, ToolEnds(fails)
    PROVE  UnpackIInv'
  <1>1. /\ phase = "rar" /\ UnpackFails(fails) /\ Undisturbed /\ running' = FALSE
        /\ UNCHANGED <<manifest, opened, todo, next, percent, stagingFolder, progress,
                       unpackCancelled, hashed, shrunk, left>>
    BY DEF ToolEnds, asked, Undisturbed
  <1>2. /\ unpackFaults' \in 0..MaxUnpackFaults /\ next \in 1..(MaxEntries + 1)
        /\ stagingFolder.there /\ stagingFolder.marks = {"stage"}
    BY <1>1, FaultCounts DEF UnpackIInv, UnpackTypes, UnpackTypeOK, PhaseFits, Unpacking
  <1>3. CASE Leave
    <2>1. next' \in next..(MaxEntries + 1)
      BY <1>1, <1>2, ExtractBounds
    <2>2. QED
      BY <1>1, <1>2, <1>3, <2>1, LeaveKeeps
  <1>4. CASE phase' = "verify"
    <2>1. PhaseFits'
      BY <1>1, <1>2, <1>4 DEF PhaseFits, BeforeUnpacking, Unpacking
    <2>2. HashedIsScanned'
      BY <1>1, Frames
    <2>3. CheckedMatches' /\ ZipCounts' /\ ToolCounts'
      BY <1>1, <1>4 DEF CheckedMatches, Checked, ZipCounts, ToolCounts
    <2>4. opened' \in Seq(Entries) /\ todo' \subseteq request.volumes /\ running' \in BOOLEAN
          /\ unpackCancelled' \in BOOLEAN /\ hashed' \subseteq request.volumes
      BY <1>1 DEF UnpackIInv, UnpackTypes, UnpackTypeOK
    <2>5. QED
      BY <1>1, <1>2, <1>4, <2>1, <2>2, <2>3, <2>4, GoesOn
  <1>5. QED
    BY <1>3, <1>4 DEF ToolEnds

LEMMA MeasureKeeps ==
    ASSUME UnpackIInv, NEW fails \in BOOLEAN, Measure(fails)
    PROVE  UnpackIInv'
  <1>1. /\ phase = "rar" /\ running /\ UnpackFails(fails) /\ Undisturbed
        /\ UNCHANGED <<manifest, opened, todo, next, percent, stagingFolder, unpackCancelled,
                       hashed, left>>
    BY DEF Measure, asked, Undisturbed
  <1>2. unpackFaults' \in 0..MaxUnpackFaults /\ next \in 1..(MaxEntries + 1)
    BY <1>1, FaultCounts DEF UnpackIInv, UnpackTypes, UnpackTypeOK
  <1>3. CASE fails
    <2>1. running' = FALSE /\ Leave /\ UNCHANGED <<progress, shrunk>>
      BY <1>3 DEF Measure
    <2>2. next' \in next..(MaxEntries + 1)
      BY <1>1, <1>2, ExtractBounds
    <2>3. QED
      BY <1>1, <1>2, <2>1, <2>2, LeaveKeeps
  <1>4. CASE ~fails
    <2>1. PICK b, k : b = AtMost(Measured.bytes, manifest.total)
                      /\ k = AtMost(Measured.files, manifest.files)
      OBVIOUS
    <2>2. Publish(b, k) /\ phase' = phase /\ running' = running
      BY <1>4, <2>1 DEF Measure
    <2>3. b \in Nat /\ k \in Nat /\ b <= manifest.total /\ k <= manifest.files
      BY <2>1, MeasuredIsNatural DEF AtMost, UnpackIInv, UnpackTypes
    <2>4. progress.bytes <= b /\ progress.files <= k
      BY <1>1, <2>1 DEF UnpackIInv, ToolCounts
    <2>5. progress.bytes \in Nat /\ progress.files \in Nat /\ shrunk = FALSE
      BY DEF UnpackIInv, UnpackTypes, UnpackTypeOK, ProgressFits
    <2>6. ~ (b < progress.bytes) /\ ~ (k < progress.files)
      BY <2>3, <2>4, <2>5
    <2>7. progress' = [bytes |-> b, files |-> k] /\ shrunk' = FALSE
      BY <2>2, <2>5, <2>6 DEF Publish
    <2>8. UnpackTypes'
      <3>1. UnpackTypeOK'
        BY <1>1, <1>2, <2>2, <2>7 DEF UnpackIInv, UnpackTypes, UnpackTypeOK, Undisturbed
      <3>2. progress' \in [bytes : Nat, files : Nat]
        BY <2>3, <2>7
      <3>3. QED
        BY <1>1, <3>1, <3>2 DEF UnpackIInv, UnpackTypes
    <2>9. PhaseFits'
      BY <1>1, <2>2 DEF UnpackIInv, PhaseFits, BeforeUnpacking, Unpacking
    <2>10. ListingFits' /\ HashedIsScanned'
      BY <1>1, Frames DEF UnpackIInv, ListingFits
    <2>11. FilesAreEntries'
      BY <1>1, <1>2, ExtractBounds, Frames
    <2>12. CheckedMatches' /\ ZipCounts' /\ FailedLeavesNothing'
      BY <1>1, <2>2 DEF CheckedMatches, Checked, ZipCounts, FailedLeavesNothing
    <2>13. ToolCounts'
      <3>1. Tool' = Tool
        BY <1>1 DEF Tool, InstalledTools, Undisturbed
      <3>2. Measured' = Measured /\ manifest' = manifest
        BY <1>1, <3>1 DEF Measured
      <3>3. b <= AtMost(Measured.bytes, manifest.total) /\ k <= AtMost(Measured.files, manifest.files)
        BY <2>1, <2>3
      <3>4. QED
        BY <2>7, <3>2, <3>3 DEF ToolCounts
    <2>14. ProgressFits'
      BY <1>1, <2>3, <2>7 DEF ProgressFits
    <2>15. QED
      BY <2>8, <2>9, <2>10, <2>11, <2>12, <2>13, <2>14 DEF UnpackIInv
  <1>5. QED
    BY <1>3, <1>4

-----------------------------------------------------------------------------
(* verify_staging, the markers and the ways out.                           *)

\* What the comparison saw does not change with the phase or with the markers.
LEMMA MatchStays ==
    ASSUME UNCHANGED <<request, manifest>>, stagingFolder'.files = stagingFolder.files,
           Matches(manifest, stagingFolder),
           request.target # "none" /\ request.catalog # 0 =>
             /\ HoldsFile(request.target)
             /\ \E n \in DOMAIN stagingFolder.files :
                  Same(n, request.target) /\ stagingFolder.files[n].content = request.catalog
    PROVE  CheckedMatches'
  <1>1. (Matches(manifest, stagingFolder))'
    BY DEF Matches
  <1>2. ASSUME (request.target # "none" /\ request.catalog # 0)'
        PROVE  /\ (HoldsFile(request.target))'
               /\ (\E n \in DOMAIN stagingFolder.files :
                     Same(n, request.target) /\ stagingFolder.files[n].content = request.catalog)'
    <2>1. HoldsFile(request.target)
          /\ \E n \in DOMAIN stagingFolder.files :
                 Same(n, request.target) /\ stagingFolder.files[n].content = request.catalog
      BY <1>2
    <2>2. QED
      BY <2>1 DEF HoldsFile, Same
  <1>3. QED
    BY <1>1, <1>2 DEF CheckedMatches

LEMMA VerifyStagingKeeps ==
    ASSUME UnpackIInv, NEW fails \in BOOLEAN, VerifyStaging(fails)
    PROVE  UnpackIInv'
  <1>1. /\ phase = "verify" /\ UnpackFails(fails) /\ Undisturbed
        /\ UNCHANGED <<manifest, opened, todo, next, running, percent, stagingFolder, progress,
                       unpackCancelled, hashed, shrunk, left>>
    BY DEF VerifyStaging, asked, Undisturbed
  <1>2. /\ unpackFaults' \in 0..MaxUnpackFaults /\ next \in 1..(MaxEntries + 1)
        /\ running = FALSE /\ stagingFolder.there /\ stagingFolder.marks = {"stage"}
    BY <1>1, FaultCounts DEF UnpackIInv, UnpackTypes, UnpackTypeOK, PhaseFits, Unpacking
  <1>3. CASE Leave
    <2>1. next' \in next..(MaxEntries + 1)
      BY <1>1, <1>2, ExtractBounds
    <2>2. QED
      BY <1>1, <1>2, <1>3, <2>1, LeaveKeeps
  <1>4. CASE Verified /\ phase' = "mark"
    <2>1. PhaseFits'
      BY <1>1, <1>2, <1>4 DEF PhaseFits, BeforeUnpacking, Unpacking
    <2>2. HashedIsScanned'
      BY <1>1, Frames
    <2>3. CheckedMatches'
      <3>1. Matches(manifest, stagingFolder)
        BY <1>4 DEF Verified
      <3>2. ASSUME request.target # "none", request.catalog # 0
            PROVE  /\ HoldsFile(request.target)
                   /\ \E n \in DOMAIN stagingFolder.files :
                        Same(n, request.target) /\ stagingFolder.files[n].content = request.catalog
        BY <1>4, <3>2 DEF Verified
      <3>3. request' = request /\ manifest' = manifest /\ stagingFolder'.files = stagingFolder.files
        BY <1>1 DEF Undisturbed
      <3>4. QED
        BY <3>1, <3>2, <3>3, MatchStays
    <2>4. ZipCounts' /\ ToolCounts'
      BY <1>1, <1>2, <1>4 DEF ZipCounts, ToolCounts
    <2>5. opened' \in Seq(Entries) /\ todo' \subseteq request.volumes /\ running' \in BOOLEAN
          /\ unpackCancelled' \in BOOLEAN /\ hashed' \subseteq request.volumes
      BY <1>1 DEF UnpackIInv, UnpackTypes, UnpackTypeOK
    <2>6. QED
      BY <1>1, <1>2, <1>4, <2>1, <2>2, <2>3, <2>4, <2>5, GoesOn
  <1>5. QED
    BY <1>3, <1>4 DEF VerifyStaging

\* A step that changes the markers of a folder that was compared, and nothing else of it.
LEMMA MarksChange ==
    ASSUME UnpackIInv, NEW marks \in SUBSET {"stage", "install"}, NEW to \in {"sign", "activate"},
           phase \in {"mark", "sign"}, phase' = to, unpackFaults' \in 0..MaxUnpackFaults,
           marks = IF to = "sign" THEN {} ELSE {"install"},
           stagingFolder' = [stagingFolder EXCEPT !.marks = marks], Undisturbed,
           UNCHANGED <<manifest, opened, todo, next, running, percent, progress, unpackCancelled,
                       hashed, shrunk, left>>
    PROVE  UnpackIInv'
  <1>1. /\ next \in 1..(MaxEntries + 1) /\ next \in Nat /\ running = FALSE /\ stagingFolder.there
        /\ unpackFaults' \in 0..MaxUnpackFaults
    BY ExtractBounds DEF UnpackIInv, UnpackTypes, UnpackTypeOK, PhaseFits, Unpacking
  <1>2. stagingFolder' = [there |-> stagingFolder.there, marks |-> marks,
                          files |-> stagingFolder.files, folders |-> stagingFolder.folders]
    BY DEF UnpackIInv, UnpackTypes
  <1>3. /\ stagingFolder'.files = stagingFolder.files /\ stagingFolder'.marks = marks
        /\ stagingFolder'.there = stagingFolder.there
        /\ stagingFolder'.folders = stagingFolder.folders
    BY <1>2
  <1>4. UnpackTypes'
    <2>1. UnpackTypeOK'
      BY <1>1, <1>3 DEF UnpackIInv, UnpackTypes, UnpackTypeOK, Undisturbed
    <2>2. stagingFolder' \in [there : BOOLEAN, marks : SUBSET {"stage", "install"},
                              files : {stagingFolder'.files}, folders : SUBSET EntryNames]
      BY <1>2, <1>3 DEF UnpackIInv, UnpackTypes
    <2>3. QED
      BY <1>3, <2>1, <2>2 DEF UnpackIInv, UnpackTypes
  <1>5. PhaseFits'
    BY <1>1, <1>3 DEF PhaseFits, BeforeUnpacking, Unpacking
  <1>6. ListingFits' /\ HashedIsScanned' /\ ProgressFits'
    BY Frames DEF UnpackIInv, ListingFits
  <1>7. FilesAreEntries'
    <2>1. AllScanned' = AllScanned /\ archive' = archive /\ next' = next
      BY Frames DEF Undisturbed
    <2>2. QED
      BY <1>3, <2>1 DEF UnpackIInv, FilesAreEntries
  <1>8. CheckedMatches'
    <2>1. request' = request /\ manifest' = manifest
      BY DEF Undisturbed
    <2>2. CheckedMatches /\ phase \in Checked
      BY DEF UnpackIInv, Checked
    <2>3. QED
      BY <1>3, <2>1, <2>2, MatchStays DEF CheckedMatches
  <1>9. ZipCounts' /\ ToolCounts' /\ FailedLeavesNothing'
    BY <1>1 DEF ZipCounts, ToolCounts, FailedLeavesNothing
  <1>10. QED
    BY <1>4, <1>5, <1>6, <1>7, <1>8, <1>9 DEF UnpackIInv

LEMMA RemoveStageMarkerKeeps ==
    ASSUME UnpackIInv, NEW fails \in BOOLEAN, RemoveStageMarker(fails)
    PROVE  UnpackIInv'
  <1>1. /\ phase = "mark" /\ UnpackFails(fails) /\ Undisturbed
        /\ UNCHANGED <<manifest, opened, todo, next, running, percent, progress, unpackCancelled,
                       hashed, shrunk, left>>
    BY DEF RemoveStageMarker, asked, Undisturbed
  <1>2. /\ unpackFaults' \in 0..MaxUnpackFaults /\ next \in 1..(MaxEntries + 1)
        /\ running = FALSE /\ stagingFolder.marks = {"stage"}
    BY <1>1, FaultCounts DEF UnpackIInv, UnpackTypes, UnpackTypeOK, PhaseFits, Unpacking
  <1>3. CASE fails
    <2>1. next' \in next..(MaxEntries + 1) /\ Leave /\ UNCHANGED stagingFolder
      BY <1>1, <1>2, <1>3, ExtractBounds DEF RemoveStageMarker
    <2>2. QED
      BY <1>1, <1>2, <2>1, LeaveKeeps
  <1>4. CASE ~fails
    <2>1. phase' = "sign" /\ stagingFolder' = [stagingFolder EXCEPT !.marks = @ \ {"stage"}]
      BY <1>4 DEF RemoveStageMarker
    <2>2. stagingFolder.marks \ {"stage"} = {}
      BY <1>2
    <2>3. stagingFolder' = [stagingFolder EXCEPT !.marks = {}]
      BY <2>1, <2>2
    <2>4. QED
      BY <1>1, <1>2, <2>1, <2>3, MarksChange
  <1>5. QED
    BY <1>3, <1>4

LEMMA SignStagingKeeps ==
    ASSUME UnpackIInv, NEW fails \in BOOLEAN, SignStaging(fails)
    PROVE  UnpackIInv'
  <1>1. /\ phase = "sign" /\ UnpackFails(fails) /\ Undisturbed
        /\ UNCHANGED <<manifest, opened, todo, next, running, percent, progress, unpackCancelled,
                       hashed, shrunk, left>>
    BY DEF SignStaging, asked, Undisturbed
  <1>2. /\ unpackFaults' \in 0..MaxUnpackFaults /\ next \in 1..(MaxEntries + 1)
        /\ running = FALSE /\ stagingFolder.marks = {}
    BY <1>1, FaultCounts DEF UnpackIInv, UnpackTypes, UnpackTypeOK, PhaseFits
  <1>3. CASE fails
    <2>1. next' \in next..(MaxEntries + 1) /\ Leave /\ UNCHANGED stagingFolder
      BY <1>1, <1>2, <1>3, ExtractBounds DEF SignStaging
    <2>2. QED
      BY <1>1, <1>2, <2>1, LeaveKeeps
  <1>4. CASE ~fails
    <2>1. phase' = "activate" /\ stagingFolder' = [stagingFolder EXCEPT !.marks = @ \cup {"install"}]
      BY <1>4 DEF SignStaging
    <2>2. stagingFolder.marks \cup {"install"} = {"install"}
      BY <1>2
    <2>3. stagingFolder' = [stagingFolder EXCEPT !.marks = {"install"}]
      BY <2>1, <2>2
    <2>4. QED
      BY <1>1, <1>2, <2>1, <2>3, MarksChange
  <1>5. QED
    BY <1>3, <1>4

LEMMA ActivateUnpackedKeeps ==
    ASSUME UnpackIInv, ActivateUnpacked
    PROVE  UnpackIInv'
  <1>1. /\ phase = "activate" /\ phase' = "ready" /\ Undisturbed
        /\ UNCHANGED <<manifest, opened, todo, next, running, percent, stagingFolder, progress,
                       unpackCancelled, unpackFaults, hashed, shrunk, left>>
    BY DEF ActivateUnpacked, asked, Undisturbed
  <1>2. running = FALSE /\ stagingFolder.there /\ stagingFolder.marks = {"install"}
    BY <1>1 DEF UnpackIInv, PhaseFits
  <1>3. PhaseFits'
    BY <1>1, <1>2 DEF PhaseFits, BeforeUnpacking, Unpacking
  <1>4. HashedIsScanned'
    BY <1>1, Frames
  <1>5. CheckedMatches'
    <2>1. request' = request /\ manifest' = manifest /\ stagingFolder'.files = stagingFolder.files
      BY <1>1 DEF Undisturbed
    <2>2. CheckedMatches /\ phase \in Checked
      BY <1>1 DEF UnpackIInv, Checked
    <2>3. QED
      BY <2>1, <2>2, MatchStays DEF CheckedMatches
  <1>6. ZipCounts' /\ ToolCounts'
    BY <1>1, <1>2 DEF ZipCounts, ToolCounts
  <1>7. /\ opened' \in Seq(Entries) /\ todo' \subseteq request.volumes /\ running' \in BOOLEAN
        /\ unpackCancelled' \in BOOLEAN /\ hashed' \subseteq request.volumes
        /\ unpackFaults' \in 0..MaxUnpackFaults
    BY <1>1 DEF UnpackIInv, UnpackTypes, UnpackTypeOK
  <1>8. QED
    BY <1>1, <1>3, <1>4, <1>5, <1>6, <1>7, GoesOn

\* What is counted, and compared, is a matter of what is read and written.
LEMMA CountsStay ==
    ASSUME UnpackIInv, Undisturbed,
           UNCHANGED <<phase, manifest, opened, next, running, percent, stagingFolder, progress>>
    PROVE  PhaseFits' /\ CheckedMatches' /\ ZipCounts' /\ ToolCounts'
  <1>1. request' = request /\ archive' = archive /\ AllScanned' = AllScanned
    BY Frames DEF Undisturbed
  <1>2. PhaseFits'
    BY <1>1 DEF UnpackIInv, PhaseFits
  <1>3. CheckedMatches'
    <2>1. CASE phase \in Checked
      BY <1>1, <2>1, MatchStays DEF UnpackIInv, CheckedMatches
    <2>2. CASE phase \notin Checked
      BY <2>2 DEF CheckedMatches, Checked
    <2>3. QED
      BY <2>1, <2>2
  <1>4. ZipCounts'
    BY <1>1 DEF UnpackIInv, ZipCounts
  <1>5. ToolCounts'
    <2>1. Tool' = Tool
      BY <1>1 DEF Tool, InstalledTools
    <2>2. Measured' = Measured
      BY <2>1 DEF Measured
    <2>3. QED
      BY <2>2 DEF UnpackIInv, ToolCounts
  <1>6. QED
    BY <1>2, <1>3, <1>4, <1>5

LEMMA CancelUnpackingKeeps ==
    ASSUME UnpackIInv, CancelUnpacking
    PROVE  UnpackIInv'
  <1>1. /\ phase \notin {"ready", "clean", "failed"} /\ Undisturbed /\ unpackCancelled' = TRUE
        /\ UNCHANGED <<phase, manifest, opened, todo, next, running, percent, stagingFolder,
                       progress, unpackFaults, hashed, shrunk, left>>
    BY DEF CancelUnpacking, asked, Undisturbed
  <1>2. PhaseFits' /\ CheckedMatches' /\ ZipCounts' /\ ToolCounts'
    BY <1>1, CountsStay
  <1>3. HashedIsScanned'
    BY <1>1, Frames
  <1>4. /\ opened' \in Seq(Entries) /\ todo' \subseteq request.volumes /\ running' \in BOOLEAN
        /\ hashed' \subseteq request.volumes /\ unpackFaults' \in 0..MaxUnpackFaults
    BY <1>1 DEF UnpackIInv, UnpackTypes, UnpackTypeOK
  <1>5. QED
    BY <1>1, <1>2, <1>3, <1>4, GoesOn

LEMMA StopCancelledKeeps ==
    ASSUME UnpackIInv, StopCancelled
    PROVE  UnpackIInv'
  <1>1. /\ Leave /\ running' = FALSE /\ Undisturbed
        /\ UNCHANGED <<manifest, opened, todo, next, percent, stagingFolder, progress,
                       unpackCancelled, unpackFaults, hashed, shrunk, left>>
    BY DEF StopCancelled, asked, Undisturbed
  <1>2. unpackFaults' \in 0..MaxUnpackFaults /\ next \in 1..(MaxEntries + 1)
    BY <1>1 DEF UnpackIInv, UnpackTypes, UnpackTypeOK
  <1>3. next' \in next..(MaxEntries + 1)
    BY <1>1, <1>2, ExtractBounds
  <1>4. QED
    BY <1>1, <1>2, <1>3, LeaveKeeps

LEMMA RemoveStagingKeeps ==
    ASSUME UnpackIInv, NEW fails \in BOOLEAN, RemoveStaging(fails)
    PROVE  UnpackIInv'
  <1>1. /\ phase = "clean" /\ UnpackFails(fails) /\ Undisturbed /\ phase' = "failed"
        /\ left' = fails
        /\ stagingFolder' = IF fails THEN stagingFolder ELSE NoStaging
        /\ UNCHANGED <<manifest, opened, todo, next, running, percent, progress, unpackCancelled,
                       hashed, shrunk>>
    BY DEF RemoveStaging, asked, Undisturbed
  <1>2. /\ unpackFaults' \in 0..MaxUnpackFaults /\ next \in 1..(MaxEntries + 1) /\ next \in Nat
        /\ running = FALSE
    BY <1>1, FaultCounts, ExtractBounds DEF UnpackIInv, UnpackTypes, UnpackTypeOK, PhaseFits
  <1>3. <<>> \in [DOMAIN <<>> -> FileRecords] /\ DOMAIN <<>> = {}
    OBVIOUS
  <1>4. /\ stagingFolder'.marks \subseteq {"stage", "install"}
        /\ DOMAIN stagingFolder'.files \subseteq EntryNames
        /\ stagingFolder'.files \in [DOMAIN stagingFolder'.files -> FileRecords]
        /\ stagingFolder' \in [there : BOOLEAN, marks : SUBSET {"stage", "install"},
                               files : {stagingFolder'.files}, folders : SUBSET EntryNames]
        /\ fails \/ ~stagingFolder'.there
        /\ DOMAIN stagingFolder'.files = {} \/ stagingFolder' = stagingFolder
    <2>1. CASE fails
      <3>1. PICK s : s = stagingFolder
        OBVIOUS
      <3>2. /\ s.marks \subseteq {"stage", "install"} /\ DOMAIN s.files \subseteq EntryNames
            /\ s.files \in [DOMAIN s.files -> FileRecords]
            /\ s \in [there : BOOLEAN, marks : SUBSET {"stage", "install"}, files : {s.files},
                      folders : SUBSET EntryNames]
        BY <3>1 DEF UnpackIInv, UnpackTypes, UnpackTypeOK
      <3>3. stagingFolder' = s
        BY <1>1, <2>1, <3>1
      <3>4. QED
        BY <2>1, <3>1, <3>2, <3>3
    <2>2. CASE ~fails
      <3>1. stagingFolder' = [there |-> FALSE, marks |-> {}, files |-> <<>>, folders |-> {}]
        BY <1>1, <2>2 DEF NoStaging
      <3>2. QED
        BY <1>3, <3>1
    <2>3. QED
      BY <2>1, <2>2
  <1>5. UnpackTypes'
    <2>1. UnpackTypeOK'
      BY <1>1, <1>2, <1>4 DEF UnpackIInv, UnpackTypes, UnpackTypeOK, Undisturbed
    <2>2. QED
      BY <1>1, <1>4, <2>1 DEF UnpackIInv, UnpackTypes
  <1>6. PhaseFits'
    BY <1>1, <1>2 DEF PhaseFits, BeforeUnpacking, Unpacking
  <1>7. ListingFits' /\ HashedIsScanned' /\ ProgressFits'
    BY <1>1, Frames DEF UnpackIInv, ListingFits
  <1>8. FilesAreEntries'
    <2>1. CASE DOMAIN stagingFolder'.files = {}
      BY <2>1 DEF FilesAreEntries
    <2>2. CASE stagingFolder' = stagingFolder
      BY <1>1, <1>2, <2>2, Frames
    <2>3. QED
      BY <1>4, <2>1, <2>2
  <1>9. CheckedMatches' /\ ZipCounts' /\ ToolCounts'
    BY <1>1, <1>2 DEF CheckedMatches, Checked, ZipCounts, ToolCounts
  <1>10. FailedLeavesNothing'
    BY <1>1, <1>2, <1>4 DEF FailedLeavesNothing
  <1>11. QED
    BY <1>5, <1>6, <1>7, <1>8, <1>9, <1>10 DEF UnpackIInv

\* Nothing is said any more of where the files come from.
LEMMA ChangeVolumeKeeps ==
    ASSUME UnpackIInv, NEW v \in request.volumes, NEW state \in {"other", "resized", "link", "gone"},
           ChangeVolume(v, state)
    PROVE  UnpackIInv'
  <1>1. /\ phase \notin {"ready", "clean", "failed"} /\ UnpackFault
        /\ volumeState' = [volumeState EXCEPT ![v] = state] /\ hashed' = hashed \ {v}
        /\ request' = request /\ archive' = archive /\ other' = other
        /\ UNCHANGED <<phase, manifest, opened, todo, next, running, percent, stagingFolder,
                       progress, unpackCancelled, shrunk, left>>
    BY DEF ChangeVolume, asked
  <1>2. unpackFaults' \in 0..MaxUnpackFaults
    BY <1>1, ExtractBounds DEF UnpackIInv, UnpackTypes, UnpackTypeOK, UnpackFault
  <1>3. /\ volumeState' \in [request.volumes -> {"scanned", "other", "resized", "link", "gone"}]
        /\ volumeState'[v] = state /\ ~AllScanned'
        /\ \A x \in request.volumes \ {v} : volumeState'[x] = volumeState[x]
    BY <1>1 DEF UnpackIInv, UnpackTypes, UnpackTypeOK, AllScanned
  <1>4. UnpackTypes'
    <2>1. UnpackTypeOK'
      BY <1>1, <1>2, <1>3 DEF UnpackIInv, UnpackTypes, UnpackTypeOK
    <2>2. QED
      BY <1>1, <2>1 DEF UnpackIInv, UnpackTypes
  <1>5. PhaseFits' /\ FailedLeavesNothing'
    BY <1>1 DEF UnpackIInv, PhaseFits, FailedLeavesNothing
  <1>6. ListingFits'
    BY <1>1, <1>3 DEF UnpackIInv, ListingFits, IsListed
  <1>7. HashedIsScanned'
    BY <1>1, <1>3 DEF UnpackIInv, UnpackTypes, UnpackTypeOK, HashedIsScanned
  <1>8. FilesAreEntries'
    BY <1>3 DEF FilesAreEntries
  <1>9. CheckedMatches'
    <2>1. CASE phase \in Checked
      BY <1>1, <2>1, MatchStays DEF UnpackIInv, CheckedMatches
    <2>2. CASE phase \notin Checked
      BY <1>1, <2>2 DEF CheckedMatches, Checked
    <2>3. QED
      BY <2>1, <2>2
  <1>10. ZipCounts'
    BY <1>1, <1>3 DEF UnpackIInv, ZipCounts
  <1>11. ToolCounts'
    <2>1. Tool' = Tool
      BY <1>1 DEF Tool, InstalledTools
    <2>2. Measured' = Measured
      BY <1>1, <2>1 DEF Measured
    <2>3. QED
      BY <1>1, <2>2 DEF UnpackIInv, ToolCounts
  <1>12. ProgressFits'
    BY <1>1, <1>3 DEF UnpackIInv, ProgressFits, AllScanned
  <1>13. QED
    BY <1>4, <1>5, <1>6, <1>7, <1>8, <1>9, <1>10, <1>11, <1>12 DEF UnpackIInv

-----------------------------------------------------------------------------

LEMMA UnpackStutters ==
    ASSUME UnpackIInv, UNCHANGED unpackVars
    PROVE  UnpackIInv'
  <1>1. /\ Undisturbed
        /\ UNCHANGED <<phase, manifest, opened, todo, next, running, percent, stagingFolder,
                       progress, unpackCancelled, unpackFaults, hashed, shrunk, left>>
    BY DEF unpackVars, Undisturbed
  <1>2. PhaseFits' /\ CheckedMatches' /\ ZipCounts' /\ ToolCounts'
    BY <1>1, CountsStay
  <1>3. UnpackTypes'
    <2>1. UnpackTypeOK'
      BY <1>1 DEF UnpackIInv, UnpackTypes, UnpackTypeOK, Undisturbed
    <2>2. QED
      BY <1>1, <2>1 DEF UnpackIInv, UnpackTypes
  <1>4. ListingFits' /\ HashedIsScanned' /\ ProgressFits' /\ FailedLeavesNothing'
    BY <1>1, Frames DEF UnpackIInv, ListingFits, FailedLeavesNothing
  <1>5. next \in Nat
    BY ExtractBounds DEF UnpackIInv, UnpackTypes, UnpackTypeOK
  <1>6. FilesAreEntries'
    BY <1>1, <1>5, Frames
  <1>7. QED
    BY <1>2, <1>3, <1>4, <1>6 DEF UnpackIInv

\* Every step of an unpacking keeps the invariant.
LEMMA UnpackStepKeeps ==
    ASSUME UnpackIInv, UnpackNext
    PROVE  UnpackIInv'
  <1>1. CASE \E fails \in BOOLEAN :
               \/ ReadManifest(fails) \/ MakeStaging(fails) \/ Open(fails) \/ UnpackZip(fails)
               \/ ToolEnds(fails) \/ Measure(fails) \/ VerifyStaging(fails)
               \/ RemoveStageMarker(fails) \/ SignStaging(fails) \/ RemoveStaging(fails)
    BY <1>1, ReadManifestKeeps, MakeStagingKeeps, OpenKeeps, UnpackZipKeeps, ToolEndsKeeps,
       MeasureKeeps, VerifyStagingKeeps, RemoveStageMarkerKeeps, SignStagingKeeps,
       RemoveStagingKeeps
  <1>2. CASE ResolveSources \/ \E v \in request.volumes : HashVolume(v)
    BY <1>2, ResolveSourcesKeeps, HashVolumeKeeps
  <1>3. CASE EndZip \/ ToolWrites \/ ActivateUnpacked \/ CancelUnpacking \/ StopCancelled
    BY <1>3, EndZipKeeps, ToolWritesKeeps, ActivateUnpackedKeeps, CancelUnpackingKeeps,
       StopCancelledKeeps
  <1>4. CASE \E v \in request.volumes, state \in {"other", "resized", "link", "gone"} :
               ChangeVolume(v, state)
    BY <1>4, ChangeVolumeKeeps
  <1>5. QED
    BY <1>1, <1>2, <1>3, <1>4 DEF UnpackNext

\* What is about to be activated is what the listing says, since that is compared and passed.
LEMMA ReadyFollows ==
    ASSUME UnpackIInv
    PROVE  ReadyIsTheManifest
  <1> SUFFICES ASSUME phase = "ready"
               PROVE  ReadyIsTheManifest
    BY DEF ReadyIsTheManifest
  <1>1. PICK a \in {archive, other} :
          manifest = ManifestOf(a) /\ Passes(a) /\ (AllScanned => a = archive) /\ manifest.entries = a
    BY ListedEntries
  <1>2. stagingFolder.there /\ stagingFolder.marks = {"install"} /\ ~running
    BY DEF UnpackIInv, PhaseFits
  <1>3. /\ DOMAIN stagingFolder.files = {manifest.entries[i].name : i \in Files(manifest.entries)}
        /\ \A i \in Files(manifest.entries) :
             stagingFolder.files[manifest.entries[i].name].size = manifest.entries[i].size
        /\ request.target # "none" /\ request.catalog # 0 =>
             /\ HoldsFile(request.target)
             /\ \E n \in DOMAIN stagingFolder.files :
                  Same(n, request.target) /\ stagingFolder.files[n].content = request.catalog
    BY DEF UnpackIInv, CheckedMatches, Checked, Matches
  <1>4. /\ \A i \in Files(a) : i \in 1..Len(a)
        /\ \A i \in 1..Len(a) : Enclosed(a[i].name) /\ Lower(a[i].name) \notin Reserved
                                /\ a[i] \in Entries /\ a[i].flaw # "link"
        /\ \A i, j \in 1..Len(a) : Lower(a[i].name) = Lower(a[j].name) => i = j
    BY <1>1, PassedEntries DEF Files
  <1>5. \A n \in DOMAIN stagingFolder.files : \E i \in 1..Len(a) : n = a[i].name
    BY <1>1, <1>3, <1>4
  <1>6. \A n \in DOMAIN stagingFolder.files : Enclosed(n) /\ Lower(n) \notin Reserved
    BY <1>4, <1>5
  <1>7. \A n, m \in DOMAIN stagingFolder.files : Lower(n) = Lower(m) => n = m
    BY <1>4, <1>5
  <1>8. ASSUME request.target # "none", request.catalog # 0
        PROVE  /\ HoldsFile(request.target)
               /\ \A n \in DOMAIN stagingFolder.files : Same(n, request.target) =>
                    stagingFolder.files[n].content = request.catalog
    <2>1. PICK m \in DOMAIN stagingFolder.files :
            Same(m, request.target) /\ stagingFolder.files[m].content = request.catalog
      BY <1>3, <1>8
    <2>2. ASSUME NEW n \in DOMAIN stagingFolder.files, Same(n, request.target)
          PROVE  n = m
      <3>1. Lower(n) = Lower(m)
        BY <2>1, <2>2 DEF Same
      <3>2. QED
        BY <1>7, <3>1
    <2>3. QED
      BY <1>3, <1>8, <2>1, <2>2
  <1>9. ASSUME hashed = request.volumes, NEW i \in Files(archive)
        PROVE  stagingFolder.files[archive[i].name].content = archive[i].content
    <2>1. AllScanned /\ a = archive
      BY <1>1, <1>9 DEF UnpackIInv, HashedIsScanned, AllScanned
    <2>2. archive[i].name \in DOMAIN stagingFolder.files
      BY <1>1, <1>3, <1>9, <2>1
    <2>3. PICK j \in Files(archive) : archive[j].name = archive[i].name
            /\ stagingFolder.files[archive[i].name] = Written(archive[j])
      BY <2>1, <2>2 DEF UnpackIInv, FilesAreEntries
    <2>4. j = i
      BY <1>4, <1>9, <2>1, <2>3
    <2>5. archive[i] \in Entries /\ archive[i].flaw # "link"
      BY <1>4, <1>9, <2>1
    <2>6. QED
      BY <2>3, <2>4, <2>5, WrittenTypes
  <1>10. QED
    BY <1>2, <1>3, <1>6, <1>7, <1>8, <1>9 DEF ReadyIsTheManifest

THEOREM UnpackInductive == UnpackSpec => []UnpackIInv
  <1>1. UnpackInit => UnpackIInv
    BY UnpackInitially
  <1>2. UnpackIInv /\ [UnpackNext]_unpackVars => UnpackIInv'
    BY UnpackStepKeeps, UnpackStutters
  <1>3. QED
    BY <1>1, <1>2, PTL DEF UnpackSpec

\* What extract hands over is what the listing it checked says.
THEOREM UnpackedStaysListed == UnpackSpec => []UnpackedIsTheManifest
  <1>1. UnpackIInv => UnpackedIsTheManifest
    BY ReadyFollows DEF UnpackIInv, UnpackTypes, UnpackedIsTheManifest
  <1>2. QED
    BY <1>1, UnpackInductive, PTL

=================================================================================
