------------------------------- MODULE OwnWork -------------------------------
(***************************************************************************)
(* The details a user gives a work the catalog does not know: a row of     *)
(* the library, and the pictures it names, copied into a folder of the     *)
(* work and named by their digest.                                         *)
(*                                                                         *)
(* Sources: dla-application own_work.rs, dla-media artwork.rs, dla-sqlite  *)
(* own_work.rs, and the commands and the prune thread of src-tauri.  The   *)
(* commands run in threads of their own and nothing orders them: one step  *)
(* of a save or of the prune is one call to the folder or to the library.  *)
(* A picture is its digest; of the fields of a request only whether they   *)
(* are in order is kept, and which pictures it names.                      *)
(***************************************************************************)
EXTENDS Naturals, FiniteSets

CONSTANTS
    OwnWorks,    \* works that may be installed, by their installation id
    Pictures,    \* pictures, by the digest of what is stored of them
    Requests,    \* what a user asks to save: [cover, samples], sets of pictures
    Savers,      \* saves that may run at a time
    MaxImages,   \* MAX_INSTALLATION_IMAGES
    MaxSamples,  \* MAX_SAMPLES
    MaxEvents    \* bound: installations saved or removed, failing removals, restarts

VARIABLES
    installed,  \* library_installation: the works of the Library
    details,    \* library_own_work_details: the row of each work, or NoRow
    artwork,    \* the stored pictures of each work: "none", "fresh" or "aged"
    lists,      \* image_lists: the images listed of each work, {} without a list
    saver,      \* each running save
    prune,      \* remove_orphaned_artwork, once after each start
    events,     \* how often something happened around them
    disturbed   \* history: works whose row was written, or whose folder was
                \* removed, while something else was at its pictures

ownVars == <<installed, details, artwork, lists, saver, prune, events, disturbed>>

NoRow == [cover |-> {}, samples |-> {}, saved |-> FALSE]
Row == [cover : {{}} \cup {{p} : p \in Pictures}, samples : SUBSET Pictures, saved : BOOLEAN]
NotSaving == [at |-> "idle", work |-> CHOOSE w \in OwnWorks : TRUE, row |-> NoRow, todo |-> {}, alone |-> TRUE]

OwnTypeOK ==
    /\ installed \subseteq OwnWorks /\ details \in [OwnWorks -> Row]
    /\ artwork \in [OwnWorks -> [Pictures -> {"none", "fresh", "aged"}]]
    /\ lists \in [OwnWorks -> SUBSET Pictures]
    /\ saver \in [Savers -> [at : {"idle", "check", "write", "list", "retain"}, work : OwnWorks,
                             row : Row, todo : SUBSET Pictures, alone : BOOLEAN]]
    /\ prune \in [at : {"list", "read", "sweep", "done"}, present : SUBSET OwnWorks, todo : SUBSET OwnWorks]
    /\ events \in 0..MaxEvents /\ disturbed \subseteq OwnWorks

NotStarted == [at |-> "list", present |-> {}, todo |-> {}]

\* A work that was uninstalled may have left its pictures, and its id comes back with its folder.
OwnInit ==
    /\ installed \in SUBSET OwnWorks /\ details = [w \in OwnWorks |-> NoRow]
    /\ artwork \in [OwnWorks -> {[p \in Pictures |-> s] : s \in {"none", "aged"}}]
    /\ lists = [w \in OwnWorks |-> {}] /\ saver = [c \in Savers |-> NotSaving]
    /\ prune = NotStarted /\ events = 0 /\ disturbed = {}

Named(row) == row.cover \cup row.samples
Stored(w) == {p \in Pictures : artwork[w][p] # "none"}       \* contains: target.is_file()
Event == events < MaxEvents /\ events' = events + 1
-----------------------------------------------------------------------------
(* The work's own images: list_images, image_root, import_artwork.           *)

\* fresh_image_list: the images the folder of the work holds now, as many as are listed, kept
\* for IMAGE_LIST_LIFETIME.
ListImages(w, s) ==
    /\ w \in installed /\ Cardinality(s) <= MaxImages
    /\ lists' = [lists EXCEPT ![w] = s] /\ lists' # lists
    /\ UNCHANGED <<installed, details, artwork, saver, prune, events, disturbed>>

\* import: the picture is encoded and stored under its digest, if it is not there already.
Import(w, p) == artwork' = [artwork EXCEPT ![w][p] = IF @ = "none" THEN "fresh" ELSE @]

\* import_artwork: a listed image, whether or not the work is still in the Library.
ImportListed(w, p) ==
    /\ p \in lists[w] /\ Import(w, p) /\ artwork' # artwork
    /\ UNCHANGED <<installed, details, lists, saver, prune, events, disturbed>>

\* import_artwork_file: any picture the user picks, for a work of the Library.
ImportFile(w, p) ==
    /\ w \in installed /\ Import(w, p) /\ artwork' # artwork
    /\ UNCHANGED <<installed, details, lists, saver, prune, events, disturbed>>

\* Ten minutes pass: UNSAVED_GRACE no longer spares the picture.
Age(w, p) ==
    /\ artwork[w][p] = "fresh" /\ artwork' = [artwork EXCEPT ![w][p] = "aged"]
    /\ UNCHANGED <<installed, details, lists, saver, prune, events, disturbed>>
-----------------------------------------------------------------------------
(* OwnWorkService::save.                                                     *)

Saving(w) == {c \in Savers : saver[c].at # "idle" /\ saver[c].work = w}
Goes(c, at) == saver' = [saver EXCEPT ![c].at = at]
Ends(c) == saver' = [saver EXCEPT ![c] = NotSaving]

\* validated_details: the row of a request whose fields are in order.  Samples are named once.
Validated(request) ==
    {row \in {[cover |-> request.cover, samples |-> request.samples, saved |-> TRUE]} :
        Cardinality(row.samples) <= MaxSamples}

\* A row that is not being written alone may find its pictures gone.
Crowded(cs) == [c \in Savers |-> [saver[c] EXCEPT !.alone = @ /\ c \notin cs]]

StartSave(c, w, row) ==
    /\ saver[c].at = "idle" /\ w \in installed
    /\ saver' = [Crowded(Saving(w)) EXCEPT ![c] =
            [at |-> "check", work |-> w, row |-> row, todo |-> Named(row), alone |-> Saving(w) = {}]]
    /\ UNCHANGED <<installed, details, artwork, lists, prune, events, disturbed>>

\* Each picture has to be there; a save that misses one is refused.
CheckPicture(c) ==
    /\ saver[c].at = "check"
    /\ \/ saver[c].todo = {} /\ Goes(c, "write")
       \/ \E p \in saver[c].todo :
            IF p \in Stored(saver[c].work) THEN saver' = [saver EXCEPT ![c].todo = @ \ {p}] ELSE Ends(c)
    /\ UNCHANGED <<installed, details, artwork, lists, prune, events, disturbed>>

CheckNothing(c) ==      \* (Wrong form.) The pictures of a save are taken to be there.
    /\ saver[c].at = "check" /\ Goes(c, "write")
    /\ UNCHANGED <<installed, details, artwork, lists, prune, events, disturbed>>

\* save_own_work_details: the row is replaced, of a work that is still in the Library.
WriteRow(c) ==
    LET w == saver[c].work IN
    /\ saver[c].at = "write"
    /\ IF w \in installed
       THEN /\ details' = [details EXCEPT ![w] = saver[c].row] /\ Goes(c, "list")
            /\ disturbed' = IF saver[c].alone THEN disturbed \ {w} ELSE disturbed \cup {w}
       ELSE Ends(c) /\ UNCHANGED <<details, disturbed>>
    /\ UNCHANGED <<installed, artwork, lists, prune, events>>

\* (Wrong form.) The cover alone is kept.
KeptCover(row) == row.cover
\* keep: the cover and the samples.
Kept(row) == Named(row)

\* retain: what the folder holds beside the pictures of the row, and is no longer fresh.
ListStored(c) ==
    LET w == saver[c].work IN
    /\ saver[c].at = "list"
    /\ saver' = [saver EXCEPT ![c].at = "retain",
                     ![c].todo = {p \in Stored(w) \ Kept(saver[c].row) : artwork[w][p] = "aged"}]
    /\ UNCHANGED <<installed, details, artwork, lists, prune, events, disturbed>>

\* One of them is removed.  A file that is gone, or was stored anew since, counts as fresh.
RetainOne(c) ==
    LET w == saver[c].work IN
    /\ saver[c].at = "retain"
    /\ \/ saver[c].todo = {} /\ Ends(c) /\ UNCHANGED <<artwork, events>>
       \/ \E p \in saver[c].todo :
            \/ /\ saver' = [saver EXCEPT ![c].todo = @ \ {p}] /\ UNCHANGED events
               /\ artwork' = [artwork EXCEPT ![w][p] = IF @ = "aged" THEN "none" ELSE @]
            \/ Event /\ Ends(c) /\ UNCHANGED artwork
    /\ UNCHANGED <<installed, details, lists, prune, disturbed>>
-----------------------------------------------------------------------------
(* remove_orphaned_artwork: a thread of every start.                         *)

ListInstalled ==
    /\ prune.at = "list" /\ prune' = [prune EXCEPT !.at = "read", !.present = installed]
    /\ UNCHANGED <<installed, details, artwork, lists, saver, events, disturbed>>

\* remove_all_except: the folders that are there, of works that were not.
Folders == {w \in OwnWorks : Stored(w) # {}}
ReadFolders ==
    /\ prune.at = "read" /\ prune' = [prune EXCEPT !.at = "sweep", !.todo = Folders \ prune.present]
    /\ UNCHANGED <<installed, details, artwork, lists, saver, events, disturbed>>

RemoveFolder(w) ==
    /\ prune.at = "sweep" /\ w \in prune.todo
    /\ \/ /\ prune' = [prune EXCEPT !.todo = @ \ {w}]
          /\ artwork' = [artwork EXCEPT ![w] = [p \in Pictures |-> "none"]]
          /\ disturbed' = IF details[w].saved THEN disturbed \cup {w} ELSE disturbed
          /\ saver' = Crowded(Saving(w)) /\ UNCHANGED events
       \/ Event /\ prune' = [NotStarted EXCEPT !.at = "done"] /\ UNCHANGED <<artwork, saver, disturbed>>
    /\ UNCHANGED <<installed, details, lists>>

EndPrune ==
    /\ prune.at = "sweep" /\ prune.todo = {} /\ prune' = [NotStarted EXCEPT !.at = "done"]
    /\ UNCHANGED <<installed, details, artwork, lists, saver, events, disturbed>>
-----------------------------------------------------------------------------
(* What happens around them.                                                 *)

\* An installation is saved.
InstallWork(w) ==
    /\ w \notin installed /\ Event /\ installed' = installed \cup {w}
    /\ UNCHANGED <<details, artwork, lists, saver, prune, disturbed>>

\* remove_installation: the row of its details goes with it, its pictures stay.
UninstallWork(w) ==
    /\ w \in installed /\ Event /\ installed' = installed \ {w}
    /\ details' = [details EXCEPT ![w] = NoRow] /\ disturbed' = disturbed \ {w}
    /\ UNCHANGED <<artwork, lists, saver, prune>>

OwnRestart ==
    /\ Event /\ lists' = [w \in OwnWorks |-> {}] /\ saver' = [c \in Savers |-> NotSaving] /\ prune' = NotStarted
    /\ UNCHANGED <<installed, details, artwork, disturbed>>

OwnNext ==
    \/ \E w \in OwnWorks, s \in SUBSET Pictures : ListImages(w, s)
    \/ \E w \in OwnWorks, p \in Pictures : ImportListed(w, p) \/ ImportFile(w, p) \/ Age(w, p)
    \/ \E c \in Savers, w \in OwnWorks, r \in Requests : \E row \in Validated(r) : StartSave(c, w, row)
    \/ \E c \in Savers : CheckPicture(c) \/ WriteRow(c) \/ ListStored(c) \/ RetainOne(c)
    \/ ListInstalled \/ ReadFolders \/ EndPrune \/ \E w \in OwnWorks : RemoveFolder(w)
    \/ \E w \in OwnWorks : InstallWork(w) \/ UninstallWork(w)
    \/ OwnRestart

OwnSpec == OwnInit /\ [][OwnNext]_ownVars
-----------------------------------------------------------------------------
\* A row names pictures that are there.  The check of a save, its row and its removal of what
\* the row does not name are calls of their own, so this is kept up for a row that was written
\* by a save no other save of the work overlapped, and whose folder the prune of the start did
\* not remove, having listed the installations before the work was among them
\* (own_work.rs:171 to 187, artwork.rs:90 and 121).
PicturesAreKept ==
    \A w \in OwnWorks \ disturbed : \A p \in Named(details[w]) : artwork[w][p] # "none"
=============================================================================
