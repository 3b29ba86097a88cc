------------------------------- MODULE MCRaces -------------------------------
(*****************************************************************************)
(* The parts whose handlers and threads interleave most, each checked on a   *)
(* small instance: the download queue, under two callers, the worker, a      *)
(* restart and a failing write, the players of the interface, the pictures   *)
(* of a user's own works, and the classification of folders and prepared     *)
(* packages. They share no state, so a behaviour is about one of them,       *)
(* chosen in the initial state. The threads of the queue are                 *)
(* interchangeable.                                                          *)
(*****************************************************************************)
EXTENDS Naturals, Sequences, FiniteSets, TLC, FiniteSetsExt, DeliveryQueue,
        Playback, OwnWork

Symmetry == Permutations(Workers) \cup Permutations(Callers) \cup Permutations(Works)
\* Bound: four commands, or three and a failing write.
FourEvents == commands + failedSaves <= 4
\* What a user asks to save of a work: a cover and a sample, or the sample alone.
OwnRequests == {[cover |-> c, samples |-> {"p2"}] : c \in {{}, {"p1"}}}
\* How often the user acts in the dock and on the page, and how many commands fail.
PlayerBudgets ==
    {[dock |-> 3, page |-> 0, fails |-> 0], [dock |-> 2, page |-> 0, fails |-> 1],
     [dock |-> 0, page |-> 4, fails |-> 0], [dock |-> 0, page |-> 2, fails |-> 1],
     [dock |-> 1, page |-> 1, fails |-> 0]}

\* The files of the folders: dir, ext, name, slug, numbered, size.
DetectFile(dir, ext, name, slug, numbered, size) ==
    [dir |-> dir, ext |-> ext, name |-> name, slug |-> slug, numbered |-> numbered, size |-> size]
DetectFiles ==
    <<DetectFile(0, "audio", "plain", <<"t">>, TRUE, 4), DetectFile(0, "image", "plain", <<"1">>, TRUE, 4),
      DetectFile(0, "exe", "game", <<"game">>, FALSE, 4), DetectFile(0, "exe", "setup", <<"setup">>, FALSE, 4),
      DetectFile(0, "pdf", "plain", <<"m", "2">>, FALSE, 1), DetectFile(0, "pdf", "plain", <<"m">>, FALSE, 1),
      DetectFile(1, "audio", "plain", <<"t">>, TRUE, 4), DetectFile(1, "image", "plain", <<"2">>, TRUE, 4),
      DetectFile(1, "image", "plain", <<"x">>, FALSE, 4), DetectFile(1, "pdf", "plain", <<"m">>, FALSE, 4),
      DetectFile(1, "video", "plain", <<"m">>, FALSE, 4), DetectFile(1, "apk", "plain", <<"m">>, FALSE, 4),
      DetectFile(0, "archive", "plain", <<"m">>, FALSE, 4), DetectFile(0, "exe", "deceptive", <<"m">>, FALSE, 4)>>
DetectFolders == UNION {kSubset(k, DOMAIN DetectFiles) : k \in 1..3}
DetectPackages == {{2, 6, 8}, {2, 5, 10}, {1, 7, 11}, {3, 9}}
DetectArchive(work, sums, same) == [work |-> work, sums |-> sums, same |-> same]
DetectEvidence ==
    [codes : SUBSET {1, 2},
     archives : {{}, {DetectArchive(1, {"md5"}, TRUE), DetectArchive(2, {"sha256", "md5"}, TRUE)},
                 {DetectArchive(1, {"md5"}, TRUE), DetectArchive(2, {"sha1"}, FALSE)}}]

VARIABLE focus   \* the component this behaviour is about

VARIABLES detect_disk, detect_place, detect_match, detect_found,
          detect_chosen, detect_ignored, detect_row, detect_reader,
          detect_session, detect_moves, detect_installs, detect_met,
          detect_missed, detect_overtaken

E == INSTANCE Detection WITH
    is <- DetectFiles, Folders <- DetectFolders,
    Packages <- DetectPackages, Evidence <- DetectEvidence,
    ImageSetMinimum <- 2, PdfShare <- 4, MaxMoves <- 1, MaxInstalls <- 1,
    disk <- detect_disk, place <- detect_place, match <- detect_match,
    found <- detect_found, chosen <- detect_chosen,
    ignored <- detect_ignored, row <- detect_row, reader <- detect_reader,
    session <- detect_session, moves <- detect_moves,
    installs <- detect_installs, met <- detect_met,
    missed <- detect_missed, overtaken <- detect_overtaken

detect_vars == <<detect_disk, detect_place, detect_match, detect_found,
                 detect_chosen, detect_ignored, detect_row, detect_reader,
                 detect_session, detect_moves, detect_installs, detect_met,
                 detect_missed, detect_overtaken>>

all_vars == <<focus, vars, playVars, ownVars, detect_vars>>

Components == {"delivery", "playback", "own", "detection"}

AllInit ==
    /\ focus \in Components
    /\ Init
    /\ PlayInit
    /\ focus # "playback" => acts = [dock |-> 3, page |-> 0]
    /\ OwnInit
    /\ focus # "own" => installed = {} /\ \A w \in OwnWorks, p \in Pictures : artwork[w][p] = "none"
    /\ \/ focus = "detection" /\ E!Init
       \/ /\ focus # "detection"
          /\ detect_disk = {}
          /\ detect_place = 1
          /\ detect_match = E!NoMatch
          /\ detect_found = E!NotFound
          /\ detect_chosen = E!NoAction
          /\ detect_ignored = {}
          /\ detect_row = E!NoRow
          /\ detect_reader = E!Off
          /\ detect_session = E!NoSession
          /\ detect_moves = 0
          /\ detect_installs = 0
          /\ detect_met = [codes |-> {}, archives |-> {}]
          /\ detect_missed = FALSE
          /\ detect_overtaken = FALSE

DeliveryStep ==
    /\ focus = "delivery" /\ Next
    /\ UNCHANGED <<focus, playVars, ownVars, detect_vars>>

PlaybackStep ==
    /\ focus = "playback" /\ PlayNext
    /\ UNCHANGED <<focus, vars, ownVars, detect_vars>>

OwnStep ==
    /\ focus = "own" /\ OwnNext
    /\ UNCHANGED <<focus, vars, playVars, detect_vars>>

DetectionStep ==
    /\ focus = "detection" /\ E!Next
    /\ UNCHANGED <<focus, vars, playVars, ownVars>>

AllNext == DeliveryStep \/ PlaybackStep \/ OwnStep \/ DetectionStep

AllSpec == AllInit /\ [][AllNext]_all_vars

-----------------------------------------------------------------------------
(* The properties of the components, stated and explained in their modules.  A component *)
(* that is not the focus keeps an initial state, where its invariants need no look.       *)

\* A file is matched, and a folder or a package opened, by what its evidence
\* and its files are.
FilesAreRecognised == focus = "detection" => E!FilesAreRecognised

=============================================================================
