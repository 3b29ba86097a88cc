------------------------------ MODULE MCStorage ------------------------------
(*****************************************************************************)
(* The parts of the launcher that change folders and files on the user's     *)
(* disk, each checked on a small instance and composed as in MCActivities:   *)
(* a behaviour is about one of them, chosen in the initial state. The        *)
(* installations of the package preparation are interchangeable.             *)
(*****************************************************************************)
EXTENDS Naturals, Sequences, FiniteSets, TLC, PackageInstall, Maintenance,
        FolderTransfer, SourceCleanup, Extraction, CoverCache

\* Retention and capacity of the cover cache: the standard ones, and both without an end.
CoverSettings == {[forever |-> b, unlimited |-> b] : b \in BOOLEAN}
\* Answers of the servers: the cover is the same, or one of either size is sent, at once or
\* behind redirects; or too many of them, one to another host, a page, or too much.
Address == [short |-> TRUE, https |-> TRUE, plain |-> TRUE, host |-> "allowed"]
Sends(size) == [hops |-> 0, last |-> Address, status |-> "ok", stated |-> size,
                size |-> size, image |-> TRUE]
CoverExchanges ==
    {Sends(1), Sends(2), [Sends(1) EXCEPT !.hops = 3], [Sends(1) EXCEPT !.hops = 4],
     [Sends(1) EXCEPT !.hops = 1, !.last.host = "other"], [Sends(1) EXCEPT !.image = FALSE],
     [Sends(3) EXCEPT !.stated = 0], [Sends(1) EXCEPT !.status = "not modified"]}
Symmetry == Permutations(Installations)
\* Once an inspection or the cleanup met a preparation, the properties of the package claim
\* nothing (and its TypeOK is a theorem): what follows is not explored.
Unmet == ~intruded

\* Packages to unpack, and what may replace their archive.
Plain(n, size, c) ==
    [name |-> n, dir |-> FALSE, size |-> size, real |-> size, content |-> c, flaw |-> "none"]
WorkFolder == [Plain("work", 0, 1) EXCEPT !.dir = TRUE]
Flawed(f) == <<[Plain("game", 1, 1) EXCEPT !.flaw = f]>>
Replacements == {
    <<WorkFolder, Plain("work/game", 1, 1)>>, <<Plain("game", 2, 2), Plain("work/game", 1, 1)>>,
    <<Plain("game", 0, 1), Plain("work/game", 1, 2), Plain("GAME", 0, 1)>>,
    Flawed("link"), Flawed("encrypted"), <<Plain("game", 1, 1), Plain("../game", 1, 1)>>}
PackageFiles == Replacements \cup {
    <<WorkFolder, Plain("work/game", 1, 2)>>, <<Plain("game", 1, 1), Plain("work/game", 2, 2)>>,
    <<Plain("game", 1, 1)>>, <<Plain("game", 1, 1), Plain("game", 1, 2)>>, <<>>,
    <<Plain(".DLA-STAGE.JSON", 1, 1)>>, <<[Plain("game", 1, 1) EXCEPT !.real = 2]>>,
    <<Plain("game", 2, 1), Plain("work/game", 2, 2)>>}
Tools(first, second) == <<[kind |-> "7z", present |-> first], [kind |-> "unrar", present |-> second]>>
Ask(r, v, k, t, c, f, tools) ==
    [reader |-> r, volumes |-> v, known |-> k, target |-> t, catalog |-> c, folds |-> f, tools |-> tools]
Asked ==
    {Ask("zip", {"v1"}, k, "none", 0, TRUE, Tools(FALSE, FALSE)) : k \in {{}, {"v1"}}}
    \cup {Ask("zip", {"v1"}, {}, "work/game", 2, FALSE, Tools(FALSE, FALSE))}
    \cup {Ask("rar", {"v1", "v2"}, {"v1", "v2"}, "none", 0, TRUE, Tools(a, ~a)) : a \in BOOLEAN}
    \cup {Ask("rar", {"v1"}, {}, "work/game", c, FALSE, Tools(a, TRUE)) : a \in BOOLEAN, c \in {0, 2}}
    \cup {Ask("rar", {"v1"}, {}, "none", 0, FALSE, Tools(FALSE, FALSE))}

VARIABLE focus   \* the component this behaviour is about



all_vars == <<focus, vars, upkeepVars, moveVars, cleanupVars, unpackVars,
              cacheVars>>

Components == {"package", "upkeep", "moves", "archives", "unpacking", "covers"}

AllInit ==
    /\ focus \in Components
    /\ Init
    /\ focus # "package" => placed = {}
    /\ UpkeepInit
    /\ MoveInit
    /\ focus # "moves" => single /\ source = {CHOOSE f \in WorkFiles : TRUE}
    /\ CleanupInit
    /\ UnpackInit
    /\ focus # "unpacking" => <<request, archive, other>> = <<CHOOSE r \in Asked : TRUE, <<>>, Flawed("link")>>
    /\ CacheInit

PackageStep ==
    /\ focus = "package" /\ Next
    /\ UNCHANGED <<focus, upkeepVars, moveVars, cleanupVars, unpackVars,
                   cacheVars>>

UpkeepStep ==
    /\ focus = "upkeep" /\ UpkeepNext
    /\ UNCHANGED <<focus, vars, moveVars, cleanupVars, unpackVars, cacheVars>>

MovesStep ==
    /\ focus = "moves" /\ MoveNext
    /\ UNCHANGED <<focus, vars, upkeepVars, cleanupVars, unpackVars,
                   cacheVars>>

ArchivesStep ==
    /\ focus = "archives" /\ CleanupNext
    /\ UNCHANGED <<focus, vars, upkeepVars, moveVars, unpackVars, cacheVars>>

UnpackingStep ==
    /\ focus = "unpacking" /\ UnpackNext
    /\ UNCHANGED <<focus, vars, upkeepVars, moveVars, cleanupVars, cacheVars>>

CoversStep ==
    /\ focus = "covers" /\ CacheNext
    /\ UNCHANGED <<focus, vars, upkeepVars, moveVars, cleanupVars,
                   unpackVars>>

AllNext ==
    \/ PackageStep
    \/ UpkeepStep
    \/ MovesStep
    \/ ArchivesStep
    \/ UnpackingStep
    \/ CoversStep

AllSpec == AllInit /\ [][AllNext]_all_vars

-----------------------------------------------------------------------------
(* The properties are those of the components, stated and explained in their modules under *)
(* the names the configuration lists.  A component that is not the focus keeps an initial   *)
(* state, in which they hold.                                                               *)
=============================================================================
