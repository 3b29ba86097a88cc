----------------------------- MODULE NativeVideo -----------------------------
(***************************************************************************)
(* The window a video is played in.                                        *)
(*                                                                         *)
(* Source: src-tauri/src/native_video.rs and the commands and window       *)
(* events of commands.rs and lib.rs that call it.  The controller holds    *)
(* one record, `active`, behind a lock that is released between the steps  *)
(* of every operation.  Opening a video and closing its session run on     *)
(* worker threads; the commands about a surface that is shown and the      *)
(* events of the main window run one after another on the main thread.     *)
(***************************************************************************)
EXTENDS Naturals, FiniteSets

CONSTANTS
    Videos,         \* media sessions that play a video
    Surfaces,       \* labels of video windows, a fresh one per open
    Openers,        \* threads in open_native_video
    Closers,        \* threads in close_library_media_session
    Views,          \* viewports the interface asks for
    MaxViews,       \* bound: changes of the viewport
    MaxVideoFaults  \* bound: windows that cannot be positioned, shown or destroyed

VARIABLES
    activeView,          \* the record: label, session and viewport, or None
    window,              \* what each label stands for: "fresh", "hidden", "shown", "gone"
    open,                \* where an open stands
    close,               \* where the closing of a session stands
    main,                \* what the main thread does between two looks at the record
    asked,               \* history: viewports the interface asked for, by label
    views, videoFaults,  \* bounds spent
    stray                \* history: windows left by a failure or by two opens at once

videoVars == <<activeView, window, open, close, main, asked, views, videoFaults, stray>>

None == [label |-> "none"]
NoVideoCall == [at |-> "idle"]

VideoTypeOK ==
    /\ activeView = None \/ /\ activeView.label \in Surfaces /\ activeView.session \in Videos
                            /\ activeView.view \in Views
    /\ window \in [Surfaces -> {"fresh", "hidden", "shown", "gone"}]
    /\ \A o \in Openers : open[o].at \in {"idle", "take", "destroy", "build", "position", "show", "store"}
    /\ \A c \in Closers : close[c].at \in {"idle", "take", "destroy"}
    /\ main.at \in {"idle", "take", "destroy", "position", "record", "reposition"}
    /\ asked \in [Surfaces -> SUBSET Views] /\ stray \subseteq Surfaces
    /\ views \in 0..MaxViews /\ videoFaults \in 0..MaxVideoFaults

VideoInit ==
    /\ activeView = None /\ main = NoVideoCall
    /\ window = [l \in Surfaces |-> "fresh"]
    /\ open = [o \in Openers |-> NoVideoCall] /\ close = [c \in Closers |-> NoVideoCall]
    /\ asked = [l \in Surfaces |-> {}]
    /\ views = 0 /\ videoFaults = 0 /\ stray = {}

Exists(l) == window[l] \in {"hidden", "shown"}
Fault == videoFaults < MaxVideoFaults /\ videoFaults' = videoFaults + 1

\* Windows some call still works on.
Held == {open[o].label : o \in {x \in Openers : open[x].at \in {"destroy", "position", "show", "store"}}}
        \cup {close[c].label : c \in {x \in Closers : close[x].at = "destroy"}}
        \cup (IF main.at = "destroy" THEN {main.label} ELSE {})

-----------------------------------------------------------------------------
(* close_active: the record is taken under the lock, its window destroyed  *)
(* after it.  A window that is gone already is no error.                   *)

Destroy(l, failed) ==
    IF ~Exists(l) THEN ~failed /\ UNCHANGED <<window, videoFaults, stray>>
    ELSE IF failed THEN Fault /\ stray' = stray \cup {l} /\ UNCHANGED window
    ELSE window' = [window EXCEPT ![l] = "gone"] /\ UNCHANGED <<videoFaults, stray>>

-----------------------------------------------------------------------------
(* open, on a worker thread.                                               *)

\* The viewport, the numbers and the asset were found valid.
OpenView(o, s, v) ==
    /\ open[o] = NoVideoCall
    /\ open' = [open EXCEPT ![o] = [at |-> "take", session |-> s, view |-> v]]
    /\ UNCHANGED <<activeView, window, close, main, asked, views, videoFaults, stray>>

OpenTakes(o) ==
    /\ open[o].at = "take"
    /\ IF activeView # None
       THEN /\ activeView' = None
            /\ open' = [open EXCEPT ![o] = [at |-> "destroy", session |-> @.session, view |-> @.view,
                                            label |-> activeView.label]]
       ELSE open' = [open EXCEPT ![o].at = "build"] /\ UNCHANGED activeView
    /\ UNCHANGED <<window, close, main, asked, views, videoFaults, stray>>

OpenDestroys(o, failed) ==
    /\ open[o].at = "destroy"
    /\ Destroy(open[o].label, failed)
    /\ open' = [open EXCEPT ![o] = IF failed THEN NoVideoCall
                  ELSE [at |-> "build", session |-> @.session, view |-> @.view]]
    /\ UNCHANGED <<activeView, close, main, asked, views>>

\* builder.build: a hidden window under a label of its own.
Build(o) ==
    /\ open[o].at = "build"
    /\ \E l \in Surfaces : window[l] = "fresh"
    /\ LET l == CHOOSE k \in Surfaces : window[k] = "fresh"
       IN /\ window' = [window EXCEPT ![l] = "hidden"]
          /\ asked' = [asked EXCEPT ![l] = {open[o].view}]
          /\ open' = [open EXCEPT ![o] = [at |-> "position", session |-> @.session,
                                          view |-> @.view, label |-> l]]
    /\ UNCHANGED <<activeView, close, main, views, videoFaults, stray>>

\* position_video_window and show: when one fails the window stays behind.
PositionOrShow(o, failed) ==
    /\ open[o].at \in {"position", "show"}
    /\ LET l == open[o].label
       IN IF failed
          THEN /\ Fault /\ stray' = stray \cup {l}
               /\ open' = [open EXCEPT ![o] = NoVideoCall] /\ UNCHANGED window
          ELSE /\ window' = IF open[o].at = "position" THEN window
                            ELSE [window EXCEPT ![l] = "shown"]
               /\ open' = [open EXCEPT ![o].at = IF @ = "position" THEN "show" ELSE "store"]
               /\ UNCHANGED <<videoFaults, stray>>
    /\ UNCHANGED <<activeView, close, main, asked, views>>

\* The record is overwritten: of two opens at once the second one wins it, and
\* nobody knows the window of the first any more.
StoreView(o) ==
    /\ open[o].at = "store"
    /\ activeView' = [label |-> open[o].label, session |-> open[o].session, view |-> open[o].view]
    /\ stray' = stray \cup (IF activeView = None THEN {} ELSE {activeView.label})
    /\ open' = [open EXCEPT ![o] = NoVideoCall]
    /\ UNCHANGED <<window, close, main, asked, views, videoFaults>>

-----------------------------------------------------------------------------
(* close, on a worker thread, before the session itself is closed.         *)

CloseView(c, s) ==
    /\ close[c] = NoVideoCall /\ activeView # None /\ activeView.session = s
    /\ close' = [close EXCEPT ![c] = [at |-> "take"]]
    /\ UNCHANGED <<activeView, window, open, main, asked, views, videoFaults, stray>>

\* What is taken is what is there now.
CloseTakes(c) ==
    /\ close[c].at = "take" /\ activeView' = None
    /\ close' = [close EXCEPT ![c] = IF activeView # None THEN [at |-> "destroy", label |-> activeView.label]
                                     ELSE NoVideoCall]
    /\ UNCHANGED <<window, open, main, asked, views, videoFaults, stray>>

CloseDestroys(c, failed) ==
    /\ close[c].at = "destroy" /\ Destroy(close[c].label, failed)
    /\ close' = [close EXCEPT ![c] = NoVideoCall]
    /\ UNCHANGED <<activeView, open, main, asked, views>>

-----------------------------------------------------------------------------
(* The main thread: the commands about a surface, and the window events.   *)

\* active_label: the surface named is the active one.
ActiveLabel(s, l) == activeView # None /\ activeView.session = s /\ activeView.label = l

\* close_surface once its check succeeded, and close_all, which has none.
MainCloses ==
    /\ main = NoVideoCall /\ main' = [at |-> "take"]
    /\ UNCHANGED <<activeView, window, open, close, asked, views, videoFaults, stray>>

MainTakes ==
    /\ main.at = "take" /\ activeView' = None
    /\ main' = IF activeView # None THEN [at |-> "destroy", label |-> activeView.label] ELSE NoVideoCall
    /\ UNCHANGED <<window, open, close, asked, views, videoFaults, stray>>

MainDestroys(failed) ==
    /\ main.at = "destroy" /\ Destroy(main.label, failed) /\ main' = NoVideoCall
    /\ UNCHANGED <<activeView, open, close, asked, views>>

\* update_viewport: the label, the window, and the record once more.
UpdateViewport(s, l, v) ==
    /\ main = NoVideoCall /\ ActiveLabel(s, l)
    /\ views < MaxViews /\ views' = views + 1
    /\ main' = [at |-> "position", session |-> s, label |-> l, view |-> v]
    /\ asked' = [asked EXCEPT ![l] = @ \cup {v}]
    /\ UNCHANGED <<activeView, window, open, close, videoFaults, stray>>

MovesSurface ==
    /\ main.at = "position"
    /\ IF Exists(main.label)
       THEN main' = [main EXCEPT !.at = "record"] ELSE main' = NoVideoCall
    /\ UNCHANGED <<activeView, window, open, close, asked, views, videoFaults, stray>>

\* (Wrong form.) Whatever surface is active now gets the viewport.
StillActive == activeView # None

StillNamed == ActiveLabel(main.session, main.label)

RecordsViewport ==
    /\ main.at = "record" /\ main' = NoVideoCall
    /\ activeView' = IF StillNamed THEN [activeView EXCEPT !.view = main.view] ELSE activeView
    /\ UNCHANGED <<window, open, close, asked, views, videoFaults, stray>>

\* reposition_active: a record whose window is gone is dropped, if it is still
\* there; else the window follows the main window.
Reposition ==
    /\ main = NoVideoCall /\ activeView # None
    /\ main' = [at |-> "reposition", label |-> activeView.label]
    /\ UNCHANGED <<activeView, window, open, close, asked, views, videoFaults, stray>>

Repositions ==
    /\ main.at = "reposition" /\ main' = NoVideoCall
    /\ activeView' = IF ~Exists(main.label) /\ activeView.label = main.label THEN None ELSE activeView
    /\ UNCHANGED <<window, open, close, asked, views, videoFaults, stray>>

VideoNext ==
    \/ \E o \in Openers :
         \/ \E s \in Videos, v \in Views : OpenView(o, s, v)
         \/ OpenTakes(o) \/ Build(o) \/ StoreView(o)
         \/ \E failed \in BOOLEAN : OpenDestroys(o, failed) \/ PositionOrShow(o, failed)
    \/ \E c \in Closers :
         \/ \E s \in Videos : CloseView(c, s)
         \/ CloseTakes(c)
         \/ \E failed \in BOOLEAN : CloseDestroys(c, failed)
    \/ MainCloses \/ MainTakes \/ MovesSurface \/ RecordsViewport \/ Reposition \/ Repositions
    \/ \E failed \in BOOLEAN : MainDestroys(failed)
    \/ \E s \in Videos, l \in Surfaces, v \in Views : UpdateViewport(s, l, v)

VideoSpec == VideoInit /\ [][VideoNext]_videoVars

-----------------------------------------------------------------------------
(* Properties.                                                             *)

\* A video window the user sees is the one the record names, so that it can be
\* closed and follows the main window, or some call still works on it, whatever
\* opens, closes and events overlap; the only others are those a failing window
\* operation left, or the first of two opens at once.  And the viewport the
\* record keeps is one the interface asked for that surface.
SurfaceIsOwned ==
    /\ \A l \in Surfaces : Exists(l) => l \in stray \cup Held \cup {activeView.label}
    /\ activeView # None => activeView.view \in asked[activeView.label]
=============================================================================
