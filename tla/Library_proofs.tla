----------------------------- MODULE Library_proofs -----------------------------
(***************************************************************************)
(* Proofs about the library: what the user plays and how works come into   *)
(* it, for any works, installations, sessions, threads, windows, picks,    *)
(* failures and restarts.                                                  *)
(*                                                                         *)
(* NativeVideo: every window of a video is somebody's. Each one is         *)
(* followed from the call that asked for it to the call that removes it.   *)
(*                                                                         *)
(* Media: two commands never leave two sessions open, and a work goes on   *)
(* where it was left. The saves keep the first by the unique index; for    *)
(* the second, the place of an open session, and the place a command has   *)
(* read, is followed back to the last progress it has seen.                *)
(*                                                                         *)
(* MediaProtocol: what is answered fits the range that was asked for. A    *)
(* range that is refused covers nothing, one that is taken an interval.    *)
(*                                                                         *)
(* Scanner: an installation is created from all that its scan found. What  *)
(* a session accepted is followed from the walk through the batch that     *)
(* waits into the rows of the root, which a later session may take over.   *)
(*                                                                         *)
(* Installations: the library lists every row. A row no overlapping        *)
(* commands wrote is one the store's readers accept, and so is the row     *)
(* each command is about to write.                                         *)
(*                                                                         *)
(* LibraryAdd: a review lists every work once. The sources of a folder are *)
(* looked at together, and what one of them found is claimed from the      *)
(* others.                                                                 *)
(***************************************************************************)
EXTENDS NativeVideo, Media, MediaProtocol, Scanner, Installations, LibraryAdd,
        FiniteSetTheorems, WellFoundedInduction, TLAPS

-----------------------------------------------------------------------------
(* NativeVideo: the inductive invariant.                                   *)

Records == [label : Surfaces, session : Videos, view : Views]
OpenStates ==
    {NoVideoCall} \cup [at : {"take", "build"}, session : Videos, view : Views]
           \cup [at : {"destroy", "position", "show", "store"}, session : Videos, view : Views,
                 label : Surfaces]
CloseStates == {NoVideoCall} \cup [at : {"take"}] \cup [at : {"destroy"}, label : Surfaces]
MainStates ==
    {NoVideoCall} \cup [at : {"take"}] \cup [at : {"destroy", "reposition"}, label : Surfaces]
           \cup [at : {"position", "record"}, session : Videos, label : Surfaces, view : Views]

VideoTypes ==
    /\ activeView \in {None} \cup Records
    /\ window \in [Surfaces -> {"fresh", "hidden", "shown", "gone"}]
    /\ open \in [Openers -> OpenStates] /\ close \in [Closers -> CloseStates]
    /\ main \in MainStates
    /\ asked \in [Surfaces -> SUBSET Views] /\ stray \subseteq Surfaces

\* A label that is in use was built, and its viewport was asked for.
Known(l, v) == window[l] # "fresh" /\ v \in asked[l]

ViewsAreAsked ==
    /\ activeView # None => Known(activeView.label, activeView.view)
    /\ \A o \in Openers : open[o].at \in {"position", "show", "store"} =>
                            Known(open[o].label, open[o].view)
    /\ main.at \in {"position", "record"} => Known(main.label, main.view)

\* Whoever can still close the window.
Owned(l) == l \in stray \cup Held \/ (activeView # None /\ activeView.label = l)

WindowsAreOwned == \A l \in Surfaces : Exists(l) => Owned(l)

VideoIInv == VideoTypes /\ ViewsAreAsked /\ WindowsAreOwned

-----------------------------------------------------------------------------
(* What the records hold, and what leaves the invariant alone.             *)

LEMMA OpenFields ==
    ASSUME NEW x \in OpenStates
    PROVE  /\ x.at \in {"idle", "take", "destroy", "build", "position", "show", "store"}
           /\ x.at # "idle" => x.session \in Videos /\ x.view \in Views
           /\ x.at \in {"destroy", "position", "show", "store"} =>
                x \in [at : {"destroy", "position", "show", "store"}, session : Videos,
                       view : Views, label : Surfaces]
           /\ x.at \in {"take", "build"} =>
                x \in [at : {"take", "build"}, session : Videos, view : Views]
  BY DEF OpenStates, NoVideoCall

LEMMA CloseFields ==
    ASSUME NEW x \in CloseStates
    PROVE  x.at \in {"idle", "take", "destroy"} /\ (x.at = "destroy" => x.label \in Surfaces)
  BY DEF CloseStates, NoVideoCall

LEMMA MainFields ==
    ASSUME NEW x \in MainStates
    PROVE  /\ x.at \in {"idle", "take", "destroy", "position", "record", "reposition"}
           /\ x.at \in {"destroy", "reposition", "position", "record"} => x.label \in Surfaces
           /\ x.at \in {"position", "record"} =>
                x \in [at : {"position", "record"}, session : Videos, label : Surfaces, view : Views]
  BY DEF MainStates, NoVideoCall

\* A window some call still works on, call by call.
OpenHolds(o, l) == open[o].at \in {"destroy", "position", "show", "store"} /\ open[o].label = l
CloseHolds(c, l) == close[c].at = "destroy" /\ close[c].label = l
MainHolds(l) == main.at = "destroy" /\ main.label = l

LEMMA HeldByCall ==
    ASSUME NEW l
    PROVE  l \in Held <=> \/ \E o \in Openers : OpenHolds(o, l)
                          \/ \E c \in Closers : CloseHolds(c, l)
                          \/ MainHolds(l)
  BY DEF Held, OpenHolds, CloseHolds, MainHolds

LEMMA HeldByCallNext ==
    ASSUME NEW l
    PROVE  l \in Held' <=> \/ \E o \in Openers : OpenHolds(o, l)'
                           \/ \E c \in Closers : CloseHolds(c, l)'
                           \/ MainHolds(l)'
  BY DEF Held, OpenHolds, CloseHolds, MainHolds

\* A label that was known stays known while windows are not forgotten and no viewport is.
LEMMA KnownStays ==
    ASSUME NEW l \in Surfaces, NEW v, Known(l, v),
           window'[l] = window[l] \/ window'[l] # "fresh", asked[l] \subseteq asked'[l]
    PROVE  Known(l, v)'
  BY DEF Known

\* Destroying a window ends it, or leaves it to nobody when that fails.
LEMMA Destroys ==
    ASSUME VideoTypes, NEW l \in Surfaces, NEW failed \in BOOLEAN, Destroy(l, failed)
    PROVE  /\ window' \in [Surfaces -> {"fresh", "hidden", "shown", "gone"}]
           /\ stray \subseteq stray' /\ stray' \subseteq Surfaces
           /\ \A k \in Surfaces : window'[k] = window[k] \/ window'[k] = "gone"
           /\ window'[l] \in {"hidden", "shown"} => l \in stray'
  BY DEF VideoTypes, Destroy, Exists

\* A step of one thread lets go only what that thread held.
LEMMA OtherCallsHold ==
    ASSUME NEW l, l \in Held,
           \/ /\ UNCHANGED <<close, main>>
              /\ \E o \in Openers : /\ \A p \in Openers \ {o} : open'[p] = open[p]
                                    /\ ~OpenHolds(o, l) \/ OpenHolds(o, l)'
           \/ /\ UNCHANGED <<open, main>>
              /\ \E c \in Closers : /\ \A d \in Closers \ {c} : close'[d] = close[d]
                                    /\ ~CloseHolds(c, l) \/ CloseHolds(c, l)'
           \/ UNCHANGED <<open, close>> /\ (~MainHolds(l) \/ MainHolds(l)')
    PROVE  l \in Held'
  <1>1. CASE /\ UNCHANGED <<close, main>>
             /\ \E o \in Openers : /\ \A p \in Openers \ {o} : open'[p] = open[p]
                                   /\ ~OpenHolds(o, l) \/ OpenHolds(o, l)'
    BY <1>1, HeldByCall, HeldByCallNext DEF OpenHolds, CloseHolds, MainHolds
  <1>2. CASE /\ UNCHANGED <<open, main>>
             /\ \E c \in Closers : /\ \A d \in Closers \ {c} : close'[d] = close[d]
                                   /\ ~CloseHolds(c, l) \/ CloseHolds(c, l)'
    BY <1>2, HeldByCall, HeldByCallNext DEF OpenHolds, CloseHolds, MainHolds
  <1>3. CASE UNCHANGED <<open, close>> /\ (~MainHolds(l) \/ MainHolds(l)')
    BY <1>3, HeldByCall, HeldByCallNext DEF OpenHolds, CloseHolds, MainHolds
  <1> QED BY <1>1, <1>2, <1>3

-----------------------------------------------------------------------------
(* Each step keeps the invariant: opening.                                 *)

LEMMA OpenKeeps ==
    ASSUME VideoIInv, NEW o \in Openers, NEW s \in Videos, NEW v \in Views, OpenView(o, s, v)
    PROVE  VideoIInv'
  <1> DEFINE x == [at |-> "take", session |-> s, view |-> v]
  <1>1. /\ UNCHANGED <<activeView, window, close, main, asked, stray>>
        /\ open[o].at = "idle" /\ open' = [open EXCEPT ![o] = x]
    BY DEF OpenView, NoVideoCall
  <1>2. /\ open'[o].at = "take" /\ \A p \in Openers \ {o} : open'[p] = open[p]
        /\ open' \in [Openers -> OpenStates]
    BY <1>1 DEF VideoIInv, VideoTypes, OpenStates
  <1>3. VideoTypes' /\ ViewsAreAsked'
    BY <1>1, <1>2 DEF VideoIInv, VideoTypes, ViewsAreAsked, Known
  <1>4. \A l : ~OpenHolds(o, l)
    BY <1>1 DEF OpenHolds
  <1>5. \A l : l \in Held => l \in Held'
    BY <1>1, <1>2, <1>4, OtherCallsHold
  <1> QED BY <1>1, <1>3, <1>5 DEF VideoIInv, WindowsAreOwned, Owned, Exists

LEMMA OpenTakesKeeps ==
    ASSUME VideoIInv, NEW o \in Openers, OpenTakes(o)
    PROVE  VideoIInv'
  <1>1. /\ UNCHANGED <<window, close, main, asked, stray>> /\ open[o].at = "take"
        /\ open[o] \in [at : {"take", "build"}, session : Videos, view : Views]
    BY OpenFields DEF OpenTakes, VideoIInv, VideoTypes
  <1>2. \A l : ~OpenHolds(o, l)
    BY <1>1 DEF OpenHolds
  <1>3. CASE activeView # None
    <2> DEFINE x == [at |-> "destroy", session |-> open[o].session, view |-> open[o].view,
                     label |-> activeView.label]
    <2>1. activeView' = None /\ open' = [open EXCEPT ![o] = x] /\ activeView \in Records
      BY <1>3 DEF OpenTakes, VideoIInv, VideoTypes
    <2>2. x \in OpenStates /\ x.at = "destroy" /\ x.label = activeView.label
      BY <1>1, <2>1 DEF OpenStates, Records
    <2> HIDE DEF x
    <2>3. /\ open'[o] = x /\ \A p \in Openers \ {o} : open'[p] = open[p]
          /\ open' \in [Openers -> OpenStates]
      BY <2>1, <2>2 DEF VideoIInv, VideoTypes
    <2>4. VideoTypes' /\ ViewsAreAsked'
      BY <1>1, <2>1, <2>2, <2>3 DEF VideoIInv, VideoTypes, ViewsAreAsked, Known
    <2>5. \A l : l \in Held => l \in Held'
      BY <1>1, <1>2, <2>3, OtherCallsHold
    <2>6. activeView.label \in Held'
      BY <2>2, <2>3, HeldByCallNext DEF OpenHolds
    <2> QED BY <1>1, <2>4, <2>5, <2>6 DEF VideoIInv, WindowsAreOwned, Owned, Exists
  <1>4. CASE activeView = None
    <2>1. /\ UNCHANGED activeView
          /\ open' = [open EXCEPT ![o] = [open[o] EXCEPT !.at = "build"]]
      BY <1>4 DEF OpenTakes, VideoIInv, VideoTypes
    <2>2. [open[o] EXCEPT !.at = "build"] =
          [at |-> "build", session |-> open[o].session, view |-> open[o].view]
      BY <1>1
    <2>3. /\ open'[o].at = "build" /\ \A p \in Openers \ {o} : open'[p] = open[p]
          /\ open' \in [Openers -> OpenStates]
      BY <1>1, <2>1, <2>2 DEF VideoIInv, VideoTypes, OpenStates
    <2>4. VideoTypes' /\ ViewsAreAsked'
      BY <1>1, <2>1, <2>3 DEF VideoIInv, VideoTypes, ViewsAreAsked, Known
    <2>5. \A l : l \in Held => l \in Held'
      BY <1>1, <1>2, <2>3, OtherCallsHold
    <2> QED BY <1>1, <2>1, <2>4, <2>5 DEF VideoIInv, WindowsAreOwned, Owned, Exists
  <1> QED BY <1>3, <1>4

LEMMA OpenDestroysKeeps ==
    ASSUME VideoIInv, NEW o \in Openers, NEW failed \in BOOLEAN, OpenDestroys(o, failed)
    PROVE  VideoIInv'
  <1> DEFINE l == open[o].label
             x == [at |-> "build", session |-> open[o].session, view |-> open[o].view]
  <1>1. /\ UNCHANGED <<activeView, close, main, asked>> /\ Destroy(l, failed)
        /\ open[o].at = "destroy"
        /\ open' = [open EXCEPT ![o] = IF failed THEN NoVideoCall ELSE x]
    BY DEF OpenDestroys
  <1>2. l \in Surfaces /\ open[o].session \in Videos /\ open[o].view \in Views
    BY <1>1, OpenFields DEF VideoIInv, VideoTypes
  <1>3. /\ open'[o].at \in {"idle", "build"} /\ \A p \in Openers \ {o} : open'[p] = open[p]
        /\ open' \in [Openers -> OpenStates]
    BY <1>1, <1>2 DEF VideoIInv, VideoTypes, OpenStates, NoVideoCall
  <1>4. /\ window' \in [Surfaces -> {"fresh", "hidden", "shown", "gone"}]
        /\ stray \subseteq stray' /\ stray' \subseteq Surfaces
        /\ \A k \in Surfaces : window'[k] = window[k] \/ window'[k] = "gone"
        /\ window'[l] \in {"hidden", "shown"} => l \in stray'
    BY <1>1, <1>2, Destroys DEF VideoIInv
  <1> HIDE DEF l
  <1>5. VideoTypes'
    BY <1>1, <1>3, <1>4 DEF VideoIInv, VideoTypes
  <1>6. ViewsAreAsked'
    BY <1>1, <1>3, <1>4, OpenFields, MainFields DEF VideoIInv, VideoTypes, ViewsAreAsked, Known, Records
  <1>7. \A k : k # l /\ k \in Held => k \in Held'
    <2> SUFFICES ASSUME NEW k, k # l, k \in Held PROVE k \in Held'
      OBVIOUS
    <2>1. ~OpenHolds(o, k)
      BY DEF OpenHolds, l
    <2> QED BY <1>1, <1>3, <2>1, OtherCallsHold
  <1>8. WindowsAreOwned'
    BY <1>1, <1>4, <1>7 DEF VideoIInv, WindowsAreOwned, Owned, Exists
  <1> QED BY <1>5, <1>6, <1>8 DEF VideoIInv


LEMMA BuildKeeps ==
    ASSUME VideoIInv, NEW o \in Openers, Build(o)
    PROVE  VideoIInv'
  <1> DEFINE l == CHOOSE k \in Surfaces : window[k] = "fresh"
             x == [at |-> "position", session |-> open[o].session, view |-> open[o].view, label |-> l]
  <1>1. /\ UNCHANGED <<activeView, close, main, stray>> /\ open[o].at = "build"
        /\ window' = [window EXCEPT ![l] = "hidden"]
        /\ asked' = [asked EXCEPT ![l] = {open[o].view}]
        /\ open' = [open EXCEPT ![o] = x]
    BY DEF Build
  <1>2. l \in Surfaces /\ window[l] = "fresh"
    BY DEF Build
  <1> HIDE DEF l
  <1>3. open[o].session \in Videos /\ open[o].view \in Views
    BY <1>1, OpenFields DEF VideoIInv, VideoTypes
  <1>4. x \in OpenStates /\ x.at = "position" /\ x.label = l /\ x.view = open[o].view
    BY <1>2, <1>3 DEF OpenStates
  <1> HIDE DEF x
  <1>5. /\ open'[o] = x /\ \A p \in Openers \ {o} : open'[p] = open[p]
        /\ open' \in [Openers -> OpenStates]
    BY <1>1, <1>4 DEF VideoIInv, VideoTypes
  <1>6. /\ window'[l] = "hidden" /\ asked'[l] = {open[o].view}
        /\ \A k \in Surfaces \ {l} : window'[k] = window[k] /\ asked'[k] = asked[k]
        /\ window' \in [Surfaces -> {"fresh", "hidden", "shown", "gone"}]
        /\ asked' \in [Surfaces -> SUBSET Views]
    BY <1>1, <1>2, <1>3 DEF VideoIInv, VideoTypes
  <1>7. VideoTypes'
    BY <1>1, <1>5, <1>6 DEF VideoIInv, VideoTypes
  \* The label was unused, so nothing that is known loses its viewports.
  <1>8. \A k, v : k \in Surfaces /\ Known(k, v) => Known(k, v)'
    BY <1>2, <1>6 DEF Known
  <1>9. ViewsAreAsked'
    <2>1. activeView' # None => Known(activeView.label, activeView.view)'
      BY <1>1, <1>8 DEF VideoIInv, VideoTypes, ViewsAreAsked, Records
    <2>2. main'.at \in {"position", "record"} => Known(main.label, main.view)'
      BY <1>1, <1>8, MainFields DEF VideoIInv, VideoTypes, ViewsAreAsked
    <2>4. ASSUME NEW p \in Openers, open'[p].at \in {"position", "show", "store"}
          PROVE  Known(open[p].label, open[p].view)'
      <3>1. CASE p = o
        BY <3>1, <1>4, <1>5, <1>6 DEF Known
      <3>2. CASE p # o
        <4>1. open'[p] = open[p] /\ open[p] \in OpenStates
          BY <3>2, <1>5 DEF VideoIInv, VideoTypes
        <4>2. open[p].label \in Surfaces /\ Known(open[p].label, open[p].view)
          BY <2>4, <4>1, OpenFields DEF VideoIInv, ViewsAreAsked
        <4>3. Known(open[p].label, open[p].view)' <=>
                window'[open[p].label] # "fresh" /\ open[p].view \in asked'[open[p].label]
          BY <4>1 DEF Known
        <4> QED BY <4>2, <4>3, <1>2, <1>6 DEF Known
      <3> QED BY <3>1, <3>2
    <2> QED BY <1>1, <2>1, <2>2, <2>4 DEF ViewsAreAsked
  <1>10. \A k : k \in Held => k \in Held'
    <2>1. \A k : ~OpenHolds(o, k)
      BY <1>1 DEF OpenHolds
    <2> QED BY <1>1, <1>5, <2>1, OtherCallsHold
  <1>11. l \in Held'
    BY <1>4, <1>5, HeldByCallNext DEF OpenHolds
  <1>12. WindowsAreOwned'
    BY <1>1, <1>6, <1>10, <1>11 DEF VideoIInv, WindowsAreOwned, Owned, Exists
  <1> QED BY <1>7, <1>9, <1>12 DEF VideoIInv

LEMMA PositionOrShowKeeps ==
    ASSUME VideoIInv, NEW o \in Openers, NEW failed \in BOOLEAN, PositionOrShow(o, failed)
    PROVE  VideoIInv'
  <1> DEFINE l == open[o].label
  <1>1. /\ UNCHANGED <<activeView, close, main, asked>> /\ open[o].at \in {"position", "show"}
    BY DEF PositionOrShow
  <1>2. /\ l \in Surfaces /\ Known(l, open[o].view)
        /\ open[o] \in [at : {"destroy", "position", "show", "store"}, session : Videos,
                        view : Views, label : Surfaces]
    BY <1>1, OpenFields DEF VideoIInv, VideoTypes, ViewsAreAsked
  <1>3. CASE failed
    <2>1. window' = window /\ stray' = stray \cup {l} /\ open' = [open EXCEPT ![o] = NoVideoCall]
      BY <1>3 DEF PositionOrShow
    <2>2. /\ open'[o].at = "idle" /\ \A p \in Openers \ {o} : open'[p] = open[p]
          /\ open' \in [Openers -> OpenStates]
      BY <2>1 DEF VideoIInv, VideoTypes, OpenStates, NoVideoCall
    <2>3. VideoTypes' /\ ViewsAreAsked'
      BY <1>1, <1>2, <2>1, <2>2 DEF VideoIInv, VideoTypes, ViewsAreAsked, Known
    <2>4. \A k : k # l /\ k \in Held => k \in Held'
      <3> SUFFICES ASSUME NEW k, k # l, k \in Held PROVE k \in Held'
        OBVIOUS
      <3>1. ~OpenHolds(o, k)
        BY DEF OpenHolds
      <3> QED BY <1>1, <2>2, <3>1, OtherCallsHold
    <2> HIDE DEF l
    <2> QED BY <1>1, <2>1, <2>3, <2>4 DEF VideoIInv, WindowsAreOwned, Owned, Exists
  <1>4. CASE ~failed
    <2> DEFINE a == IF open[o].at = "position" THEN "show" ELSE "store"
               x == [at |-> a, session |-> open[o].session, view |-> open[o].view, label |-> l]
    <2>1. /\ UNCHANGED stray
          /\ window' = IF open[o].at = "position" THEN window ELSE [window EXCEPT ![l] = "shown"]
          /\ open' = [open EXCEPT ![o] = [open[o] EXCEPT !.at = a]]
      BY <1>4 DEF PositionOrShow, VideoIInv, VideoTypes
    <2>2. [open[o] EXCEPT !.at = a] = x
      BY <1>2
    <2>3. x \in OpenStates /\ x.at \in {"show", "store"} /\ x.label = l /\ x.view = open[o].view
      BY <1>2 DEF OpenStates
    <2> HIDE DEF x, a, l
    <2>4. /\ open'[o] = x /\ \A p \in Openers \ {o} : open'[p] = open[p]
          /\ open' \in [Openers -> OpenStates]
      BY <2>1, <2>2, <2>3 DEF VideoIInv, VideoTypes
    <2>5. /\ window' \in [Surfaces -> {"fresh", "hidden", "shown", "gone"}]
          /\ \A k \in Surfaces : window'[k] = window[k] \/ (k = l /\ window'[k] = "shown")
      BY <1>2, <2>1 DEF VideoIInv, VideoTypes
    <2>6. VideoTypes'
      BY <1>1, <2>1, <2>4, <2>5 DEF VideoIInv, VideoTypes
    <2>7. ViewsAreAsked'
      <3>2. \A p \in Openers : open'[p].at \in {"position", "show", "store"} =>
               open'[p].label \in Surfaces /\ open'[p].view = open[p].view
                 /\ open'[p].label = open[p].label /\ open[p].at \in {"position", "show", "store"}
        BY <1>1, <1>2, <2>3, <2>4, OpenFields DEF VideoIInv, VideoTypes, l
      <3>3. \A k, v : k \in Surfaces /\ window[k] # "fresh" /\ v \in asked[k]
                                      => window'[k] # "fresh" /\ v \in asked'[k]
        BY <1>1, <2>5
      <3> QED BY <1>1, <3>2, <3>3, MainFields DEF VideoIInv, VideoTypes, ViewsAreAsked, Known, Records
    <2>8. \A k : k \in Held => k \in Held'
      <3>1. \A k : OpenHolds(o, k) => OpenHolds(o, k)'
        BY <2>3, <2>4 DEF OpenHolds, l
      <3> QED BY <1>1, <2>4, <3>1, OtherCallsHold
    <2>9. l \in Held'
      BY <2>3, <2>4, HeldByCallNext DEF OpenHolds
    <2> QED BY <1>1, <2>1, <2>5, <2>6, <2>7, <2>8, <2>9 DEF VideoIInv, WindowsAreOwned, Owned, Exists
  <1> QED BY <1>3, <1>4

LEMMA StoreViewKeeps ==
    ASSUME VideoIInv, NEW o \in Openers, StoreView(o)
    PROVE  VideoIInv'
  <1> DEFINE l == open[o].label
             r == [label |-> l, session |-> open[o].session, view |-> open[o].view]
  <1>1. /\ UNCHANGED <<window, close, main, asked>> /\ open[o].at = "store"
        /\ activeView' = r /\ stray' = stray \cup (IF activeView = None THEN {} ELSE {activeView.label})
        /\ open' = [open EXCEPT ![o] = NoVideoCall]
    BY DEF StoreView
  <1>2. /\ l \in Surfaces /\ Known(l, open[o].view)
        /\ open[o].session \in Videos /\ open[o].view \in Views
    BY <1>1, OpenFields DEF VideoIInv, VideoTypes, ViewsAreAsked
  <1>3. r \in Records /\ r # None /\ r.label = l /\ r.view = open[o].view
    BY <1>2 DEF Records, None
  <1>4. /\ open'[o].at = "idle" /\ \A p \in Openers \ {o} : open'[p] = open[p]
        /\ open' \in [Openers -> OpenStates]
    BY <1>1 DEF VideoIInv, VideoTypes, OpenStates, NoVideoCall
  <1> HIDE DEF r
  <1>5. VideoTypes'
    BY <1>1, <1>3, <1>4 DEF VideoIInv, VideoTypes, Records
  <1>6. ViewsAreAsked'
    BY <1>1, <1>2, <1>3, <1>4 DEF VideoIInv, ViewsAreAsked, Known
  <1>7. \A k : k # l /\ k \in Held => k \in Held'
    <2> SUFFICES ASSUME NEW k, k # l, k \in Held PROVE k \in Held'
      OBVIOUS
    <2>1. ~OpenHolds(o, k)
      BY DEF OpenHolds
    <2> QED BY <1>1, <1>4, <2>1, OtherCallsHold
  <1> HIDE DEF l
  <1>8. WindowsAreOwned'
    BY <1>1, <1>3, <1>7 DEF VideoIInv, WindowsAreOwned, Owned, Exists
  <1> QED BY <1>5, <1>6, <1>8 DEF VideoIInv

-----------------------------------------------------------------------------
(* Each step keeps the invariant: closing.                                 *)

LEMMA CloseViewKeeps ==
    ASSUME VideoIInv, NEW c \in Closers, NEW s \in Videos, CloseView(c, s)
    PROVE  VideoIInv'
  <1>1. /\ UNCHANGED <<activeView, window, open, main, asked, stray>> /\ close[c].at = "idle"
        /\ close' = [close EXCEPT ![c] = [at |-> "take"]]
    BY DEF CloseView, NoVideoCall
  <1>2. /\ \A d \in Closers \ {c} : close'[d] = close[d]
        /\ close' \in [Closers -> CloseStates]
    BY <1>1 DEF VideoIInv, VideoTypes, CloseStates
  <1>3. VideoTypes' /\ ViewsAreAsked'
    BY <1>1, <1>2 DEF VideoIInv, VideoTypes, ViewsAreAsked, Known
  <1>4. \A l : ~CloseHolds(c, l)
    BY <1>1 DEF CloseHolds
  <1>5. \A l : l \in Held => l \in Held'
    BY <1>1, <1>2, <1>4, OtherCallsHold
  <1> QED BY <1>1, <1>3, <1>5 DEF VideoIInv, WindowsAreOwned, Owned, Exists

LEMMA CloseTakesKeeps ==
    ASSUME VideoIInv, NEW c \in Closers, CloseTakes(c)
    PROVE  VideoIInv'
  <1> DEFINE x == IF activeView # None THEN [at |-> "destroy", label |-> activeView.label] ELSE NoVideoCall
  <1>1. /\ UNCHANGED <<window, open, main, asked, stray>> /\ close[c].at = "take"
        /\ activeView' = None /\ close' = [close EXCEPT ![c] = x]
    BY DEF CloseTakes
  <1>2. x \in CloseStates /\ (activeView # None => x.at = "destroy" /\ x.label = activeView.label)
    BY DEF CloseStates, VideoIInv, VideoTypes, Records
  <1> HIDE DEF x
  <1>3. /\ close'[c] = x /\ \A d \in Closers \ {c} : close'[d] = close[d]
        /\ close' \in [Closers -> CloseStates]
    BY <1>1, <1>2 DEF VideoIInv, VideoTypes
  <1>4. VideoTypes' /\ ViewsAreAsked'
    BY <1>1, <1>3 DEF VideoIInv, VideoTypes, ViewsAreAsked, Known
  <1>5. \A l : ~CloseHolds(c, l)
    BY <1>1 DEF CloseHolds
  <1>6. \A l : l \in Held => l \in Held'
    BY <1>1, <1>3, <1>5, OtherCallsHold
  <1>7. activeView # None => activeView.label \in Held'
    BY <1>2, <1>3, HeldByCallNext DEF CloseHolds
  <1> QED BY <1>1, <1>4, <1>6, <1>7 DEF VideoIInv, WindowsAreOwned, Owned, Exists

LEMMA CloseDestroysKeeps ==
    ASSUME VideoIInv, NEW c \in Closers, NEW failed \in BOOLEAN, CloseDestroys(c, failed)
    PROVE  VideoIInv'
  <1> DEFINE l == close[c].label
  <1>1. /\ UNCHANGED <<activeView, open, main, asked>> /\ Destroy(l, failed)
        /\ close[c].at = "destroy" /\ close' = [close EXCEPT ![c] = NoVideoCall]
    BY DEF CloseDestroys
  <1>2. l \in Surfaces
    BY <1>1, CloseFields DEF VideoIInv, VideoTypes
  <1>3. /\ \A d \in Closers \ {c} : close'[d] = close[d]
        /\ close' \in [Closers -> CloseStates]
    BY <1>1 DEF VideoIInv, VideoTypes, CloseStates
  <1>4. /\ window' \in [Surfaces -> {"fresh", "hidden", "shown", "gone"}]
        /\ stray \subseteq stray' /\ stray' \subseteq Surfaces
        /\ \A k \in Surfaces : window'[k] = window[k] \/ window'[k] = "gone"
        /\ window'[l] \in {"hidden", "shown"} => l \in stray'
    BY <1>1, <1>2, Destroys DEF VideoIInv
  <1>5. \A k : k # l /\ k \in Held => k \in Held'
    <2> SUFFICES ASSUME NEW k, k # l, k \in Held PROVE k \in Held'
      OBVIOUS
    <2>1. ~CloseHolds(c, k)
      BY DEF CloseHolds
    <2> QED BY <1>1, <1>3, <2>1, OtherCallsHold
  <1> HIDE DEF l
  <1>6. VideoTypes'
    BY <1>1, <1>3, <1>4 DEF VideoIInv, VideoTypes
  <1>7. ViewsAreAsked'
    BY <1>1, <1>4, OpenFields, MainFields DEF VideoIInv, VideoTypes, ViewsAreAsked, Known, Records
  <1>8. WindowsAreOwned'
    BY <1>1, <1>4, <1>5 DEF VideoIInv, WindowsAreOwned, Owned, Exists
  <1> QED BY <1>6, <1>7, <1>8 DEF VideoIInv

-----------------------------------------------------------------------------
(* Each step keeps the invariant: the main thread.                         *)

LEMMA MainClosesKeeps ==
    ASSUME VideoIInv, MainCloses
    PROVE  VideoIInv'
  <1>1. /\ UNCHANGED <<activeView, window, open, close, asked, stray>>
        /\ main.at = "idle" /\ main' = [at |-> "take"]
    BY DEF MainCloses, NoVideoCall
  <1>2. VideoTypes' /\ ViewsAreAsked'
    BY <1>1 DEF VideoIInv, VideoTypes, ViewsAreAsked, Known, MainStates
  <1>3. \A l : l \in Held => l \in Held'
    BY <1>1, OtherCallsHold DEF MainHolds
  <1> QED BY <1>1, <1>2, <1>3 DEF VideoIInv, WindowsAreOwned, Owned, Exists

LEMMA MainTakesKeeps ==
    ASSUME VideoIInv, MainTakes
    PROVE  VideoIInv'
  <1> DEFINE x == IF activeView # None THEN [at |-> "destroy", label |-> activeView.label] ELSE NoVideoCall
  <1>1. /\ UNCHANGED <<window, open, close, asked, stray>> /\ main.at = "take"
        /\ activeView' = None /\ main' = x
    BY DEF MainTakes
  <1>2. /\ x \in MainStates /\ x.at \in {"destroy", "idle"}
        /\ activeView # None => x.at = "destroy" /\ x.label = activeView.label
    BY DEF MainStates, VideoIInv, VideoTypes, Records, NoVideoCall
  <1> HIDE DEF x
  <1>3. VideoTypes' /\ ViewsAreAsked'
    BY <1>1, <1>2 DEF VideoIInv, VideoTypes, ViewsAreAsked, Known
  <1>4. \A l : l \in Held => l \in Held'
    BY <1>1, OtherCallsHold DEF MainHolds
  <1>5. activeView # None => activeView.label \in Held'
    BY <1>1, <1>2, HeldByCallNext DEF MainHolds
  <1> QED BY <1>1, <1>3, <1>4, <1>5 DEF VideoIInv, WindowsAreOwned, Owned, Exists

LEMMA MainDestroysKeeps ==
    ASSUME VideoIInv, NEW failed \in BOOLEAN, MainDestroys(failed)
    PROVE  VideoIInv'
  <1> DEFINE l == main.label
  <1>1. /\ UNCHANGED <<activeView, open, close, asked>> /\ Destroy(l, failed)
        /\ main.at = "destroy" /\ main' = NoVideoCall
    BY DEF MainDestroys
  <1>2. l \in Surfaces
    BY <1>1, MainFields DEF VideoIInv, VideoTypes
  <1>3. /\ window' \in [Surfaces -> {"fresh", "hidden", "shown", "gone"}]
        /\ stray \subseteq stray' /\ stray' \subseteq Surfaces
        /\ \A k \in Surfaces : window'[k] = window[k] \/ window'[k] = "gone"
        /\ window'[l] \in {"hidden", "shown"} => l \in stray'
    BY <1>1, <1>2, Destroys DEF VideoIInv
  <1>4. \A k : k # l /\ k \in Held => k \in Held'
    <2> SUFFICES ASSUME NEW k, k # l, k \in Held PROVE k \in Held'
      OBVIOUS
    <2>1. ~MainHolds(k)
      BY DEF MainHolds
    <2> QED BY <1>1, <2>1, OtherCallsHold
  <1> HIDE DEF l
  <1>5. VideoTypes'
    BY <1>1, <1>3 DEF VideoIInv, VideoTypes, MainStates
  <1>6. ViewsAreAsked'
    BY <1>1, <1>3, OpenFields DEF VideoIInv, VideoTypes, ViewsAreAsked, Known, Records, NoVideoCall
  <1>7. WindowsAreOwned'
    BY <1>1, <1>3, <1>4 DEF VideoIInv, WindowsAreOwned, Owned, Exists
  <1> QED BY <1>5, <1>6, <1>7 DEF VideoIInv

LEMMA UpdateViewportKeeps ==
    ASSUME VideoIInv, NEW s \in Videos, NEW l \in Surfaces, NEW v \in Views, UpdateViewport(s, l, v)
    PROVE  VideoIInv'
  <1> DEFINE x == [at |-> "position", session |-> s, label |-> l, view |-> v]
  <1>1. /\ UNCHANGED <<activeView, window, open, close, stray>> /\ main.at = "idle"
        /\ activeView # None /\ activeView.label = l /\ main' = x
        /\ asked' = [asked EXCEPT ![l] = asked[l] \cup {v}]
    BY DEF UpdateViewport, ActiveLabel, NoVideoCall
  <1>2. x \in MainStates /\ x.at = "position" /\ x.label = l /\ x.view = v
    BY DEF MainStates
  <1> HIDE DEF x
  <1>3. /\ asked' \in [Surfaces -> SUBSET Views] /\ v \in asked'[l]
        /\ \A k \in Surfaces : asked[k] \subseteq asked'[k]
    BY <1>1 DEF VideoIInv, VideoTypes
  <1>4. VideoTypes'
    BY <1>1, <1>2, <1>3 DEF VideoIInv, VideoTypes
  <1>5. ViewsAreAsked'
    BY <1>1, <1>2, <1>3, OpenFields DEF VideoIInv, VideoTypes, ViewsAreAsked, Known, Records
  <1>6. \A k : k \in Held => k \in Held'
    BY <1>1, OtherCallsHold DEF MainHolds
  <1> QED BY <1>1, <1>4, <1>5, <1>6 DEF VideoIInv, WindowsAreOwned, Owned, Exists

LEMMA MovesSurfaceKeeps ==
    ASSUME VideoIInv, MovesSurface
    PROVE  VideoIInv'
  <1>1. /\ UNCHANGED <<activeView, window, open, close, asked, stray>> /\ main.at = "position"
    BY DEF MovesSurface
  <1>2. main \in [at : {"position", "record"}, session : Videos, label : Surfaces, view : Views]
    BY <1>1, MainFields DEF VideoIInv, VideoTypes
  <1> DEFINE x == [at |-> "record", session |-> main.session, label |-> main.label,
                   view |-> main.view]
  <1>3. [main EXCEPT !.at = "record"] = x
    BY <1>2
  <1>4. main' = x \/ main' = NoVideoCall
    BY <1>3 DEF MovesSurface
  <1>5. /\ x \in MainStates /\ NoVideoCall \in MainStates /\ NoVideoCall.at = "idle" /\ x.at = "record"
        /\ x.label = main.label /\ x.view = main.view
    BY <1>2 DEF MainStates, NoVideoCall
  <1> HIDE DEF x
  <1>6. VideoTypes' /\ ViewsAreAsked'
    BY <1>1, <1>4, <1>5 DEF VideoIInv, VideoTypes, ViewsAreAsked, Known
  <1>7. \A l : l \in Held => l \in Held'
    BY <1>1, OtherCallsHold DEF MainHolds
  <1> QED BY <1>1, <1>6, <1>7 DEF VideoIInv, WindowsAreOwned, Owned, Exists

LEMMA RecordsViewportKeeps ==
    ASSUME VideoIInv, RecordsViewport
    PROVE  VideoIInv'
  <1>1. /\ UNCHANGED <<window, open, close, asked, stray>> /\ main.at = "record" /\ main' = NoVideoCall
        /\ activeView' = IF StillNamed THEN [activeView EXCEPT !.view = main.view] ELSE activeView
    BY DEF RecordsViewport
  <1>2. main.label \in Surfaces /\ main.view \in Views /\ Known(main.label, main.view)
    BY <1>1, MainFields DEF VideoIInv, VideoTypes, ViewsAreAsked
  <1>3. \A l : l \in Held => l \in Held'
    BY <1>1, OtherCallsHold DEF MainHolds
  <1>4. NoVideoCall \in MainStates /\ NoVideoCall.at = "idle"
    BY DEF MainStates, NoVideoCall
  <1>5. CASE StillNamed
    <2>1. activeView \in Records /\ activeView.label = main.label
      BY <1>5 DEF StillNamed, ActiveLabel, VideoIInv, VideoTypes
    <2>2. activeView' = [label |-> activeView.label, session |-> activeView.session, view |-> main.view]
      BY <1>1, <1>5, <2>1 DEF Records
    <2>3. activeView' \in Records /\ activeView'.label = activeView.label /\ activeView'.view = main.view
          /\ activeView' # None
      BY <1>2, <2>1, <2>2 DEF Records, None
    <2>4. activeView # None
      BY <1>5 DEF StillNamed, ActiveLabel
    <2>5. VideoTypes' /\ ViewsAreAsked'
      BY <1>1, <1>2, <1>4, <2>1, <2>3 DEF VideoIInv, VideoTypes, ViewsAreAsked, Known
    <2> QED BY <1>1, <1>3, <2>3, <2>4, <2>5 DEF VideoIInv, WindowsAreOwned, Owned, Exists
  <1>6. CASE ~StillNamed
    <2>1. VideoTypes' /\ ViewsAreAsked'
      BY <1>1, <1>4, <1>6 DEF VideoIInv, VideoTypes, ViewsAreAsked, Known
    <2> QED BY <1>1, <1>3, <1>6, <2>1 DEF VideoIInv, WindowsAreOwned, Owned, Exists
  <1> QED BY <1>5, <1>6

LEMMA RepositionKeeps ==
    ASSUME VideoIInv, Reposition
    PROVE  VideoIInv'
  <1> DEFINE x == [at |-> "reposition", label |-> activeView.label]
  <1>1. /\ UNCHANGED <<activeView, window, open, close, asked, stray>> /\ main.at = "idle"
        /\ activeView # None /\ main' = x
    BY DEF Reposition, NoVideoCall
  <1>2. x \in MainStates /\ x.at = "reposition"
    BY <1>1 DEF VideoIInv, VideoTypes, MainStates, Records
  <1> HIDE DEF x
  <1>3. VideoTypes' /\ ViewsAreAsked'
    BY <1>1, <1>2 DEF VideoIInv, VideoTypes, ViewsAreAsked, Known
  <1>4. \A l : l \in Held => l \in Held'
    BY <1>1, OtherCallsHold DEF MainHolds
  <1> QED BY <1>1, <1>3, <1>4 DEF VideoIInv, WindowsAreOwned, Owned, Exists

\* The record that is dropped names a window that is gone.
LEMMA RepositionsKeeps ==
    ASSUME VideoIInv, Repositions
    PROVE  VideoIInv'
  <1>1. /\ UNCHANGED <<window, open, close, asked, stray>> /\ main.at = "reposition" /\ main' = NoVideoCall
        /\ activeView' = IF ~Exists(main.label) /\ activeView.label = main.label THEN None ELSE activeView
    BY DEF Repositions
  <1>2. \A l : l \in Held => l \in Held'
    BY <1>1, OtherCallsHold DEF MainHolds
  <1>3. NoVideoCall \in MainStates /\ NoVideoCall.at = "idle"
    BY DEF MainStates, NoVideoCall
  <1>4. VideoTypes' /\ ViewsAreAsked'
    BY <1>1, <1>3 DEF VideoIInv, VideoTypes, ViewsAreAsked, Known
  <1> QED BY <1>1, <1>2, <1>4 DEF VideoIInv, WindowsAreOwned, Owned, Exists

-----------------------------------------------------------------------------
(* The theorems.                                                           *)

LEMMA VideoInitHolds == VideoInit => VideoIInv
  BY DEF VideoInit, VideoIInv, VideoTypes, ViewsAreAsked, WindowsAreOwned, Owned, Exists, NoVideoCall, None,
         OpenStates, CloseStates, MainStates

LEMMA StutterKeeps ==
    ASSUME VideoIInv, UNCHANGED videoVars
    PROVE  VideoIInv'
  <1>1. UNCHANGED <<activeView, window, open, close, main, asked, stray>>
    BY DEF videoVars
  <1>2. \A l : l \in Held => l \in Held'
    BY <1>1, OtherCallsHold DEF MainHolds
  <1> QED BY <1>1, <1>2 DEF VideoIInv, VideoTypes, ViewsAreAsked, Known, WindowsAreOwned, Owned, Exists

\* Every window belongs to the record, to a call or to a failure, and every viewport that is
\* kept was asked for, after every step of the two worker threads and of the main thread.
THEOREM VideoInductive == VideoSpec => []VideoIInv
  <1>1. VideoInit => VideoIInv
    BY VideoInitHolds
  <1>2. ASSUME VideoIInv, [VideoNext]_videoVars PROVE VideoIInv'
    <2>1. CASE UNCHANGED videoVars
      BY <1>2, <2>1, StutterKeeps
    <2>2. ASSUME NEW o \in Openers,
                 \/ \E s \in Videos, v \in Views : OpenView(o, s, v)
                 \/ OpenTakes(o) \/ Build(o) \/ StoreView(o)
                 \/ \E failed \in BOOLEAN : OpenDestroys(o, failed) \/ PositionOrShow(o, failed)
          PROVE  VideoIInv'
      BY <1>2, <2>2, OpenKeeps, OpenTakesKeeps, BuildKeeps, StoreViewKeeps, OpenDestroysKeeps,
         PositionOrShowKeeps
    <2>3. ASSUME NEW c \in Closers,
                 \/ \E s \in Videos : CloseView(c, s)
                 \/ CloseTakes(c)
                 \/ \E failed \in BOOLEAN : CloseDestroys(c, failed)
          PROVE  VideoIInv'
      BY <1>2, <2>3, CloseViewKeeps, CloseTakesKeeps, CloseDestroysKeeps
    <2>4. CASE \/ MainCloses \/ MainTakes \/ MovesSurface \/ RecordsViewport \/ Reposition
               \/ Repositions
      BY <1>2, <2>4, MainClosesKeeps, MainTakesKeeps, MovesSurfaceKeeps, RecordsViewportKeeps,
         RepositionKeeps, RepositionsKeeps
    <2>5. CASE \E failed \in BOOLEAN : MainDestroys(failed)
      BY <1>2, <2>5, MainDestroysKeeps
    <2>6. CASE \E s \in Videos, l \in Surfaces, v \in Views : UpdateViewport(s, l, v)
      BY <1>2, <2>6, UpdateViewportKeeps
    <2> QED BY <1>2, <2>1, <2>2, <2>3, <2>4, <2>5, <2>6 DEF VideoNext
  <1> QED BY <1>1, <1>2, PTL DEF VideoSpec

\* A video window the user sees is the active one, or some call still works on it, or a failing
\* window operation or a second open left it: no close and no event loses one.  And the record
\* keeps only viewports the interface asked for that window (native_video.rs).
THEOREM SurfaceStaysOwned == VideoSpec => []SurfaceIsOwned
  <1>1. VideoIInv => SurfaceIsOwned
    BY DEF VideoIInv, ViewsAreAsked, Known, WindowsAreOwned, Owned, SurfaceIsOwned
  <1> QED BY <1>1, VideoInductive, PTL

\* The records of the threads and of the controller are of their kinds, and the bounds hold.
THEOREM VideoTypeCorrect == ASSUME MaxViews \in Nat, MaxVideoFaults \in Nat PROVE VideoSpec => []VideoTypeOK
  <1> DEFINE Bounds == views \in 0..MaxViews /\ videoFaults \in 0..MaxVideoFaults
  <1> SUFFICES ASSUME MaxViews \in Nat, MaxVideoFaults \in Nat PROVE VideoSpec => []VideoTypeOK
    OBVIOUS
  <1>1. VideoInit => Bounds
    BY DEF VideoInit
  <1>2. ASSUME Bounds, [VideoNext]_videoVars PROVE Bounds'
    <2>1. CASE UNCHANGED videoVars
      BY <1>2, <2>1 DEF videoVars
    <2>2. ASSUME NEW o \in Openers,
                 \/ \E s \in Videos, v \in Views : OpenView(o, s, v)
                 \/ OpenTakes(o) \/ Build(o) \/ StoreView(o)
                 \/ \E failed \in BOOLEAN : OpenDestroys(o, failed) \/ PositionOrShow(o, failed)
          PROVE  Bounds'
      <3>1. UNCHANGED views /\ (UNCHANGED videoFaults \/ Fault)
        BY <2>2 DEF OpenView, OpenTakes, Build, StoreView, OpenDestroys, PositionOrShow, Destroy
      <3> QED BY <1>2, <3>1 DEF Fault
    <2>3. ASSUME NEW c \in Closers,
                 \/ \E s \in Videos : CloseView(c, s)
                 \/ CloseTakes(c)
                 \/ \E failed \in BOOLEAN : CloseDestroys(c, failed)
          PROVE  Bounds'
      <3>1. UNCHANGED views /\ (UNCHANGED videoFaults \/ Fault)
        BY <2>3 DEF CloseView, CloseTakes, CloseDestroys, Destroy
      <3> QED BY <1>2, <3>1 DEF Fault
    <2>4. CASE \/ MainCloses \/ MainTakes \/ MovesSurface \/ RecordsViewport \/ Reposition
               \/ Repositions
      BY <1>2, <2>4 DEF MainCloses, MainTakes, MovesSurface, RecordsViewport, Reposition, Repositions
    <2>5. CASE \E failed \in BOOLEAN : MainDestroys(failed)
      BY <1>2, <2>5 DEF MainDestroys, Destroy, Fault
    <2>6. CASE \E s \in Videos, l \in Surfaces, v \in Views : UpdateViewport(s, l, v)
      BY <1>2, <2>6 DEF UpdateViewport
    <2> QED BY <1>2, <2>1, <2>2, <2>3, <2>4, <2>5, <2>6 DEF VideoNext
  <1>3. VideoIInv /\ Bounds => VideoTypeOK
    <2> SUFFICES ASSUME VideoIInv, Bounds PROVE VideoTypeOK
      OBVIOUS
    <2>1. activeView = None \/ (activeView.label \in Surfaces /\ activeView.session \in Videos
                                  /\ activeView.view \in Views)
      BY DEF VideoIInv, VideoTypes, Records
    <2>2. \A o \in Openers : open[o].at \in {"idle", "take", "destroy", "build", "position",
                                             "show", "store"}
      BY OpenFields DEF VideoIInv, VideoTypes
    <2>3. \A c \in Closers : close[c].at \in {"idle", "take", "destroy"}
      BY CloseFields DEF VideoIInv, VideoTypes
    <2>4. main.at \in {"idle", "take", "destroy", "position", "record", "reposition"}
      BY MainFields DEF VideoIInv, VideoTypes
    <2> QED BY <2>1, <2>2, <2>3, <2>4 DEF VideoIInv, VideoTypes, VideoTypeOK
  <1> QED BY <1>1, <1>2, <1>3, VideoInductive, PTL DEF VideoSpec

-----------------------------------------------------------------------------
(* Media: the inductive invariant.                                         *)

\* What a session that exists holds, and what a place does.
IsSession(s) ==
    /\ s = [kind |-> s.kind, inst |-> s.inst, status |-> s.status, items |-> s.items,
            at |-> s.at, pos |-> s.pos, done |-> s.done]
    /\ s.kind \in {"work", Voice} /\ (s.kind = "work" => s.inst \in Installs)
    /\ s.status \in SessionStatuses \ {"absent"} /\ s.done \in BOOLEAN
IsOpenPlace(p) == p = [inst |-> p.inst, path |-> p.path, pos |-> p.pos, done |-> FALSE]

SessionsStand ==
    /\ DOMAIN session = Sessions /\ DOMAIN call = Callers
    /\ DOMAIN queue = Scopes /\ DOMAIN last = Installs
    /\ \A s \in Sessions : session[s] = NoSession \/ IsSession(session[s])
    /\ \A i \in Installs : last[i] = NoPlace \/ IsOpenPlace(last[i])

\* What a command has read and is about to save.
CallStands(r) ==
    \/ r = Idle
    \/ /\ r.op \in {"create", "close", "settings", "progress"}
       /\ r.id \in Sessions /\ IsSession(r.copy)
       /\ r.op = "create" => r.copy.status = "active"
       /\ r.op = "settings" => r.copy.status \in Open
       /\ r.op = "close" => r.copy.status \notin Open
       /\ r.op = "progress" => r.copy.done \/ r.copy.status \in Open
       /\ r.op = "progress" /\ r.copy.done => r.copy.status \notin Open

\* An open session of a work is where its last progress was.
OpenIsThere ==
    \A s \in Sessions :
        /\ session[s].status \in Open /\ session[s].kind = "work"
        /\ last[session[s].inst] # NoPlace /\ session[s].inst \notin raced
        => Place(session[s]) = last[session[s].inst]

\* So is what a command writes back, and what a new session takes up, of the place of the
\* last progress the command saw.
CopyIsThere(r) ==
    /\ r.op \in {"close", "settings"} /\ r.copy.kind = "work"
    /\ r.copy.inst \notin raced /\ r.seen # NoPlace
    => Place(r.copy) = r.seen
NewTakesUp(r) ==
    /\ r.op = "create" /\ r.copy.kind = "work"
    /\ r.copy.inst \notin raced /\ Usable(r.seen, r.copy.items)
    => Place(r.copy) = r.seen

CallsAgree == \A c \in Callers : CallStands(call[c]) /\ CopyIsThere(call[c]) /\ NewTakesUp(call[c])

MediaIInv == SessionsStand /\ CallsAgree /\ OneOpenSession /\ PlaceIsKept /\ OpenIsThere

-----------------------------------------------------------------------------
(* What a new session and a session that is written back hold.             *)


LEMMA NewIsSession ==
    ASSUME NEW kind \in {"work", Voice}, NEW i, kind = "work" => i \in Installs,
           NEW items, NEW queued, NEW resumed,
           NEW s, s = NewSession(kind, i, items, queued, resumed)
    PROVE  /\ IsSession(s) /\ s.kind = kind /\ s.inst = i /\ s.items = items
           /\ s.status = "active"
  <1> DEFINE start == Start(items, queued, resumed)
  <1>1. s =
          [kind |-> kind, inst |-> i, status |-> "active", items |-> items,
           at |-> start.at, pos |-> start.pos, done |-> FALSE]
    BY DEF NewSession
  <1> HIDE DEF start
  <1>2. QED
    BY <1>1 DEF IsSession, SessionStatuses, Open

\* initial_progress takes up a place whose file is there.
LEMMA PlaceTakenUp ==
    ASSUME NEW i \in Installs, NEW items, NEW queued, NEW resumed,
           IsOpenPlace(queued), Usable(queued, items)
    PROVE  Place(NewSession("work", i, items, queued, resumed)) = queued
  <1> DEFINE from == CHOOSE k \in DOMAIN items :
                        items[k].inst = queued.inst /\ items[k].path = queued.path
  <1>1. items[from].inst = queued.inst /\ items[from].path = queued.path
    BY DEF Usable
  <1>2. Start(items, queued, resumed) = [at |-> from, pos |-> queued.pos]
    BY DEF Start
  <1> HIDE DEF from
  <1>3. NewSession("work", i, items, queued, resumed) =
          [kind |-> "work", inst |-> i, status |-> "active", items |-> items,
           at |-> from, pos |-> queued.pos, done |-> FALSE]
    BY <1>2 DEF NewSession
  <1> DEFINE new == NewSession("work", i, items, queued, resumed)
  <1>4. new.items = items /\ new.at = from /\ new.pos = queued.pos /\ new.done = FALSE
    BY <1>3
  <1> HIDE DEF new
  <1>5. Place(new) = [inst |-> items[from].inst, path |-> items[from].path,
                      pos |-> queued.pos, done |-> FALSE]
    BY <1>4 DEF Place
  <1>6. Place(new) = queued
    BY <1>1, <1>5 DEF IsOpenPlace
  <1>7. QED
    BY <1>6 DEF new

\* A session that is closed keeps its place, and so does one whose settings change.
LEMMA ClosedIsSession ==
    ASSUME NEW s, IsSession(s), NEW status \in SessionStatuses \ {"absent"},
           NEW t, t = [s EXCEPT !.status = status]
    PROVE  /\ IsSession(t) /\ t.status = status /\ t.kind = s.kind /\ t.inst = s.inst
           /\ t.done = s.done /\ Place(t) = Place(s)
  <1>1. t =
          [kind |-> s.kind, inst |-> s.inst, status |-> status, items |-> s.items,
           at |-> s.at, pos |-> s.pos, done |-> s.done]
    BY DEF IsSession
  <1>2. QED
    BY <1>1 DEF IsSession, Place

\* A progress is at a file of the session, and completes it or leaves it open.
LEMMA ProgressIsSession ==
    ASSUME NEW s, IsSession(s), NEW at, NEW pos, NEW status \in {"active", "paused", "completed"},
           NEW t, t = Advanced(s, at, pos, status)
    PROVE  /\ IsSession(t) /\ t.status = status /\ t.kind = s.kind /\ t.inst = s.inst
           /\ t.done <=> status = "completed"
  <1> DEFINE D == (status = "completed")
  <1>1. D \in BOOLEAN
    OBVIOUS
  <1> HIDE DEF D
  <1>2. [s EXCEPT !.at = at, !.pos = pos, !.status = status, !.done = D] =
          [kind |-> s.kind, inst |-> s.inst, status |-> status, items |-> s.items,
           at |-> at, pos |-> pos, done |-> D]
    <2> DEFINE R(st, a, p, d) == [kind |-> s.kind, inst |-> s.inst, status |-> st,
                                  items |-> s.items, at |-> a, pos |-> p, done |-> d]
    <2>1. s = R(s.status, s.at, s.pos, s.done)
      BY DEF IsSession
    <2>2. \A st, a, p, d :
            /\ [R(st, a, p, d) EXCEPT !.at = at] = R(st, at, p, d)
            /\ [R(st, a, p, d) EXCEPT !.pos = pos] = R(st, a, pos, d)
            /\ [R(st, a, p, d) EXCEPT !.status = status] = R(status, a, p, d)
            /\ [R(st, a, p, d) EXCEPT !.done = D] = R(st, a, p, D)
      OBVIOUS
    <2> HIDE DEF R
    <2> DEFINE s1 == [s EXCEPT !.at = at]
               s2 == [s1 EXCEPT !.pos = pos]
               s3 == [s2 EXCEPT !.status = status]
    <2>3. [s EXCEPT !.at = at, !.pos = pos, !.status = status, !.done = D]
             = [s3 EXCEPT !.done = D]
      OBVIOUS
    <2>4. s1 = R(s.status, at, s.pos, s.done)
      BY <2>1, <2>2
    <2> HIDE DEF s1
    <2>5. s2 = R(s.status, at, pos, s.done)
      BY <2>2, <2>4
    <2> HIDE DEF s2
    <2>6. s3 = R(status, at, pos, s.done)
      BY <2>2, <2>5
    <2> HIDE DEF s3
    <2>7. [s3 EXCEPT !.done = D] = R(status, at, pos, D)
      BY <2>2, <2>6
    <2>8. QED
      BY <2>3, <2>7 DEF R
  <1>3. t = [kind |-> s.kind, inst |-> s.inst, status |-> status, items |-> s.items,
             at |-> at, pos |-> pos, done |-> D]
    BY <1>2, Zenon DEF D, Advanced
  <1>4. IsSession(t) /\ t.status = status /\ t.kind = s.kind /\ t.inst = s.inst /\ t.done = D
    BY <1>1, <1>3 DEF IsSession, SessionStatuses, Open
  <1>5. D <=> status = "completed"
    BY DEF D
  <1>6. QED
    BY <1>4, <1>5, Zenon

-----------------------------------------------------------------------------
(* What a step that saves nothing keeps.                                   *)

\* A command reads, and leaves rows and places alone.
LEMMA CallKeeps ==
    ASSUME MediaIInv, UNCHANGED <<session, queue, last, raced>>,
           NEW c \in Callers, NEW r, call' = [call EXCEPT ![c] = r],
           CallStands(r), CopyIsThere(r), NewTakesUp(r)
    PROVE  MediaIInv'
  <1>1. SessionsStand'
    BY DEF MediaIInv, SessionsStand
  <1>2. CallsAgree'
    <2>1. ASSUME NEW d \in Callers
          PROVE  CallStands(call'[d]) /\ CopyIsThere(call'[d]) /\ NewTakesUp(call'[d])
      <3>1. call'[d] = IF d = c THEN r ELSE call[d]
        BY DEF MediaIInv, SessionsStand
      <3>2. QED
        BY <3>1 DEF MediaIInv, CallsAgree
    <2>2. QED
      BY <2>1 DEF CallsAgree, CallStands, CopyIsThere, NewTakesUp
  <1>3. OneOpenSession' /\ PlaceIsKept' /\ OpenIsThere'
    BY DEF MediaIInv, OneOpenSession, PlaceIsKept, OpenIsThere
  <1>4. QED
    BY <1>1, <1>2, <1>3 DEF MediaIInv

LEMMA IdleStands == CallStands(Idle) /\ CopyIsThere(Idle) /\ NewTakesUp(Idle)
  BY DEF CallStands, CopyIsThere, NewTakesUp, Idle

\* The place of a session that is open, as a command reads it.
LEMMA ReadStands ==
    ASSUME MediaIInv, NEW id \in Sessions, session[id].status \in Open
    PROVE  /\ IsSession(session[id])
           /\ session[id].kind = "work" /\ session[id].inst \notin raced
              /\ LastOf(session[id]) # NoPlace
              => Place(session[id]) = LastOf(session[id])
  <1>1. NoSession.status \notin Open
    BY DEF NoSession, Open
  <1>2. IsSession(session[id])
    BY <1>1 DEF MediaIInv, SessionsStand
  <1>3. QED
    BY <1>2 DEF MediaIInv, OpenIsThere, LastOf, Voice

-----------------------------------------------------------------------------
(* The commands read.                                                      *)

LEMMA OpenWorkKeeps ==
    ASSUME MediaIInv, NEW c \in Callers, NEW i \in Installs, OpenWork(c, i)
    PROVE  MediaIInv'
  <1> DEFINE copy == NewSession("work", i, Items(i), queue[i], resume[i])
             r == [op |-> "create", id |-> NewId, seen |-> last[i], copy |-> copy]
  <1>1. /\ IsSession(copy) /\ copy.kind = "work" /\ copy.inst = i /\ copy.items = Items(i)
        /\ copy.status = "active"
    BY NewIsSession
  <1>2. ASSUME i \notin raced, Usable(last[i], Items(i)) PROVE Place(copy) = last[i]
    <2>1. last[i] # NoPlace
      BY <1>2 DEF Usable
    <2>2. queue[i] = last[i] /\ IsOpenPlace(last[i])
      BY <1>2, <2>1 DEF MediaIInv, PlaceIsKept, SessionsStand
    <2>3. QED
      BY <1>2, <2>2, PlaceTakenUp
  <1>3. NewId \in Sessions
    BY DEF NewId, Fresh, OpenWork
  <1> HIDE DEF copy
  <1>4. r.op = "create" /\ r.id = NewId /\ r.seen = last[i] /\ r.copy = copy
    OBVIOUS
  <1>5. call' = [call EXCEPT ![c] = r] /\ UNCHANGED <<session, queue, last, raced>>
    BY DEF OpenWork, copy
  <1> HIDE DEF r
  <1>6. CallStands(r) /\ CopyIsThere(r) /\ NewTakesUp(r)
    BY <1>1, <1>2, <1>3, <1>4 DEF CallStands, CopyIsThere, NewTakesUp
  <1>7. QED
    BY <1>5, <1>6, CallKeeps

LEMMA OpenVoiceKeeps ==
    ASSUME MediaIInv, NEW c \in Callers, OpenVoice(c)
    PROVE  MediaIInv'
  <1>1. PICK works, items :
          /\ Fresh # {}
          /\ call' = [call EXCEPT ![c] = [op |-> "create", id |-> NewId, seen |-> NoPlace,
                        copy |-> NewSession(Voice, items[1].inst, items, queue[Voice], NoPlace)]]
          /\ UNCHANGED <<session, queue, last, raced>>
    BY DEF OpenVoice
  <1> DEFINE copy == NewSession(Voice, items[1].inst, items, queue[Voice], NoPlace)
             r == [op |-> "create", id |-> NewId, seen |-> NoPlace, copy |-> copy]
  <1>2. IsSession(copy) /\ copy.kind = Voice /\ copy.status = "active"
    <2>1. Voice \in {"work", Voice} /\ Voice # "work"
      BY DEF Voice
    <2>2. QED
      BY <2>1, NewIsSession
  <1>3. NewId \in Sessions
    BY <1>1 DEF NewId, Fresh
  <1> HIDE DEF copy
  <1>4. r.op = "create" /\ r.id = NewId /\ r.copy = copy
    OBVIOUS
  <1>5. call' = [call EXCEPT ![c] = r] /\ UNCHANGED <<session, queue, last, raced>>
    BY <1>1 DEF copy
  <1> HIDE DEF r
  <1>6. CallStands(r) /\ CopyIsThere(r) /\ NewTakesUp(r)
    BY <1>2, <1>3, <1>4 DEF CallStands, CopyIsThere, NewTakesUp, Voice
  <1>7. QED
    BY <1>5, <1>6, CallKeeps

LEMMA ProgressKeeps ==
    ASSUME MediaIInv, NEW c \in Callers, NEW id \in Sessions, Progress(c, id)
    PROVE  MediaIInv'
  <1>1. PICK at \in DOMAIN session[id].items, pos \in 1..MaxPosition,
             status \in {"active", "paused", "completed"} :
          call' = [call EXCEPT ![c] = [op |-> "progress", id |-> id,
                                       copy |-> Advanced(session[id], at, pos, status)]]
    BY DEF Progress
  <1> DEFINE copy == Advanced(session[id], at, pos, status)
             r == [op |-> "progress", id |-> id, copy |-> copy]
  <1>2. IsSession(session[id])
    <2>1. session[id] # NoSession
      BY DEF Progress
    <2>2. QED
      BY <2>1 DEF MediaIInv, SessionsStand
  <1>3. IsSession(copy) /\ copy.status = status /\ (copy.done <=> status = "completed")
    BY <1>2, ProgressIsSession
  <1> HIDE DEF copy
  <1>4. r.op = "progress" /\ r.id = id /\ r.copy = copy
    OBVIOUS
  <1>5. call' = [call EXCEPT ![c] = r] /\ UNCHANGED <<session, queue, last, raced>>
    <2>1. UNCHANGED <<session, queue, last, raced>>
      BY DEF Progress
    <2>2. QED
      BY <1>1, <2>1 DEF copy
  <1> HIDE DEF r
  <1>6. CallStands(r) /\ CopyIsThere(r) /\ NewTakesUp(r)
    BY <1>3, <1>4 DEF CallStands, CopyIsThere, NewTakesUp, Open
  <1>7. QED
    BY <1>5, <1>6, CallKeeps

LEMMA CloseKeeps ==
    ASSUME MediaIInv, NEW c \in Callers, NEW id \in Sessions, Close(c, id)
    PROVE  MediaIInv'
  <1> DEFINE copy == [session[id] EXCEPT !.status = "closed"]
             r == [op |-> "close", id |-> id, seen |-> LastOf(session[id]), copy |-> copy]
  <1>1. session[id].status \in Open
    BY DEF Close
  <1>2. /\ IsSession(copy) /\ copy.status = "closed" /\ copy.kind = session[id].kind
        /\ copy.inst = session[id].inst /\ Place(copy) = Place(session[id])
    BY <1>1, ReadStands, ClosedIsSession DEF SessionStatuses
  <1> HIDE DEF copy
  <1>3. r.op = "close" /\ r.id = id /\ r.copy = copy /\ r.seen = LastOf(session[id])
    OBVIOUS
  <1>4. call' = [call EXCEPT ![c] = r] /\ UNCHANGED <<session, queue, last, raced>>
    BY DEF Close, copy
  <1> HIDE DEF r
  <1>5. CallStands(r) /\ CopyIsThere(r) /\ NewTakesUp(r)
    BY <1>1, <1>2, <1>3, ReadStands DEF CallStands, CopyIsThere, NewTakesUp, Open
  <1>6. QED
    BY <1>4, <1>5, CallKeeps

LEMMA SettingsKeeps ==
    ASSUME MediaIInv, NEW c \in Callers, NEW id \in Sessions, Settings(c, id)
    PROVE  MediaIInv'
  <1> DEFINE r == [op |-> "settings", id |-> id, seen |-> LastOf(session[id]),
                   copy |-> session[id]]
  <1>1. session[id].status \in Open
    BY DEF Settings
  <1>2. r.op = "settings" /\ r.id = id /\ r.copy = session[id] /\ r.seen = LastOf(session[id])
    OBVIOUS
  <1>3. call' = [call EXCEPT ![c] = r] /\ UNCHANGED <<session, queue, last, raced>>
    BY DEF Settings
  <1> HIDE DEF r
  <1>4. CallStands(r) /\ CopyIsThere(r) /\ NewTakesUp(r)
    BY <1>1, <1>2, ReadStands DEF CallStands, CopyIsThere, NewTakesUp
  <1>5. QED
    BY <1>3, <1>4, CallKeeps

-----------------------------------------------------------------------------
(* The saves.                                                              *)

\* What a save leaves of sessions and queues, when the unique index let it through.
LEMMA SaveStands ==
    ASSUME MediaIInv, NEW id \in Sessions, NEW s, IsSession(s), IndexesAllow(id, s), Save(id, s),
           DOMAIN call' = Callers, DOMAIN last' = Installs,
           \A i \in Installs : last'[i] = NoPlace \/ IsOpenPlace(last'[i])
    PROVE  /\ SessionsStand' /\ OneOpenSession'
           /\ \A x \in Sessions : session'[x] = IF x = id THEN s ELSE session[x]
           /\ \A i \in Installs : queue'[i] = IF s.kind = "work" /\ s.inst = i THEN Place(s)
                                              ELSE queue[i]
           /\ \A x \in Sessions \ {id} :
                s.status \in Open /\ session[x].status \in Open => Scope(session[x]) # Scope(s)
  <1>1. /\ DOMAIN session = Sessions /\ DOMAIN queue = Scopes
        /\ session' = [session EXCEPT ![id] = s] /\ queue' = [queue EXCEPT ![Scope(s)] = Place(s)]
    BY DEF MediaIInv, SessionsStand, Save
  <1>2. \A x \in Sessions : session'[x] = IF x = id THEN s ELSE session[x]
    BY <1>1
  <1>3. \A x \in Sessions \ {id} :
          s.status \in Open /\ session[x].status \in Open => Scope(session[x]) # Scope(s)
    BY DEF IndexesAllow
  <1>4. \A i \in Installs : queue'[i] = IF s.kind = "work" /\ s.inst = i THEN Place(s) ELSE queue[i]
    <2>1. ASSUME NEW i \in Installs PROVE (Scope(s) = i) <=> (s.kind = "work" /\ s.inst = i)
      BY VoiceIsNoInstall DEF IsSession, Scope, Voice
    <2>2. \A i \in Installs : queue'[i] = IF i = Scope(s) THEN Place(s) ELSE queue[i]
      BY <1>1 DEF Scopes
    <2>3. QED
      BY <2>1, <2>2
  <1>5. SessionsStand'
    <2>1. DOMAIN session' = Sessions /\ DOMAIN queue' = Scopes
      BY <1>1
    <2>2. \A x \in Sessions : session'[x] = NoSession \/ IsSession(session'[x])
      BY <1>2 DEF MediaIInv, SessionsStand
    <2>3. QED
      BY <2>1, <2>2 DEF SessionsStand, IsSession, IsOpenPlace
  <1>6. OneOpenSession'
    <2>1. ASSUME NEW x \in Sessions, NEW y \in Sessions, x # y,
                 session'[x].status \in Open, session'[y].status \in Open
          PROVE  Scope(session'[x]) # Scope(session'[y])
      BY <1>2, <1>3, <2>1 DEF MediaIInv, OneOpenSession
    <2>2. QED
      BY <2>1 DEF OneOpenSession, Scope
  <1>7. QED
    BY <1>2, <1>3, <1>4, <1>5, <1>6

\* The calls of the others stand, while more places may have been put back.
LEMMA OthersStand ==
    ASSUME MediaIInv, NEW c \in Callers, call' = [call EXCEPT ![c] = Idle], raced \subseteq raced'
    PROVE  CallsAgree' /\ DOMAIN call' = Callers
  <1>1. \A d \in Callers : call'[d] = IF d = c THEN Idle ELSE call[d]
    BY DEF MediaIInv, SessionsStand
  <1>2. ASSUME NEW d \in Callers
        PROVE  CallStands(call'[d]) /\ CopyIsThere(call'[d]) /\ NewTakesUp(call'[d])
    BY <1>1, IdleStands DEF MediaIInv, CallsAgree
  <1>3. ASSUME NEW d \in Callers
        PROVE  CallStands(call[d])' /\ CopyIsThere(call[d])' /\ NewTakesUp(call[d])'
    BY <1>2 DEF CallStands, CopyIsThere, NewTakesUp
  <1>4. QED
    BY <1>3 DEF CallsAgree, MediaIInv, SessionsStand

\* What the last progress of a work is, and what a save puts back.
LEMMA PutsBackProperties ==
    ASSUME MediaIInv, NEW c \in Callers, IsSession(call[c].copy), PutsBack(c)
    PROVE  /\ raced \subseteq raced'
           /\ call[c].copy.kind = "work" /\ call[c].copy.inst \notin raced' =>
                call[c].seen = last[call[c].copy.inst]
  BY DEF PutsBack, LastOf, Voice

\* A session is created at the place it takes up, which may forget one whose file is gone.
LEMMA CreateKeeps ==
    ASSUME MediaIInv, NEW c \in Callers, Create(c)
    PROVE  MediaIInv'
  <1> DEFINE s == call[c].copy
             id == call[c].id
  <1>0. IsSession(s) /\ id \in Sessions /\ s.status \in Open
    BY DEF Create, MediaIInv, CallsAgree, CallStands, Idle, Open
  <1>1. CASE ~IndexesAllow(id, s)
    BY <1>1, IdleStands, CallKeeps DEF Create
  <1>2. CASE IndexesAllow(id, s)
    <2>1. /\ Save(id, s) /\ PutsBack(c) /\ call' = [call EXCEPT ![c] = Idle]
          /\ last' = [i \in Installs |-> IF Scope(s) = i /\ ~Usable(last[i], s.items)
                                         THEN NoPlace ELSE last[i]]
      BY <1>2 DEF Create
    <2>2. /\ raced \subseteq raced'
          /\ s.kind = "work" /\ s.inst \notin raced' => call[c].seen = last[s.inst]
      BY <1>0, <2>1, PutsBackProperties
    <2>3. /\ \A i \in Installs : last'[i] = NoPlace \/ last'[i] = last[i]
          /\ \A i \in Installs : last'[i] = NoPlace \/ IsOpenPlace(last'[i])
          /\ DOMAIN last' = Installs
      BY <2>1 DEF MediaIInv, SessionsStand
    <2>4. CallsAgree' /\ DOMAIN call' = Callers
      BY <2>1, <2>2, OthersStand
    <2>5. s.kind = "work" /\ s.inst \notin raced' /\ last'[s.inst] # NoPlace =>
            Place(s) = last'[s.inst]
      <3>1. SUFFICES ASSUME s.kind = "work", s.inst \notin raced', last'[s.inst] # NoPlace
                     PROVE  Place(s) = last'[s.inst]
        OBVIOUS
      <3>2. s.inst \in Installs /\ Scope(s) = s.inst
        BY <1>0, <3>1 DEF IsSession, Scope, Voice
      <3>3. Usable(last[s.inst], s.items) /\ last'[s.inst] = last[s.inst]
        BY <2>1, <3>1, <3>2
      <3>4. call[c].seen = last[s.inst] /\ s.inst \notin raced
        BY <2>2, <3>1
      <3>5. call[c].op = "create"
        BY DEF Create
      <3>6. QED
        BY <3>1, <3>3, <3>4, <3>5 DEF MediaIInv, CallsAgree, NewTakesUp
    <2> HIDE DEF s, id
    <2>6. /\ SessionsStand' /\ OneOpenSession'
          /\ \A x \in Sessions : session'[x] = IF x = id THEN s ELSE session[x]
          /\ \A i \in Installs : queue'[i] = IF s.kind = "work" /\ s.inst = i THEN Place(s)
                                             ELSE queue[i]
          /\ \A x \in Sessions \ {id} :
                s.status \in Open /\ session[x].status \in Open => Scope(session[x]) # Scope(s)
      BY <1>0, <1>2, <2>1, <2>3, <2>4, SaveStands
    <2>7. PlaceIsKept'
      BY <2>2, <2>3, <2>5, <2>6 DEF MediaIInv, PlaceIsKept
    <2>8. OpenIsThere'
      <3>1. ASSUME NEW x \in Sessions, session'[x].status \in Open, session'[x].kind = "work",
                   last'[session'[x].inst] # NoPlace, session'[x].inst \notin raced'
            PROVE  Place(session'[x]) = last'[session'[x].inst]
        <4>1. CASE x = id
          BY <2>5, <2>6, <3>1, <4>1
        <4>2. CASE x # id
          <5>1. session'[x] = session[x]
            BY <2>6, <4>2
          <5>2. session[x].inst \in Installs
            BY <3>1, <5>1 DEF MediaIInv, SessionsStand, IsSession, NoSession, Open
          <5>3. last'[session[x].inst] = last[session[x].inst]
            BY <2>3, <3>1, <5>1, <5>2
          <5>4. QED
            BY <2>2, <3>1, <5>1, <5>3 DEF MediaIInv, OpenIsThere
        <4>3. QED
          BY <4>1, <4>2
      <3>2. QED
        BY <3>1 DEF OpenIsThere, Place
    <2>9. QED
      BY <2>4, <2>6, <2>7, <2>8 DEF MediaIInv
  <1>3. QED
    BY <1>1, <1>2

\* What Store saves is where the last progress is: the progress itself, or what was read.
LEMMA StoreKeeps ==
    ASSUME MediaIInv, NEW c \in Callers, Store(c)
    PROVE  MediaIInv'
  <1> DEFINE s == call[c].copy
             id == call[c].id
             progress == call[c].op = "progress"
  <1>0. /\ IsSession(s) /\ id \in Sessions /\ call[c].op \in {"progress", "close", "settings"}
        /\ call[c].op = "settings" => s.status \in Open
        /\ call[c].op = "close" => s.status \notin Open
        /\ progress => s.done \/ s.status \in Open
        /\ progress /\ s.done => s.status \notin Open
    BY DEF Store, MediaIInv, CallsAgree, CallStands, Idle
  <1>1. CASE ~IndexesAllow(id, s)
    BY <1>1, IdleStands, CallKeeps DEF Store
  <1>2. CASE IndexesAllow(id, s)
    <2>1. /\ Save(id, s) /\ call' = [call EXCEPT ![c] = Idle]
          /\ progress => /\ last' = IF s.kind = Voice THEN last
                                    ELSE [last EXCEPT ![s.inst] = IF s.done THEN NoPlace ELSE Place(s)]
                         /\ raced' = raced
          /\ ~progress => PutsBack(c) /\ last' = last
      BY <1>2 DEF Store
    <2>2. /\ raced \subseteq raced'
          /\ ~progress /\ s.kind = "work" /\ s.inst \notin raced' => call[c].seen = last[s.inst]
      BY <1>0, <2>1, PutsBackProperties
    <2>3. /\ DOMAIN last = Installs /\ (s.kind = "work" => s.inst \in Installs)
          /\ s.kind = "work" \/ s.kind = Voice
          /\ \A i \in Installs : last[i] = NoPlace \/ IsOpenPlace(last[i])
      BY <1>0 DEF MediaIInv, SessionsStand, IsSession
    <2>4. DOMAIN last' = Installs
      BY <2>1, <2>3
    <2>5. \A i \in Installs : ~(s.kind = "work" /\ s.inst = i) => last'[i] = last[i]
      BY <2>1, <2>3
    <2>6. progress /\ s.kind = "work" => last'[s.inst] = IF s.done THEN NoPlace ELSE Place(s)
      BY <2>1, <2>3 DEF Voice
    <2>7. ~s.done => IsOpenPlace(Place(s))
      BY <1>0 DEF IsSession, IsOpenPlace, Place
    <2>8. \A i \in Installs : last'[i] = NoPlace \/ IsOpenPlace(last'[i])
      BY <2>1, <2>3, <2>5, <2>6, <2>7
    <2>9. CallsAgree' /\ DOMAIN call' = Callers
      BY <2>1, <2>2, OthersStand
    <2>10. s.kind = "work" /\ s.inst \notin raced' /\ last'[s.inst] # NoPlace =>
             Place(s) = last'[s.inst]
      <3>1. CASE progress
        BY <2>6, <3>1
      <3>2. CASE ~progress
        BY <1>0, <2>1, <2>2, <3>2 DEF MediaIInv, CallsAgree, CopyIsThere
      <3>3. QED
        BY <3>1, <3>2
    <2>11. s.status \in Open \/ (s.kind = "work" => last'[s.inst] \in {NoPlace, last[s.inst]})
      BY <1>0, <2>1, <2>6
    <2> HIDE DEF s, id, progress
    <2>12. /\ SessionsStand' /\ OneOpenSession'
           /\ \A x \in Sessions : session'[x] = IF x = id THEN s ELSE session[x]
           /\ \A i \in Installs : queue'[i] = IF s.kind = "work" /\ s.inst = i THEN Place(s)
                                              ELSE queue[i]
           /\ \A x \in Sessions \ {id} :
                s.status \in Open /\ session[x].status \in Open => Scope(session[x]) # Scope(s)
      BY <1>0, <1>2, <2>1, <2>4, <2>8, <2>9, SaveStands
    <2>13. PlaceIsKept'
      BY <2>2, <2>5, <2>10, <2>12 DEF MediaIInv, PlaceIsKept
    <2>14. OpenIsThere'
      <3>1. ASSUME NEW x \in Sessions, session'[x].status \in Open, session'[x].kind = "work",
                   last'[session'[x].inst] # NoPlace, session'[x].inst \notin raced'
            PROVE  Place(session'[x]) = last'[session'[x].inst]
        <4>1. CASE x = id
          BY <2>10, <2>12, <3>1, <4>1
        <4>2. CASE x # id
          <5>1. session'[x] = session[x]
            BY <2>12, <4>2
          <5>2. session[x].inst \in Installs
            BY <3>1, <5>1 DEF MediaIInv, SessionsStand, IsSession, NoSession, Open
          <5>3. last'[session[x].inst] = last[session[x].inst]
            <6>1. CASE ~(s.kind = "work" /\ s.inst = session[x].inst)
              BY <2>5, <5>2, <6>1
            <6>2. CASE s.kind = "work" /\ s.inst = session[x].inst
              <7>1. Scope(session[x]) = Scope(s)
                BY <3>1, <5>1, <6>2 DEF Scope, Voice
              <7>2. s.status \notin Open
                BY <2>12, <3>1, <4>2, <5>1, <7>1
              <7>3. QED
                BY <2>11, <3>1, <5>1, <6>2, <7>2
            <6>3. QED
              BY <6>1, <6>2
          <5>4. QED
            BY <2>2, <3>1, <5>1, <5>3 DEF MediaIInv, OpenIsThere
        <4>3. QED
          BY <4>1, <4>2
      <3>2. QED
        BY <3>1 DEF OpenIsThere, Place
    <2>15. QED
      BY <2>9, <2>12, <2>13, <2>14 DEF MediaIInv
  <1>3. QED
    BY <1>1, <1>2

\* reconcile_after_restart leaves no session open and no command under way.
LEMMA MediaRestartKeeps ==
    ASSUME MediaIInv, MediaRestart
    PROVE  MediaIInv'
  <1>1. ASSUME NEW x \in Sessions
        PROVE  /\ session'[x] = NoSession \/ IsSession(session'[x])
               /\ session'[x].status \notin Open
    <2>1. CASE session[x].status \in Open
      <3>1. session'[x] = [session[x] EXCEPT !.status = "interrupted"]
        BY <2>1 DEF MediaRestart
      <3>2. IsSession(session[x])
        BY <2>1, ReadStands
      <3>3. QED
        BY <3>1, <3>2, ClosedIsSession DEF SessionStatuses, Open
    <2>2. CASE session[x].status \notin Open
      BY <2>2 DEF MediaRestart, MediaIInv, SessionsStand
    <2>3. QED
      BY <2>1, <2>2
  <1>2. UNCHANGED <<queue, last, raced>> /\ call' = [c \in Callers |-> Idle]
        /\ DOMAIN session' = Sessions
    BY DEF MediaRestart
  <1>3. SessionsStand'
    BY <1>1, <1>2 DEF MediaIInv, SessionsStand, IsSession, IsOpenPlace
  <1>4. CallsAgree'
    <2>1. \A c \in Callers : CallStands(call'[c]) /\ CopyIsThere(call'[c]) /\ NewTakesUp(call'[c])
      BY <1>2, IdleStands
    <2>2. QED
      BY <1>2, <2>1 DEF CallsAgree, CallStands, CopyIsThere, NewTakesUp
  <1>5. OneOpenSession' /\ OpenIsThere'
    BY <1>1 DEF OneOpenSession, OpenIsThere
  <1>6. PlaceIsKept'
    BY <1>2 DEF MediaIInv, PlaceIsKept
  <1>7. QED
    BY <1>3, <1>4, <1>5, <1>6 DEF MediaIInv

LEMMA MediaInductive == MediaSpec => []MediaIInv
  <1>1. MediaInit => MediaIInv
    BY IdleStands DEF MediaInit, MediaIInv, SessionsStand, CallsAgree, OneOpenSession,
         PlaceIsKept, OpenIsThere, NoSession, Open
  <1>2. ASSUME MediaIInv, [MediaNext]_mediaVars PROVE MediaIInv'
    <2>1. ASSUME UNCHANGED <<session, queue, last, raced, call>> PROVE MediaIInv'
      BY <1>2, <2>1 DEF MediaIInv, SessionsStand, CallsAgree, CallStands, CopyIsThere,
           NewTakesUp, OneOpenSession, PlaceIsKept, OpenIsThere
    <2>2. ASSUME ContentChanges PROVE MediaIInv'
      BY <2>1, <2>2 DEF ContentChanges
    <2>3. ASSUME UNCHANGED mediaVars PROVE MediaIInv'
      BY <2>1, <2>3 DEF mediaVars
    <2>4. QED
      BY <1>2, <2>2, <2>3, OpenWorkKeeps, OpenVoiceKeeps, CreateKeeps, StoreKeeps, ProgressKeeps,
         CloseKeeps, SettingsKeeps, MediaRestartKeeps DEF MediaNext
  <1>3. QED
    BY <1>1, <1>2, PTL DEF MediaSpec

\* SessionsAgree: a work, and the voice queue, has one open session at most, and the queue
\* of a work remembers the place of its last progress, unless a save put back a place
\* that its command had read before it.
THEOREM SessionsStayAgreed == MediaSpec => []SessionsAgree
  <1>1. MediaIInv => SessionsAgree
    BY DEF MediaIInv, SessionsAgree
  <1> QED BY <1>1, MediaInductive, PTL

-----------------------------------------------------------------------------
(* Scanner: the inductive invariant.                                       *)

\* Whatever is stored or waits to be stored of a session, that session accepted.
AcceptedOnly ==
    /\ \A p \in Places : seenBy[p] # 0 => p \in walked[seenBy[p]]
    /\ \A s \in Scans : ResultsOf(s) \subseteq walked[s]
    /\ slot # 0 => pending \subseteq walked[slot]

\* A slot is held by a session that was started, and one not started accepted nothing.
SlotIsStarted ==
    /\ slot \in 0..scanSession
    /\ \A s \in Scans : s > scanSession => walked[s] = {} /\ scanStatus[s] # "completed"
    /\ slot = 0 <=> stage = "off"
    /\ slot = 0 => pending = {}
    /\ stage = "begin" => walked[slot] = {}
    /\ slot # 0 => scanStatus[slot] # "completed"

\* While nothing failed, what was accepted is stored or about to be.
WalkIsKept ==
    stage \in {"walk", "finish"} /\ terminal = "completed" =>
        walked[slot] \cap RootFiles \subseteq ResultsOf(slot) \cup pending

\* A completed session stored all it accepted.
CompletedIsKept ==
    \A s \in Scans : scanStatus[s] = "completed" => walked[s] \cap RootFiles \subseteq ResultsOf(s)

CreatedOfCompleted ==
    \A c \in created : /\ scanStatus[c.session] = "completed"
                       /\ c.files \cap RootFiles = walked[c.session] \cap RootFiles

ScanIInv ==
    ScanTypeOK /\ AcceptedOnly /\ SlotIsStarted /\ WalkIsKept /\ CompletedIsKept /\ CreatedOfCompleted

\* What a batch writes: its entries are the session's, and its files are results of it.
LEMMA RecordStores ==
    ASSUME ScanTypeOK, NEW P \in SUBSET Places, slot \in Scans, Record(P)
    PROVE  /\ seenBy' \in [Places -> 0..MaxSessions] /\ results' \subseteq Scans \X RootFiles
           /\ \A p \in Places : seenBy'[p] = IF p \in P THEN slot ELSE seenBy[p]
           /\ \A s \in Scans : ResultsOf(s)' = IF s = slot THEN ResultsOf(s) \cup (P \cap RootFiles)
                                               ELSE ResultsOf(s)
  <1>1. seenBy' \in [Places -> 0..MaxSessions] /\ \A p \in Places : seenBy'[p] = IF p \in P THEN slot ELSE seenBy[p]
    BY DEF ScanTypeOK, Record, UpsertEntries, Scans
  <1>2. results' = results \cup {<<slot, f>> : f \in P \cap RootFiles}
    BY DEF Record, UpsertResults
  <1>3. results' \subseteq Scans \X RootFiles
    BY <1>2 DEF ScanTypeOK
  <1>4. ASSUME NEW s \in Scans
        PROVE  ResultsOf(s)' = IF s = slot THEN ResultsOf(s) \cup (P \cap RootFiles) ELSE ResultsOf(s)
    BY <1>2 DEF ResultsOf
  <1>5. QED
    BY <1>1, <1>3, <1>4

\* Writing a batch of what the session accepted keeps the stored rows its own, and the
\* other sessions' results as they are.
LEMMA RecordKeeps ==
    ASSUME ScanIInv, slot # 0, NEW P \in SUBSET Places, Record(P),
           walked' \in [Scans -> SUBSET Places], P \subseteq walked'[slot],
           \A s \in Scans : walked[s] \subseteq walked'[s]
    PROVE  /\ seenBy' \in [Places -> 0..MaxSessions] /\ results' \subseteq Scans \X RootFiles
           /\ \A p \in Places : seenBy'[p] # 0 => p \in walked'[seenBy'[p]]
           /\ \A s \in Scans : ResultsOf(s)' \subseteq walked'[s]
           /\ \A s \in Scans : ResultsOf(s) \subseteq ResultsOf(s)'
           /\ \A s \in Scans : s = slot => P \cap RootFiles \subseteq ResultsOf(s)'
  <1>1. slot \in Scans /\ ScanTypeOK
    BY ScanBounds DEF ScanIInv, ScanTypeOK, Scans
  <1>2. /\ seenBy' \in [Places -> 0..MaxSessions] /\ results' \subseteq Scans \X RootFiles
        /\ \A p \in Places : seenBy'[p] = IF p \in P THEN slot ELSE seenBy[p]
        /\ \A s \in Scans : ResultsOf(s)' = IF s = slot THEN ResultsOf(s) \cup (P \cap RootFiles)
                                            ELSE ResultsOf(s)
    BY <1>1, RecordStores
  <1>3. ASSUME NEW p \in Places, seenBy'[p] # 0
        PROVE  p \in walked'[seenBy'[p]]
    <2>1. CASE p \in P
      BY <1>2, <2>1
    <2>2. CASE p \notin P
      <3>1. seenBy'[p] = seenBy[p] /\ seenBy[p] \in Scans
        BY <1>1, <1>2, <1>3, <2>2, ScanBounds DEF ScanTypeOK, Scans
      <3>2. p \in walked[seenBy[p]]
        BY <1>3, <3>1 DEF ScanIInv, AcceptedOnly
      <3>3. QED
        BY <3>1, <3>2
    <2>3. QED
      BY <2>1, <2>2
  <1>4. \A s \in Scans : ResultsOf(s)' \subseteq walked'[s]
    BY <1>2 DEF ScanIInv, AcceptedOnly
  <1>5. QED
    BY <1>2, <1>3, <1>4

LEMMA StartScanKeeps == ASSUME ScanIInv, StartScan PROVE ScanIInv'
  <1>1. /\ slot = 0 /\ stage = "off" /\ pending = {} /\ scanSession + 1 \in Scans
        /\ scanSession' = scanSession + 1 /\ scanSession \in Nat
    BY ScanBounds DEF ScanIInv, ScanTypeOK, SlotIsStarted, StartScan, Scans
  <1>2. UNCHANGED <<rootDisk, seenBy, results, scanCancelled, todo, pending, terminal, scanRestarts,
                    rootChanges, walked, created>>
    BY DEF StartScan
  <1>3. /\ \/ scanStatus' = [scanStatus EXCEPT ![scanSession + 1] = "queued"]
           \/ scanStatus' = scanStatus
        /\ \/ slot' = slot /\ stage' = stage
           \/ /\ slot' = scanSession + 1 /\ stage' = "begin"
              /\ scanStatus' = [scanStatus EXCEPT ![scanSession + 1] = "queued"]
    BY DEF StartScan, InsertSession, SetStatus
  <1>4. walked[scanSession + 1] = {} /\ scanStatus[scanSession + 1] # "completed"
    BY <1>1 DEF ScanIInv, SlotIsStarted
  <1>5. scanStatus' \in [Scans -> ScanEnds \cup {"absent", "queued", "running"}]
    BY <1>1, <1>3 DEF ScanIInv, ScanTypeOK
  <1>6. \A s \in Scans : scanStatus'[s] = "completed" <=> scanStatus[s] = "completed"
    BY <1>1, <1>3, <1>4 DEF ScanIInv, ScanTypeOK
  <1>7. scanFaults' \in 0..MaxScanFaults
    BY ScanBounds DEF StartScan, ScanFault, NoScanFault, ScanIInv, ScanTypeOK
  <1>8. ScanTypeOK'
    BY <1>1, <1>2, <1>3, <1>5, <1>7 DEF ScanIInv, ScanTypeOK, Scans
  <1>9. AcceptedOnly'
    BY <1>1, <1>2, <1>3 DEF ScanIInv, AcceptedOnly, ResultsOf
  <1>10. SlotIsStarted'
    <2>1. slot' \in 0..scanSession'
      BY <1>1, <1>3
    <2>2. \A s \in Scans : s > scanSession' => walked'[s] = {} /\ scanStatus'[s] # "completed"
      BY <1>1, <1>2, <1>6 DEF ScanIInv, SlotIsStarted, Scans
    <2>3. /\ slot' = 0 <=> stage' = "off"
          /\ slot' = 0 => pending' = {}
          /\ stage' = "begin" => walked'[slot'] = {}
          /\ slot' # 0 => scanStatus'[slot'] # "completed"
      BY <1>1, <1>2, <1>3, <1>4, <1>6
    <2>4. QED
      BY <2>1, <2>2, <2>3 DEF SlotIsStarted
  <1>11. WalkIsKept'
    BY <1>1, <1>3 DEF WalkIsKept
  <1>12. CompletedIsKept' /\ CreatedOfCompleted'
    BY <1>2, <1>6 DEF ScanIInv, ScanTypeOK, CompletedIsKept, CreatedOfCompleted, ResultsOf
  <1>13. QED
    BY <1>8, <1>9, <1>10, <1>11, <1>12 DEF ScanIInv

\* What leaves the slot, the rows and the history of a session alone.
LEMMA QuietKeeps ==
    ASSUME ScanIInv, ScanTypeOK', UNCHANGED <<scanStatus, seenBy, results, slot, pending, scanSession, walked, created>>,
           (stage' = "off") <=> (stage = "off"),
           stage' = "begin" => stage = "begin",
           stage' \in {"walk", "finish"} /\ terminal' = "completed" =>
               stage \in {"walk", "finish"} /\ terminal = "completed"
    PROVE  ScanIInv'
  <1>1. AcceptedOnly' /\ CompletedIsKept' /\ CreatedOfCompleted'
    BY DEF ScanIInv, AcceptedOnly, CompletedIsKept, CreatedOfCompleted, ResultsOf
  <1>2. SlotIsStarted'
    BY DEF ScanIInv, SlotIsStarted
  <1>3. WalkIsKept'
    BY DEF ScanIInv, WalkIsKept, ResultsOf
  <1>4. QED
    BY <1>1, <1>2, <1>3 DEF ScanIInv

LEMMA CancelScanKeeps == ASSUME ScanIInv, CancelScan PROVE ScanIInv'
  <1>1. /\ UNCHANGED <<scanStatus, seenBy, results, slot, stage, todo, pending, terminal, scanFaults, walked,
                       rootDisk, scanSession, scanRestarts, rootChanges, created>>
        /\ scanCancelled' = TRUE
    BY DEF CancelScan, scanRows, scanWorld
  <1>2. ScanTypeOK'
    BY <1>1 DEF ScanIInv, ScanTypeOK
  <1>3. QED
    BY <1>1, <1>2, QuietKeeps

LEMMA EndWalkKeeps == ASSUME ScanIInv, EndWalk PROVE ScanIInv'
  <1>1. /\ UNCHANGED <<scanStatus, seenBy, results, slot, scanCancelled, pending, scanFaults, walked,
                       rootDisk, scanSession, scanRestarts, rootChanges, created>>
        /\ stage = "walk" /\ stage' = "finish" /\ todo' = {}
        /\ terminal' = IF terminal = "completed" /\ scanCancelled THEN "cancelled" ELSE terminal
    BY DEF EndWalk, scanRows, scanWorld
  <1>2. ScanTypeOK'
    BY <1>1 DEF ScanIInv, ScanTypeOK
  <1>3. QED
    BY <1>1, <1>2, QuietKeeps

LEMMA VanishedKeeps == ASSUME ScanIInv, NEW p \in Places, Vanished(p) PROVE ScanIInv'
  <1>1. /\ UNCHANGED <<scanStatus, seenBy, results, slot, stage, scanCancelled, pending, terminal, scanFaults,
                       walked, rootDisk, scanSession, scanRestarts, rootChanges, created>>
        /\ todo' = todo \ {p}
    BY DEF Vanished, scanRows, scanWorld
  <1>2. ScanTypeOK'
    BY <1>1 DEF ScanIInv, ScanTypeOK
  <1>3. QED
    BY <1>1, <1>2, QuietKeeps

LEMMA ChangeRootKeeps == ASSUME ScanIInv, NEW p \in Places, ChangeRoot(p) PROVE ScanIInv'
  <1>1. /\ UNCHANGED <<scanStatus, seenBy, results, slot, stage, scanCancelled, todo, pending, terminal,
                       scanSession, scanFaults, scanRestarts, walked, created>>
        /\ rootDisk' \subseteq Places /\ rootChanges' \in 0..MaxRootChanges
    BY ScanBounds DEF ChangeRoot, scanRows, scanThread, ScanIInv, ScanTypeOK
  <1>2. ScanTypeOK'
    BY <1>1 DEF ScanIInv, ScanTypeOK
  <1>3. QED
    BY <1>1, <1>2, QuietKeeps

LEMMA BeginScanningKeeps == ASSUME ScanIInv, BeginScanning PROVE ScanIInv'
  <1>1. stage = "begin" /\ slot \in Scans /\ slot # 0 /\ walked[slot] = {}
    BY ScanBounds DEF ScanIInv, ScanTypeOK, SlotIsStarted, BeginScanning, Scans
  <1>2. UNCHANGED <<seenBy, results, walked, rootDisk, scanSession, scanRestarts, rootChanges, created>>
    BY DEF BeginScanning, scanWorld
  <1>3. PICK x \in {"queued", "running"} : scanStatus' = [scanStatus EXCEPT ![slot] = x]
    BY DEF BeginScanning, SetStatus
  <1>4. \/ /\ stage' = "walk" /\ slot' = slot /\ todo' \subseteq Places /\ terminal' = "completed"
           /\ scanCancelled' = scanCancelled /\ pending' = pending
        \/ slot' = 0 /\ stage' = "off" /\ pending' = {} /\ todo' = {} /\ scanCancelled' = FALSE
           /\ terminal' = terminal
    BY DEF BeginScanning, Leave, ScanIInv, ScanTypeOK
  <1>5. scanFaults' \in 0..MaxScanFaults
    BY ScanBounds DEF BeginScanning, ScanFault, NoScanFault, ScanIInv, ScanTypeOK
  <1>6. scanStatus' \in [Scans -> ScanEnds \cup {"absent", "queued", "running"}]
    BY <1>1, <1>3 DEF ScanIInv, ScanTypeOK
  <1>7. \A s \in Scans : scanStatus'[s] = "completed" <=> scanStatus[s] = "completed"
    <2>1. scanStatus[slot] # "completed"
      BY <1>1 DEF ScanIInv, SlotIsStarted
    <2>2. scanStatus'[slot] = x /\ x # "completed"
      BY <1>1, <1>3 DEF ScanIInv, ScanTypeOK
    <2>3. \A s \in Scans : s # slot => scanStatus'[s] = scanStatus[s]
      BY <1>1, <1>3 DEF ScanIInv, ScanTypeOK
    <2>4. QED
      BY <2>1, <2>2, <2>3
  <1>8. ScanTypeOK'
    <2>1. ScanTypeOK /\ 0 \in 0..MaxSessions
      BY ScanBounds DEF ScanIInv
    <2>2. /\ slot' \in 0..MaxSessions /\ scanCancelled' \in BOOLEAN
          /\ stage' \in {"off", "begin", "walk", "finish"}
          /\ terminal' \in {"completed", "cancelled", "failed"}
          /\ todo' \subseteq Places /\ pending' \subseteq Places
      BY <1>1, <1>4, <2>1 DEF ScanTypeOK
    <2>3. QED
      BY <1>2, <1>5, <1>6, <2>1, <2>2 DEF ScanTypeOK
  <1>9. AcceptedOnly'
    BY <1>1, <1>2, <1>4 DEF ScanIInv, AcceptedOnly, ResultsOf
  <1>10. SlotIsStarted'
    <2>1. \A s \in Scans : s > scanSession' => walked'[s] = {} /\ scanStatus'[s] # "completed"
      <3>1. \A s \in Scans : s > scanSession => walked[s] = {} /\ scanStatus[s] # "completed"
        BY DEF ScanIInv, SlotIsStarted
      <3>2. QED
        BY <1>2, <1>7, <3>1
    <2>2. slot' \in 0..scanSession'
      BY <1>2, <1>4 DEF ScanIInv, ScanTypeOK, SlotIsStarted
    <2>3. /\ slot' = 0 <=> stage' = "off"
          /\ slot' = 0 => pending' = {}
          /\ stage' = "begin" => walked'[slot'] = {}
      BY <1>1, <1>4
    <2>4. slot' # 0 => scanStatus'[slot'] # "completed"
      BY <1>1, <1>4, <1>7 DEF ScanIInv, SlotIsStarted
    <2>5. QED
      BY <2>1, <2>2, <2>3, <2>4 DEF SlotIsStarted
  <1>11. WalkIsKept'
    BY <1>1, <1>2, <1>4 DEF WalkIsKept
  <1>12. CompletedIsKept' /\ CreatedOfCompleted'
    BY <1>2, <1>7 DEF ScanIInv, ScanTypeOK, CompletedIsKept, CreatedOfCompleted, ResultsOf
  <1>13. QED
    BY <1>8, <1>9, <1>10, <1>11, <1>12 DEF ScanIInv

LEMMA ScanRestartKeeps == ASSUME ScanIInv, ScanRestart PROVE ScanIInv'
  <1>1. /\ UNCHANGED <<rootDisk, seenBy, results, terminal, scanSession, scanFaults, rootChanges, walked, created>>
        /\ slot' = 0 /\ stage' = "off" /\ scanCancelled' = FALSE /\ todo' = {} /\ pending' = {}
        /\ scanRestarts' \in 0..MaxScanRestarts
    BY ScanBounds DEF ScanRestart, Leave, ScanIInv, ScanTypeOK
  <1>2. /\ scanStatus' \in [Scans -> ScanEnds \cup {"absent", "queued", "running"}]
        /\ \A s \in Scans : scanStatus'[s] = "completed" <=> scanStatus[s] = "completed"
    <2>1. /\ scanStatus \in [Scans -> ScanEnds \cup {"absent", "queued", "running"}]
          /\ scanStatus' = [s \in Scans |-> IF scanStatus[s] \in {"queued", "running"}
                                            THEN "interrupted" ELSE scanStatus[s]]
      BY DEF ScanRestart, ScanIInv, ScanTypeOK
    <2>2. ASSUME NEW s \in Scans
          PROVE  /\ scanStatus'[s] \in ScanEnds \cup {"absent", "queued", "running"}
                 /\ scanStatus'[s] = "completed" <=> scanStatus[s] = "completed"
      BY <2>1 DEF ScanEnds
    <2>3. QED
      BY <2>1, <2>2
  <1>3. ScanTypeOK'
    <2>1. ScanTypeOK /\ 0 \in 0..MaxSessions /\ FALSE \in BOOLEAN
      BY ScanBounds DEF ScanIInv
    <2>2. /\ slot' \in 0..MaxSessions /\ scanCancelled' \in BOOLEAN
          /\ stage' \in {"off", "begin", "walk", "finish"}
          /\ todo' \subseteq Places /\ pending' \subseteq Places
      BY <1>1, <2>1
    <2>3. QED
      BY <1>1, <1>2, <2>1, <2>2 DEF ScanTypeOK
  <1>4. AcceptedOnly'
    BY <1>1 DEF ScanIInv, AcceptedOnly, ResultsOf
  <1>5. SlotIsStarted'
    BY <1>1, <1>2, ScanBounds DEF ScanIInv, ScanTypeOK, SlotIsStarted
  <1>6. WalkIsKept'
    BY <1>1 DEF WalkIsKept
  <1>7. CompletedIsKept' /\ CreatedOfCompleted'
    BY <1>1, <1>2 DEF ScanIInv, ScanTypeOK, CompletedIsKept, CreatedOfCompleted, ResultsOf
  <1>8. QED
    BY <1>3, <1>4, <1>5, <1>6, <1>7 DEF ScanIInv

\* What a completed session stored is what it accepted, and what is still its own entry is
\* among it: a selection that is valid is of all its files.
LEMMA CreateFromKeeps ==
    ASSUME ScanIInv, NEW s \in Scans, NEW f \in RootFiles, CreateFrom(s, f)
    PROVE  ScanIInv'
  <1>1. UNCHANGED <<rootDisk, scanStatus, seenBy, results, slot, stage, scanCancelled, todo, pending, terminal,
                    scanSession, scanFaults, scanRestarts, rootChanges, walked>>
    BY DEF CreateFrom, scanRows, scanThread
  <1>2. scanStatus[s] = "completed" /\ ResultsOf(s) \subseteq Entries(s)
    BY DEF CreateFrom, ValidSelection, ReadSession
  <1>3. Entries(s) \subseteq walked[s]
    BY DEF ScanIInv, AcceptedOnly, Entries, Scans
  <1>4. walked[s] \cap RootFiles \subseteq ResultsOf(s)
    BY <1>2 DEF ScanIInv, CompletedIsKept
  <1>5. Entries(s) \cap RootFiles = walked[s] \cap RootFiles
    BY <1>2, <1>3, <1>4
  <1>6. created' = created \cup {[session |-> s, files |-> Entries(s)]} /\ Entries(s) \subseteq Places
    BY DEF CreateFrom, Entries
  <1>7. ScanTypeOK'
    BY <1>1, <1>6 DEF ScanIInv, ScanTypeOK
  <1>8. CreatedOfCompleted'
    BY <1>1, <1>2, <1>5, <1>6 DEF ScanIInv, CreatedOfCompleted
  <1>9. AcceptedOnly' /\ SlotIsStarted' /\ WalkIsKept' /\ CompletedIsKept'
    BY <1>1 DEF ScanIInv, AcceptedOnly, SlotIsStarted, WalkIsKept, CompletedIsKept, ResultsOf
  <1>10. QED
    BY <1>7, <1>8, <1>9 DEF ScanIInv

\* The session of the slot goes on: its batch is written, whole or not at all, or waits.
LEMMA WalkOnKeeps ==
    ASSUME ScanIInv, slot \in Scans, slot # 0, stage = "walk", NEW w \in SUBSET Places,
           walked' = [walked EXCEPT ![slot] = @ \cup w],
           UNCHANGED <<scanStatus, slot, stage, scanSession, created>>,
           ScanTypeOK', pending' \subseteq pending \cup w,
           \A p \in Places : seenBy'[p] # 0 => p \in walked'[seenBy'[p]],
           \A s \in Scans : ResultsOf(s)' \subseteq walked'[s] /\ ResultsOf(s) \subseteq ResultsOf(s)',
           terminal' = "completed" =>
               /\ terminal = "completed"
               /\ \A s \in Scans : s = slot =>
                    (pending \cup w) \cap RootFiles \subseteq ResultsOf(s)' \cup pending'
    PROVE  ScanIInv'
  <1>1. \A s \in Scans : walked'[s] = IF s = slot THEN walked[s] \cup w ELSE walked[s]
    BY DEF ScanIInv, ScanTypeOK
  <1>2. AcceptedOnly'
    BY <1>1 DEF ScanIInv, AcceptedOnly
  <1>3. SlotIsStarted'
    <2>1. slot \in 0..scanSession /\ scanSession \in Nat /\ scanStatus[slot] # "completed"
      BY DEF ScanIInv, ScanTypeOK, SlotIsStarted
    <2>2. \A s \in Scans : s > scanSession => s # slot
      BY <2>1, ScanBounds DEF Scans
    <2>3. \A s \in Scans : s > scanSession => walked'[s] = {} /\ scanStatus[s] # "completed"
      BY <1>1, <2>2 DEF ScanIInv, SlotIsStarted
    <2>4. QED
      BY <2>1, <2>3 DEF SlotIsStarted
  <1>4. WalkIsKept'
    <2>1. ASSUME terminal' = "completed"
          PROVE  walked'[slot] \cap RootFiles \subseteq ResultsOf(slot)' \cup pending'
      <3>1. PICK k : k = slot /\ k \in Scans
        OBVIOUS
      <3>2. walked[k] \cap RootFiles \subseteq ResultsOf(k) \cup pending
        BY <2>1, <3>1 DEF ScanIInv, WalkIsKept
      <3>3. walked'[k] = walked[k] \cup w
        BY <1>1, <3>1
      <3>4. (pending \cup w) \cap RootFiles \subseteq ResultsOf(k)' \cup pending'
        BY <2>1, <3>1
      <3>5. ResultsOf(k) \subseteq ResultsOf(k)'
        BY <3>1
      <3>6. ResultsOf(k) \subseteq RootFiles
        BY DEF ResultsOf
      <3>7. walked'[k] \cap RootFiles \subseteq ResultsOf(k)' \cup pending'
        BY <3>2, <3>3, <3>4, <3>5
      <3>8. QED
        BY <3>1, <3>7 DEF ResultsOf
    <2>2. QED
      BY <2>1 DEF WalkIsKept
  <1>5. \A s \in Scans : scanStatus[s] = "completed" => walked'[s] = walked[s]
    BY <1>1 DEF ScanIInv, SlotIsStarted
  <1>6. CompletedIsKept'
    <2>1. ASSUME NEW s \in Scans, scanStatus[s] = "completed"
          PROVE  walked'[s] \cap RootFiles \subseteq ResultsOf(s)'
      BY <1>5, <2>1 DEF ScanIInv, CompletedIsKept
    <2>2. QED
      BY <2>1 DEF CompletedIsKept
  <1>7. CreatedOfCompleted'
    BY <1>5 DEF ScanIInv, ScanTypeOK, CreatedOfCompleted
  <1>8. QED
    BY <1>2, <1>3, <1>4, <1>6, <1>7 DEF ScanIInv

LEMMA DiscoverKeeps == ASSUME ScanIInv, NEW p \in Places, Discover(p) PROVE ScanIInv'
  <1>1. slot \in Scans /\ slot # 0 /\ stage = "walk"
    BY ScanBounds DEF ScanIInv, ScanTypeOK, SlotIsStarted, Discover, Scans
  <1>2. /\ UNCHANGED <<scanStatus, slot, stage, scanCancelled, rootDisk, scanSession, scanRestarts, rootChanges,
                       created>>
        /\ todo' = todo \ {p}
    BY DEF Discover, scanWorld
  <1>3. scanFaults' \in 0..MaxScanFaults
    BY ScanBounds DEF Discover, Flush, ScanFault, NoScanFault, ScanIInv, ScanTypeOK
  <1>4. ScanTypeOK /\ pending \subseteq walked[slot] /\ pending \subseteq Places
    BY <1>1 DEF ScanIInv, ScanTypeOK, AcceptedOnly
  <1>5. \A q \in Places : seenBy[q] # 0 => q \in walked[seenBy[q]] /\ seenBy[q] \in Scans
    BY ScanBounds DEF ScanIInv, ScanTypeOK, AcceptedOnly, Scans
  <1>6. \A s \in Scans : ResultsOf(s) \subseteq walked[s]
    BY DEF ScanIInv, AcceptedOnly
  <1>7. CASE \* it is no longer wanted, or it failed
             /\ terminal' \in {"failed", "cancelled"}
             /\ UNCHANGED <<pending, seenBy, results, walked>>
    <2>1. walked' = [walked EXCEPT ![slot] = @ \cup {}]
      BY <1>1, <1>4, <1>7 DEF ScanTypeOK
    <2>2. \A s \in Scans : ResultsOf(s)' = ResultsOf(s)
      BY <1>7 DEF ResultsOf
    <2>3. ScanTypeOK'
      BY <1>2, <1>3, <1>4, <1>7 DEF ScanTypeOK
    <2>4. terminal' # "completed"
      BY <1>7
    <2>5. pending' \subseteq pending \cup {} /\ {} \in SUBSET Places
      BY <1>7
    <2>6. \A q \in Places : seenBy'[q] # 0 => q \in walked'[seenBy'[q]]
      BY <1>5, <1>7
    <2>7. \A s \in Scans : ResultsOf(s)' \subseteq walked'[s] /\ ResultsOf(s) \subseteq ResultsOf(s)'
      BY <1>6, <1>7, <2>2
    <2>8. QED
      BY <1>1, <1>2, <2>1, <2>3, <2>4, <2>5, <2>6, <2>7, WalkOnKeeps
  <1>8. CASE /\ walked' = [walked EXCEPT ![slot] = @ \cup {p}]
             /\ \/ /\ pending' = pending \cup {p}
                   /\ UNCHANGED <<seenBy, results, terminal>>
                \/ Flush(pending \cup {p})
    <2>1. /\ walked' \in [Scans -> SUBSET Places] /\ {p} \in SUBSET Places
          /\ \A s \in Scans : walked[s] \subseteq walked'[s]
          /\ pending \cup {p} \subseteq walked'[slot] /\ pending \cup {p} \in SUBSET Places
      BY <1>1, <1>4, <1>8 DEF ScanTypeOK
    <2>2. CASE /\ pending' \subseteq pending \cup {p}
               /\ UNCHANGED <<seenBy, results>>
               /\ \/ terminal' = "failed"
                  \/ pending' = pending \cup {p} /\ terminal' = terminal
      <3>1. \A s \in Scans : ResultsOf(s)' = ResultsOf(s)
        BY <2>2 DEF ResultsOf
      <3>2. ScanTypeOK'
        BY <1>2, <1>3, <1>4, <2>1, <2>2 DEF ScanTypeOK
      <3>3. terminal' = "completed" => terminal = "completed" /\ pending' = pending \cup {p}
        BY <2>2
      <3>4. \A q \in Places : seenBy'[q] # 0 => q \in walked'[seenBy'[q]]
        BY <1>5, <2>1, <2>2
      <3>5. \A s \in Scans : ResultsOf(s)' \subseteq walked'[s] /\ ResultsOf(s) \subseteq ResultsOf(s)'
        BY <1>6, <2>1, <3>1
      <3>6. QED
        BY <1>1, <1>2, <1>8, <2>1, <2>2, <3>2, <3>3, <3>4, <3>5, WalkOnKeeps
    <2>3. CASE /\ Record(pending \cup {p}) /\ pending' = {}
               /\ terminal' = terminal \/ terminal' = "failed"
      <3>1. /\ seenBy' \in [Places -> 0..MaxSessions] /\ results' \subseteq Scans \X RootFiles
            /\ \A q \in Places : seenBy'[q] # 0 => q \in walked'[seenBy'[q]]
            /\ \A s \in Scans : ResultsOf(s)' \subseteq walked'[s]
            /\ \A s \in Scans : ResultsOf(s) \subseteq ResultsOf(s)'
            /\ \A s \in Scans : s = slot => (pending \cup {p}) \cap RootFiles \subseteq ResultsOf(s)'
        BY <1>1, <2>1, <2>3, RecordKeeps
      <3>2. ScanTypeOK'
        BY <1>2, <1>3, <1>4, <2>1, <2>3, <3>1 DEF ScanTypeOK
      <3>3. pending' \subseteq pending \cup {p} /\ (terminal' = "completed" => terminal = "completed")
        BY <2>3
      <3>4. \A s \in Scans : s = slot =>
              (pending \cup {p}) \cap RootFiles \subseteq ResultsOf(s)' \cup pending'
        BY <3>1
      <3>5. \A s \in Scans : ResultsOf(s)' \subseteq walked'[s] /\ ResultsOf(s) \subseteq ResultsOf(s)'
        BY <3>1
      <3>6. QED
        BY <1>1, <1>2, <1>8, <2>1, <3>1, <3>2, <3>3, <3>4, <3>5, WalkOnKeeps
    <2>4. QED
      BY <1>8, <2>2, <2>3 DEF Flush
  <1>9. QED
    BY <1>7, <1>8 DEF Discover

LEMMA FinishScanKeeps == ASSUME ScanIInv, FinishScan PROVE ScanIInv'
  <1>1. slot \in Scans /\ slot # 0 /\ stage = "finish" /\ ScanTypeOK
    BY ScanBounds DEF ScanIInv, ScanTypeOK, SlotIsStarted, FinishScan, Scans
  <1>2. /\ UNCHANGED <<terminal, walked, rootDisk, scanSession, scanRestarts, rootChanges, created>>
        /\ slot' = 0 /\ stage' = "off" /\ scanCancelled' = FALSE /\ todo' = {} /\ pending' = {}
    BY DEF FinishScan, Leave, scanWorld
  <1>3. scanFaults' \in 0..MaxScanFaults
    BY <1>1, ScanBounds DEF FinishScan, ScanFault, NoScanFault, ScanTypeOK
  <1>4. pending \subseteq walked[slot] /\ pending \in SUBSET Places
    BY <1>1 DEF ScanIInv, ScanTypeOK, AcceptedOnly
  <1>5. /\ seenBy' \in [Places -> 0..MaxSessions] /\ results' \subseteq Scans \X RootFiles
        /\ \A p \in Places : seenBy'[p] # 0 => p \in walked[seenBy'[p]]
        /\ \A s \in Scans : ResultsOf(s)' \subseteq walked[s] /\ ResultsOf(s) \subseteq ResultsOf(s)'
    <2>1. CASE UNCHANGED scanRows
      BY <1>1, <2>1 DEF ScanIInv, AcceptedOnly, ScanTypeOK, scanRows, ResultsOf
    <2>2. CASE Record(pending)
      <3>1. walked' \in [Scans -> SUBSET Places] /\ pending \subseteq walked'[slot]
            /\ \A s \in Scans : walked[s] \subseteq walked'[s]
        BY <1>1, <1>2, <1>4 DEF ScanTypeOK
      <3>2. QED
        BY <1>1, <1>2, <1>4, <2>2, <3>1, RecordKeeps
    <2>3. QED
      BY <2>1, <2>2 DEF FinishScan
  <1>6. \/ scanStatus' = scanStatus
        \/ scanStatus' = [scanStatus EXCEPT ![slot] = terminal] /\ Record(pending)
    BY DEF FinishScan, scanRows, SetStatus
  <1>7. /\ scanStatus' \in [Scans -> ScanEnds \cup {"absent", "queued", "running"}]
        /\ \A s \in Scans : s # slot => scanStatus'[s] = scanStatus[s]
    BY <1>1, <1>6 DEF ScanTypeOK, ScanEnds
  <1>8. ScanTypeOK'
    <2>1. 0 \in 0..MaxSessions /\ FALSE \in BOOLEAN
      BY ScanBounds
    <2>2. QED
      BY <1>1, <1>2, <1>3, <1>5, <1>7, <2>1 DEF ScanTypeOK
  <1>9. AcceptedOnly' /\ WalkIsKept'
    BY <1>2, <1>5 DEF AcceptedOnly, WalkIsKept
  <1>10. SlotIsStarted'
    <2>1. slot \in 0..scanSession /\ scanSession \in Nat
      BY <1>1 DEF ScanIInv, ScanTypeOK, SlotIsStarted
    <2>2. \A s \in Scans : s > scanSession => s # slot
      BY <2>1, ScanBounds DEF Scans
    <2>3. \A s \in Scans : s > scanSession => walked[s] = {} /\ scanStatus'[s] # "completed"
      BY <1>7, <2>2 DEF ScanIInv, SlotIsStarted
    <2>4. QED
      BY <1>2, <2>1, <2>3 DEF SlotIsStarted
  <1>11. ASSUME scanStatus'[slot] = "completed"
         PROVE  \A s \in Scans : s = slot => walked[s] \cap RootFiles \subseteq ResultsOf(s)'
    <2>1. terminal = "completed" /\ Record(pending)
      BY <1>1, <1>6, <1>11 DEF ScanIInv, ScanTypeOK, SlotIsStarted
    <2>2. \A s \in Scans : s = slot => pending \cap RootFiles \subseteq ResultsOf(s)'
      BY <1>1, <1>4, <2>1, RecordStores
    <2>3. walked[slot] \cap RootFiles \subseteq ResultsOf(slot) \cup pending
      BY <1>1, <2>1 DEF ScanIInv, WalkIsKept
    <2>4. QED
      BY <1>5, <2>2, <2>3
  <1>12. CompletedIsKept'
    <2>1. ASSUME NEW s \in Scans, scanStatus'[s] = "completed"
          PROVE  walked[s] \cap RootFiles \subseteq ResultsOf(s)'
      <3>1. CASE s = slot
        BY <1>11, <2>1, <3>1
      <3>2. CASE s # slot
        BY <1>5, <1>7, <2>1, <3>2 DEF ScanIInv, CompletedIsKept
      <3>3. QED
        BY <3>1, <3>2
    <2>2. QED
      BY <1>2, <2>1 DEF CompletedIsKept
  <1>13. CreatedOfCompleted'
    <2>1. \A s \in Scans : scanStatus[s] = "completed" => s # slot
      BY <1>1 DEF ScanIInv, SlotIsStarted
    <2>2. QED
      BY <1>1, <1>2, <1>7, <2>1 DEF ScanIInv, ScanTypeOK, CreatedOfCompleted
  <1>14. QED
    BY <1>8, <1>9, <1>10, <1>12, <1>13 DEF ScanIInv

\* Every step of a scan, and every creation, keeps it.
THEOREM ScanInductive == ScanSpec => []ScanIInv
  <1>1. ScanInit => ScanIInv
    <2>1. ASSUME ScanInit PROVE ScanTypeOK
      <3>1. /\ 0 \in 0..MaxSessions /\ 0 \in 0..MaxScanFaults /\ 0 \in 0..MaxScanRestarts
            /\ 0 \in 0..MaxRootChanges /\ FALSE \in BOOLEAN
        BY ScanBounds
      <3>2. /\ scanStatus \in [Scans -> ScanEnds \cup {"absent", "queued", "running"}]
            /\ seenBy \in [Places -> 0..MaxSessions]
            /\ walked \in [Scans -> SUBSET Places]
        BY <2>1, <3>1 DEF ScanInit
      <3>3. /\ rootDisk \subseteq Places /\ todo \subseteq Places /\ pending \subseteq Places
            /\ results \subseteq Scans \X RootFiles
            /\ created \subseteq [session : Scans, files : SUBSET Places]
        BY <2>1 DEF ScanInit
      <3>4. QED
        BY <2>1, <3>1, <3>2, <3>3 DEF ScanInit, ScanTypeOK
    <2>2. ASSUME ScanInit PROVE AcceptedOnly /\ SlotIsStarted /\ WalkIsKept
      BY <2>2 DEF ScanInit, AcceptedOnly, SlotIsStarted, WalkIsKept, ResultsOf
    <2>3. ASSUME ScanInit PROVE CompletedIsKept /\ CreatedOfCompleted
      BY <2>3 DEF ScanInit, CompletedIsKept, CreatedOfCompleted
    <2>4. QED
      BY <2>1, <2>2, <2>3 DEF ScanIInv
  <1>2. ASSUME ScanIInv, [ScanNext]_scanVars PROVE ScanIInv'
    <2>1. CASE StartScan \/ CancelScan \/ BeginScanning \/ EndWalk \/ FinishScan \/ ScanRestart
      BY <1>2, <2>1, StartScanKeeps, CancelScanKeeps, BeginScanningKeeps, EndWalkKeeps, FinishScanKeeps,
         ScanRestartKeeps
    <2>2. CASE \E p \in Places : Discover(p) \/ Vanished(p) \/ ChangeRoot(p)
      BY <1>2, <2>2, DiscoverKeeps, VanishedKeeps, ChangeRootKeeps
    <2>3. CASE \E s \in Scans, f \in RootFiles : CreateFrom(s, f)
      BY <1>2, <2>3, CreateFromKeeps
    <2>4. CASE UNCHANGED scanVars
      <3>1. ScanTypeOK'
        BY <1>2, <2>4 DEF scanVars, ScanIInv, ScanTypeOK
      <3>2. QED
        BY <1>2, <2>4, <3>1, QuietKeeps DEF scanVars
    <2>5. QED
      BY <1>2, <2>1, <2>2, <2>3, <2>4 DEF ScanNext
  <1>3. QED
    BY <1>1, <1>2, PTL DEF ScanSpec

\* What an installation is created from is every file its scan found: no scan that was
\* cancelled, failed or interrupted, and no later scan of the root, leaves a part of it
\* (validate_selection against record_batch of dla-sqlite/src/scanner.rs).
THEOREM CreatedFromWhole == ScanSpec => []CreatedFromWholeScan
  <1>1. ScanIInv => CreatedFromWholeScan
    BY DEF ScanIInv, CreatedOfCompleted, CreatedFromWholeScan
  <1>2. QED
    BY <1>1, ScanInductive, PTL

\* The rows, the slot and its thread are of their kinds.
THEOREM ScanTypeCorrect == ScanSpec => []ScanTypeOK
  <1>1. ScanIInv => ScanTypeOK
    BY DEF ScanIInv
  <1>2. QED
    BY <1>1, ScanInductive, PTL

-----------------------------------------------------------------------------
(* Installations: the inductive invariant.                                 *)

RowPlans == [pc : {"confirm", "rescan", "overrides", "detection"}, id : RowIds, row : Rows]

\* A row no overlapping commands wrote, and what a command is about to write, are
\* consistent.
RowsIInv ==
    /\ libraryRow \in [RowIds -> Rows \cup {NoRow}]
    /\ held \in [RowCallers -> RowPlans \cup {NoRowCommand}]
    /\ tornRows \subseteq RowIds /\ rowCalls \in 0..MaxRowCalls
    /\ \A i \in RowIds : i \notin tornRows /\ libraryRow[i] # NoRow => Valid(libraryRow[i])
    /\ \A c \in RowCallers : held[c] # NoRowCommand => Valid(held[c].row)

LEMMA RowFields ==
    ASSUME NEW r \in Rows
    PROVE  /\ r.detected \in Detection /\ r.chosen \in Overrides /\ r # NoRow
           /\ r.status \in {"ready", "needs_review"}
  <1>1. NoRow.status = "absent"
    BY DEF NoRow
  <1>2. QED
    BY <1>1 DEF Rows

\* The status of a row is one of the two.
LEMMA StatusIsOne ==
    \A d \in Detection, o \in Overrides : ReviewStatus(d, o) \in {"ready", "needs_review"}
  BY DEF ReviewStatus, Detection, Overrides

\* A row of which one half is replaced in memory is consistent with its new status.
LEMMA WithDetectionIsValid ==
    ASSUME NEW r \in Rows, NEW d \in Detection, Sound(d)
    PROVE  WithDetection(r, d) \in Rows /\ Valid(WithDetection(r, d))
  <1> DEFINE new == WithDetection(r, d)
  <1>1. r.chosen \in Overrides
    BY RowFields
  <1>2. ReviewStatus(d, r.chosen) \in {"ready", "needs_review"}
    BY <1>1, StatusIsOne
  <1>3. /\ new \in Rows /\ new.detected = d /\ new.chosen = r.chosen
        /\ new.status = ReviewStatus(d, r.chosen)
    BY <1>1, <1>2 DEF WithDetection, Rows
  <1> HIDE DEF new
  <1>4. QED
    BY <1>3 DEF Valid, new

LEMMA WithOverridesIsValid ==
    ASSUME NEW r \in Rows, NEW o \in Overrides, Valid(r)
    PROVE  WithOverrides(r, o) \in Rows /\ Valid(WithOverrides(r, o))
  <1> DEFINE new == WithOverrides(r, o)
  <1>1. r.detected \in Detection
    BY RowFields
  <1>2. ReviewStatus(r.detected, o) \in {"ready", "needs_review"}
    BY <1>1, StatusIsOne
  <1>3. /\ new \in Rows /\ new.detected = r.detected /\ new.chosen = o
        /\ new.status = ReviewStatus(r.detected, o)
    BY <1>1, <1>2 DEF WithOverrides, Rows
  <1> HIDE DEF new
  <1>4. QED
    BY <1>3 DEF Valid, new

\* A detection of a scan is a detection, and what is started of it stays.
LEMMA ScannedIsSound ==
    ASSUME NEW d \in Detection
    PROVE  /\ Scanned(d) \in Detection
           /\ Sound(d) => Sound(Scanned(d))
           /\ NewRow(Scanned(d)) \in Rows
  <1>1. Scanned(d) \in Detection /\ (Sound(d) => Sound(Scanned(d)))
    BY DEF Scanned, Detection, Sound
  <1>2. DefaultOverrides \in Overrides
    BY DEF DefaultOverrides, Overrides
  <1>3. Scanned(d).suggested \in {"ready", "needs_review"}
    BY <1>1 DEF Detection
  <1>4. QED
    BY <1>1, <1>2, <1>3 DEF NewRow, Rows

\* What a command reads, it may write.
LEMMA HeldFields ==
    ASSUME RowsIInv, NEW c \in RowCallers, held[c] # NoRowCommand
    PROVE  held[c].id \in RowIds /\ held[c].row \in Rows /\ Valid(held[c].row)
  BY DEF RowsIInv, RowPlans

\* A command goes on with what it read or computed, or is over.
LEMMA HoldKeeps ==
    ASSUME RowsIInv, NEW c \in RowCallers, NEW h \in RowPlans \cup {NoRowCommand},
           h # NoRowCommand => Valid(h.row),
           held' = [held EXCEPT ![c] = h]
    PROVE  /\ held' \in [RowCallers -> RowPlans \cup {NoRowCommand}]
           /\ \A d \in RowCallers : held'[d] # NoRowCommand => Valid(held'[d].row)
  BY DEF RowsIInv

LEMMA ReadKeeps ==
    ASSUME RowsIInv, NEW c \in RowCallers, NEW h \in RowPlans \cup {NoRowCommand},
           h # NoRowCommand => Valid(h.row),
           held' = [held EXCEPT ![c] = h],
           UNCHANGED <<libraryRow, tornRows>>, rowCalls' \in 0..MaxRowCalls
    PROVE  RowsIInv'
  <1>1. /\ held' \in [RowCallers -> RowPlans \cup {NoRowCommand}]
        /\ \A d \in RowCallers : held'[d] # NoRowCommand => Valid(held'[d].row)
    BY HoldKeeps
  <1>2. QED
    BY <1>1 DEF RowsIInv

\* A row that is consistent is stored.
LEMMA RowKeeps ==
    ASSUME RowsIInv, NEW i \in RowIds, NEW r \in Rows \cup {NoRow},
           libraryRow' = [libraryRow EXCEPT ![i] = r],
           \/ tornRows' = tornRows \ {i} /\ (r # NoRow => Valid(r))
           \/ tornRows' = tornRows /\ (i \notin tornRows => Valid(r))
           \/ tornRows' = tornRows \cup {i},
           UNCHANGED held, rowCalls' \in 0..MaxRowCalls
    PROVE  RowsIInv'
  <1>1. libraryRow' \in [RowIds -> Rows \cup {NoRow}] /\ tornRows' \subseteq RowIds
    BY DEF RowsIInv
  <1>2. ASSUME NEW j \in RowIds, j \notin tornRows', libraryRow'[j] # NoRow
        PROVE  Valid(libraryRow'[j])
    <2>1. CASE j = i
      BY <1>2, <2>1 DEF RowsIInv
    <2>2. CASE j # i
      BY <1>2, <2>2 DEF RowsIInv
    <2>3. QED
      BY <2>1, <2>2
  <1>3. QED
    BY <1>1, <1>2 DEF RowsIInv

LEMMA CalledBound == ASSUME RowsIInv, Called PROVE rowCalls' \in 0..MaxRowCalls
  BY RowsAssumptions DEF RowsIInv, Called

LEMMA CreateOrRefreshKeeps ==
    ASSUME RowsIInv, NEW i \in RowIds, NEW d \in Detections, CreateOrRefresh(i, d)
    PROVE  RowsIInv'
  <1>1. d \in Detection /\ Sound(d) /\ Scanned(d) \in Detection /\ Sound(Scanned(d))
    BY RowsAssumptions, ScannedIsSound DEF CreateOrRefresh
  <1>2. rowCalls' \in 0..MaxRowCalls /\ tornRows' = tornRows \ {i} /\ UNCHANGED held
    BY CalledBound DEF CreateOrRefresh
  <1>3. CASE libraryRow' = [libraryRow EXCEPT ![i] = NewRow(Scanned(d))] /\ Valid(NewRow(Scanned(d)))
    BY <1>1, <1>2, <1>3, ScannedIsSound, RowKeeps
  <1>4. CASE /\ libraryRow' = [libraryRow EXCEPT ![i] = WithDetection(libraryRow[i], Scanned(d))]
             /\ Readable(i)
    <2>1. libraryRow[i] \in Rows
      BY <1>4 DEF RowsIInv, Readable
    <2>2. WithDetection(libraryRow[i], Scanned(d)) \in Rows /\ Valid(WithDetection(libraryRow[i], Scanned(d)))
      BY <1>1, <2>1, WithDetectionIsValid
    <2>3. QED
      BY <1>2, <1>4, <2>2, RowKeeps
  <1>5. QED
    BY <1>3, <1>4 DEF CreateOrRefresh

LEMMA ReplaceRootKeeps ==
    ASSUME RowsIInv, NEW i \in RowIds, ReplaceRoot(i)
    PROVE  RowsIInv'
  <1>1. libraryRow[i] \in Rows /\ Valid(libraryRow[i])
    BY DEF RowsIInv, ReplaceRoot, Readable
  <1>2. [libraryRow[i] EXCEPT !.root = "moved"] \in Rows /\ Valid([libraryRow[i] EXCEPT !.root = "moved"])
    BY <1>1 DEF Rows, Valid
  <1>3. rowCalls' \in 0..MaxRowCalls
    BY CalledBound DEF ReplaceRoot
  <1>4. libraryRow' = [libraryRow EXCEPT ![i] = [libraryRow[i] EXCEPT !.root = "moved"]]
    BY DEF ReplaceRoot
  <1>5. tornRows' = tornRows /\ UNCHANGED held
    BY DEF ReplaceRoot
  <1>6. QED
    BY <1>2, <1>3, <1>4, <1>5, RowKeeps

LEMMA RemoveRowKeeps ==
    ASSUME RowsIInv, NEW i \in RowIds, RemoveRow(i)
    PROVE  RowsIInv'
  BY RowKeeps DEF RowsIInv, RemoveRow

LEMMA SaveReviewKeeps ==
    ASSUME RowsIInv, NEW c \in RowCallers, NEW i \in RowIds, NEW o \in UserChoices, SaveReview(c, i, o)
    PROVE  RowsIInv'
  <1>1. libraryRow[i] \in Rows /\ Valid(libraryRow[i]) /\ o \in Overrides
    BY RowsAssumptions DEF RowsIInv, SaveReview, Readable
  <1>2. WithOverrides(libraryRow[i], o) \in Rows /\ Valid(WithOverrides(libraryRow[i], o))
    BY <1>1, WithOverridesIsValid
  <1> DEFINE h == Plan("overrides", i, WithOverrides(libraryRow[i], o))
  <1>3. h \in RowPlans /\ h.row = WithOverrides(libraryRow[i], o)
    BY <1>2 DEF Plan, RowPlans
  <1>4. rowCalls' \in 0..MaxRowCalls /\ held' = [held EXCEPT ![c] = h] /\ UNCHANGED <<libraryRow, tornRows>>
    BY CalledBound DEF SaveReview
  <1>5. QED
    BY <1>2, <1>3, <1>4, ReadKeeps

LEMMA StartOnRowKeeps ==
    ASSUME RowsIInv, NEW c \in RowCallers, NEW i \in RowIds, NEW command \in {"confirm", "rescan"},
           StartOnRow(c, i, command)
    PROVE  RowsIInv'
  <1>1. libraryRow[i] \in Rows /\ Valid(libraryRow[i])
    BY DEF RowsIInv, StartOnRow, Readable
  <1> DEFINE h == Plan(command, i, libraryRow[i])
  <1>2. h \in RowPlans /\ h.row = libraryRow[i]
    BY <1>1 DEF Plan, RowPlans
  <1>3. rowCalls' \in 0..MaxRowCalls /\ held' = [held EXCEPT ![c] = h] /\ UNCHANGED <<libraryRow, tornRows>>
    BY CalledBound DEF StartOnRow
  <1>4. QED
    BY <1>1, <1>2, <1>3, ReadKeeps

LEMMA ConfirmReadKeeps ==
    ASSUME RowsIInv, NEW c \in RowCallers, ConfirmRead(c)
    PROVE  RowsIInv'
  <1>1. held[c] # NoRowCommand
    BY DEF ConfirmRead, NoRowCommand
  <1> DEFINE i == held[c].id
             o == Confirmed(held[c].row)
             h == IF Readable(i) THEN Plan("overrides", i, WithOverrides(libraryRow[i], o)) ELSE NoRowCommand
  <1>2. i \in RowIds /\ held[c].row \in Rows
    BY <1>1, HeldFields
  <1>3. o \in Overrides
    <2>1. held[c].row.chosen \in Overrides /\ held[c].row.detected \in Detection
      BY <1>2, RowFields
    <2>2. held[c].row.detected.launch \in RowPaths \cup {Unset}
      BY <2>1 DEF Detection
    <2>3. QED
      BY <2>1, <2>2 DEF Confirmed, Overrides
  <1>4. h \in RowPlans \cup {NoRowCommand} /\ (h # NoRowCommand => Valid(h.row))
    <2>1. ASSUME Readable(i)
          PROVE  /\ WithOverrides(libraryRow[i], o) \in Rows
                 /\ Valid(WithOverrides(libraryRow[i], o))
      BY <1>2, <1>3, <2>1, WithOverridesIsValid DEF RowsIInv, Readable
    <2>2. QED
      BY <1>2, <2>1 DEF Plan, RowPlans
  <1>5. held' = [held EXCEPT ![c] = h] /\ UNCHANGED <<libraryRow, tornRows>> /\ rowCalls' \in 0..MaxRowCalls
    BY DEF ConfirmRead, RowsIInv
  <1>6. QED
    BY <1>4, <1>5, ReadKeeps

LEMMA RescanReadKeeps ==
    ASSUME RowsIInv, NEW c \in RowCallers, NEW d \in Detections, RescanRead(c, d)
    PROVE  RowsIInv'
  <1>1. held[c] # NoRowCommand
    BY DEF RescanRead, NoRowCommand
  <1> DEFINE i == held[c].id
             was == held[c].row.detected
             found == [d EXCEPT !.code = was.code, !.package = was.package]
             h == IF Readable(i) /\ Sound(found) THEN Plan("detection", i, WithDetection(libraryRow[i], found))
                  ELSE NoRowCommand
  <1>2. i \in RowIds /\ held[c].row \in Rows
    BY <1>1, HeldFields
  <1>3. was \in Detection /\ d \in Detection
    BY <1>2, RowFields, RowsAssumptions
  <1>4. found \in Detection
    BY <1>3 DEF Detection
  <1>5. h \in RowPlans \cup {NoRowCommand} /\ (h # NoRowCommand => Valid(h.row))
    <2> HIDE DEF found
    <2>1. ASSUME Readable(i), Sound(found)
          PROVE  /\ WithDetection(libraryRow[i], found) \in Rows
                 /\ Valid(WithDetection(libraryRow[i], found))
      BY <1>2, <1>4, <2>1, WithDetectionIsValid DEF RowsIInv, Readable
    <2>2. QED
      BY <1>2, <2>1 DEF Plan, RowPlans
  <1>6. held' = [held EXCEPT ![c] = h] /\ UNCHANGED <<libraryRow, tornRows>> /\ rowCalls' \in 0..MaxRowCalls
    BY DEF RescanRead, RowsIInv
  <1>7. QED
    BY <1>5, <1>6, ReadKeeps

\* A write stores the half and the status that were computed: the row is consistent if the
\* other half is the one they were computed from.
LEMMA WriteKeeps ==
    ASSUME RowsIInv, NEW c \in RowCallers, WriteOverrides(c) \/ WriteDetection(c)
    PROVE  RowsIInv'
  <1> DEFINE i == held[c].id
             r == held[c].row
  <1>1. held[c] # NoRowCommand
    BY DEF WriteOverrides, WriteDetection, NoRowCommand
  <1>2. i \in RowIds /\ r \in Rows /\ Valid(r)
    BY <1>1, HeldFields
  <1>3. held' = [held EXCEPT ![c] = NoRowCommand] /\ rowCalls' \in 0..MaxRowCalls
    BY DEF WriteOverrides, WriteDetection, RowsIInv
  <1>4. /\ held' \in [RowCallers -> RowPlans \cup {NoRowCommand}]
        /\ \A d \in RowCallers : held'[d] # NoRowCommand => Valid(held'[d].row)
    BY <1>3, HoldKeeps
  <1>5. CASE libraryRow[i] = NoRow
    BY <1>3, <1>4, <1>5 DEF RowsIInv, WriteOverrides, WriteDetection
  <1>6. ASSUME libraryRow[i] # NoRow
        PROVE  \E new \in Rows : /\ libraryRow' = [libraryRow EXCEPT ![i] = new]
                                 /\ \/ tornRows' = tornRows \cup {i}
                                    \/ tornRows' = tornRows /\ Valid(new)
    <2>1. libraryRow[i] \in Rows
      BY <1>2, <1>6 DEF RowsIInv
    <2>2. r.status \in {"ready", "needs_review"} /\ r.detected \in Detection /\ r.chosen \in Overrides
      BY <1>2, RowFields
    <2>3. CASE WriteOverrides(c)
      <3>1. PICK new : new = [libraryRow[i] EXCEPT !.chosen = r.chosen, !.status = r.status]
        OBVIOUS
      <3>2. /\ new \in Rows /\ new.chosen = r.chosen /\ new.status = r.status
            /\ new.detected = libraryRow[i].detected
        BY <2>1, <2>2, <3>1 DEF Rows
      <3>3. libraryRow[i].detected = r.detected => Valid(new)
        BY <1>2, <3>2 DEF Valid
      <3>4. libraryRow' = [libraryRow EXCEPT ![i] = new]
        BY <1>6, <2>3, <3>1 DEF WriteOverrides
      <3>5. tornRows' = IF libraryRow[i].detected = r.detected THEN tornRows ELSE tornRows \cup {i}
        BY <1>6, <2>3 DEF WriteOverrides
      <3>6. QED
        BY <3>2, <3>3, <3>4, <3>5
    <2>4. CASE WriteDetection(c)
      <3>1. PICK new : new = [libraryRow[i] EXCEPT !.detected = r.detected, !.status = r.status]
        OBVIOUS
      <3>2. /\ new \in Rows /\ new.detected = r.detected /\ new.status = r.status
            /\ new.chosen = libraryRow[i].chosen
        BY <2>1, <2>2, <3>1 DEF Rows
      <3>3. libraryRow[i].chosen = r.chosen => Valid(new)
        BY <1>2, <3>2 DEF Valid
      <3>4. libraryRow' = [libraryRow EXCEPT ![i] = new]
        BY <1>6, <2>4, <3>1 DEF WriteDetection
      <3>5. tornRows' = IF libraryRow[i].chosen = r.chosen THEN tornRows ELSE tornRows \cup {i}
        BY <1>6, <2>4 DEF WriteDetection
      <3>6. QED
        BY <3>2, <3>3, <3>4, <3>5
    <2>5. QED
      BY <2>3, <2>4
  <1>7. CASE libraryRow[i] # NoRow
    <2>1. PICK new \in Rows : /\ libraryRow' = [libraryRow EXCEPT ![i] = new]
                              /\ \/ tornRows' = tornRows \cup {i}
                                 \/ tornRows' = tornRows /\ Valid(new)
      BY <1>6, <1>7
    <2>2. libraryRow' \in [RowIds -> Rows \cup {NoRow}] /\ tornRows' \subseteq RowIds
      BY <1>2, <2>1 DEF RowsIInv
    <2>3. \A j \in RowIds : j \notin tornRows' /\ libraryRow'[j] # NoRow => Valid(libraryRow'[j])
      BY <1>2, <2>1 DEF RowsIInv
    <2>4. QED
      BY <1>3, <1>4, <2>2, <2>3 DEF RowsIInv
  <1>8. QED
    BY <1>5, <1>7

\* Every command keeps it: a row that no overlapping commands wrote is consistent, and so is
\* what a command is about to write.
THEOREM RowsInductive == RowsSpec => []RowsIInv
  <1>1. RowsInit => RowsIInv
    BY RowsAssumptions DEF RowsInit, RowsIInv
  <1>2. ASSUME RowsIInv, [RowsNext]_rowsVars PROVE RowsIInv'
    <2>1. ASSUME NEW i \in RowIds,
                 ReplaceRoot(i) \/ RemoveRow(i) \/ \E d \in Detections : CreateOrRefresh(i, d)
          PROVE  RowsIInv'
      BY <1>2, <2>1, ReplaceRootKeeps, RemoveRowKeeps, CreateOrRefreshKeeps
    <2>2. ASSUME NEW c \in RowCallers,
                 \/ \E i \in RowIds : \/ \E o \in UserChoices : SaveReview(c, i, o)
                                      \/ \E command \in {"confirm", "rescan"} : StartOnRow(c, i, command)
                 \/ ConfirmRead(c) \/ WriteOverrides(c) \/ WriteDetection(c)
                 \/ \E d \in Detections : RescanRead(c, d)
          PROVE  RowsIInv'
      BY <1>2, <2>2, SaveReviewKeeps, StartOnRowKeeps, ConfirmReadKeeps, WriteKeeps, RescanReadKeeps
    <2>3. CASE UNCHANGED rowsVars
      BY <1>2, <2>3 DEF rowsVars, RowsIInv
    <2>4. QED
      BY <1>2, <2>1, <2>2, <2>3 DEF RowsNext
  <1>3. QED
    BY <1>1, <1>2, PTL DEF RowsSpec

\* Unless two commands overlapped on a row, the library lists every installation, and a
\* search for a work finds exactly those the list shows under it (replace_detection,
\* replace_overrides, list and find_by_work_code of dla-sqlite/src/installation.rs).
THEOREM LibraryAnswersAll == RowsSpec => []LibraryAnswers
  <1>1. ASSUME RowsIInv, tornRows = {}
        PROVE  /\ List = {i \in RowIds : libraryRow[i] # NoRow}
               /\ \A code \in RowCodes :
                    FindByWorkCode(code) = {i \in List : EffectiveCode(libraryRow[i]) = code}
    <2>1. \A i \in RowIds : libraryRow[i] # NoRow => Readable(i)
      BY <1>1 DEF RowsIInv, Readable
    <2>2. List = {i \in RowIds : libraryRow[i] # NoRow}
      BY <2>1 DEF List, AnswerRows
    <2>3. ASSUME NEW code \in RowCodes
          PROVE  FindByWorkCode(code) = {i \in List : EffectiveCode(libraryRow[i]) = code}
      <3>1. FindByWorkCode(code) = {i \in RowIds : libraryRow[i] # NoRow /\ NamedAs(i, code)}
        BY <2>1 DEF FindByWorkCode, AnswerRows
      <3>2. \A i \in RowIds : NamedAs(i, code) <=> EffectiveCode(libraryRow[i]) = code
        BY RowsAssumptions DEF NamedAs, EffectiveCode, Unset, Unidentified
      <3>3. QED
        BY <2>2, <3>1, <3>2
    <2>4. QED
      BY <2>2, <2>3
  <1>2. RowsIInv => LibraryAnswers
    BY <1>1 DEF LibraryAnswers
  <1>3. QED
    BY <1>2, RowsInductive, PTL

\* The rows and what the commands hold are of their kinds.
THEOREM RowsTypeCorrect == RowsSpec => []RowsTypeOK
  <1>1. RowsIInv => RowsTypeOK
    BY DEF RowsIInv, RowsTypeOK, RowPlans
  <1>2. QED
    BY <1>1, RowsInductive, PTL

-----------------------------------------------------------------------------
(* LibraryAdd: the inductive invariant.                                    *)

BatchFields == {"id", "phase", "sources", "found", "jobs", "cancelled"}
ThreadFields == {"at", "of", "done", "group", "claimed", "ok"}
RecordOf(fields, r) == r = [f \in fields |-> r[f]]

Asks(q, w) == w.folder = q.folder /\ q.file \in w.files \cup {NoFile}
WorksOf(found) == {found[k].work : k \in DOMAIN found}
EachOnce(found) == \A k, l \in DOMAIN found : found[k].work = found[l].work => k = l
FoundWorks == WorksOf(batch.found)

\* A batch that is scanned or reviewed and that no other thread wrote into; what was picked
\* for it and its own thread.
Looking == batch.phase \in {"scanning", "review"} /\ batch.id \notin mixed
Pick == picked[batch.id]
Thread == scan[batch.id]

\* A pick that waits has a place, and every batch one of its own.
BatchesAreBounded ==
    /\ starting \in Seq(Picks) /\ Started + Len(starting) <= MaxBatches
    /\ picked \in [BatchIds -> Picks \cup {<<>>}]
    /\ scan = [b \in BatchIds |-> scan[b]]
    /\ RecordOf(BatchFields, batch)
    /\ batch.phase \in {"scanning", "review"} => batch.id \in BatchIds /\ Pick \in Picks

\* The list holds once each what the sources that were looked at ask for.
FoundOnce ==
    /\ batch.found \in Seq([source : Nat, work : PickableWorks])
    /\ \A k, l \in DOMAIN batch.found : batch.found[k].work = batch.found[l].work => k = l
    /\ FoundWorks = {w \in PickableWorks :
                       \E i \in DOMAIN Pick : batch.sources[i] = "done" /\ Asks(Pick[i], w)}

\* The sources are over that the thread has done; in review all are.
SourcesAreDone ==
    /\ batch.sources \in [DOMAIN Pick -> SourceStatuses]
    /\ Thread.at = "begin" => \A i \in DOMAIN Pick : batch.sources[i] \notin {"done", "failed"}
    /\ Thread.at \in {"next", "scan", "report"} =>
         /\ RecordOf(ThreadFields, Thread) /\ Thread.of = batch.id
         /\ Thread.done \subseteq DOMAIN Pick /\ Thread.group \subseteq DOMAIN Pick \ Thread.done
         /\ \A i \in DOMAIN Pick : batch.sources[i] \in {"done", "failed"} <=> i \in Thread.done
    /\ batch.phase = "review" => \A i \in DOMAIN Pick : batch.sources[i] \in {"done", "failed"}

\* The sources of one folder are looked at together, and a work found for one of them is
\* claimed from the others.
FoldersAreShared ==
    /\ Thread.at = "next" =>
         \A i \in DOMAIN Pick, j \in Thread.done : Pick[i].folder = Pick[j].folder => i \in Thread.done
    /\ Thread.at \in {"scan", "report"} =>
         /\ Thread.group # {}
         /\ \A i, j \in Thread.group : Pick[i].folder = Pick[j].folder
         /\ \A i \in DOMAIN Pick, j \in Thread.done \cup Thread.group :
              Pick[i].folder = Pick[j].folder => i \in Thread.done \cup Thread.group
         /\ \A i \in Thread.group, w \in FoundWorks :
              w.folder = Pick[i].folder => w.key \in Thread.claimed
         /\ Thread.claimed \subseteq {w.key : w \in FoundWorks}
    /\ Thread.at = "scan" =>
         \A i \in Thread.group, j \in Thread.done : Pick[i].folder # Pick[j].folder

AddIInv ==
    BatchesAreBounded /\ (Looking => FoundOnce /\ SourcesAreDone /\ FoldersAreShared)

\* A record of which a field is replaced.
LEMMA RecordOfExcept ==
    ASSUME NEW fields, NEW r, RecordOf(fields, r), NEW f \in fields, NEW x
    PROVE  /\ RecordOf(fields, [r EXCEPT ![f] = x])
           /\ [r EXCEPT ![f] = x][f] = x
           /\ \A g \in fields \ {f} : [r EXCEPT ![f] = x][g] = r[g]
  BY DEF RecordOf

\* A step that leaves the batch that is looked at, its pick and its thread as they are.
LEMMA QuietAddKeeps ==
    ASSUME AddIInv, BatchesAreBounded',
           Looking' => /\ Looking
                       /\ batch'.id = batch.id /\ batch'.phase = batch.phase
                       /\ batch'.sources = batch.sources /\ batch'.found = batch.found
                       /\ Pick' = Pick /\ Thread' = Thread
    PROVE  AddIInv'
  <1>1. SUFFICES ASSUME Looking' PROVE FoundOnce' /\ SourcesAreDone' /\ FoldersAreShared'
    BY DEF AddIInv
  <1>2. FoundOnce /\ SourcesAreDone /\ FoldersAreShared
    BY <1>1 DEF AddIInv
  <1>3. FoundWorks' = FoundWorks
    BY <1>1 DEF FoundWorks
  <1>4. FoundOnce'
    BY <1>1, <1>2, <1>3 DEF FoundOnce
  <1>5. SourcesAreDone'
    BY <1>1, <1>2 DEF SourcesAreDone
  <1>6. FoldersAreShared'
    BY <1>1, <1>2, <1>3 DEF FoldersAreShared
  <1>7. QED
    BY <1>4, <1>5, <1>6

LEMMA AddSettledFields ==
    ASSUME NEW v, RecordOf(BatchFields, v)
    PROVE  /\ RecordOf(BatchFields, AddSettled(v))
           /\ AddSettled(v).id = v.id /\ AddSettled(v).sources = v.sources
           /\ AddSettled(v).found = v.found
           /\ AddSettled(v).phase \in {"scanning", "review"} => AddSettled(v).phase = v.phase
  <1> DEFINE over == IF v.cancelled THEN "cancelled" ELSE "done"
             w == [v EXCEPT !["phase"] = over]
  <1>1. RecordOf(BatchFields, w) /\ w.id = v.id /\ w.sources = v.sources /\ w.found = v.found /\ w.phase = over
    <2> HIDE DEF over
    <2>1. QED
      BY RecordOfExcept DEF BatchFields
  <1>2. AddSettled(v) = v \/ AddSettled(v) = w
    BY DEF AddSettled
  <1>3. over \notin {"scanning", "review"}
    OBVIOUS
  <1> HIDE DEF over, w
  <1>4. CASE AddSettled(v) = v
    BY <1>4
  <1>5. CASE AddSettled(v) = w
    BY <1>1, <1>3, <1>5
  <1>6. QED
    BY <1>2, <1>4, <1>5

\* A change to the jobs.
LEMMA JobsFields ==
    ASSUME NEW v, RecordOf(BatchFields, v), NEW jobs
    PROVE  /\ RecordOf(BatchFields, [v EXCEPT !.jobs = jobs])
           /\ [v EXCEPT !.jobs = jobs].id = v.id /\ [v EXCEPT !.jobs = jobs].sources = v.sources
           /\ [v EXCEPT !.jobs = jobs].found = v.found /\ [v EXCEPT !.jobs = jobs].phase = v.phase
  BY RecordOfExcept DEF BatchFields

LEMMA StartedIsNat == Started \in Nat
  <1>1. IsFiniteSet(BatchIds)
    BY AddAssumptions, FS_Interval DEF BatchIds
  <1>2. QED
    BY <1>1, FS_Subset, FS_CardinalityType DEF Started

LEMMA SourceScanningFields ==
    ASSUME NEW v, RecordOf(BatchFields, v), NEW g, NEW s,
           s = [i \in DOMAIN v.sources |-> IF i \in g THEN "scanning" ELSE v.sources[i]]
    PROVE  /\ RecordOf(BatchFields, SourceScanning(v, g))
           /\ SourceScanning(v, g).id = v.id /\ SourceScanning(v, g).phase = v.phase
           /\ SourceScanning(v, g).found = v.found
           /\ SourceScanning(v, g).sources = s
  <1> DEFINE w == [v EXCEPT !["sources"] = s]
  <1>1. SourceScanning(v, g) = w
    BY DEF SourceScanning
  <1>2. RecordOf(BatchFields, w) /\ w.id = v.id /\ w.phase = v.phase /\ w.found = v.found /\ w.sources = s
    BY RecordOfExcept DEF BatchFields
  <1> HIDE DEF w
  <1>3. QED
    BY <1>1, <1>2

LEMMA SourceEndedFields ==
    ASSUME NEW v, RecordOf(BatchFields, v), NEW i, NEW status, NEW found, NEW s,
           s = [j \in DOMAIN v.sources |-> IF j = i THEN status ELSE v.sources[j]]
    PROVE  /\ RecordOf(BatchFields, SourceEnded(v, i, status, found))
           /\ SourceEnded(v, i, status, found).id = v.id
           /\ SourceEnded(v, i, status, found).sources = s
           /\ SourceEnded(v, i, status, found).found = v.found \o InOrder(found, i)
           /\ \/ SourceEnded(v, i, status, found).phase = v.phase
              \/ /\ SourceEnded(v, i, status, found).phase = "review" /\ v.phase = "scanning"
                 /\ \A j \in DOMAIN s : s[j] \in {"done", "failed"}
  <1> DEFINE t == v.found \o InOrder(found, i)
             a == [v EXCEPT !["sources"] = s]
             w == [a EXCEPT !["found"] = t]
             r == [w EXCEPT !["phase"] = "review"]
  <1>1. w = [v EXCEPT !.sources = [j \in DOMAIN @ |-> IF j = i THEN status ELSE @[j]],
                      !.found = @ \o InOrder(found, i)]
    OBVIOUS
  <1> HIDE DEF t
  <1>2. RecordOf(BatchFields, a) /\ a.id = v.id /\ a.phase = v.phase /\ a.sources = s
    BY RecordOfExcept DEF BatchFields
  <1> HIDE DEF a
  <1>3. RecordOf(BatchFields, w) /\ w.id = v.id /\ w.phase = v.phase /\ w.sources = s /\ w.found = t
    BY <1>2, RecordOfExcept DEF BatchFields
  <1> HIDE DEF w
  <1>4. RecordOf(BatchFields, r) /\ r.id = w.id /\ r.phase = "review" /\ r.sources = w.sources /\ r.found = w.found
    BY <1>3, RecordOfExcept DEF BatchFields
  <1>5. \/ SourceEnded(v, i, status, found) = w
        \/ /\ SourceEnded(v, i, status, found) = r
           /\ w.phase = "scanning" /\ \A j \in DOMAIN w.sources : w.sources[j] \in {"done", "failed"}
    BY <1>1 DEF SourceEnded, ScanSettled
  <1> HIDE DEF r
  <1>6. QED
    BY <1>3, <1>4, <1>5 DEF t

LEMMA NoBatchIsRecord == RecordOf(BatchFields, NoBatch) /\ NoBatch.phase = "none"
  BY DEF NoBatch, RecordOf, BatchFields

\* A step that is not of the thread of the batch that is looked at.
LEMMA OtherKeeps ==
    ASSUME AddIInv, UNCHANGED <<starting, picked>>, RecordOf(BatchFields, batch'),
           scan' = [b \in BatchIds |-> scan'[b]],
           batch'.phase \in {"scanning", "review"} => batch'.phase = batch.phase /\ batch'.id = batch.id,
           Looking' => /\ Looking /\ batch'.sources = batch.sources /\ batch'.found = batch.found
                       /\ scan'[batch.id] = scan[batch.id]
    PROVE  AddIInv'
  <1>1. Started' = Started
    BY DEF Started
  <1>2. BatchesAreBounded'
    BY <1>1 DEF AddIInv, BatchesAreBounded, Pick
  <1>3. Looking' => /\ batch'.id = batch.id /\ batch'.phase = batch.phase
                    /\ Pick' = Pick /\ Thread' = Thread
    BY DEF Looking, Pick, Thread
  <1>4. QED
    BY <1>2, <1>3, QuietAddKeeps

LEMMA CheckStartKeeps == ASSUME AddIInv, NEW pick \in Picks, CheckStart(pick) PROVE AddIInv'
  <1>1. UNCHANGED <<batch, picked, flag, scan, runner, mixed>> /\ starting' = Append(starting, pick)
        /\ Started + Len(starting) < MaxBatches
    BY DEF CheckStart
  <1>2. Started' = Started /\ Started \in Nat
    BY <1>1, StartedIsNat DEF Started
  <1>3. starting' \in Seq(Picks) /\ Len(starting') = Len(starting) + 1 /\ Len(starting) \in Nat
    BY <1>1 DEF AddIInv, BatchesAreBounded
  <1>4. Started' + Len(starting') <= MaxBatches
    BY <1>1, <1>2, <1>3, AddAssumptions
  <1>5. BatchesAreBounded'
    BY <1>1, <1>3, <1>4 DEF AddIInv, BatchesAreBounded, Pick
  <1>6. Looking' = Looking /\ Pick' = Pick /\ Thread' = Thread
    BY <1>1 DEF Looking, Pick, Thread
  <1>7. QED
    BY <1>1, <1>5, <1>6, QuietAddKeeps

\* A step of another thread that writes into the batch mixes it.
LEMMA UpdateOfOther ==
    ASSUME NEW b, NEW new, Update(b, new), batch.id # b, RecordOf(BatchFields, batch)
    PROVE  batch' = NoBatch \/ (batch' = new /\ batch.id \in mixed')
  BY DEF Update

LEMMA ConfirmKeeps == ASSUME AddIInv, NEW chosen, Confirm(chosen) PROVE AddIInv'
  <1>1. PICK jobs : batch' = AddSettled([batch EXCEPT !.jobs = jobs, !.phase = "adding"])
    BY DEF Confirm
  <1>2. UNCHANGED <<picked, flag, starting, scan, mixed>> /\ RecordOf(BatchFields, batch)
    BY DEF Confirm, AddIInv, BatchesAreBounded
  <1> DEFINE a == [batch EXCEPT !["jobs"] = jobs]
             w == [a EXCEPT !["phase"] = "adding"]
  <1>3. batch' = AddSettled(w)
    BY <1>1
  <1>4. RecordOf(BatchFields, a)
    BY <1>2, RecordOfExcept DEF BatchFields
  <1> HIDE DEF a
  <1>5. RecordOf(BatchFields, w) /\ w.phase = "adding"
    BY <1>4, RecordOfExcept DEF BatchFields
  <1> HIDE DEF w
  <1>6. RecordOf(BatchFields, batch') /\ batch'.phase \notin {"scanning", "review"}
    BY <1>3, <1>5, AddSettledFields
  <1>7. scan' = [b \in BatchIds |-> scan'[b]]
    BY <1>2 DEF AddIInv, BatchesAreBounded
  <1>8. QED
    BY <1>2, <1>6, <1>7, OtherKeeps DEF Looking

LEMMA CancelBatchKeeps == ASSUME AddIInv, CancelBatch PROVE AddIInv'
  <1> DEFINE v == [batch EXCEPT !["cancelled"] = TRUE]
  <1>1. batch' = Stopped(v) /\ UNCHANGED <<picked, starting, scan, mixed>> /\ RecordOf(BatchFields, batch)
    BY DEF CancelBatch, AddIInv, BatchesAreBounded
  <1>2. RecordOf(BatchFields, v) /\ v.id = batch.id /\ v.phase = batch.phase
    BY <1>1, RecordOfExcept DEF BatchFields
  <1> HIDE DEF v
  <1>3. RecordOf(BatchFields, batch') /\ batch'.phase \notin {"scanning", "review"}
    <2>1. CASE v.phase \in {"scanning", "review"}
      <3>1. PICK s : batch' = [v EXCEPT !.phase = "cancelled", !.sources = s]
        BY <1>1, <2>1 DEF Stopped
      <3> DEFINE a == [v EXCEPT !["phase"] = "cancelled"]
                 w == [a EXCEPT !["sources"] = s]
      <3>2. batch' = w
        BY <3>1
      <3>3. RecordOf(BatchFields, a) /\ a.phase = "cancelled"
        BY <1>2, RecordOfExcept DEF BatchFields
      <3> HIDE DEF a
      <3>4. RecordOf(BatchFields, w) /\ w.phase = a.phase
        BY <3>3, RecordOfExcept DEF BatchFields
      <3> HIDE DEF w
      <3>5. QED
        BY <3>2, <3>3, <3>4
    <2>2. CASE v.phase = "adding"
      <3>1. PICK jobs : batch' = AddSettled([v EXCEPT !.jobs = jobs])
        BY <1>1, <2>2 DEF Stopped
      <3> DEFINE w == [v EXCEPT !["jobs"] = jobs]
      <3>2. batch' = AddSettled(w)
        BY <3>1
      <3>3. RecordOf(BatchFields, w) /\ w.phase = v.phase
        BY <1>2, RecordOfExcept DEF BatchFields
      <3> HIDE DEF w
      <3>4. QED
        BY <2>2, <3>2, <3>3, AddSettledFields
    <2>3. CASE v.phase \notin {"scanning", "review", "adding"}
      BY <1>1, <1>2, <2>3 DEF Stopped
    <2>4. QED
      BY <2>1, <2>2, <2>3
  <1>4. scan' = [b \in BatchIds |-> scan'[b]]
    BY <1>1 DEF AddIInv, BatchesAreBounded
  <1>5. QED
    BY <1>1, <1>3, <1>4, OtherKeeps DEF Looking

LEMMA DismissKeeps == ASSUME AddIInv, Dismiss PROVE AddIInv'
  <1>1. batch' = NoBatch /\ UNCHANGED <<picked, flag, starting, scan, runner, mixed>>
    BY DEF Dismiss
  <1>2. RecordOf(BatchFields, batch') /\ batch'.phase \notin {"scanning", "review"}
    BY <1>1, NoBatchIsRecord
  <1>3. scan' = [b \in BatchIds |-> scan'[b]]
    BY <1>1 DEF AddIInv, BatchesAreBounded
  <1>4. QED
    BY <1>1, <1>2, <1>3, OtherKeeps DEF Looking

\* What the thread of the jobs does to the batch that is there.
LEMMA RunnerKeeps ==
    ASSUME AddIInv, NEW b \in BatchIds,
           \/ LookAtJob(b) \/ MarkRunning(b)
           \/ \E result \in {"done", "failed", "cancelled"} : FinishJob(b, result)
    PROVE  AddIInv'
  <1>1. UNCHANGED <<picked, flag, starting, scan>> /\ RecordOf(BatchFields, batch)
    BY DEF LookAtJob, MarkRunning, FinishJob, AddIInv, BatchesAreBounded
  <1>2. scan' = [c \in BatchIds |-> scan'[c]]
    BY <1>1 DEF AddIInv, BatchesAreBounded
  <1>3. CASE LookAtJob(b)
    <2>1. UNCHANGED <<batch, mixed>>
      BY <1>3 DEF LookAtJob
    <2>2. QED
      BY <1>1, <1>2, <2>1, OtherKeeps DEF Looking
  <1>4. ASSUME NEW new, Update(b, new), RecordOf(BatchFields, new), new.id = batch.id,
               new.sources = batch.sources, new.found = batch.found,
               new.phase \in {"scanning", "review"} => new.phase = batch.phase
        PROVE  AddIInv'
    <2>1. batch' = NoBatch \/ batch' = new
      BY <1>4 DEF Update
    <2>2. mixed \subseteq mixed'
      BY <1>4 DEF Update
    <2>3. RecordOf(BatchFields, batch')
      BY <1>4, <2>1, NoBatchIsRecord
    <2>4. batch'.phase \in {"scanning", "review"} =>
            /\ batch'.phase = batch.phase /\ batch'.id = batch.id
            /\ batch'.sources = batch.sources /\ batch'.found = batch.found
      BY <1>4, <2>1, NoBatchIsRecord
    <2>5. Looking' => Looking
      BY <2>2, <2>4 DEF Looking
    <2>6. QED
      BY <1>1, <1>2, <2>3, <2>4, <2>5, OtherKeeps DEF Looking
  <1>5. ASSUME NEW i, NEW to
        PROVE  /\ RecordOf(BatchFields, SetJob(i, to)) /\ SetJob(i, to).id = batch.id
               /\ SetJob(i, to).sources = batch.sources /\ SetJob(i, to).found = batch.found
               /\ SetJob(i, to).phase = batch.phase
    <2>1. PICK jobs : SetJob(i, to) = [batch EXCEPT !.jobs = jobs]
      BY DEF SetJob
    <2>2. QED
      BY <1>1, <2>1, JobsFields
  <1>6. CASE MarkRunning(b)
    <2>1. PICK i : Update(b, SetJob(i, "running"))
      BY <1>6 DEF MarkRunning
    <2>2. QED
      BY <1>4, <1>5, <2>1
  <1>7. ASSUME NEW result, FinishJob(b, result) PROVE AddIInv'
    <2>1. PICK i : Update(b, AddSettled(SetJob(i, result)))
      BY <1>7 DEF FinishJob, JobEnded
    <2>2. PICK v : v = SetJob(i, result)
      OBVIOUS
    <2>3. /\ RecordOf(BatchFields, v) /\ v.id = batch.id /\ v.phase = batch.phase
          /\ v.sources = batch.sources /\ v.found = batch.found
      BY <1>5, <2>2
    <2>4. PICK new : new = AddSettled(v)
      OBVIOUS
    <2>5. /\ RecordOf(BatchFields, new) /\ new.id = batch.id
          /\ new.sources = batch.sources /\ new.found = batch.found
          /\ new.phase \in {"scanning", "review"} => new.phase = batch.phase
      BY <2>3, <2>4, AddSettledFields
    <2>6. Update(b, new)
      BY <2>1, <2>2, <2>4
    <2>7. QED
      BY <1>4, <2>5, <2>6
  <1>8. QED
    BY <1>3, <1>6, <1>7

LEMMA LeastOf ==
    ASSUME NEW S \in SUBSET Nat, S # {}
    PROVE  \E i \in S : \A j \in S : i <= j
  <1>1. PICK x \in S : \A y \in S : ~ (<<y, x>> \in OpToRel(<, Nat))
    BY NatLessThanWellFounded, WFMin
  <1>2. \A y \in S : ~ (y < x)
    BY <1>1 DEF OpToRel
  <1>3. QED
    BY <1>2

\* The findings of a source, each once.
LEMMA InOrderOf ==
    ASSUME NEW ws \in SUBSET PickableWorks, NEW i \in Nat
    PROVE  /\ InOrder(ws, i) \in Seq([source : Nat, work : PickableWorks])
           /\ \A k, l \in DOMAIN InOrder(ws, i) : InOrder(ws, i)[k].work = InOrder(ws, i)[l].work => k = l
           /\ {InOrder(ws, i)[k].work : k \in DOMAIN InOrder(ws, i)} = ws
  <1> DEFINE n == Cardinality(ws)
             Once(s) == \A j, k \in 1..n : j # k => s[j] # s[k]
             order == CHOOSE s \in [1..n -> ws] : Once(s)
  <1>1. IsFiniteSet(ws)
    BY AddAssumptions, FS_Subset
  <1>2. n \in Nat /\ ExistsBijection(1..n, ws)
    BY <1>1, FS_CardinalityType
  <1>3. \E s \in [1..n -> ws] : Once(s)
    BY <1>2 DEF ExistsBijection, Bijection, Injection, IsInjective
  <1>4. order \in [1..n -> ws] /\ Once(order)
    BY <1>3
  <1>5. InOrder(ws, i) = [j \in 1..n |-> [source |-> i, work |-> order[j]]]
    BY DEF InOrder
  <1> HIDE DEF order
  <1>6. order \in Injection(1..n, ws)
    BY <1>4 DEF Injection, IsInjective
  <1>7. IsFiniteSet(1..n) /\ Cardinality(1..n) = n
    BY <1>2, FS_Interval
  <1>8. order \in Surjection(1..n, ws)
    BY <1>1, <1>6, <1>7, FS_Injection
  <1>9. \A w \in ws : \E j \in 1..n : order[j] = w
    BY <1>8 DEF Surjection
  <1> HIDE DEF n
  <1>10. DOMAIN InOrder(ws, i) = 1..n /\ \A j \in 1..n : InOrder(ws, i)[j].work = order[j]
    BY <1>5
  <1>11. InOrder(ws, i) \in Seq([source : Nat, work : PickableWorks])
    BY <1>2, <1>4, <1>5
  <1>12. {InOrder(ws, i)[k].work : k \in DOMAIN InOrder(ws, i)} = ws
    BY <1>4, <1>9, <1>10
  <1>13. QED
    BY <1>4, <1>10, <1>11, <1>12

LEMMA BoundsKept ==
    ASSUME AddIInv, UNCHANGED <<starting, picked>>, RecordOf(BatchFields, batch'),
           scan' = [b \in BatchIds |-> scan'[b]],
           batch'.phase \in {"scanning", "review"} =>
             batch.phase \in {"scanning", "review"} /\ batch'.id = batch.id
    PROVE  BatchesAreBounded'
  <1>1. Started' = Started
    BY DEF Started
  <1>2. QED
    BY <1>1 DEF AddIInv, BatchesAreBounded, Pick

LEMMA StoreBatchKeeps == ASSUME AddIInv, StoreBatch PROVE AddIInv'
  <1> DEFINE b == Started + 1
             pick == Head(starting)
  <1>1. /\ batch' = NewBatch(b, pick) /\ picked' = [picked EXCEPT ![b] = pick]
        /\ scan' = [scan EXCEPT ![b] = [at |-> "begin"]] /\ starting' = Tail(starting)
        /\ starting # <<>> /\ mixed' = mixed
    BY DEF StoreBatch
  <1>2. BatchesAreBounded
    BY DEF AddIInv
  <1>3. /\ pick \in Picks /\ starting' \in Seq(Picks)
        /\ Len(starting') = Len(starting) - 1 /\ Len(starting) \in Nat \ {0}
    BY <1>1, <1>2 DEF BatchesAreBounded
  <1>4. Started \in Nat /\ b \in BatchIds
    BY <1>2, <1>3, StartedIsNat, AddAssumptions DEF BatchesAreBounded, BatchIds
  <1>5. Started' \in Nat /\ Started' <= Started + 1
    <2> DEFINE S == {c \in BatchIds : picked[c] # <<>>}
               T == {c \in BatchIds : picked'[c] # <<>>}
    <2>1. IsFiniteSet(BatchIds)
      BY AddAssumptions, FS_Interval DEF BatchIds
    <2>2. IsFiniteSet(S)
      BY <2>1, FS_Subset
    <2>3. IsFiniteSet(S \cup {b}) /\ Cardinality(S \cup {b}) <= Cardinality(S) + 1 /\ Cardinality(S) \in Nat
      <3> HIDE DEF S, b
      <3>1. QED
        BY <2>2, FS_AddElement, FS_CardinalityType
    <2>4. T \subseteq S \cup {b}
      BY <1>1, <1>2 DEF BatchesAreBounded
    <2>5. IsFiniteSet(T) /\ Cardinality(T) <= Cardinality(S \cup {b})
      <3> HIDE DEF S, T, b
      <3>1. QED
        BY <2>3, <2>4, FS_Subset
    <2>6. Cardinality(T) \in Nat /\ Cardinality(S \cup {b}) \in Nat
      <3> HIDE DEF S, T, b
      <3>1. QED
        BY <2>3, <2>5, FS_CardinalityType
    <2>7. Started = Cardinality(S) /\ Started' = Cardinality(T)
      BY DEF Started, BatchIds
    <2> HIDE DEF S, T, b
    <2>8. QED
      BY <2>3, <2>5, <2>6, <2>7
  <1>6. Started' + Len(starting') <= MaxBatches
    BY <1>2, <1>3, <1>4, <1>5, AddAssumptions DEF BatchesAreBounded
  <1> HIDE DEF b, pick
  <1>7. /\ batch'.id = b /\ batch'.phase = "scanning" /\ batch'.found = <<>>
        /\ batch'.sources = [i \in DOMAIN pick |-> "queued"]
        /\ RecordOf(BatchFields, batch')
    BY <1>1 DEF NewBatch, RecordOf, BatchFields
  <1>8. Pick' = pick /\ Thread' = [at |-> "begin"]
    BY <1>1, <1>2, <1>4, <1>7 DEF Pick, Thread, BatchesAreBounded
  <1>9. BatchesAreBounded'
    <2>1. scan' = [c \in BatchIds |-> scan'[c]] /\ picked' \in [BatchIds -> Picks \cup {<<>>}]
      BY <1>1, <1>2, <1>3 DEF BatchesAreBounded
    <2>2. QED
      BY <1>3, <1>4, <1>6, <1>7, <1>8, <2>1 DEF BatchesAreBounded
  <1>10. FoundOnce'
    BY <1>7, <1>8 DEF FoundOnce, FoundWorks, WorksOf
  <1>11. SourcesAreDone'
    BY <1>7, <1>8 DEF SourcesAreDone, SourceStatuses
  <1>12. FoldersAreShared'
    BY <1>8 DEF FoldersAreShared
  <1>13. QED
    BY <1>9, <1>10, <1>11, <1>12 DEF AddIInv

\* A step of another batch's thread.
LEMMA OtherScanKeeps ==
    ASSUME AddIInv, NEW b \in BatchIds, b # batch.id,
           BeginScan(b) \/ MarkScanning(b) \/ ReportSource(b) \/ \E ok \in BOOLEAN : ScanFolder(b, ok)
    PROVE  AddIInv'
  <1>1. UNCHANGED <<starting, picked>> /\ RecordOf(BatchFields, batch) /\ scan = [c \in BatchIds |-> scan[c]]
    BY DEF AddIInv, BatchesAreBounded, BeginScan, MarkScanning, ReportSource, ScanFolder
  <1>2. PICK t : scan' = [scan EXCEPT ![b] = t]
    BY DEF BeginScan, MarkScanning, ReportSource, ScanFolder
  <1>3. scan' = [c \in BatchIds |-> scan'[c]] /\ \A c \in BatchIds \ {b} : scan'[c] = scan[c]
    BY <1>1, <1>2
  <1>4. /\ mixed \subseteq mixed'
        /\ \/ batch' = batch
           \/ \E new : /\ Update(b, new) /\ RecordOf(BatchFields, new) /\ new.id = batch.id
                       /\ new.phase \in {"scanning", "review"} => batch.phase \in {"scanning", "review"}
    <2>1. CASE BeginScan(b) \/ \E ok \in BOOLEAN : ScanFolder(b, ok)
      BY <2>1 DEF BeginScan, ScanFolder
    <2>2. CASE MarkScanning(b)
      <3>1. UNCHANGED <<batch, mixed>> \/ \E g : Update(b, SourceScanning(batch, g))
        BY <2>2 DEF MarkScanning
      <3>2. CASE UNCHANGED <<batch, mixed>>
        BY <3>2
      <3>3. ASSUME NEW g, Update(b, SourceScanning(batch, g))
            PROVE  /\ mixed \subseteq mixed'
                   /\ \E new : /\ Update(b, new) /\ RecordOf(BatchFields, new) /\ new.id = batch.id
                               /\ new.phase = batch.phase
        <4>0. PICK s : s = [i \in DOMAIN batch.sources |-> IF i \in g THEN "scanning" ELSE batch.sources[i]]
          OBVIOUS
        <4>1. /\ RecordOf(BatchFields, SourceScanning(batch, g)) /\ SourceScanning(batch, g).id = batch.id
              /\ SourceScanning(batch, g).phase = batch.phase
          BY <1>1, <4>0, SourceScanningFields
        <4>2. mixed \subseteq mixed'
          BY <3>3 DEF Update
        <4>3. QED
          BY <3>3, <4>1, <4>2
      <3>4. QED
        BY <3>1, <3>2, <3>3
    <2>3. CASE ReportSource(b)
      <3>1. PICK i, status, found : Update(b, SourceEnded(batch, i, status, found))
        BY <2>3 DEF ReportSource
      <3>2. PICK s : s = [j \in DOMAIN batch.sources |-> IF j = i THEN status ELSE batch.sources[j]]
        OBVIOUS
      <3>3. /\ RecordOf(BatchFields, SourceEnded(batch, i, status, found))
            /\ SourceEnded(batch, i, status, found).id = batch.id
            /\ SourceEnded(batch, i, status, found).phase \in {"scanning", "review"} =>
                 batch.phase \in {"scanning", "review"}
        BY <1>1, <3>2, SourceEndedFields
      <3>4. mixed \subseteq mixed'
        BY <3>1 DEF Update
      <3>5. QED
        BY <3>1, <3>3, <3>4
    <2>4. QED
      BY <2>1, <2>2, <2>3
  <1>5. CASE batch' = batch
    BY <1>1, <1>3, <1>4, <1>5, OtherKeeps DEF Looking, AddIInv, BatchesAreBounded
  <1>6. ASSUME NEW new, Update(b, new), RecordOf(BatchFields, new), new.id = batch.id,
               new.phase \in {"scanning", "review"} => batch.phase \in {"scanning", "review"}
        PROVE  AddIInv'
    <2>1. batch' = NoBatch \/ (batch' = new /\ batch.id \in mixed')
      BY <1>1, <1>6, UpdateOfOther
    <2>2. RecordOf(BatchFields, batch') /\ ~Looking'
      BY <1>6, <2>1, NoBatchIsRecord DEF Looking
    <2>3. batch'.phase \in {"scanning", "review"} =>
            batch.phase \in {"scanning", "review"} /\ batch'.id = batch.id
      BY <1>6, <2>1, NoBatchIsRecord
    <2>4. BatchesAreBounded'
      BY <1>1, <1>3, <2>2, <2>3, BoundsKept
    <2>5. QED
      BY <2>2, <2>4, QuietAddKeeps
  <1>7. QED
    BY <1>4, <1>5, <1>6

\* What a step of the thread of the batch itself leaves alone.
LEMMA OwnScanBounds ==
    ASSUME AddIInv, NEW b \in BatchIds, b = batch.id,
           BeginScan(b) \/ MarkScanning(b) \/ ReportSource(b) \/ \E ok \in BOOLEAN : ScanFolder(b, ok)
    PROVE  BatchesAreBounded' /\ picked' = picked /\ mixed' = mixed /\ (Looking' => Looking)
  <1>1. UNCHANGED <<starting, picked>> /\ RecordOf(BatchFields, batch) /\ scan = [c \in BatchIds |-> scan[c]]
    BY DEF AddIInv, BatchesAreBounded, BeginScan, MarkScanning, ReportSource, ScanFolder
  <1>2. PICK t : scan' = [scan EXCEPT ![b] = t]
    BY DEF BeginScan, MarkScanning, ReportSource, ScanFolder
  <1>3. scan' = [c \in BatchIds |-> scan'[c]]
    BY <1>1, <1>2
  <1>4. /\ mixed' = mixed /\ RecordOf(BatchFields, batch')
        /\ batch'.phase \in {"scanning", "review"} =>
             batch.phase \in {"scanning", "review"} /\ batch'.id = batch.id
    <2>1. CASE BeginScan(b) \/ \E ok \in BOOLEAN : ScanFolder(b, ok)
      BY <1>1, <2>1 DEF BeginScan, ScanFolder
    <2>2. CASE MarkScanning(b)
      <3>1. UNCHANGED <<batch, mixed>> \/ \E g : Update(b, SourceScanning(batch, g))
        BY <2>2 DEF MarkScanning
      <3>2. CASE UNCHANGED <<batch, mixed>>
        BY <1>1, <3>2
      <3>3. ASSUME NEW g, Update(b, SourceScanning(batch, g))
            PROVE  /\ mixed' = mixed /\ RecordOf(BatchFields, batch')
                   /\ batch'.phase \in {"scanning", "review"} =>
                        batch.phase \in {"scanning", "review"} /\ batch'.id = batch.id
        <4>1. PICK s : s = [i \in DOMAIN batch.sources |-> IF i \in g THEN "scanning" ELSE batch.sources[i]]
          OBVIOUS
        <4>2. /\ RecordOf(BatchFields, SourceScanning(batch, g)) /\ SourceScanning(batch, g).id = batch.id
              /\ SourceScanning(batch, g).phase = batch.phase
          BY <1>1, <4>1, SourceScanningFields
        <4>3. (batch' = NoBatch \/ batch' = SourceScanning(batch, g)) /\ mixed' = mixed
          BY <3>3 DEF Update
        <4>4. QED
          BY <4>2, <4>3, NoBatchIsRecord
      <3>4. QED
        BY <3>1, <3>2, <3>3
    <2>3. CASE ReportSource(b)
      <3>1. PICK i, status, found : Update(b, SourceEnded(batch, i, status, found))
        BY <2>3 DEF ReportSource
      <3>2. PICK s : s = [j \in DOMAIN batch.sources |-> IF j = i THEN status ELSE batch.sources[j]]
        OBVIOUS
      <3>3. /\ RecordOf(BatchFields, SourceEnded(batch, i, status, found))
            /\ SourceEnded(batch, i, status, found).id = batch.id
            /\ SourceEnded(batch, i, status, found).phase \in {"scanning", "review"} =>
                 batch.phase \in {"scanning", "review"}
        BY <1>1, <3>2, SourceEndedFields
      <3>4. (batch' = NoBatch \/ batch' = SourceEnded(batch, i, status, found)) /\ mixed' = mixed
        BY <3>1 DEF Update
      <3>5. QED
        BY <3>3, <3>4, NoBatchIsRecord
    <2>4. QED
      BY <2>1, <2>2, <2>3
  <1>5. BatchesAreBounded'
    BY <1>1, <1>3, <1>4, BoundsKept
  <1>6. QED
    BY <1>1, <1>4, <1>5 DEF Looking

\* The batch is looked at, by its own thread.
LEMMA BeginScanKeeps ==
    ASSUME AddIInv, NEW b \in BatchIds, b = batch.id, Looking, BeginScan(b)
    PROVE  FoundOnce' /\ SourcesAreDone' /\ FoldersAreShared'
  <1>1. FoundOnce /\ SourcesAreDone /\ FoldersAreShared /\ BatchesAreBounded
    BY DEF AddIInv
  <1>2. batch # NoBatch
    BY NoBatchIsRecord DEF Looking
  <1> DEFINE t == [at |-> "next", of |-> batch.id, done |-> {}, group |-> {}, claimed |-> {}, ok |-> TRUE]
  <1>3. scan' = [scan EXCEPT ![b] = t] /\ UNCHANGED <<batch, picked, mixed>> /\ Thread.at = "begin"
    BY <1>2 DEF BeginScan, Thread
  <1>4. Thread' = t /\ Pick' = Pick
    BY <1>1, <1>3 DEF Thread, Pick, BatchesAreBounded
  <1>5. /\ RecordOf(ThreadFields, t) /\ t.at = "next" /\ t.of = batch.id /\ t.done = {} /\ t.group = {}
    BY DEF RecordOf, ThreadFields
  <1> HIDE DEF t
  <1>6. FoundOnce'
    BY <1>1, <1>3, <1>4 DEF FoundOnce, FoundWorks
  <1>7. SourcesAreDone'
    BY <1>1, <1>3, <1>4, <1>5 DEF SourcesAreDone
  <1>8. FoldersAreShared'
    BY <1>4, <1>5 DEF FoldersAreShared
  <1>9. QED
    BY <1>6, <1>7, <1>8

LEMMA PickIsSequence ==
    ASSUME AddIInv, Looking
    PROVE  /\ Pick \in Seq({Pick[i] : i \in DOMAIN Pick}) /\ Len(Pick) \in Nat /\ DOMAIN Pick = 1..Len(Pick)
           /\ \A i, j \in DOMAIN Pick :
                i # j /\ Pick[i].folder = Pick[j].folder => Pick[i].file # NoFile
  <1>1. Pick \in Picks
    BY DEF AddIInv, BatchesAreBounded, Looking
  <1>2. PICK files : files = {Pick[i] : i \in DOMAIN Pick}
    OBVIOUS
  <1>3. Pick \in Seq(files)
    BY <1>1, <1>2, AddAssumptions
  <1>4. \A i, j \in DOMAIN Pick :
           i # j /\ Pick[i].folder = Pick[j].folder => Pick[i].file # NoFile
    BY <1>1, AddAssumptions
  <1>5. Len(Pick) \in Nat /\ DOMAIN Pick = 1..Len(Pick)
    BY <1>3
  <1>6. QED
    BY <1>2, <1>3, <1>4, <1>5

LEMMA MarkScanningKeeps ==
    ASSUME AddIInv, NEW b \in BatchIds, b = batch.id, Looking, MarkScanning(b)
    PROVE  FoundOnce' /\ SourcesAreDone' /\ FoldersAreShared'
  <1>1. FoundOnce /\ SourcesAreDone /\ FoldersAreShared /\ BatchesAreBounded
    BY DEF AddIInv
  <1>2. batch # NoBatch
    BY NoBatchIsRecord DEF Looking
  <1>3. Thread.at = "next" /\ RecordOf(ThreadFields, Thread) /\ Thread.of = batch.id
    BY <1>1 DEF MarkScanning, Thread, SourcesAreDone
  <1>4. Plans(b) = Pick /\ scan[b] = Thread
    BY <1>3 DEF Plans, Pick, Thread
  <1> DEFINE done == Thread.done
             left == DOMAIN Pick \ done
             first == CHOOSE i \in left : \A j \in left : i <= j
             group == Group(Pick, first) \ done
  <1>5. /\ \/ scan' = [scan EXCEPT ![b] = ThreadEnded] /\ UNCHANGED <<batch, mixed>>
           \/ /\ left # {}
              /\ scan' = [scan EXCEPT ![b].at = "scan", ![b].group = group, ![b].claimed = {}]
              /\ Update(b, SourceScanning(batch, group))
        /\ picked' = picked
    BY <1>4 DEF MarkScanning
  <1>6. CASE scan' = [scan EXCEPT ![b] = ThreadEnded] /\ UNCHANGED <<batch, mixed>>
    <2>1. Thread' = ThreadEnded /\ Pick' = Pick /\ batch' = batch
      BY <1>1, <1>5, <1>6 DEF Thread, Pick, BatchesAreBounded
    <2>2. FoundOnce'
      BY <1>1, <2>1 DEF FoundOnce, FoundWorks
    <2>3. SourcesAreDone' /\ FoldersAreShared'
      BY <1>1, <2>1 DEF SourcesAreDone, FoldersAreShared, ThreadEnded
    <2>4. QED
      BY <2>2, <2>3
  <1>7. CASE /\ left # {}
             /\ scan' = [scan EXCEPT ![b].at = "scan", ![b].group = group, ![b].claimed = {}]
             /\ Update(b, SourceScanning(batch, group))
    <2>1. /\ \A i \in DOMAIN Pick, j \in done : Pick[i].folder = Pick[j].folder => i \in done
          /\ \A i \in DOMAIN Pick : batch.sources[i] \in {"done", "failed"} <=> i \in done
          /\ batch.sources \in [DOMAIN Pick -> SourceStatuses]
          /\ done \subseteq DOMAIN Pick
      BY <1>1, <1>3 DEF FoldersAreShared, SourcesAreDone
    <2>2. left \subseteq Nat /\ DOMAIN Pick = 1..Len(Pick) /\ Len(Pick) \in Nat
      BY PickIsSequence
    <2>3. first \in left /\ \A j \in left : first <= j
      <3>1. \E i \in left : \A j \in left : i <= j
        <4> HIDE DEF left
        <4>1. QED
          BY <1>7, <2>2, LeastOf
      <3>2. QED
        BY <3>1
    <2> HIDE DEF first
    <2>4. \A j : j \in group <=> j \in left /\ Pick[j].folder = Pick[first].folder
      BY <2>2, <2>3 DEF Group
    <2> HIDE DEF group
    <2>5. /\ group # {} /\ group \subseteq DOMAIN Pick \ done
          /\ \A i, j \in group : Pick[i].folder = Pick[j].folder
      BY <2>3, <2>4
    <2>6. \A i \in DOMAIN Pick, j \in done \cup group :
            Pick[i].folder = Pick[j].folder => i \in done \cup group
      BY <2>1, <2>4
    <2>7. \A i \in group, j \in done : Pick[i].folder # Pick[j].folder
      BY <2>1, <2>5
    <2> DEFINE t1 == [Thread EXCEPT !["at"] = "scan"]
               t2 == [t1 EXCEPT !["group"] = group]
               t == [t2 EXCEPT !["claimed"] = {}]
    <2>8. scan' = [scan EXCEPT ![b] = t]
      BY <1>1, <1>4, <1>7 DEF BatchesAreBounded
    <2>9. RecordOf(ThreadFields, t1) /\ t1.at = "scan" /\ t1.of = batch.id /\ t1.done = done
      BY <1>3, RecordOfExcept DEF ThreadFields
    <2> HIDE DEF t1
    <2>10. RecordOf(ThreadFields, t2) /\ t2.at = "scan" /\ t2.of = batch.id /\ t2.done = done /\ t2.group = group
      BY <2>9, RecordOfExcept DEF ThreadFields
    <2> HIDE DEF t2
    <2>11. /\ RecordOf(ThreadFields, t) /\ t.at = "scan" /\ t.of = batch.id /\ t.done = done
           /\ t.group = group /\ t.claimed = {}
      BY <2>10, RecordOfExcept DEF ThreadFields
    <2> HIDE DEF t
    <2>12. PICK s : s = [i \in DOMAIN batch.sources |-> IF i \in group THEN "scanning" ELSE batch.sources[i]]
      OBVIOUS
    <2>13. batch' = SourceScanning(batch, group)
      BY <1>2, <1>7 DEF Update
    <2>14. /\ batch'.id = batch.id /\ batch'.phase = batch.phase /\ batch'.found = batch.found
           /\ batch'.sources = s
      BY <1>1, <2>12, <2>13, SourceScanningFields DEF BatchesAreBounded
    <2>15. Pick' = Pick /\ Thread' = t
      BY <1>1, <1>5, <2>8, <2>14 DEF Pick, Thread, BatchesAreBounded
    <2>16. /\ s \in [DOMAIN Pick -> SourceStatuses]
           /\ \A i \in DOMAIN Pick : s[i] = "done" <=> batch.sources[i] = "done"
           /\ \A i \in DOMAIN Pick : s[i] \in {"done", "failed"} <=> i \in done
      BY <2>1, <2>5, <2>12 DEF SourceStatuses
    <2>17. FoundWorks' = FoundWorks
      BY <2>14 DEF FoundWorks
    <2>18. FoundOnce'
      BY <1>1, <2>14, <2>15, <2>16, <2>17 DEF FoundOnce
    <2>19. SourcesAreDone'
      <3>1. batch.phase # "review"
        BY <1>1, <1>7, <2>1 DEF SourcesAreDone
      <3>2. QED
        BY <2>1, <2>5, <2>11, <2>14, <2>15, <2>16, <3>1 DEF SourcesAreDone
    <2>20. \A i \in group, w \in FoundWorks : w.folder # Pick[i].folder
      BY <1>1, <2>1, <2>7 DEF FoundOnce, Asks
    <2>21. FoldersAreShared'
      BY <2>5, <2>6, <2>7, <2>11, <2>15, <2>17, <2>20 DEF FoldersAreShared
    <2>22. QED
      BY <2>18, <2>19, <2>21
  <1>8. QED
    BY <1>5, <1>6, <1>7

LEMMA ScanFolderKeeps ==
    ASSUME AddIInv, NEW b \in BatchIds, b = batch.id, Looking, NEW ok \in BOOLEAN, ScanFolder(b, ok)
    PROVE  FoundOnce' /\ SourcesAreDone' /\ FoldersAreShared'
  <1>1. FoundOnce /\ SourcesAreDone /\ FoldersAreShared /\ BatchesAreBounded
    BY DEF AddIInv
  <1>2. Thread.at = "scan" /\ RecordOf(ThreadFields, Thread) /\ scan[b] = Thread
    BY <1>1 DEF ScanFolder, Thread, SourcesAreDone
  <1> DEFINE t1 == [Thread EXCEPT !["at"] = "report"]
             t == [t1 EXCEPT !["ok"] = ok]
  <1>3. /\ scan' = [scan EXCEPT ![b] = ThreadEnded] \/ scan' = [scan EXCEPT ![b] = t]
        /\ UNCHANGED <<batch, picked>>
    BY <1>2 DEF ScanFolder
  <1>4. /\ RecordOf(ThreadFields, t1) /\ t1.at = "report" /\ t1.of = Thread.of /\ t1.done = Thread.done
        /\ t1.group = Thread.group /\ t1.claimed = Thread.claimed
    BY <1>2, RecordOfExcept DEF ThreadFields
  <1> HIDE DEF t1
  <1>5. /\ RecordOf(ThreadFields, t) /\ t.at = "report" /\ t.of = Thread.of /\ t.done = Thread.done
        /\ t.group = Thread.group /\ t.claimed = Thread.claimed
    BY <1>4, RecordOfExcept DEF ThreadFields
  <1> HIDE DEF t
  <1>6. (Thread' = ThreadEnded \/ Thread' = t) /\ Pick' = Pick
    BY <1>1, <1>3 DEF Thread, Pick, BatchesAreBounded
  <1>7. FoundWorks' = FoundWorks
    BY <1>3 DEF FoundWorks
  <1>8. FoundOnce'
    BY <1>1, <1>3, <1>6, <1>7 DEF FoundOnce
  <1>9. CASE Thread' = ThreadEnded
    BY <1>1, <1>3, <1>6, <1>8, <1>9 DEF SourcesAreDone, FoldersAreShared, ThreadEnded
  <1>10. CASE Thread' = t
    <2>1. SourcesAreDone'
      BY <1>1, <1>2, <1>3, <1>5, <1>6, <1>10 DEF SourcesAreDone
    <2>2. FoldersAreShared'
      BY <1>1, <1>2, <1>5, <1>6, <1>7, <1>10 DEF FoldersAreShared
    <2>3. QED
      BY <1>8, <2>1, <2>2
  <1>11. QED
    BY <1>6, <1>9, <1>10

\* A list of findings that goes on with others.
LEMMA FoundGoesOn ==
    ASSUME NEW S, NEW f \in Seq(S), NEW g \in Seq(S),
           EachOnce(f), EachOnce(g), WorksOf(f) \cap WorksOf(g) = {}
    PROVE  /\ f \o g \in Seq(S) /\ EachOnce(f \o g)
           /\ WorksOf(f \o g) = WorksOf(f) \cup WorksOf(g)
  <1>1. PICK h : h = f \o g
    OBVIOUS
  <1>2. /\ h \in Seq(S) /\ Len(f) \in Nat /\ Len(g) \in Nat
        /\ DOMAIN f = 1..Len(f) /\ DOMAIN g = 1..Len(g) /\ DOMAIN h = 1..(Len(f) + Len(g))
        /\ \A k \in 1..(Len(f) + Len(g)) : h[k] = IF k <= Len(f) THEN f[k] ELSE g[k - Len(f)]
    BY <1>1
  <1>3. \A k \in DOMAIN h : \/ k \in DOMAIN f /\ h[k] = f[k]
                            \/ k \notin DOMAIN f /\ k - Len(f) \in DOMAIN g /\ h[k] = g[k - Len(f)]
    BY <1>2
  <1>4. /\ \A k \in DOMAIN f : k \in DOMAIN h /\ h[k] = f[k]
        /\ \A k \in DOMAIN g : k + Len(f) \in DOMAIN h /\ h[k + Len(f)] = g[k]
    BY <1>2
  <1>5. ASSUME NEW k \in DOMAIN h, NEW l \in DOMAIN h, h[k].work = h[l].work PROVE k = l
    <2>1. CASE k \in DOMAIN f /\ l \in DOMAIN f
      BY <1>3, <1>5, <2>1 DEF EachOnce
    <2>2. CASE k \in DOMAIN f /\ l \notin DOMAIN f
      BY <1>3, <1>5, <2>2 DEF WorksOf
    <2>3. CASE k \notin DOMAIN f /\ l \in DOMAIN f
      BY <1>3, <1>5, <2>3 DEF WorksOf
    <2>4. CASE k \notin DOMAIN f /\ l \notin DOMAIN f
      <3>1. k - Len(f) = l - Len(f)
        BY <1>3, <1>5, <2>4 DEF EachOnce
      <3>2. QED
        BY <1>2, <3>1
    <2>5. QED
      BY <2>1, <2>2, <2>3, <2>4
  <1>6. EachOnce(h)
    BY <1>5 DEF EachOnce
  <1>7. \A k \in DOMAIN h : h[k].work \in WorksOf(f) \cup WorksOf(g)
    BY <1>3 DEF WorksOf
  <1>8. \A k \in DOMAIN f : f[k].work \in WorksOf(h)
    BY <1>4 DEF WorksOf
  <1>9. \A k \in DOMAIN g : g[k].work \in WorksOf(h)
    BY <1>4 DEF WorksOf
  <1>10. WorksOf(h) = WorksOf(f) \cup WorksOf(g)
    BY <1>7, <1>8, <1>9 DEF WorksOf
  <1>11. QED
    BY <1>1, <1>2, <1>6, <1>10

LEMMA ReportSourceKeeps ==
    ASSUME AddIInv, NEW b \in BatchIds, b = batch.id, Looking, ReportSource(b)
    PROVE  FoundOnce' /\ SourcesAreDone' /\ FoldersAreShared'
  <1>1. FoundOnce /\ SourcesAreDone /\ FoldersAreShared /\ BatchesAreBounded
    BY DEF AddIInv
  <1>2. batch # NoBatch
    BY NoBatchIsRecord DEF Looking
  <1>3. Thread.at = "report" /\ RecordOf(ThreadFields, Thread) /\ Thread.of = batch.id
    BY <1>1 DEF ReportSource, Thread, SourcesAreDone
  <1>4. Plans(b) = Pick /\ scan[b] = Thread
    BY <1>3 DEF Plans, Pick, Thread
  <1> DEFINE done == scan[b].done
             group == scan[b].group
             claimed == scan[b].claimed
  <1>5. /\ done \subseteq DOMAIN Pick /\ group \subseteq DOMAIN Pick \ done /\ group # {}
        /\ \A i \in DOMAIN Pick : batch.sources[i] \in {"done", "failed"} <=> i \in done
        /\ batch.sources \in [DOMAIN Pick -> SourceStatuses]
        /\ \A i, j \in group : Pick[i].folder = Pick[j].folder
        /\ \A i \in DOMAIN Pick, j \in done \cup group : Pick[i].folder = Pick[j].folder => i \in done \cup group
        /\ \A i \in group, w \in FoundWorks : w.folder = Pick[i].folder => w.key \in claimed
        /\ claimed \subseteq {w.key : w \in FoundWorks}
    BY <1>1, <1>3, <1>4 DEF FoldersAreShared, SourcesAreDone
  <1>6. DOMAIN Pick \subseteq Nat
    BY PickIsSequence
  <1> DEFINE i == CHOOSE i \in group : \A j \in group : i <= j
  <1>7. i \in group
    <2>1. group \in SUBSET Nat /\ group # {}
      BY <1>5, <1>6
    <2> HIDE DEF group
    <2>2. \E k \in group : \A j \in group : k <= j
      BY <2>1, LeastOf
    <2>3. QED
      BY <2>2
  <1> DEFINE found == IF scan[b].ok THEN Chosen(Plans(b)[i], claimed) ELSE {}
             rest == group \ {i}
             status == IF scan[b].ok THEN "done" ELSE "failed"
             at == IF rest = {} THEN "next" ELSE "report"
             keys == {w.key : w \in found}
  <1>8. /\ Update(b, SourceEnded(batch, i, status, found))
        /\ scan' = [scan EXCEPT ![b].done = @ \cup {i}, ![b].group = rest,
                      ![b].claimed = @ \cup keys, ![b].at = at]
        /\ picked' = picked
    BY DEF ReportSource
  <1>9. found = {w \in PickableWorks :
                   /\ scan[b].ok /\ w.folder = Pick[i].folder
                   /\ Pick[i].file # NoFile => Pick[i].file \in w.files /\ w.key \notin claimed}
    BY <1>4 DEF Chosen
  <1> HIDE DEF i, found
  <1>10. PICK s : s = [j \in DOMAIN batch.sources |-> IF j = i THEN status ELSE batch.sources[j]]
    OBVIOUS
  <1>11. /\ s \in [DOMAIN Pick -> SourceStatuses]
         /\ \A j \in DOMAIN Pick \ {i} : s[j] = batch.sources[j]
         /\ s[i] = status /\ i \in DOMAIN Pick /\ i \notin done
    BY <1>5, <1>7, <1>10 DEF SourceStatuses
  <1>12. /\ batch'.id = batch.id /\ batch'.sources = s /\ batch'.found = batch.found \o InOrder(found, i)
         /\ batch'.phase = "review" => batch.phase = "review" \/ \A j \in DOMAIN s : s[j] \in {"done", "failed"}
    <2>1. batch' = SourceEnded(batch, i, status, found) /\ RecordOf(BatchFields, batch)
      BY <1>1, <1>2, <1>8 DEF Update, BatchesAreBounded
    <2> HIDE DEF status
    <2>2. QED
      BY <1>10, <2>1, SourceEndedFields
  \* The thread.
  <1> DEFINE t1 == [Thread EXCEPT !["done"] = done \cup {i}]
             t2 == [t1 EXCEPT !["group"] = rest]
             t3 == [t2 EXCEPT !["claimed"] = claimed \cup keys]
             t == [t3 EXCEPT !["at"] = at]
  <1>13. /\ RecordOf(ThreadFields, t) /\ t.of = batch.id /\ t.done = done \cup {i}
         /\ t.group = rest /\ t.claimed = claimed \cup keys /\ t.at = at
         /\ scan' = [scan EXCEPT ![b] = t]
    <2>1. /\ RecordOf(ThreadFields, t1) /\ t1.of = batch.id /\ t1.done = done \cup {i}
          /\ t1.claimed = claimed
      BY <1>3, <1>4, RecordOfExcept DEF ThreadFields
    <2>2. /\ RecordOf(ThreadFields, t2) /\ t2.of = batch.id /\ t2.done = done \cup {i}
          /\ t2.claimed = claimed /\ t2.group = rest
      <3> HIDE DEF t1
      <3>1. QED
        BY <2>1, RecordOfExcept DEF ThreadFields
    <2>3. /\ RecordOf(ThreadFields, t3) /\ t3.of = batch.id /\ t3.done = done \cup {i}
          /\ t3.group = rest /\ t3.claimed = claimed \cup keys
      <3> HIDE DEF t2
      <3>1. QED
        BY <2>2, RecordOfExcept DEF ThreadFields
    <2>4. /\ RecordOf(ThreadFields, t) /\ t.of = batch.id /\ t.done = done \cup {i}
          /\ t.group = rest /\ t.claimed = claimed \cup keys /\ t.at = at
      <3> HIDE DEF t3, at
      <3>1. QED
        BY <2>3, RecordOfExcept DEF ThreadFields
    <2>5. scan' = [scan EXCEPT ![b] = t]
      <3> HIDE DEF keys, rest, at
      <3>1. scan[b].done = done /\ scan[b].claimed = claimed
        BY <1>1, <1>4, <1>3
      <3>2. QED
        BY <1>1, <1>4, <1>8, <3>1 DEF BatchesAreBounded
    <2>6. QED
      BY <2>4, <2>5
  <1> HIDE DEF t
  <1>14. Pick' = Pick /\ Thread' = t
    BY <1>1, <1>8, <1>12, <1>13 DEF Pick, Thread, BatchesAreBounded
  \* The list.
  <1>15. FoundWorks \subseteq PickableWorks
    BY <1>1 DEF FoundOnce
  <1>16. found \cap FoundWorks = {}
    <2>1. SUFFICES ASSUME NEW w \in found, w \in FoundWorks PROVE FALSE
      OBVIOUS
    <2>2. w.folder = Pick[i].folder /\ w.key \in claimed
      BY <1>5, <1>7, <1>9, <2>1
    <2>3. Pick[i].file = NoFile
      BY <1>9, <2>2
    <2>4. PICK j \in DOMAIN Pick : batch.sources[j] = "done" /\ Asks(Pick[j], w)
      BY <1>1, <2>1 DEF FoundOnce
    <2>5. j \in done /\ Pick[j].folder = Pick[i].folder
      BY <1>5, <2>2, <2>4 DEF Asks
    <2>6. QED
      BY <1>11, <2>3, <2>5, PickIsSequence
  <1> DEFINE g == InOrder(found, i)
             S == [source : Nat, work : PickableWorks]
  <1>17. /\ g \in Seq(S) /\ \A k, l \in DOMAIN g : g[k].work = g[l].work => k = l
         /\ {g[k].work : k \in DOMAIN g} = found
    <2>1. found \in SUBSET PickableWorks /\ i \in Nat
      BY <1>5, <1>6, <1>7, <1>9
    <2>2. QED
      BY <2>1, InOrderOf
  <1> HIDE DEF g
  <1>18. /\ batch.found \in Seq(S)
         /\ \A k, l \in DOMAIN batch.found : batch.found[k].work = batch.found[l].work => k = l
         /\ {batch.found[k].work : k \in DOMAIN batch.found} = FoundWorks
    BY <1>1 DEF FoundOnce, FoundWorks, WorksOf
  <1>19. batch'.found = batch.found \o g
    BY <1>12 DEF g
  <1>20. /\ batch'.found \in Seq(S)
         /\ \A k, l \in DOMAIN batch'.found : batch'.found[k].work = batch'.found[l].work => k = l
         /\ FoundWorks' = FoundWorks \cup found
    <2>1. PICK f : f = batch.found
      OBVIOUS
    <2>2. PICK e : e = g
      OBVIOUS
    <2>3. f \in Seq(S) /\ EachOnce(f) /\ WorksOf(f) = FoundWorks
      BY <1>18, <2>1 DEF EachOnce, WorksOf
    <2>4. e \in Seq(S) /\ EachOnce(e) /\ WorksOf(e) = found
      BY <1>17, <2>2 DEF EachOnce, WorksOf
    <2>5. /\ f \o e \in Seq(S) /\ EachOnce(f \o e)
          /\ WorksOf(f \o e) = FoundWorks \cup found
      <3> HIDE DEF S
      <3>1. QED
        BY <1>16, <2>3, <2>4, FoundGoesOn
    <2>6. PICK h : h = f \o e
      OBVIOUS
    <2>7. h \in Seq(S) /\ EachOnce(h) /\ WorksOf(h) = FoundWorks \cup found
      BY <2>5, <2>6
    <2>8. batch'.found = h
      BY <1>19, <2>1, <2>2, <2>6
    <2>9. FoundWorks' = WorksOf(h)
      BY <2>8 DEF FoundWorks, WorksOf
    <2>10. QED
      BY <2>7, <2>8, <2>9 DEF EachOnce
  <1> HIDE DEF S
  <1>21. \A w \in PickableWorks :
           w \in FoundWorks \cup found <=> \E j \in DOMAIN Pick : s[j] = "done" /\ Asks(Pick[j], w)
    <2> SUFFICES ASSUME NEW w \in PickableWorks
                 PROVE  w \in FoundWorks \cup found <=> \E j \in DOMAIN Pick : s[j] = "done" /\ Asks(Pick[j], w)
      OBVIOUS
    <2>1. w \in FoundWorks <=> \E j \in DOMAIN Pick : batch.sources[j] = "done" /\ Asks(Pick[j], w)
      BY <1>1 DEF FoundOnce
    <2>2. batch.sources[i] # "done"
      BY <1>5, <1>11
    <2>3. ASSUME w \in FoundWorks PROVE \E j \in DOMAIN Pick : s[j] = "done" /\ Asks(Pick[j], w)
      BY <1>11, <2>1, <2>2, <2>3
    <2>4. ASSUME w \in found PROVE \E j \in DOMAIN Pick : s[j] = "done" /\ Asks(Pick[j], w)
      BY <1>9, <1>11, <2>4 DEF Asks
    <2>5. ASSUME NEW j \in DOMAIN Pick, s[j] = "done", Asks(Pick[j], w) PROVE w \in FoundWorks \cup found
      <3>1. CASE j # i
        BY <1>11, <2>1, <2>5, <3>1
      <3>2. CASE j = i
        <4>1. scan[b].ok /\ w.folder = Pick[i].folder /\ (Pick[i].file # NoFile => Pick[i].file \in w.files)
          BY <1>11, <2>5, <3>2 DEF Asks
        <4>2. CASE w.key \in claimed
          <5>1. PICK v \in FoundWorks : v.key = w.key
            BY <1>5, <4>2
          <5>2. v = w
            BY <1>15, <5>1, AddAssumptions
          <5>3. QED
            BY <5>1, <5>2
        <4>3. CASE w.key \notin claimed
          BY <1>9, <4>1, <4>3
        <4>4. QED
          BY <4>2, <4>3
      <3>3. QED
        BY <3>1, <3>2
    <2>6. QED
      BY <2>3, <2>4, <2>5
  <1>22. found \subseteq PickableWorks
    BY <1>9
  <1>23. FoundOnce'
    <2>1. FoundWorks' = {w \in PickableWorks : \E j \in DOMAIN Pick : s[j] = "done" /\ Asks(Pick[j], w)}
      BY <1>15, <1>20, <1>21, <1>22
    <2>2. QED
      BY <1>12, <1>14, <1>20, <2>1 DEF FoundOnce, S
  <1>24. SourcesAreDone'
    <2>1. \A j \in DOMAIN Pick : s[j] \in {"done", "failed"} <=> j \in done \cup {i}
      BY <1>5, <1>11
    <2>2. batch.phase # "review"
      BY <1>1, <1>5, <1>11 DEF SourcesAreDone
    <2>3. batch'.phase = "review" => \A j \in DOMAIN Pick : s[j] \in {"done", "failed"}
      BY <1>11, <1>12, <2>2
    <2>4. at \in {"next", "report"} /\ done \cup {i} \subseteq DOMAIN Pick /\ rest \subseteq DOMAIN Pick \ (done \cup {i})
      BY <1>5, <1>11
    <2>5. QED
      BY <1>11, <1>12, <1>13, <1>14, <2>1, <2>3, <2>4 DEF SourcesAreDone
  <1>25. FoldersAreShared'
    <2>1. \A w \in found : w.key \in claimed \cup keys
      OBVIOUS
    <2>2. keys \subseteq {w.key : w \in FoundWorks'} /\ claimed \subseteq {w.key : w \in FoundWorks'}
      BY <1>5, <1>20
    <2>3. (done \cup {i}) \cup rest = done \cup group /\ rest \subseteq group
      BY <1>7
    <2>4. \A j \in rest, w \in FoundWorks' : w.folder = Pick[j].folder => w.key \in claimed \cup keys
      BY <1>5, <1>20, <2>1, <2>3
    <2>5. CASE rest = {}
      <3>1. at = "next" /\ done \cup {i} = done \cup group
        BY <2>3, <2>5
      <3>2. QED
        BY <1>5, <1>13, <1>14, <3>1 DEF FoldersAreShared
    <2>6. CASE rest # {}
      <3>1. at = "report"
        BY <2>6
      <3>2. claimed \cup keys \subseteq {w.key : w \in FoundWorks'}
        BY <2>2
      <3> HIDE DEF keys, at
      <3>3. QED
        BY <1>5, <1>13, <1>14, <2>3, <2>4, <2>6, <3>1, <3>2 DEF FoldersAreShared
    <2>7. QED
      BY <2>5, <2>6
  <1>26. QED
    BY <1>23, <1>24, <1>25

LEMMA AddInitHolds == AddInit => AddIInv
  <1> SUFFICES ASSUME AddInit PROVE AddIInv
    OBVIOUS
  <1>1. Started = 0
    <2>1. {b \in BatchIds : picked[b] # <<>>} = {}
      BY DEF AddInit
    <2>2. QED
      BY <2>1, FS_EmptySet DEF Started
  <1>2. BatchesAreBounded
    <2>1. batch.phase \notin {"scanning", "review"} /\ RecordOf(BatchFields, batch)
      BY NoBatchIsRecord DEF AddInit
    <2>2. Len(starting) = 0 /\ starting \in Seq(Picks)
      BY DEF AddInit
    <2>3. picked \in [BatchIds -> Picks \cup {<<>>}] /\ scan = [b \in BatchIds |-> scan[b]]
      BY DEF AddInit
    <2>4. QED
      BY <1>1, <2>1, <2>2, <2>3, AddAssumptions DEF BatchesAreBounded
  <1>3. ~Looking
    BY NoBatchIsRecord DEF AddInit, Looking
  <1>4. QED
    BY <1>2, <1>3 DEF AddIInv

LEMMA OwnScanKeeps ==
    ASSUME AddIInv, NEW b \in BatchIds, b = batch.id,
           BeginScan(b) \/ MarkScanning(b) \/ ReportSource(b) \/ \E ok \in BOOLEAN : ScanFolder(b, ok)
    PROVE  AddIInv'
  <1>1. BatchesAreBounded' /\ (Looking' => Looking)
    BY OwnScanBounds
  <1>2. ASSUME Looking PROVE FoundOnce' /\ SourcesAreDone' /\ FoldersAreShared'
    BY <1>2, BeginScanKeeps, MarkScanningKeeps, ReportSourceKeeps, ScanFolderKeeps
  <1>3. QED
    BY <1>1, <1>2 DEF AddIInv

LEMMA AddStepKeeps == AddIInv /\ [AddNext]_addVars => AddIInv'
  <1> SUFFICES ASSUME AddIInv, [AddNext]_addVars PROVE AddIInv'
    OBVIOUS
  <1>1. CASE \E pick \in Picks : CheckStart(pick)
    BY <1>1, CheckStartKeeps
  <1>2. CASE StoreBatch
    BY <1>2, StoreBatchKeeps
  <1>3. CASE CancelBatch
    BY <1>3, CancelBatchKeeps
  <1>4. CASE Dismiss
    BY <1>4, DismissKeeps
  <1>5. CASE \E chosen \in SUBSET Keys : Confirm(chosen)
    BY <1>5, ConfirmKeeps
  <1>6. ASSUME NEW b \in BatchIds,
               BeginScan(b) \/ MarkScanning(b) \/ ReportSource(b) \/ \E ok \in BOOLEAN : ScanFolder(b, ok)
        PROVE  AddIInv'
    BY <1>6, OwnScanKeeps, OtherScanKeeps
  <1>7. ASSUME NEW b \in BatchIds,
               \/ LookAtJob(b) \/ MarkRunning(b)
               \/ \E result \in {"done", "failed", "cancelled"} : FinishJob(b, result)
        PROVE  AddIInv'
    BY <1>7, RunnerKeeps
  <1>8. CASE UNCHANGED addVars
    <2>1. UNCHANGED <<batch, picked, flag, starting, scan, runner, mixed>>
      BY <1>8 DEF addVars
    <2>2. RecordOf(BatchFields, batch') /\ scan' = [b \in BatchIds |-> scan'[b]]
      BY <2>1 DEF AddIInv, BatchesAreBounded
    <2>3. QED
      BY <2>1, <2>2, OtherKeeps DEF Looking
  <1>9. QED
    BY <1>1, <1>2, <1>3, <1>4, <1>5, <1>6, <1>7, <1>8 DEF AddNext

\* What holds of a batch that no other thread wrote into: the list has what was looked at,
\* each work once, and a folder's sources are looked at together.
THEOREM AddInductive == AddSpec => []AddIInv
  <1>1. QED
    BY AddInitHolds, AddStepKeeps, PTL DEF AddSpec

\* The review of a pick lists every work in it once (LibraryAddBatch::source_done), for all
\* works, picks and orders in which a scan finds them.
THEOREM ReviewIsListed == AddSpec => []ReviewListsEachOnce
  <1>1. AddIInv => ReviewListsEachOnce
    <2> SUFFICES ASSUME AddIInv, batch.phase = "review", batch.id \notin mixed
                 PROVE  /\ \A k, l \in DOMAIN batch.found : batch.found[k].work = batch.found[l].work => k = l
                        /\ {batch.found[k].work : k \in DOMAIN batch.found} =
                             {w \in PickableWorks :
                                \E i \in DOMAIN Pick : /\ batch.sources[i] = "done"
                                                       /\ w.folder = Pick[i].folder
                                                       /\ Pick[i].file \in w.files \cup {NoFile}}
      BY DEF ReviewListsEachOnce, Pick
    <2>1. FoundOnce
      BY DEF AddIInv, Looking
    <2>2. QED
      BY <2>1 DEF FoundOnce, FoundWorks, WorksOf, Asks
  <1>2. QED
    BY <1>1, AddInductive, PTL

-----------------------------------------------------------------------------
(* MediaProtocol: parse_range, and what is answered.                       *)

LEMMA ServeBoundsAreNat ==
    MaxRange \in Nat \ {0} /\ MaxWhole \in Nat /\ MaxSubtitle \in Nat /\ MaxLength \in Nat
    /\ MaxFileChanges \in Nat
  BY ServeBounds

\* The last byte of a range before it is held to the limit.
LastAsked(r, length) == IF r.form = "closed" THEN Least(r.end, length - 1) ELSE length - 1

\* A range that is refused covers nothing; one that is taken covers the bytes from where it starts
\* to the last one asked for.
LEMMA RangeCovers ==
    ASSUME NEW r \in Ranges, r.form # "absent", NEW n \in Nat
    PROVE  /\ Unsatisfiable(r, n) => Covers(r, n) = {}
           /\ ~Unsatisfiable(r, n) =>
                 /\ RangeStart(r, n) \in Nat /\ LastAsked(r, n) \in Nat
                 /\ RangeStart(r, n) <= LastAsked(r, n) /\ LastAsked(r, n) < n
                 /\ Covers(r, n) = RangeStart(r, n)..LastAsked(r, n)
  <1>1. CASE r.form = "invalid"
    BY <1>1 DEF Unsatisfiable, Covers
  <1>2. CASE r.form = "suffix"
    <2>1. r.start \in Nat
      BY <1>2, ServeBoundsAreNat DEF Ranges, RangeBounds
    <2>2. Covers(r, n) = {b \in 0..(n - 1) : b + r.start >= n}
      BY <1>2 DEF Covers
    <2>3. CASE n = 0 \/ r.start = 0
      <3>1. Unsatisfiable(r, n)
        BY <1>2, <2>3 DEF Unsatisfiable
      <3>2. \A b \in 0..(n - 1) : ~(b + r.start >= n)
        BY <2>1, <2>3
      <3>3. QED
        BY <2>2, <3>1, <3>2
    <2>4. CASE n # 0 /\ r.start # 0
      <3>1. RangeStart(r, n) = n - Least(r.start, n) /\ LastAsked(r, n) = n - 1
        BY <1>2 DEF RangeStart, LastAsked
      <3>2. /\ RangeStart(r, n) \in Nat /\ LastAsked(r, n) \in Nat
            /\ RangeStart(r, n) <= LastAsked(r, n) /\ LastAsked(r, n) < n
        BY <2>1, <2>4, <3>1 DEF Least
      <3>3. \A b \in 0..(n - 1) : b + r.start >= n <=> b >= RangeStart(r, n)
        BY <2>1, <2>4, <3>1 DEF Least
      <3>4. Covers(r, n) = RangeStart(r, n)..LastAsked(r, n)
        BY <2>2, <2>4, <3>1, <3>2, <3>3
      <3>5. ~Unsatisfiable(r, n)
        BY <1>2, <2>4 DEF Unsatisfiable
      <3>6. QED
        BY <3>2, <3>4, <3>5
    <2>5. QED
      BY <2>3, <2>4
  <1>3. CASE r.form = "from"
    <2>1. r.start \in Nat
      BY <1>3, ServeBoundsAreNat DEF Ranges, RangeBounds
    <2>2. Covers(r, n) = {b \in 0..(n - 1) : b >= r.start}
      BY <1>3 DEF Covers
    <2>3. RangeStart(r, n) = r.start /\ LastAsked(r, n) = n - 1
      BY <1>3 DEF RangeStart, LastAsked
    <2>4. Unsatisfiable(r, n) <=> n = 0 \/ r.start >= n
      BY <1>3 DEF Unsatisfiable
    <2>5. QED
      BY <2>1, <2>2, <2>3, <2>4
  <1>4. CASE r.form = "closed"
    <2>1. r.start \in Nat /\ r.end \in Nat
      BY <1>4, ServeBoundsAreNat DEF Ranges, RangeBounds
    <2>2. Covers(r, n) = {b \in 0..(n - 1) : r.start <= b /\ b <= r.end}
      BY <1>4 DEF Covers
    <2>3. RangeStart(r, n) = r.start /\ LastAsked(r, n) = Least(r.end, n - 1)
      BY <1>4 DEF RangeStart, LastAsked
    <2>4. Unsatisfiable(r, n) <=> n = 0 \/ r.start >= n \/ Least(r.end, n - 1) < r.start
      BY <1>4 DEF Unsatisfiable
    <2>5. QED
      BY <2>1, <2>2, <2>3, <2>4 DEF Least
  <1>5. r.form \in {"invalid", "suffix", "from", "closed"}
    BY DEF Ranges
  <1>6. QED
    BY <1>1, <1>2, <1>3, <1>4, <1>5

LEMMA ServeInitHolds == ServeInit => ServeTypeOK
  <1>1. 0 \in 0..MaxLength /\ 0 \in 0..MaxFileChanges
    BY ServeBoundsAreNat
  <1>2. QED
    BY <1>1 DEF ServeInit, ServeTypeOK

LEMMA ServeNextKeeps == ServeTypeOK /\ [ServeNext]_serveVars => ServeTypeOK'
  <1> SUFFICES ASSUME ServeTypeOK, [ServeNext]_serveVars PROVE ServeTypeOK'
    OBVIOUS
  <1> USE ServeBoundsAreNat DEF ServeTypeOK
  <1>1. ASSUME NEW route \in Routes, NEW method \in Methods, NEW range \in Ranges,
               Ask([route |-> route, method |-> method, range |-> range])
        PROVE  ServeTypeOK'
    <2>1. mediaRequest'.route = route /\ mediaRequest'.method = method /\ mediaRequest'.range = range
      BY <1>1 DEF Ask
    <2>2. UNCHANGED <<servedFile, seenLength, servedChanges>>
      BY <1>1 DEF Ask
    <2>3. QED
      BY <1>1, <2>1, <2>2
  <1>2. CASE OpenFile
    <2>1. /\ UNCHANGED <<servedFile, servedChanges>>
          /\ \/ seenLength' = servedFile.length /\ UNCHANGED mediaRequest
             \/ mediaRequest' = NoRequest /\ UNCHANGED seenLength
      BY <1>2 DEF OpenFile
    <2>2. servedFile.length \in 0..MaxLength
      OBVIOUS
    <2>3. QED
      BY <2>1, <2>2
  <1>3. CASE ReadRange \/ ReadWhole
    BY <1>3 DEF ReadRange, ReadWhole
  <1>4. CASE FileChanges
    BY <1>4 DEF FileChanges
  <1>5. CASE UNCHANGED serveVars
    BY <1>5 DEF serveVars
  <1>6. QED
    BY <1>1, <1>2, <1>3, <1>4, <1>5 DEF ServeNext

\* Requests are of a known form, and the length that was read is one a file has.
THEOREM ServeTypeCorrect == ServeSpec => []ServeTypeOK
  BY ServeInitHolds, ServeNextKeeps, PTL DEF ServeSpec

\* What one answer promises.
AnswerFits ==
    LET r == mediaRequest.range  covered == Covers(r, seenLength)
    IN CASE mediaAnswer'.status = 206 ->
              /\ covered # {}
              /\ mediaAnswer'.from \in covered /\ \A b \in covered : b >= mediaAnswer'.from
              /\ mediaAnswer'.from..mediaAnswer'.to \subseteq covered
              /\ mediaAnswer'.to - mediaAnswer'.from < MaxRange
              /\ mediaAnswer'.to + 1 \in covered =>
                    mediaAnswer'.to - mediaAnswer'.from = MaxRange - 1
              /\ mediaRequest.method = "GET" /\ servedFile.length = seenLength =>
                   mediaAnswer'.bytes = mediaAnswer'.to - mediaAnswer'.from + 1
         [] mediaAnswer'.status = 416 -> covered = {}
         [] mediaAnswer'.status = 200 -> mediaAnswer'.bytes <= MaxWhole
         [] OTHER -> TRUE

LEMMA RangeAnswerFits == ServeTypeOK /\ ReadRange => AnswerFits
  <1> SUFFICES ASSUME ServeTypeOK, ReadRange PROVE AnswerFits
    OBVIOUS
  <1> DEFINE r == mediaRequest.range
             from == RangeStart(r, seenLength)
             to == RangeEnd(r, seenLength)
             lastByte == LastAsked(r, seenLength)
             covered == Covers(r, seenLength)
             bytes == IF mediaRequest.method = "HEAD" \/ servedFile.length <= from THEN 0
                      ELSE Least(to + 1, servedFile.length) - from
  <1>1. r \in Ranges /\ r.form # "absent" /\ seenLength \in Nat /\ servedFile.length \in Nat
    BY ServeBoundsAreNat DEF ReadRange, ServeTypeOK
  <1>2. CASE Unsatisfiable(r, seenLength)
    <2>1. mediaAnswer' = [status |-> 416]
      BY <1>2 DEF ReadRange
    <2>2. covered = {}
      BY <1>1, <1>2, RangeCovers
    <2>3. QED
      BY <2>1, <2>2 DEF AnswerFits
  <1>3. CASE ~Unsatisfiable(r, seenLength)
    <2>1. mediaAnswer' = Reply(206, from, to, bytes)
      BY <1>3 DEF ReadRange
    <2>2. /\ mediaAnswer'.status = 206 /\ mediaAnswer'.from = from /\ mediaAnswer'.to = to
          /\ mediaAnswer'.bytes = bytes
      BY <2>1 DEF Reply
    <2>3. /\ from \in Nat /\ lastByte \in Nat /\ from <= lastByte /\ lastByte < seenLength
          /\ covered = from..lastByte
      BY <1>1, <1>3, RangeCovers
    <2>4. to = Least(lastByte, from + MaxRange - 1)
      BY DEF RangeEnd, LastAsked
    <2>5. mediaRequest.method = "GET" /\ servedFile.length = seenLength => bytes = to - from + 1
      <3> HIDE DEF from, to, lastByte
      <3>1. QED
        BY <1>1, <2>3, <2>4, ServeBoundsAreNat DEF Least
    <2> HIDE DEF from, to, lastByte, covered, bytes
    <2>6. /\ covered # {}
          /\ from \in covered /\ \A b \in covered : b >= from
          /\ from..to \subseteq covered
          /\ to - from < MaxRange
          /\ to + 1 \in covered => to - from = MaxRange - 1
      <3>1. /\ to \in Nat /\ from <= to /\ to <= lastByte /\ to <= from + MaxRange - 1
            /\ to = lastByte \/ to = from + MaxRange - 1
        BY <2>3, <2>4, ServeBoundsAreNat DEF Least
      <3>2. covered # {} /\ from \in covered /\ \A b \in covered : b >= from
        BY <2>3
      <3>3. from..to \subseteq covered
        BY <2>3, <3>1
      <3>4. to - from < MaxRange
        BY <2>3, <3>1, ServeBoundsAreNat
      <3>5. to + 1 \in covered => to - from = MaxRange - 1
        BY <2>3, <3>1, ServeBoundsAreNat
      <3>6. QED
        BY <3>2, <3>3, <3>4, <3>5
    <2>7. QED
      BY <2>2, <2>5, <2>6 DEF AnswerFits, covered
  <1>4. QED
    BY <1>2, <1>3

LEMMA WholeAnswerFits == ServeTypeOK /\ ReadWhole => AnswerFits
  <1> SUFFICES ASSUME ServeTypeOK, ReadWhole PROVE AnswerFits
    OBVIOUS
  <1>1. servedFile.length \in Nat /\ seenLength \in Nat
    BY ServeBoundsAreNat DEF ServeTypeOK
  <1>2. \/ mediaAnswer' = Reply(200, 0, 0, 0)
        \/ mediaAnswer' = [status |-> 413]
        \/ mediaAnswer' = Reply(200, 0, 0, servedFile.length) /\ ~(servedFile.length > MaxWhole)
    BY DEF ReadWhole
  <1>3. \/ mediaAnswer'.status = 413
        \/ mediaAnswer'.status = 200 /\ mediaAnswer'.bytes <= MaxWhole
    BY <1>1, <1>2, ServeBoundsAreNat DEF Reply
  <1>4. QED
    BY <1>3 DEF AnswerFits

\* A partial answer names the first bytes of what was asked for and refuses only what covers
\* nothing, and its body is as long as it says unless the file changed, for any limits and lengths.
THEOREM AnswersStayFitting == ServeSpec => AnswersFitTheFile
  <1>1. ServeTypeOK /\ [ServeNext]_serveVars => [ReadRange \/ ReadWhole => AnswerFits]_serveVars
    BY RangeAnswerFits, WholeAnswerFits
  <1>2. ServeSpec => [][ReadRange \/ ReadWhole => AnswerFits]_serveVars
    BY <1>1, ServeTypeCorrect, PTL DEF ServeSpec
  <1>3. QED
    BY <1>2 DEF AnswersFitTheFile, AnswerFits
==============================================================================
