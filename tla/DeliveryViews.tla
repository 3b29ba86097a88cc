----------------------------- MODULE DeliveryViews -----------------------------
(***************************************************************************)
(* What the page shows of the download queue, and how it acts on it.       *)
(*                                                                         *)
(* Source: src-tauri/src/delivery.rs (DeliveryController: view, changed    *)
(* and the commands), dla-delivery/src/client.rs (the session) and, under  *)
(* shared/ui/src, features/delivery (useDelivery, useStartInstall and the  *)
(* components that show them) and app/revisionedView.ts.                   *)
(* A view carries the revision that was read before the rest of it.        *)
(* Every change of the state is followed by an increment of the revision   *)
(* and by a view sent as an event; a command answers with a view of its    *)
(* own.  Events keep their order, answers cross them.  A view that cannot  *)
(* be read or emitted, which the code only logs, is left out.  How a job   *)
(* runs is the subject of DeliveryQueue: here the worker takes the latest  *)
(* job of one work through its statuses.                                   *)
(***************************************************************************)
EXTENDS Naturals, Sequences

CONSTANTS
    MaxChanges,      \* bound: changes of the state
    MaxViewedJobs,   \* bound: jobs
    Starts           \* what the launcher holds when the page begins to load, and how many
                     \* changes it has made

JobStatuses == {"queued", "downloading", "paused", "failed", "installed", "cancelled"}

ASSUME ViewBounds ==
    /\ MaxChanges \in Nat /\ MaxViewedJobs \in Nat \ {0}
    /\ Starts \subseteq [account : BOOLEAN, folder : BOOLEAN, running : BOOLEAN,
                         status : JobStatuses \cup {"none"}, changes : 0..MaxChanges]

PageThreads == {"start", "button"}   \* the install flow, and any other button
Threads == PageThreads \cup {"worker", "read"}

VARIABLES
    account,    \* somebody is signed in
    folder,     \* an install folder is set
    latestJob,  \* the latest job: its number, 0 for none, and its status
    jobRuns,    \* the worker has published a job
    revision,
    thread,     \* per thread: what it does, where it stands, what it has looked at
    events,     \* change events on their way to the page
    page,       \* the page: whether it listens, what it holds, the flow, the notice
    changes,    \* history: changes of the state
    known,      \* history: changes made when a revision was given out
    unheard,    \* history: the last change was made while the page loaded
    newest,     \* history: newest revision that reached this page
    finished    \* history: the job that was installed before the eyes of the page

state == <<account, folder, latestJob, jobRuns>>
viewsHistory == <<changes, known, unheard, newest, finished>>
viewsVars == <<state, revision, thread, events, page, viewsHistory>>

NoJobShown == [id |-> 0, status |-> "none"]
Finished == {"failed", "installed", "cancelled"}

\* A view as it is sent; `changes` is not part of it and tells how new it is.
NoView == [revision |-> 0, account |-> FALSE, folder |-> FALSE, job |-> NoJobShown,
           running |-> FALSE, changes |-> 0]
View == [revision |-> revision, account |-> account, folder |-> folder, job |-> latestJob,
         running |-> jobRuns, changes |-> changes]

IdleThread == [does |-> "nothing", of |-> 0, at |-> "idle", view |-> NoView]
Reading == [does |-> "read", of |-> 0, at |-> "look again", view |-> NoView]

\* A page that was just opened has sent its read and asked for the events.
NewPage == [listening |-> FALSE, loaded |-> FALSE, held |-> NoView, flow |-> "none",
            shown |-> NoJobShown, notice |-> 0]

ViewsTypeOK ==
    /\ account \in BOOLEAN /\ folder \in BOOLEAN /\ jobRuns \in BOOLEAN
    /\ latestJob.id \in 0..MaxViewedJobs /\ latestJob.status \in JobStatuses \cup {"none"}
    /\ revision \in 0..changes /\ changes \in 0..MaxChanges
    /\ \A t \in Threads : thread[t].at \in
          {"idle", "act", "bump", "look", "see", "look again", "see again", "answer", "refused"}
    /\ page.flow \in {"none", "dialog", "signing in", "choosing", "installing"}
    /\ page.held.revision <= revision
    /\ unheard \in BOOLEAN /\ finished \in 0..MaxViewedJobs

\* The page is loaded for the first time, or again while the worker runs.
ViewsInit ==
    /\ \E s \in Starts :
          /\ account = s.account /\ folder = s.folder /\ jobRuns = s.running
          /\ changes = s.changes /\ known = [r \in 0..MaxChanges |-> s.changes]
          /\ latestJob = IF s.status = "none" THEN NoJobShown ELSE [id |-> 1, status |-> s.status]
    /\ revision = 0
    /\ thread = [t \in Threads |-> IF t = "read" THEN Reading ELSE IdleThread]
    /\ events = <<>> /\ page = NewPage
    /\ unheard = FALSE /\ newest = 0 /\ finished = 0

Loading == ~page.loaded \/ ~page.listening \/ thread["read"].at # "idle"

Rests(t) == thread' = [thread EXCEPT ![t] = IdleThread]
ThreadGoes(t, step) == thread' = [thread EXCEPT ![t].at = step]

-----------------------------------------------------------------------------
(* Views.                                                                  *)

\* view reads the revision, and then everything else.
Look(t) ==
    /\ thread[t].at \in {"look", "look again"}
    /\ thread' = [thread EXCEPT ![t].view.revision = revision,
                     ![t].at = IF @ = "look" THEN "see" ELSE "see again"]
    /\ UNCHANGED <<state, revision, events, page, viewsHistory>>

\* changed sends its view as an event; the view of a command, or of the page's read, is
\* its answer.  Nobody hears an event before the page listens.
See(t) ==
    /\ thread[t].at \in {"see", "see again"}
    /\ LET view == [View EXCEPT !.revision = thread[t].view.revision] IN
       /\ thread' = [thread EXCEPT
                        ![t].view = IF thread[t].at = "see again" THEN view ELSE NoView,
                        ![t].at = IF @ = "see again" THEN "answer"
                                  ELSE IF t = "worker" THEN "idle" ELSE "look again"]
       /\ events' = IF thread[t].at = "see" /\ page.listening
                    THEN Append(events, view) ELSE events
    /\ UNCHANGED <<state, revision, page, viewsHistory>>

\* changed: the revision counts up once the change is made.
Bump(t) ==
    /\ thread[t].at = "bump" /\ ThreadGoes(t, "look")
    /\ revision' = revision + 1
    /\ known' = [known EXCEPT ![revision + 1] = changes]
    /\ UNCHANGED <<state, events, page, changes, unheard, newest, finished>>

\* What a change leaves in the history.
ChangeIsMade ==
    /\ changes < MaxChanges /\ changes' = changes + 1
    /\ unheard' = Loading
    /\ finished' = IF latestJob'.status = "installed" /\ latestJob # latestJob' /\ ~Loading
                   THEN latestJob.id ELSE finished

-----------------------------------------------------------------------------
(* Commands.                                                               *)

Refused(t) ==
    /\ ThreadGoes(t, "refused")
    /\ UNCHANGED <<state, revision, events, page, viewsHistory>>

Done(t) ==
    /\ ThreadGoes(t, "bump") /\ ChangeIsMade
    /\ UNCHANGED <<revision, events, page, known, newest>>

Does(t, command) == thread[t].at = "act" /\ thread[t].does = command

\* sign_in: the service accepts the account, or the forward or the service does not answer.
SignInAsked(t) ==
    /\ Does(t, "sign in")
    /\ \/ account' = TRUE /\ UNCHANGED <<folder, latestJob, jobRuns>> /\ Done(t)
       \/ Refused(t)

SignOut(t) ==
    /\ Does(t, "sign out")
    /\ account' = FALSE /\ UNCHANGED <<folder, latestJob, jobRuns>> /\ Done(t)

\* set_install_folder, behind the folder picker, which may be closed.
SetInstallFolder(t) ==
    /\ Does(t, "choose")
    /\ \/ folder' = TRUE /\ UNCHANGED <<account, latestJob, jobRuns>> /\ Done(t)
       \/ Refused(t)

\* install: a job of the work that is not finished is left as it is.
InstallAsked(t) ==
    /\ Does(t, "install")
    /\ \/ /\ folder
          /\ IF latestJob.status \in Finished \cup {"none"}
             THEN /\ latestJob.id < MaxViewedJobs
                  /\ latestJob' = [id |-> latestJob.id + 1, status |-> "queued"]
             ELSE UNCHANGED latestJob
          /\ UNCHANGED <<account, folder, jobRuns>> /\ Done(t)
       \/ Refused(t)

\* pause, resume and cancel of a job that is not running; one that runs is only asked to.
ChangeJob(t, command, from, to) ==
    /\ Does(t, command)
    /\ \/ /\ thread[t].of = latestJob.id
          /\ latestJob' = IF latestJob.status \in from /\ (~jobRuns \/ command = "resume")
                    THEN [latestJob EXCEPT !.status = to] ELSE latestJob
          /\ UNCHANGED <<account, folder, jobRuns>> /\ Done(t)
       \/ thread[t].of # latestJob.id /\ Refused(t)

Pause(t) == ChangeJob(t, "pause", {"queued"}, "paused")
ResumeJob(t) == ChangeJob(t, "resume", {"paused", "failed"}, "queued")
Cancel(t) == ChangeJob(t, "cancel", {"queued", "paused", "failed"}, "cancelled")

\* remove; the row of an earlier job is not followed.
RemoveJob(t) ==
    /\ Does(t, "remove")
    /\ \/ /\ thread[t].of = latestJob.id /\ latestJob.status \in Finished
          /\ latestJob' = [latestJob EXCEPT !.status = "none"]
          /\ UNCHANGED <<account, folder, jobRuns>> /\ Done(t)
       \/ (thread[t].of # latestJob.id \/ latestJob.status \notin Finished) /\ Refused(t)

Command(t) ==
    \/ SignInAsked(t) \/ SignOut(t) \/ SetInstallFolder(t) \/ InstallAsked(t)
    \/ Pause(t) \/ ResumeJob(t) \/ Cancel(t) \/ RemoveJob(t)

-----------------------------------------------------------------------------
(* The worker.                                                             *)

\* work: the job is published, run, and taken back; a run that failed for its account, or
\* for want of one, ends the session.  Each step is followed by changed.
Work ==
    /\ thread["worker"].at = "idle" /\ UNCHANGED <<folder, revision, events, page, known, newest>>
    /\ \E then \in {"work", "sign out"} :
          /\ thread' = [thread EXCEPT !["worker"].does = then, !["worker"].at = "bump"]
          /\ \/ /\ thread["worker"].does # "sign out" /\ then = "work"
                /\ \/ /\ account /\ ~jobRuns /\ latestJob.status = "queued"
                      /\ jobRuns' = TRUE /\ UNCHANGED <<account, latestJob>>
                   \/ /\ jobRuns /\ latestJob.status = "queued"
                      /\ latestJob' = [latestJob EXCEPT !.status = "downloading"]
                      /\ UNCHANGED <<account, jobRuns>>
                   \/ /\ jobRuns /\ latestJob.status = "downloading"
                      /\ \E s \in {"paused", "cancelled", "failed", "installed"} :
                            latestJob' = [latestJob EXCEPT !.status = s]
                      /\ UNCHANGED <<account, jobRuns>>
             \/ /\ jobRuns /\ latestJob.status \notin {"queued", "downloading"}
                /\ then = "sign out" => latestJob.status = "failed"
                /\ jobRuns' = FALSE /\ UNCHANGED <<account, latestJob>>
             \/ /\ thread["worker"].does = "sign out" /\ then = "work"
                /\ account' = FALSE /\ UNCHANGED <<latestJob, jobRuns>>
    /\ ChangeIsMade

-----------------------------------------------------------------------------
(* The page.                                                               *)

\* (Wrong form.) Whatever comes last is shown.
LatestView(current, next) == next

\* newestView.
NewestView(current, next) ==
    IF page.loaded /\ current.revision > next.revision THEN current ELSE next

\* What is held is shown: a job that finished since the page showed it last, or that is
\* new to it, gets a notice, except what the page found when it opened.
Shows(view, flow) ==
    page' = [page EXCEPT
        !.held = view, !.loaded = TRUE, !.flow = flow, !.shown = view.job,
        !.notice = IF page.loaded /\ view.job.status \in {"failed", "installed"}
                      /\ view.job # page.shown
                   THEN view.job.id ELSE @]

Hears(view) ==
    newest' = IF view.revision > newest THEN view.revision ELSE newest

\* onChange: acceptDeliveryView keeps the newest view.
OnChange ==
    /\ events # <<>> /\ page.listening
    /\ LET view == Head(events) IN
       Shows(NewestView(page.held, view), page.flow) /\ Hears(view)
    /\ events' = Tail(events)
    /\ UNCHANGED <<state, revision, thread, changes, known, unheard, finished>>

\* listen, which the gateway does not wait for.
Listen ==
    /\ ~page.listening /\ page' = [page EXCEPT !.listening = TRUE]
    /\ UNCHANGED <<state, revision, thread, events, viewsHistory>>

\* The answer to the page's read: useDelivery compares it with what was held before the
\* read was sent, and a page reads only while it holds nothing.
AnswerRead ==
    /\ thread["read"].at = "answer"
    /\ Shows(thread["read"].view, page.flow) /\ Hears(thread["read"].view)
    /\ Rests("read")
    /\ UNCHANGED <<state, revision, events, changes, known, unheard, finished>>

ForJobs == {"pause", "resume", "cancel", "remove"}

AsksCommand(t, command) ==
    thread' = [thread EXCEPT ![t] =
        [does |-> command, at |-> "act", view |-> NoView,
         of |-> IF command \in ForJobs THEN page.held.job.id ELSE 0]]

\* The buttons of the downloads page and of a job, as the held view offers them.
Offered(command) ==
    CASE command = "sign in" -> ~page.held.account
      [] command = "sign out" -> page.held.account
      [] command = "choose" -> TRUE
      [] command = "pause" -> page.held.job.status \in {"queued", "downloading"}
      [] command = "resume" -> page.held.job.status \in {"paused", "failed"}
      [] command = "cancel" -> page.held.job.status \in {"queued", "downloading", "paused", "failed"}
      [] command = "remove" -> page.held.job.status \in {"installed", "cancelled"}

Press(command) ==
    /\ page.loaded /\ thread["button"].at = "idle" /\ Offered(command)
    /\ AsksCommand("button", command)
    /\ UNCHANGED <<state, revision, events, page, viewsHistory>>

AnswerButton ==
    /\ thread["button"].at \in {"answer", "refused"}
    /\ IF thread["button"].at = "answer"
       THEN Shows(NewestView(page.held, thread["button"].view), page.flow) /\ Hears(thread["button"].view)
       ELSE UNCHANGED <<page, newest>>
    /\ Rests("button")
    /\ UNCHANGED <<state, revision, events, changes, known, unheard, finished>>

\* queue of useStartInstall, with the view it was given.
Queues(view) == IF view.folder THEN "installing" ELSE "choosing"
FlowCommand(flow) == IF flow = "choosing" THEN "choose" ELSE "install"

StartInstall ==
    /\ page.loaded /\ page.flow = "none" /\ page.held.job.status \in {"none", "cancelled"}
    /\ IF page.held.account
       THEN /\ page' = [page EXCEPT !.flow = Queues(page.held)]
            /\ AsksCommand("start", FlowCommand(Queues(page.held)))
       ELSE page' = [page EXCEPT !.flow = "dialog"] /\ UNCHANGED thread
    /\ UNCHANGED <<state, revision, events, viewsHistory>>

SubmitSignIn ==
    /\ page.flow = "dialog" /\ page' = [page EXCEPT !.flow = "signing in"]
    /\ AsksCommand("start", "sign in")
    /\ UNCHANGED <<state, revision, events, viewsHistory>>

CancelSignIn ==
    /\ page.flow = "dialog" /\ page' = [page EXCEPT !.flow = "none"]
    /\ UNCHANGED <<state, revision, thread, events, viewsHistory>>

\* Each answer is accepted, and leads to the next step of the flow.
AnswerStart ==
    /\ thread["start"].at = "answer"
    /\ LET view == thread["start"].view
           next == IF page.flow = "signing in" THEN Queues(view)
                   ELSE IF page.flow = "choosing" THEN "installing" ELSE "none" IN
       /\ Shows(NewestView(page.held, view), next) /\ Hears(view)
       /\ thread' = [thread EXCEPT !["start"] =
             IF next = "none" THEN IdleThread
             ELSE [does |-> FlowCommand(next), of |-> 0, at |-> "act", view |-> NoView]]
    /\ UNCHANGED <<state, revision, events, changes, known, unheard, finished>>

StartRefused ==
    /\ thread["start"].at = "refused" /\ Rests("start")
    /\ page' = [page EXCEPT !.flow = IF @ = "signing in" THEN "dialog" ELSE "none"]
    /\ UNCHANGED <<state, revision, events, viewsHistory>>

ViewsNext ==
    \/ \E t \in Threads : Look(t) \/ See(t) \/ Bump(t)
    \/ \E t \in PageThreads : Command(t)
    \/ Work \/ OnChange \/ Listen \/ AnswerRead \/ AnswerButton
    \/ \E c \in {"sign in", "sign out", "choose", "pause", "resume", "cancel", "remove"} : Press(c)
    \/ StartInstall \/ SubmitSignIn \/ CancelSignIn \/ AnswerStart \/ StartRefused

ViewsSpec == ViewsInit /\ [][ViewsNext]_viewsVars

-----------------------------------------------------------------------------

Answered == {thread[t].view : t \in {u \in Threads : thread[u].at = "answer"}}
               \cup {events[i] : i \in DOMAIN events}
               \cup {v \in {page.held} : page.loaded}

\* "a view is never older than its revision" (delivery.rs:280): whoever gets a view has
\* every change that was announced when its revision was given out.
ViewsAreAsNew == \A v \in Answered : v.changes >= known[v.revision]

PageSettled ==
    /\ page.loaded /\ page.listening /\ events = <<>>
    /\ \A t \in Threads : thread[t].at = "idle"

\* Once nothing is on its way the page shows what the launcher holds, however answers and
\* events crossed, unless the last change fell into the time the page loaded.
SettledShowsAll ==
    PageSettled /\ ~unheard =>
        page.held.changes = changes /\ page.held.job = latestJob /\ page.held.account = account

\* A job that was installed while the page was open is announced.
InstalledIsAnnounced ==
    PageSettled /\ ~unheard /\ latestJob.status = "installed" /\ finished = latestJob.id =>
        page.notice = latestJob.id

ViewsKeepUp == ViewsTypeOK /\ ViewsAreAsNew /\ SettledShowsAll /\ InstalledIsAnnounced

\* "so the interface keeps the newest view when a command's reply and the change events
\* arrive out of order" (delivery.rs:177): of the views that reached it the page holds
\* none that is older than another.
NewestIsHeld == page.held.revision >= newest
=============================================================================
