-------------------------------- MODULE Media --------------------------------
(***************************************************************************)
(* Media sessions: a work that is played or read, and the queue of voice   *)
(* works the launcher puts together.                                       *)
(*                                                                         *)
(* Source: dla-application/src/media.rs (MediaService,                     *)
(* PersonalizedVoiceQueueService) and dla-sqlite/src/media.rs.  Every      *)
(* command runs on a thread of its own and is a read of the session, a     *)
(* decision and a save of the whole session, with no lock over the three;  *)
(* the interface closes a session while its last progress may still be on  *)
(* the way.  A save writes the session row, the resume point of the work   *)
(* it plays and the state of its queue in one transaction.  The unique     *)
(* indexes of library.sql are part of the saves.                           *)
(***************************************************************************)
EXTENDS Naturals, Sequences, FiniteSets, SequencesExt

CONSTANTS
    Installs,         \* installations with media
    Paths,            \* relative paths of media files
    Content,          \* the contents an installation can have: sets of paths
    PathOrder,        \* natural order of the paths, as a sequence
    Sessions,         \* session identifiers
    Callers,          \* command threads
    MinVoiceWorks,    \* PERSONALIZED_VOICE_MINIMUM_WORKS
    QueueLimit,       \* PERSONALIZED_VOICE_QUEUE_LIMIT
    MaxPosition,      \* bound: positions in a file
    MaxCalls,         \* bound: commands that change something
    MaxMediaRestarts  \* bound: restarts of the launcher

\* The voice queue has a scope of its own.
ASSUME VoiceIsNoInstall == "voice" \notin Installs

VARIABLES
    content,               \* files of each installation, as its inventory shows them
    session,               \* rows of library_media_session, NoSession before they exist
    resume,                \* rows of library_media_resume
    queue,                 \* rows of library_media_queue_state, by scope
    call,                  \* what a command thread has read and is about to save
    calls, mediaRestarts,  \* bounds spent
    last,                  \* history: place the last progress of a work session was saved at
    raced,                 \* history: works for which a save put back an older place
    refused                \* history: a voice queue with enough works could not be created

mediaVars == <<content, session, resume, queue, call, calls, mediaRestarts, last, raced, refused>>

Voice == "voice"
Scopes == Installs \cup {Voice}
NoSession == [status |-> "absent"]
NoPlace == [path |-> "none"]
Idle == [op |-> "idle"]

Open == {"active", "paused"}
SessionStatuses == Open \cup {"completed", "closed", "interrupted", "absent"}

MediaTypeOK ==
    /\ content \in [Installs -> SUBSET Paths]
    /\ \A s \in Sessions :
         /\ session[s].status \in SessionStatuses
         /\ session[s].status # "absent" => session[s].at \in 1..Len(session[s].items)
    /\ \A c \in Scopes : queue[c].path \in Paths \cup {"none"}
    /\ \A i \in Installs : resume[i].path \in Paths \cup {"none"}
    /\ calls \in 0..MaxCalls /\ mediaRestarts \in 0..MaxMediaRestarts
    /\ raced \subseteq Installs /\ refused \in BOOLEAN

MediaInit ==
    /\ content = [i \in Installs |-> CHOOSE f \in Content[i] : TRUE]
    /\ session = [s \in Sessions |-> NoSession]
    /\ resume = [i \in Installs |-> NoPlace]
    /\ queue = [c \in Scopes |-> NoPlace]
    /\ call = [c \in Callers |-> Idle]
    /\ calls = 0 /\ mediaRestarts = 0
    /\ last = [i \in Installs |-> NoPlace]
    /\ raced = {} /\ refused = FALSE

-----------------------------------------------------------------------------
(* The order of files, the queue of several works, and where to start.     *)

\* ordered_audio_tracks and compare_media_items, over the installation's files.
Items(i) == [k \in 1..Cardinality(content[i]) |->
               [inst |-> i, path |-> SelectSeq(PathOrder, LAMBDA p : p \in content[i])[k]]]

\* interleave_voice_queue: one file of every work in turn, up to the limit.
InterleaveWorks(works) ==
    LET turns == {t \in (1..Cardinality(Paths)) \X DOMAIN works : t[1] <= Len(works[t[2]])}
        before(x, y) == x[1] < y[1] \/ (x[1] = y[1] /\ x[2] < y[2])
        order == SetToSortSeq(turns, before)
    IN [k \in 1..(IF Len(order) < QueueLimit THEN Len(order) ELSE QueueLimit) |->
          works[order[k][2]][order[k][1]]]

Place(s) == [inst |-> s.items[s.at].inst, path |-> s.items[s.at].path,
             pos |-> s.pos, done |-> s.done]

\* initial_progress: the queue's own place, else the work's, else the start.
\* A place that was completed, or whose file is gone, is not taken up.
Usable(place, items) ==
    /\ place # NoPlace /\ ~place.done
    /\ \E k \in DOMAIN items : items[k].inst = place.inst /\ items[k].path = place.path
Start(items, queued, resumed) ==
    LET from(place) == [at |-> CHOOSE k \in DOMAIN items :
                                  items[k].inst = place.inst /\ items[k].path = place.path,
                        pos |-> place.pos]
    IN IF Usable(queued, items) THEN from(queued)
       ELSE IF Usable(resumed, items) THEN from(resumed) ELSE [at |-> 1, pos |-> 0]

NewSession(kind, i, items, queued, resumed) ==
    LET start == Start(items, queued, resumed)
    IN [kind |-> kind, inst |-> i, status |-> "active", items |-> items,
        at |-> start.at, pos |-> start.pos, done |-> FALSE]

-----------------------------------------------------------------------------
(* The saves.                                                              *)

Scope(s) == IF s.kind = Voice THEN Voice ELSE s.inst

\* History: the place of the last progress as a command read it, and whether a save of
\* that command puts back what it read before a later progress.
LastOf(s) == IF s.kind = Voice THEN NoPlace ELSE last[s.inst]
PutsBack(c) ==
    raced' = IF LastOf(call[c].copy) = call[c].seen THEN raced
             ELSE raced \cup {call[c].copy.inst}

\* (Wrong form.) Any number of open sessions.
NoIndexes(id, s) == \A j, k \in DOMAIN s.items : s.items[j].path = s.items[k].path => j = k

\* The unique index on open sessions, and the one on the files of a session.
IndexesAllow(id, s) ==
    /\ s.status \in Open =>
         ~\E o \in Sessions \ {id} : /\ session[o].status \in Open
                                     /\ Scope(session[o]) = Scope(s)
    /\ \A j, k \in DOMAIN s.items : s.items[j].path = s.items[k].path => j = k

\* (Wrong form.) The state of the queue is left to the next progress.
SaveResumeOnly(id, s) ==
    /\ session' = [session EXCEPT ![id] = s]
    /\ resume' = [resume EXCEPT ![Place(s).inst] = Place(s)]
    /\ queue' = [queue EXCEPT ![Scope(s)] = IF @ = NoPlace THEN Place(s) ELSE @]

\* The session row, upsert_resume and upsert_queue_state.
Save(id, s) ==
    /\ session' = [session EXCEPT ![id] = s]
    /\ resume' = [resume EXCEPT ![Place(s).inst] = Place(s)]
    /\ queue' = [queue EXCEPT ![Scope(s)] = Place(s)]

Spend == calls < MaxCalls /\ calls' = calls + 1

-----------------------------------------------------------------------------
(* Opening.                                                                *)

Fresh == {s \in Sessions : session[s] = NoSession /\ \A c \in Callers : call[c] = Idle \/ call[c].id # s}

\* A new identifier: which one is of no consequence.
NewId == CHOOSE s \in Fresh : TRUE

\* The open session of a work, and that of the voice queue.
OpenSession(i) ==
    {s \in Sessions : session[s].status \in Open /\ session[s].kind = "work" /\ session[s].inst = i}
OpenVoiceSession == {s \in Sessions : session[s].status \in Open /\ session[s].kind = Voice}

\* MediaService::open up to the write: an open session is returned as it is.
OpenWork(c, i) ==
    /\ call[c] = Idle /\ Spend
    /\ OpenSession(i) = {}
    /\ content[i] # {}
    /\ Fresh # {}
    /\ call' = [call EXCEPT ![c] = [op |-> "create", id |-> NewId, seen |-> last[i],
                    copy |-> NewSession("work", i, Items(i), queue[i], resume[i])]]
    /\ UNCHANGED <<content, session, resume, queue, mediaRestarts, last, raced, refused>>

\* PersonalizedVoiceQueueService::open: every work with files takes part here,
\* and each of them was listened to.
OpenVoice(c) ==
    /\ call[c] = Idle /\ Spend
    /\ OpenVoiceSession = {}
    /\ LET works == SetToSeq({i \in Installs : content[i] # {}})
           items == InterleaveWorks([w \in DOMAIN works |-> Items(works[w])])
       IN /\ Len(works) >= MinVoiceWorks
          /\ Fresh # {}
          /\ call' = [call EXCEPT ![c] = [op |-> "create", id |-> NewId, seen |-> NoPlace,
                          copy |-> NewSession(Voice, items[1].inst, items, queue[Voice], NoPlace)]]
    /\ UNCHANGED <<content, session, resume, queue, mediaRestarts, last, raced, refused>>

Create(c) ==
    /\ call[c].op = "create"
    /\ call' = [call EXCEPT ![c] = Idle]
    /\ IF IndexesAllow(call[c].id, call[c].copy)
       THEN /\ Save(call[c].id, call[c].copy)
            /\ last' = [i \in Installs |->
                          IF Scope(call[c].copy) = i /\ ~Usable(last[i], call[c].copy.items)
                          THEN NoPlace ELSE last[i]]
            /\ PutsBack(c)
            /\ UNCHANGED refused
       ELSE /\ UNCHANGED <<session, resume, queue, last, raced>>
            /\ refused' = (refused \/ (call[c].copy.kind = Voice /\ OpenVoiceSession = {}))
    /\ UNCHANGED <<content, calls, mediaRestarts>>

-----------------------------------------------------------------------------
(* Progress, settings and closing: a read, and a save of what was read.    *)

MayProgress(s, status) ==
    s.status \in Open \/ (s.status = "completed" /\ status = "completed")

Advanced(s, at, pos, status) ==
    [s EXCEPT !.at = at, !.pos = pos, !.status = status, !.done = (status = "completed")]

Progress(c, id) ==
    /\ call[c] = Idle /\ session[id] # NoSession /\ Spend
    /\ \E at \in DOMAIN session[id].items, pos \in 1..MaxPosition,
          status \in {"active", "paused", "completed"} :
         /\ MayProgress(session[id], status)
         /\ call' = [call EXCEPT ![c] = [op |-> "progress", id |-> id,
                                         copy |-> Advanced(session[id], at, pos, status)]]
    /\ UNCHANGED <<content, session, resume, queue, mediaRestarts, last, raced, refused>>

\* close, and update_queue_settings, which write the session back as they read it.
Close(c, id) ==
    /\ call[c] = Idle /\ session[id].status \in Open /\ Spend
    /\ call' = [call EXCEPT ![c] = [op |-> "close", id |-> id, seen |-> LastOf(session[id]),
                  copy |-> [session[id] EXCEPT !.status = "closed"]]]
    /\ UNCHANGED <<content, session, resume, queue, mediaRestarts, last, raced, refused>>

Settings(c, id) ==
    /\ call[c] = Idle /\ session[id].status \in Open /\ Spend
    /\ call' = [call EXCEPT ![c] = [op |-> "settings", id |-> id,
                  seen |-> LastOf(session[id]), copy |-> session[id]]]
    /\ UNCHANGED <<content, session, resume, queue, mediaRestarts, last, raced, refused>>

\* save_media_session: refused by an index when a session opened meanwhile.
Store(c) ==
    /\ call[c].op \in {"progress", "close", "settings"}
    /\ call' = [call EXCEPT ![c] = Idle]
    /\ LET id == call[c].id  s == call[c].copy
       IN IF IndexesAllow(id, s)
          THEN /\ Save(id, s)
               /\ IF call[c].op = "progress"
                  THEN /\ last' = IF s.kind = Voice THEN last
                                  ELSE [last EXCEPT ![s.inst] = IF s.done THEN NoPlace ELSE Place(s)]
                       /\ UNCHANGED raced
                  ELSE PutsBack(c) /\ UNCHANGED last
          ELSE UNCHANGED <<session, resume, queue, last, raced>>
    /\ UNCHANGED <<content, calls, mediaRestarts, refused>>

-----------------------------------------------------------------------------
(* Other programs, and a restart: reconcile_after_restart.                 *)

ContentChanges ==
    /\ Spend
    /\ \E i \in Installs : \E f \in Content[i] \ {content[i]} :
         content' = [content EXCEPT ![i] = f]
    /\ UNCHANGED <<session, resume, queue, call, mediaRestarts, last, raced, refused>>

MediaRestart ==
    /\ mediaRestarts < MaxMediaRestarts /\ mediaRestarts' = mediaRestarts + 1
    /\ session' = [s \in Sessions |-> IF session[s].status \in Open
                                      THEN [session[s] EXCEPT !.status = "interrupted"]
                                      ELSE session[s]]
    /\ call' = [c \in Callers |-> Idle]
    /\ UNCHANGED <<content, resume, queue, calls, last, raced, refused>>

MediaNext ==
    \/ \E c \in Callers :
         \/ \E i \in Installs : OpenWork(c, i)
         \/ OpenVoice(c) \/ Create(c) \/ Store(c)
         \/ \E id \in Sessions : Progress(c, id) \/ Close(c, id) \/ Settings(c, id)
    \/ ContentChanges \/ MediaRestart

MediaSpec == MediaInit /\ [][MediaNext]_mediaVars

-----------------------------------------------------------------------------
(* Properties.                                                             *)

\* Two commands that open the same work at once leave one session open: both
\* have seen that there was none, and a late progress may reopen an older one.
OneOpenSession ==
    \A s, o \in Sessions :
        (s # o /\ session[s].status \in Open /\ session[o].status \in Open) =>
            Scope(session[s]) # Scope(session[o])

\* What the queue of a work remembers is the place of its last progress, through
\* closings, restarts, new sessions and voice queues that play the same files,
\* unless a close, a change of settings or the opening of a session wrote a
\* place it had read before that progress.  Completing the work ends it, and so
\* does a new session that cannot take the place up because its file is gone.
PlaceIsKept ==
    \A i \in Installs : (last[i] # NoPlace /\ i \notin raced) => queue[i] = last[i]

\* Sessions, resume points and queues tell one story, whoever writes them in which order.
SessionsAgree == OneOpenSession /\ PlaceIsKept

\* A voice queue over enough works can be created.
VoiceQueueOpens == ~refused
=============================================================================
