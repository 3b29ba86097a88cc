------------------------------- MODULE Playback -------------------------------
(***************************************************************************)
(* The two players of the interface and the places they save.              *)
(*                                                                         *)
(* Source: shared/ui/src/features/library: MediaPlaybackProvider.tsx (the  *)
(* sound dock, one <audio> element for the whole interface),               *)
(* MediaSessionPage.tsx with VideoPlayer.tsx (the page of a video work and *)
(* its <video> element), audioPlayer.ts, mediaSession.ts, mediaAsset.ts.   *)
(*                                                                         *)
(* A handler runs whole and sees the state of the last render ("seen");    *)
(* what it sets ("dock") is seen after the next one (Commit).  Commands    *)
(* are answered later, in any order between the players; each player sends *)
(* its progress one at a time.  The native player of the shell is          *)
(* NativeVideo; here the picture is the browser's element.  Positions are  *)
(* whole seconds, and a session is a work and the number of its opening.   *)
(***************************************************************************)
EXTENDS Naturals, Sequences

CONSTANTS
    AudioWorks, \* works whose action is play_audio
    Tracks,     \* number of files of every work
    Length,     \* seconds of every file
    Budgets,    \* bounds: how often the user acts in the dock and on the page, and
                \* how many commands fail
    MaxQueue    \* bound: progress writes waiting in one player

VARIABLES
    dock, seen, \* React state of the dock: as set, and as last rendered
    refs,       \* its refs: sessionRef, shouldPlay, prepared, pendingRestore, reportedSecond
    audio,      \* the <audio> element
    writes,     \* progressWriteRef: progress of the dock not yet answered
    opening,    \* works whose openMediaSession is not answered
    settings,   \* updateMediaQueueSettings not answered
    closing,    \* closeMediaSession of the dock not answered
    page,       \* the page of the video work with its element
    saves, left,   \* queueRef of the page, and of the page left before it
    cached,     \* what the page's query keeps of openMediaSession
    sessions,   \* the session of every work, as the commands keep it
    acts, fails,   \* what is left of the budget
    heard,      \* history: places played, chosen or taken from the store
    due, audioDue, \* history: the place each player reported last
    crossed     \* history: what an answer, a failure or an event crossed: "players", "queue"
                \* or "render"

playVars == <<dock, seen, refs, audio, writes, opening, settings, closing, page, saves, left,
              cached, sessions, acts, fails, heard, due, audioDue, crossed>>
pageVars == <<page, saves, left, cached, due>>
dockVars == <<dock, seen, refs, audio, writes, opening, settings, closing, audioDue>>

Video == "video"
\* A work has a file, and a sound work is not the video's.
ASSUME PlaybackBounds ==
    /\ Tracks \in Nat \ {0} /\ Length \in Nat /\ MaxQueue \in Nat
    /\ Budgets \subseteq [dock : Nat, page : Nat, fails : Nat]
    /\ AudioWorks \cap {Video, "none"} = {}

AllWorks == AudioWorks \cup {Video}
Ordinals == 1..Tracks
Seconds == 0..Length
Repeats == {"off", "one"}

NoId == [work |-> "none", gen |-> 0]
NoDock == [id |-> NoId, repeat |-> "off", ordinal |-> 0, ask |-> 0]
NoRestore == [id |-> NoId, at |-> 0, pos |-> 0, done |-> FALSE]
NoSource == [id |-> NoId, at |-> 0]
NoAudio == [src |-> NoSource, meta |-> FALSE, pos |-> 0, seeking |-> FALSE,
            paused |-> TRUE, ended |-> FALSE]
NoPlace == [at |-> 0, pos |-> 0]
NoAnswer == [gen |-> 0, at |-> 0, pos |-> 0, status |-> "none"]
NoPage == [state |-> "none", gen |-> 0, at |-> 0, pos |-> 0, status |-> "none",
           dirty |-> FALSE, timer |-> FALSE, repeat |-> "off",
           ready |-> FALSE, wants |-> FALSE, secs |-> 0, paused |-> TRUE]

Open == {"active", "paused"}
SessionIds == [work : AllWorks \cup {"none"}, gen : Nat]
Write == [id : SessionIds, at : Ordinals, pos : Seconds, status : Open \cup {"completed"},
          last : BOOLEAN]

PlayTypeOK ==
    /\ dock \in [id : SessionIds, repeat : Repeats, ordinal : 0..Tracks, ask : {0, 1}]
    /\ seen \in [id : SessionIds, repeat : Repeats, ordinal : 0..Tracks, ask : {0, 1}]
    /\ audio.pos \in Seconds /\ audio.src.at \in 0..Tracks
    /\ \A s \in {writes, saves, left} : \A k \in DOMAIN s : s[k] \in Write
    /\ opening \subseteq AudioWorks
    /\ page.state \in {"none", "open", "saving", "closing"}
    /\ \A w \in AllWorks : sessions[w].status \in Open \cup {"absent", "completed", "closed"}
    /\ acts.dock \in Nat /\ acts.page \in Nat /\ fails \in Nat
    /\ crossed \subseteq {"players", "queue", "render"}

PlayInit ==
    /\ dock = NoDock /\ seen = NoDock
    /\ refs = [id |-> NoId, play |-> FALSE, prepared |-> FALSE, pending |-> NoRestore,
               reported |-> Length + 1]
    /\ audio = NoAudio
    /\ writes = <<>> /\ opening = {} /\ settings = {} /\ closing = {}
    /\ page = NoPage /\ saves = <<>> /\ left = <<>> /\ cached = NoAnswer
    /\ sessions = [w \in AllWorks |-> [gen |-> 0, status |-> "absent", at |-> 1, pos |-> 0,
                                       done |-> FALSE, repeat |-> "off"]]
    /\ \E b \in Budgets : acts = [dock |-> b.dock, page |-> b.page] /\ fails = b.fails
    /\ heard = {}
    /\ due = NoPlace /\ audioDue = NoPlace /\ crossed = {}

UserOf(player) == acts[player] > 0 /\ acts' = [acts EXCEPT ![player] = @ - 1]
PlayFail == fails > 0 /\ fails' = fails - 1
Hear(w, at, pos) == heard' = heard \cup {<<w, at, pos>>}
Cross(what, happens) == crossed' = IF happens THEN crossed \cup {what} ELSE crossed

-----------------------------------------------------------------------------
(* The commands, as Media models them.                                     *)

\* MediaService::open: the session that is open, or a new one at the place kept.
Opened(w) ==
    LET s == sessions[w]
    IN IF s.status \in Open THEN s
       ELSE [s EXCEPT !.gen = @ + 1, !.status = "active", !.done = FALSE,
                      !.at = IF s.done THEN 1 ELSE @, !.pos = IF s.done THEN 0 ELSE @]

\* MediaService::update_progress: refused once the session is closed or completed.
Takes(write) ==
    LET s == sessions[write.id.work]
    IN /\ s.gen = write.id.gen
       /\ s.status \in Open \/ (s.status = "completed" /\ write.status = "completed")

Taken(write) ==
    [sessions EXCEPT ![write.id.work] =
        [@ EXCEPT !.at = write.at, !.pos = write.pos, !.status = write.status,
                  !.done = (write.status = "completed")]]

\* MediaService::resolve_asset: the files of a closed session are refused.
Readable(id) ==
    /\ sessions[id.work].gen = id.gen
    /\ sessions[id.work].status \in Open \cup {"completed"}

Closed(id) ==
    [sessions EXCEPT ![id.work].status =
        IF sessions[id.work].gen = id.gen /\ @ \in Open THEN "closed" ELSE @]

-----------------------------------------------------------------------------
(* audioPlayer.ts.                                                         *)

\* restorePlaybackPosition: a finished file starts over.
Restore(pos, done) == IF done \/ pos >= Length THEN 0 ELSE pos

-----------------------------------------------------------------------------
(* The dock: what its callbacks do to the element and the refs.            *)

\* What the effect that prepares the file follows; "ask" differs from the one rendered once
\* a place was asked for since.
Asked(d) == <<d.id, d.ordinal, d.ask>>
SourceOf(d) == IF d.id = NoId \/ d.ordinal = 0 THEN NoSource ELSE [id |-> d.id, at |-> d.ordinal]
HasUrl == audio.src # NoSource

\* playCurrent, when shouldPlay is set; a play() that comes too late is undone by
\* its attempt number and by handlePlay.
PlayCurrent(a, prepared) ==
    IF a.src # NoSource /\ prepared /\ a.meta /\ ~a.seeking
    THEN [a EXCEPT !.paused = FALSE, !.ended = FALSE, !.pos = IF @ = Length THEN 0 ELSE @]
    ELSE a

\* persist: one more write at the end of the chain.
Persist(queue, d, pos, status) ==
    Append(queue, [id |-> d.id, at |-> d.ordinal, pos |-> pos, status |-> status, last |-> FALSE])

\* adopt: the place of the session waits until its file is there.
Adopt(s, w) ==
    LET id == [work |-> w, gen |-> s.gen]
    IN /\ dock' = [id |-> id, repeat |-> s.repeat, ordinal |-> s.at, ask |-> 1 - seen.ask]
       /\ refs' = [id |-> id, play |-> TRUE, prepared |-> FALSE, reported |-> Length + 1,
                   pending |-> [id |-> id, at |-> s.at, pos |-> s.pos, done |-> s.done]]
       /\ audio' = [audio EXCEPT !.paused = TRUE]

\* closeAudio: the writes still in the chain are not waited for.
CloseAudio ==
    /\ dock' = [NoDock EXCEPT !.ask = dock.ask]
    /\ refs' = [refs EXCEPT !.id = NoId, !.play = FALSE, !.prepared = FALSE, !.pending = NoRestore]
    /\ audio' = [audio EXCEPT !.paused = TRUE]
    /\ closing' = IF refs.id = NoId THEN closing ELSE closing \cup {refs.id}
    /\ audioDue' = NoPlace

\* selectOrdinal, of the element as the caller leaves it.
SelectOrdinal(a, o) ==
    /\ dock' = [dock EXCEPT !.ordinal = o, !.ask = 1 - seen.ask]
    /\ refs' = [refs EXCEPT !.play = TRUE, !.prepared = FALSE, !.reported = Length + 1,
                  !.pending = [id |-> refs.id, at |-> o, pos |-> 0, done |-> FALSE]]
    /\ audio' = [a EXCEPT !.paused = TRUE]
    /\ Hear(refs.id.work, o, 0)

\* prepare and finishPreparation, in the effect that follows the source.  An element that
\* seeks is at once where it is sent.
Prepare(a, d, r) ==
    LET matches == r.pending.id = d.id /\ r.pending.at = d.ordinal
        target == IF matches THEN Restore(r.pending.pos, r.pending.done) ELSE 0
        there == a.pos = target
        next == IF there THEN a ELSE [a EXCEPT !.pos = target, !.seeking = TRUE]
    IN /\ refs' = [r EXCEPT !.pending = NoRestore, !.reported = target, !.prepared = there]
       /\ audio' = IF there /\ r.play THEN PlayCurrent(next, TRUE) ELSE next
       /\ IF matches THEN Hear(d.id.work, d.ordinal, target) ELSE UNCHANGED heard

-----------------------------------------------------------------------------
(* The dock: what the user does.                                           *)

\* The page's close, for stopPublishedVideo and for its own button.
SavePagePaused(last) ==
    Append(saves, [id |-> [work |-> Video, gen |-> page.gen], at |-> page.at,
                   pos |-> page.pos, status |-> "paused", last |-> last])
\* The page has told its place.
Reported(p) == due' = [at |-> p.at, pos |-> p.pos]

\* closeAndBack: a page that is not finished saves its place as paused first.
CloseAndBack ==
    IF page.status = "completed"
    THEN /\ page' = [page EXCEPT !.state = "closing", !.wants = FALSE, !.paused = TRUE]
         /\ UNCHANGED <<saves, left, cached, due>>
    ELSE /\ page' = [page EXCEPT !.state = "saving", !.wants = FALSE, !.paused = TRUE,
                                 !.status = "paused", !.dirty = FALSE, !.timer = FALSE]
         /\ saves' = SavePagePaused(TRUE)
         /\ Reported(page)
         /\ UNCHANGED <<left, cached>>

\* stopPublishedVideo.
StopPublishedVideo == IF page.state = "open" THEN CloseAndBack ELSE UNCHANGED pageVars

\* openWork, up to its answer.  The page publishes again while it closes, which
\* closes a dock that still holds a session.
OpenWork(w) ==
    /\ UserOf("dock") /\ seen = dock /\ w \notin opening
    /\ StopPublishedVideo
    /\ IF page.state # "none" /\ refs.id # NoId
       THEN /\ CloseAudio
            /\ opening' = IF seen.id.work = w /\ HasUrl THEN opening ELSE opening \cup {w}
       ELSE IF seen.id.work = w /\ HasUrl
       THEN /\ refs' = [refs EXCEPT !.play = TRUE]
            /\ audio' = PlayCurrent(audio, refs.prepared)
            /\ UNCHANGED <<dock, opening, closing, audioDue>>
       ELSE /\ opening' = opening \cup {w}
            /\ UNCHANGED <<dock, refs, audio, closing, audioDue>>
    /\ UNCHANGED <<seen, writes, settings, sessions, fails, heard, crossed>>

OpenAnswered(w) ==
    /\ w \in opening /\ opening' = opening \ {w}
    /\ LET s == Opened(w)
       IN /\ sessions' = [sessions EXCEPT ![w] = s]
          /\ Adopt(s, w)
          /\ audioDue' = NoPlace
    /\ Cross("players", page.state = "open")
    /\ UNCHANGED <<seen, writes, settings, closing, acts, fails, heard>> /\ UNCHANGED pageVars

Select(o) ==
    /\ UserOf("dock") /\ seen = dock /\ page.state = "none" /\ refs.id # NoId
    /\ SelectOrdinal(audio, o)
    /\ UNCHANGED <<seen, writes, opening, settings, closing, sessions, fails, audioDue, crossed>>
    /\ UNCHANGED pageVars

Toggle ==
    /\ UserOf("dock") /\ seen = dock /\ page.state = "none" /\ HasUrl
    /\ IF audio.paused
       THEN /\ refs' = [refs EXCEPT !.play = TRUE]
            /\ audio' = PlayCurrent(audio, refs.prepared)
            /\ UNCHANGED <<writes, audioDue>>
       ELSE /\ refs' = [refs EXCEPT !.play = FALSE]
            /\ audio' = [audio EXCEPT !.paused = TRUE]
            /\ writes' = Persist(writes, seen, audio.pos, "paused")
            /\ audioDue' = [at |-> seen.ordinal, pos |-> audio.pos]
    /\ UNCHANGED <<dock, seen, opening, settings, closing, sessions, fails, heard, crossed>>
    /\ UNCHANGED pageVars

\* seek, with persistProgress.
Seek(pos) ==
    /\ UserOf("dock") /\ seen = dock /\ page.state = "none" /\ SourceOf(seen) # NoSource
    /\ audio' = IF HasUrl /\ audio.meta THEN [audio EXCEPT !.pos = pos] ELSE audio
    /\ writes' = Persist(writes, seen, pos, IF audio.paused THEN "paused" ELSE "active")
    /\ audioDue' = [at |-> seen.ordinal, pos |-> pos]
    /\ Hear(seen.id.work, seen.ordinal, pos)
    /\ UNCHANGED <<dock, seen, refs, opening, settings, closing, sessions, fails, crossed>>
    /\ UNCHANGED pageVars

\* applyQueueSettings, and its answer, which is taken whatever session is there.
SetRepeat ==
    /\ UserOf("dock") /\ seen = dock /\ page.state = "none" /\ seen.id # NoId
    /\ settings' = settings \cup
         {[id |-> seen.id, repeat |-> IF seen.repeat = "one" THEN "off" ELSE "one"]}
    /\ UNCHANGED <<dock, seen, refs, audio, writes, opening, closing, sessions, fails, heard,
                   audioDue, crossed>>
    /\ UNCHANGED pageVars

SettingsAnswered(s) ==
    /\ s \in settings /\ settings' = settings \ {s}
    /\ IF sessions[s.id.work].gen = s.id.gen /\ sessions[s.id.work].status \in Open
       THEN /\ sessions' = [sessions EXCEPT ![s.id.work].repeat = s.repeat]
            /\ refs' = [refs EXCEPT !.id = s.id]
            /\ dock' = [dock EXCEPT !.id = s.id, !.repeat = s.repeat]
            /\ Cross("queue", refs.id # s.id)
       ELSE UNCHANGED <<sessions, refs, dock, crossed>>
    /\ UNCHANGED <<seen, audio, writes, opening, closing, acts, fails, heard, audioDue>>
    /\ UNCHANGED pageVars

\* close, when no video is published.
CloseDock ==
    /\ UserOf("dock") /\ seen = dock /\ page.state = "none" /\ refs.id # NoId
    /\ CloseAudio
    /\ UNCHANGED <<seen, writes, opening, settings, sessions, fails, heard, crossed>>
    /\ UNCHANGED pageVars

-----------------------------------------------------------------------------
(* The dock: renders, the element's events, and the answers.               *)

\* A render and its effects: another source drops the file at once.
Commit ==
    /\ seen # dock
    /\ seen' = dock
    /\ IF SourceOf(dock) # SourceOf(seen)
       THEN /\ audio' = NoAudio
            /\ refs' = [refs EXCEPT !.prepared = FALSE]
            /\ UNCHANGED heard
       ELSE IF Asked(dock) # Asked(seen) /\ audio.src # NoSource /\ audio.meta
       THEN Prepare(audio, dock, refs)
       ELSE UNCHANGED <<audio, refs, heard>>
    /\ UNCHANGED <<dock, writes, opening, settings, closing, sessions, acts, fails, audioDue,
                   crossed>>
    /\ UNCHANGED pageVars

\* useMaterializedMediaSource: the whole file was fetched, and is rendered.
Fetched ==
    /\ seen = dock /\ SourceOf(seen) # NoSource /\ audio.src = NoSource
    /\ Readable(seen.id)
    /\ audio' = [NoAudio EXCEPT !.src = SourceOf(seen)]
    /\ refs' = [refs EXCEPT !.prepared = FALSE]
    /\ UNCHANGED <<dock, seen, writes, opening, settings, closing, sessions, acts, fails, heard,
                   audioDue, crossed>>
    /\ UNCHANGED pageVars

\* The effect that waits for it is the one of the last render.
LoadedMetadata ==
    /\ HasUrl /\ ~audio.meta
    /\ Prepare([audio EXCEPT !.meta = TRUE], seen, refs)
    /\ Cross("render", Asked(seen) # Asked(dock))
    /\ UNCHANGED <<dock, seen, writes, opening, settings, closing, sessions, acts, fails, audioDue>>
    /\ UNCHANGED pageVars

Seeked ==
    /\ audio.seeking
    /\ LET a == [audio EXCEPT !.seeking = FALSE]
       IN audio' = IF refs.play THEN PlayCurrent(a, TRUE) ELSE a
    /\ refs' = [refs EXCEPT !.prepared = TRUE]
    /\ UNCHANGED <<dock, seen, writes, opening, settings, closing, sessions, acts, fails, heard,
                   audioDue, crossed>>
    /\ UNCHANGED pageVars

\* handlePlaybackReady.
CanPlay ==
    /\ HasUrl /\ audio.paused /\ refs.play /\ ~audio.ended
    /\ PlayCurrent(audio, refs.prepared) # audio
    /\ audio' = PlayCurrent(audio, refs.prepared)
    /\ UNCHANGED <<dock, seen, refs, writes, opening, settings, closing, sessions, acts, fails,
                   heard, audioDue, crossed>>
    /\ UNCHANGED pageVars

Advance ==
    /\ ~audio.paused /\ ~audio.seeking /\ audio.pos < Length
    /\ audio' = [audio EXCEPT !.pos = @ + 1, !.paused = (audio.pos + 1 = Length),
                              !.ended = (audio.pos + 1 = Length)]
    /\ Hear(audio.src.id.work, audio.src.at, audio.pos + 1)
    /\ UNCHANGED <<dock, seen, refs, writes, opening, settings, closing, sessions, acts, fails,
                   audioDue, crossed>>
    /\ UNCHANGED pageVars

\* The guard of handleTimeUpdate: the file was brought to its place.
Reports == HasUrl /\ refs.prepared

TimeUpdate ==
    /\ Reports /\ audio.pos # refs.reported
    /\ Len(writes) < MaxQueue
    /\ refs' = [refs EXCEPT !.reported = audio.pos]
    /\ writes' = IF SourceOf(seen) = NoSource THEN writes
                 ELSE Persist(writes, seen, audio.pos, IF audio.paused THEN "paused" ELSE "active")
    /\ audioDue' = IF SourceOf(seen) = NoSource \/ refs.id # seen.id THEN audioDue
                   ELSE [at |-> seen.ordinal, pos |-> audio.pos]
    /\ UNCHANGED <<dock, seen, audio, opening, settings, closing, sessions, acts, fails, heard,
                   crossed>>
    /\ UNCHANGED pageVars

\* handleEnded: every file that ends is saved as completed.
Ended ==
    /\ audio.ended /\ Len(writes) < MaxQueue
    /\ audioDue' = IF refs.id # seen.id THEN audioDue
                   ELSE [at |-> seen.ordinal, pos |-> IF seen.repeat = "one" THEN 0 ELSE Length]
    /\ LET done == Persist(writes, seen, Length, "completed")
           off == [audio EXCEPT !.ended = FALSE]
       IN IF seen.repeat = "one"
          THEN /\ writes' = Persist(done, seen, 0, "paused")
               /\ audio' = PlayCurrent([off EXCEPT !.pos = 0], refs.prepared)
               /\ refs' = [refs EXCEPT !.play = TRUE]
               /\ Hear(seen.id.work, seen.ordinal, 0)
               /\ UNCHANGED dock
          ELSE /\ writes' = done
               /\ IF seen.ordinal < Tracks /\ refs.id # NoId
                  THEN SelectOrdinal(off, seen.ordinal + 1)
                  ELSE /\ refs' = [refs EXCEPT !.play = FALSE]
                       /\ audio' = off
                       /\ UNCHANGED <<dock, heard>>
    /\ UNCHANGED <<seen, opening, settings, closing, sessions, acts, fails, crossed>>
    /\ UNCHANGED pageVars

\* The answer to the first write of the chain; the newest is taken into the state.
WriteAnswered ==
    /\ writes # <<>> /\ writes' = Tail(writes)
    /\ LET write == Head(writes)
       IN IF Takes(write)
          THEN /\ sessions' = Taken(write)
               /\ dock' = IF Len(writes) = 1 /\ dock.id = write.id
                          THEN [dock EXCEPT !.repeat = sessions[write.id.work].repeat] ELSE dock
          ELSE UNCHANGED <<sessions, dock>>
    /\ UNCHANGED <<seen, refs, audio, opening, settings, closing, acts, fails, heard,
                   audioDue, crossed>>
    /\ UNCHANGED pageVars

WriteFails ==
    /\ writes # <<>> /\ writes' = Tail(writes) /\ PlayFail
    /\ audioDue' = NoPlace
    /\ UNCHANGED <<dock, seen, refs, audio, opening, settings, closing, sessions, acts, heard,
                   crossed>>
    /\ UNCHANGED pageVars

CloseAnswered(id) ==
    /\ id \in closing /\ closing' = closing \ {id}
    /\ sessions' = Closed(id)
    /\ UNCHANGED <<dock, seen, refs, audio, writes, opening, settings, acts, fails, heard,
                   audioDue, crossed>>
    /\ UNCHANGED pageVars

-----------------------------------------------------------------------------
(* The page of the video work.                                             *)

\* (Wrong form.) A video that starts leaves the sound alone.
LetAudioPlay == UNCHANGED <<dock, refs, audio, closing, audioDue>>

\* publishVideoPlayback: another owner closes the dock.
PublishVideo ==
    IF refs.id # NoId THEN CloseAudio ELSE UNCHANGED <<dock, refs, audio, closing, audioDue>>

\* The page is opened and its player mounted: the video is published, and its file asked to
\* play.  The query opens the session once: an answer it still keeps is shown as it is,
\* whatever became of the session and of its place since.
Mount ==
    /\ UserOf("page") /\ seen = dock /\ page.state = "none"
    /\ LET fresh == cached = NoAnswer
           s == IF fresh THEN Opened(Video) ELSE cached
       IN /\ sessions' = IF fresh THEN [sessions EXCEPT ![Video] = Opened(Video)] ELSE sessions
          /\ cached' = [gen |-> s.gen, at |-> s.at, pos |-> s.pos, status |-> s.status]
          /\ \E repeat \in {"off", "all"} :
               page' = [NoPage EXCEPT !.state = "open", !.gen = s.gen, !.at = s.at, !.pos = s.pos,
                          !.status = s.status, !.wants = TRUE, !.repeat = repeat]
          /\ Hear(Video, s.at, s.pos)
          /\ due' = IF fresh /\ (s.at # due.at \/ s.pos # due.pos) THEN NoPlace ELSE due
    /\ PublishVideo
    /\ UNCHANGED <<seen, writes, opening, settings, saves, left, fails, crossed>>

\* An answer that nobody shows is dropped after the client's five minutes.
Expire ==
    /\ page.state = "none" /\ cached # NoAnswer
    /\ cached' = NoAnswer
    /\ UNCHANGED <<page, saves, left, sessions, acts, fails, heard, due, crossed>>
    /\ UNCHANGED dockVars

\* handleLoadedMetadata and finishPreparation.
VideoLoaded ==
    /\ page.state # "none" /\ ~page.ready
    /\ Readable([work |-> Video, gen |-> page.gen])
    /\ LET target == Restore(page.pos, page.status = "completed")
       IN /\ page' = [page EXCEPT !.ready = TRUE, !.secs = target]
          /\ Hear(Video, page.at, target)
    /\ UNCHANGED <<saves, left, cached, sessions, acts, fails, due, crossed>> /\ UNCHANGED dockVars

\* The chain of writes of the page.
Enqueue(p) == Append(saves, [id |-> [work |-> Video, gen |-> page.gen], at |-> p.at,
                             pos |-> p.pos, status |-> p.status, last |-> FALSE])

\* persistNow.
PersistNow(p) ==
    /\ page' = [p EXCEPT !.dirty = FALSE, !.timer = FALSE]
    /\ saves' = Enqueue(p)
    /\ Reported(p)

\* schedulePersist.
SchedulePersist(p) ==
    /\ page' = [p EXCEPT !.dirty = TRUE, !.timer = TRUE]
    /\ Reported(p)
    /\ UNCHANGED saves

\* attemptPlay and handlePlay: a play the user still wants is saved as active.
VideoPlay ==
    /\ page.state # "none" /\ page.ready /\ page.wants /\ page.paused
    /\ Len(saves) < MaxQueue
    /\ PersistNow([page EXCEPT !.paused = FALSE, !.status = "active",
                               !.secs = IF @ = Length THEN 0 ELSE @])
    /\ UNCHANGED <<left, cached, sessions, acts, fails, heard, crossed>> /\ UNCHANGED dockVars

VideoAdvance ==
    /\ page.state # "none" /\ ~page.paused /\ page.secs < Length
    /\ page' = [page EXCEPT !.secs = @ + 1]
    /\ Hear(Video, page.at, page.secs + 1)
    /\ UNCHANGED <<saves, left, cached, sessions, acts, fails, due, crossed>> /\ UNCHANGED dockVars

\* reportProgress: every time the element tells, once it is at its place.
VideoTime ==
    /\ page.state # "none" /\ page.ready
    /\ page.pos # page.secs
    /\ SchedulePersist([page EXCEPT !.pos = page.secs,
                          !.status = IF page.paused THEN "paused" ELSE "active"])
    /\ UNCHANGED <<left, cached, sessions, acts, fails, heard, crossed>> /\ UNCHANGED dockVars

\* toggle, with handlePause: the place and then the state are saved.
VideoToggle ==
    /\ UserOf("dock") /\ page.state # "none" /\ page.ready
    /\ IF page.paused
       THEN /\ page' = [page EXCEPT !.wants = TRUE]
            /\ Cross("players", page.state # "open")
            /\ UNCHANGED <<saves, due>>
       ELSE /\ PersistNow([page EXCEPT !.wants = FALSE, !.paused = TRUE,
                                       !.pos = page.secs, !.status = "paused"])
            /\ UNCHANGED crossed
    /\ UNCHANGED <<left, cached, sessions, fails, heard>> /\ UNCHANGED dockVars

VideoSeek(pos) ==
    /\ UserOf("dock") /\ page.state = "open" /\ page.ready
    /\ SchedulePersist([page EXCEPT !.secs = pos, !.pos = pos,
                                    !.status = IF page.paused THEN "paused" ELSE "active"])
    /\ Hear(Video, page.at, pos)
    /\ UNCHANGED <<left, cached, sessions, fails, crossed>> /\ UNCHANGED dockVars

\* chooseItem: another file from its start, in a new element.
ChooseItem(o) ==
    /\ PersistNow([page EXCEPT !.at = o, !.pos = 0, !.status = "active", !.ready = FALSE,
                               !.wants = TRUE, !.secs = 0, !.paused = TRUE])
    /\ Hear(Video, o, 0)

VideoChoose(o) ==
    /\ UserOf("page") /\ page.state = "open" /\ o # page.at
    /\ ChooseItem(o)
    /\ UNCHANGED <<left, cached, sessions, fails, crossed>> /\ UNCHANGED dockVars

\* handleEnded and finishTimedItem.
VideoEnded ==
    /\ page.state # "none" /\ ~page.paused /\ page.secs = Length
    /\ Len(saves) < MaxQueue
    /\ IF page.at < Tracks THEN ChooseItem(page.at + 1)
       ELSE IF page.repeat = "all" /\ Tracks > 1 THEN ChooseItem(1)
       ELSE /\ PersistNow([page EXCEPT !.pos = Length, !.status = "completed", !.paused = TRUE,
                                       !.wants = FALSE])
            /\ UNCHANGED heard
    /\ UNCHANGED <<left, cached, sessions, acts, fails, crossed>> /\ UNCHANGED dockVars

\* The timer of schedulePersist.
TimerFires ==
    /\ page.timer /\ Len(saves) < MaxQueue
    /\ page' = [page EXCEPT !.timer = FALSE, !.dirty = FALSE]
    /\ saves' = Enqueue(page)
    /\ UNCHANGED <<left, cached, sessions, acts, fails, heard, due, crossed>> /\ UNCHANGED dockVars

\* The head of the page's chain is answered; the close waits for its own write.
SaveAnswered ==
    /\ saves # <<>> /\ saves' = Tail(saves)
    /\ LET write == Head(saves)
       IN \/ /\ Takes(write)
             /\ sessions' = Taken(write)
             /\ page' = IF write.last THEN [page EXCEPT !.state = "closing"] ELSE page
             /\ UNCHANGED <<due, fails, crossed>>
          \/ /\ IF Takes(write) THEN PlayFail ELSE UNCHANGED fails
             /\ page' = IF write.last THEN [page EXCEPT !.state = "open"] ELSE page
             /\ due' = NoPlace
             /\ Cross("players", write.last)
             /\ UNCHANGED sessions
    /\ UNCHANGED <<left, cached, acts, heard>> /\ UNCHANGED dockVars

\* The chain of a page that is gone goes on.
LeftAnswered ==
    /\ left # <<>> /\ left' = Tail(left)
    /\ LET write == Head(left)
       IN IF Takes(write)
          THEN /\ sessions' = Taken(write)
               /\ due' = IF page.state = "none" THEN due ELSE NoPlace
          ELSE /\ due' = NoPlace
               /\ UNCHANGED sessions
    /\ UNCHANGED <<page, saves, cached, acts, fails, heard, crossed>> /\ UNCHANGED dockVars

\* (Wrong form.) What the timer was to save is dropped with the page.
DropPending == saves

\* The cleanup of the page: what was reported and not queued is queued now.
FlushPending == IF page.dirty THEN Enqueue(page) ELSE saves

Unmount ==
    /\ left = <<>>
    /\ left' = FlushPending
    /\ page' = NoPage /\ saves' = <<>>

\* The user goes elsewhere in the interface; nothing tells the query.
Leave ==
    /\ UserOf("page") /\ page.state = "open"
    /\ Unmount
    /\ UNCHANGED <<cached, sessions, fails, heard, due, crossed>> /\ UNCHANGED dockVars

Back ==
    /\ UserOf("page") /\ page.state = "open"
    /\ CloseAndBack
    /\ UNCHANGED <<sessions, fails, heard, crossed>> /\ UNCHANGED dockVars

\* The answer to closeMediaSession, and onBack.
PageClosed ==
    /\ page.state = "closing"
    /\ \/ /\ sessions' = Closed([work |-> Video, gen |-> page.gen])
          /\ Unmount
          /\ UNCHANGED <<fails, crossed>>
       \/ /\ PlayFail
          /\ page' = [page EXCEPT !.state = "open"]
          /\ Cross("players", TRUE)
          /\ UNCHANGED <<sessions, saves, left>>
    /\ UNCHANGED <<cached, acts, heard, due>> /\ UNCHANGED dockVars

PlayNext ==
    \/ \E w \in AudioWorks : OpenWork(w) \/ OpenAnswered(w)
    \/ \E o \in Ordinals : Select(o) \/ VideoChoose(o)
    \/ \E pos \in Seconds : Seek(pos) \/ VideoSeek(pos)
    \/ \E s \in settings : SettingsAnswered(s)
    \/ \E id \in closing : CloseAnswered(id)
    \/ Toggle \/ SetRepeat \/ CloseDock \/ Commit \/ Fetched \/ LoadedMetadata \/ Seeked
    \/ CanPlay \/ Advance \/ TimeUpdate \/ Ended \/ WriteAnswered \/ WriteFails
    \/ Mount \/ Expire \/ VideoLoaded \/ VideoPlay \/ VideoAdvance \/ VideoTime \/ VideoToggle
    \/ VideoEnded \/ TimerFires \/ SaveAnswered \/ LeftAnswered \/ Leave \/ Back \/ PageClosed

PlaySpec == PlayInit /\ [][PlayNext]_playVars

-----------------------------------------------------------------------------
(* Properties.                                                             *)

\* Sound and picture never play together: a work that starts stops the video,
\* a video that starts closes the dock.  The code gives no such promise once
\* the answer of an opening finds a video that came up after it was asked, a
\* close of the page fails, or the user plays the video while it is closing.
OnePlays ==
    (~audio.paused /\ page.state # "none" /\ ~page.paused) =>
        crossed \cap {"players", "queue"} # {}

\* A place that was played, chosen or taken from the store; a file that was heard to its
\* end starts over.
Heard(w, at, pos) == <<w, at, pos>> \in heard \/ (pos = 0 /\ <<w, at, Length>> \in heard)

\* No player saves a place that was neither played, nor chosen, nor the one its
\* work was left at: a file that is still brought to its place reports nothing.
SavedIsHeard ==
    \A queue \in {writes, saves, left} : \A k \in DOMAIN queue :
        Heard(queue[k].id.work, queue[k].at, queue[k].pos) \/ crossed \cap {"queue", "render"} # {}

\* The last place the page reported is the one kept when all its writes have
\* been answered and none was refused or failed, whether the user is still
\* there, went elsewhere or closed the page.
PageIsSaved ==
    (due # NoPlace /\ saves = <<>> /\ left = <<>> /\ ~page.dirty) =>
        sessions[Video].at = due.at /\ sessions[Video].pos = due.pos

PlacesAreKept == PlayTypeOK /\ SavedIsHeard /\ PageIsSaved

\* What is heard is kept: the place the dock saved last is the one in the store
\* when no write is on its way, none has failed and nothing closed the session.
ListenedIsSaved ==
    (/\ audioDue # NoPlace /\ writes = <<>> /\ refs.id # NoId
     /\ sessions[refs.id.work].gen = refs.id.gen /\ sessions[refs.id.work].status # "closed") =>
        sessions[refs.id.work].at = audioDue.at /\ sessions[refs.id.work].pos = audioDue.pos
=============================================================================
