---------------------------- MODULE MediaProtocol ----------------------------
(***************************************************************************)
(* Serving the files of a session to the players of the interface.         *)
(*                                                                         *)
(* Source: src-tauri/src/media_protocol.rs.  A request names an item of a  *)
(* session, a picture of one of the user's own works, the document of a    *)
(* video or one of its subtitles.  The handler resolves it, opens the      *)
(* file, reads its length and only then the bytes, while other programs    *)
(* may change the file.  Addresses are abstracted to what their parser     *)
(* finds in them, contents to lengths.                                     *)
(***************************************************************************)
EXTENDS Naturals, FiniteSets

CONSTANTS
    MaxRange,       \* MAX_RANGE_BYTES
    MaxWhole,       \* MAX_MATERIALIZED_MEDIA_BYTES
    MaxSubtitle,    \* MAX_SUBTITLE_BYTES
    MaxLength,      \* bound: length of a file
    MaxFileChanges  \* bound: changes of the file

ASSUME ServeBounds ==
    MaxRange \in Nat \ {0} /\ {MaxWhole, MaxSubtitle, MaxLength, MaxFileChanges} \subseteq Nat

VARIABLES
    servedFile,    \* the file the address resolves to: kind, place, length
    mediaRequest,  \* the request being served, or NoRequest
    seenLength,    \* length the handler read when it opened the file
    mediaAnswer,   \* the last answer, or Missing
    servedChanges  \* bound spent

serveVars == <<servedFile, mediaRequest, seenLength, mediaAnswer, servedChanges>>

NoRequest == [route |-> "none"]
Missing == [status |-> 0]
Methods == {"GET", "HEAD", "OTHER"}

\* Where the address leads: a regular file inside the root of the work, what is
\* not one, is outside (a link) or may not be opened, or nothing.
Spots == {"inside", "forbidden", "missing"}
Kinds == {"video", "image", "broken_image"}

\* A range header as parse_range splits it: not a single byte range, a suffix,
\* from a start to the end, or from a start to an end.
RangeBounds == 0..(MaxLength + 1)
Ranges == [form : {"absent", "invalid"}] \cup [form : {"suffix", "from"}, start : RangeBounds]
          \cup [form : {"closed"}, start : RangeBounds, end : RangeBounds]

\* An address as its parser finds it: malformed, of a session that is not open,
\* of an item; of a picture, with or without ?thumbnail; of a video document or
\* of a subtitle that is there or not.
Routes == {"malformed", "closed_session", "item", "thumbnail", "own_image", "own_artwork",
           "document", "subtitle", "no_subtitle"}

ServeTypeOK ==
    /\ servedFile \in [spot : Spots, kind : Kinds, length : 0..MaxLength]
    /\ \/ mediaRequest = NoRequest
       \/ /\ mediaRequest.route \in Routes /\ mediaRequest.method \in Methods
          /\ mediaRequest.range \in Ranges
    /\ seenLength \in 0..MaxLength /\ servedChanges \in 0..MaxFileChanges

ServeInit ==
    /\ servedFile \in [spot : Spots, kind : Kinds, length : 0..MaxLength]
    /\ mediaRequest = NoRequest /\ seenLength = 0 /\ mediaAnswer = Missing /\ servedChanges = 0

-----------------------------------------------------------------------------
(* parse_range.                                                            *)

Least(a, b) == IF a < b THEN a ELSE b

Unsatisfiable(r, length) ==
    \/ r.form = "invalid" \/ length = 0
    \/ r.form = "suffix" /\ r.start = 0
    \/ r.form \in {"from", "closed"} /\ r.start >= length
    \/ r.form = "closed" /\ Least(r.end, length - 1) < r.start

RangeStart(r, length) == IF r.form = "suffix" THEN length - Least(r.start, length) ELSE r.start

\* (Wrong form.) The end is not held to the file.
EndAsAsked(r, length) ==
    Least(IF r.form = "closed" THEN r.end ELSE length - 1, RangeStart(r, length) + MaxRange - 1)

RangeEnd(r, length) ==
    Least(IF r.form = "closed" THEN Least(r.end, length - 1) ELSE length - 1,
          RangeStart(r, length) + MaxRange - 1)

-----------------------------------------------------------------------------
(* Resolving an address.  The statuses are ProtocolError::status.          *)

\* map_asset_io_error, and resolve_path after it.
SpotStatus == [inside |-> 200, forbidden |-> 403, missing |-> 410]

IsVideoRoute(route) == route \in {"document", "subtitle", "no_subtitle"}

\* The checks before a file is read, in their order.
Refusal(q) ==
    IF q.method = "OTHER" THEN 405
    ELSE IF q.route = "malformed" THEN 400
    ELSE IF q.route = "closed_session" THEN 404
    ELSE IF q.route = "own_artwork" THEN 200
    ELSE IF SpotStatus[servedFile.spot] # 200 THEN SpotStatus[servedFile.spot]
    ELSE IF IsVideoRoute(q.route) /\ servedFile.kind # "video" THEN 403
    ELSE IF q.route = "no_subtitle" THEN 404
    ELSE IF q.route = "subtitle" /\ servedFile.length > MaxSubtitle THEN 413
    ELSE 200

\* A picture that is drawn small: a broken one falls back to the file itself,
\* except among the user's own pictures.
Drawn(q) ==
    \/ q.route = "own_artwork"
    \/ q.route = "own_image"
    \/ q.route = "thumbnail" /\ servedFile.kind = "image"

Reply(status, from, to, bytes) ==
    [status |-> status, from |-> from, to |-> to, bytes |-> bytes]

-----------------------------------------------------------------------------
(* The handler: opening, then reading.                                     *)

\* Only the routes that read a file look at the range header.
Ask(q) ==
    /\ mediaRequest = NoRequest
    /\ q.range.form # "absent" => q.route \in {"item", "thumbnail"}
    /\ mediaRequest' = q /\ mediaAnswer' = Missing
    /\ UNCHANGED <<servedFile, seenLength, servedChanges>>

\* Everything up to metadata().len(); routes without a media file end here.
OpenFile ==
    /\ mediaRequest # NoRequest /\ mediaAnswer = Missing
    /\ mediaAnswer' =
          IF Refusal(mediaRequest) # 200 THEN [status |-> Refusal(mediaRequest)]
          ELSE IF mediaRequest.route = "own_image" /\ servedFile.kind # "image"
               THEN [status |-> 422]
          ELSE IF Drawn(mediaRequest) \/ IsVideoRoute(mediaRequest.route)
               THEN [status |-> 200]
          ELSE [status |-> 1]
    /\ IF mediaAnswer'.status = 1 THEN seenLength' = servedFile.length /\ UNCHANGED mediaRequest
       ELSE mediaRequest' = NoRequest /\ UNCHANGED seenLength
    /\ UNCHANGED <<servedFile, servedChanges>>

\* A range of the file: a read past its end gives what is there.
ReadRange ==
    /\ mediaRequest # NoRequest /\ mediaAnswer.status = 1 /\ mediaRequest.range.form # "absent"
    /\ LET r == mediaRequest.range  from == RangeStart(r, seenLength)  to == RangeEnd(r, seenLength)
       IN mediaAnswer' = IF Unsatisfiable(r, seenLength) THEN [status |-> 416]
                    ELSE Reply(206, from, to,
                               IF mediaRequest.method = "HEAD" \/ servedFile.length <= from THEN 0
                               ELSE Least(to + 1, servedFile.length) - from)
    /\ mediaRequest' = NoRequest /\ seenLength' = 0
    /\ UNCHANGED <<servedFile, servedChanges>>

\* read_materialized_media: the length it was opened with and the bytes that
\* come are both held to the limit.
ReadWhole ==
    /\ mediaRequest # NoRequest /\ mediaAnswer.status = 1 /\ mediaRequest.range.form = "absent"
    /\ mediaAnswer' = IF mediaRequest.method = "HEAD" THEN Reply(200, 0, 0, 0)
                 ELSE IF seenLength > MaxWhole \/ servedFile.length > MaxWhole THEN [status |-> 413]
                 ELSE Reply(200, 0, 0, servedFile.length)
    /\ mediaRequest' = NoRequest /\ seenLength' = 0
    /\ UNCHANGED <<servedFile, servedChanges>>

\* Another program writes the file.
FileChanges ==
    /\ servedChanges < MaxFileChanges /\ servedChanges' = servedChanges + 1
    /\ \E n \in (0..MaxLength) \ {servedFile.length} :
          servedFile' = [servedFile EXCEPT !.length = n]
    /\ UNCHANGED <<mediaRequest, seenLength, mediaAnswer>>

ServeNext ==
    \/ \E route \in Routes, method \in Methods, range \in Ranges :
         Ask([route |-> route, method |-> method, range |-> range])
    \/ OpenFile \/ ReadRange \/ ReadWhole \/ FileChanges

ServeSpec == ServeInit /\ [][ServeNext]_serveVars

-----------------------------------------------------------------------------
(* Properties.                                                             *)

\* The bytes a range request covers, as RFC 9110 defines them.
Covers(r, length) ==
    CASE r.form = "suffix" -> {b \in 0..(length - 1) : b + r.start >= length}
      [] r.form = "from" -> {b \in 0..(length - 1) : b >= r.start}
      [] r.form = "closed" -> {b \in 0..(length - 1) : r.start <= b /\ b <= r.end}
      [] OTHER -> {}

\* A partial answer names the first bytes of what was asked for, at least one
\* and no more than the limit, so that a player that goes on asking reads the
\* file without a gap; it refuses only what covers no byte; and the body has
\* exactly the bytes its header names unless the file changed under the read.
\* What is answered in one piece never exceeds its limit.
AnswersFitTheFile ==
    [][ ReadRange \/ ReadWhole =>
          LET r == mediaRequest.range  covered == Covers(r, seenLength)
          IN CASE mediaAnswer'.status = 206 ->
                    /\ covered # {}
                    /\ mediaAnswer'.from \in covered /\ \A b \in covered : b >= mediaAnswer'.from
                    /\ mediaAnswer'.from..mediaAnswer'.to \subseteq covered
                    /\ mediaAnswer'.to - mediaAnswer'.from < MaxRange
                    /\ mediaAnswer'.to + 1 \in covered =>
                         mediaAnswer'.to - mediaAnswer'.from = MaxRange - 1
                    /\ mediaRequest.method = "GET" /\ servedFile.length = seenLength =>
                         mediaAnswer'.bytes = mediaAnswer'.to - mediaAnswer'.from + 1
               [] mediaAnswer'.status = 416 -> covered = {}
               [] mediaAnswer'.status = 200 -> mediaAnswer'.bytes <= MaxWhole
               [] OTHER -> TRUE ]_serveVars
=============================================================================
