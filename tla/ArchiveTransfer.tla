-------------------------- MODULE ArchiveTransfer --------------------------
(***************************************************************************)
(* Downloading one archive into the staging folder of its work             *)
(* (`FileTransfer::fetch`, dla-delivery/src/transfer.rs): ranges are       *)
(* appended to a part file and hashed as they are written; a part that is  *)
(* complete and matches its SHA-256 is renamed to the archive's name.      *)
(*                                                                         *)
(* The content of a file is the sequence of its blocks, and of a block it  *)
(* matters only which copy it came from.  The launcher may be killed at    *)
(* any step, the power may fail, and the server's copy may change.  Only   *)
(* one transfer runs at a time: the download queue has one worker.         *)
(***************************************************************************)
EXTENDS Naturals, Sequences

CONSTANTS
  Size,         \* blocks of the archive
  RangeBlocks   \* blocks asked for in one request

ASSUME ConstantsAssumption == Size \in Nat \ {0} /\ RangeBlocks \in Nat \ {0}

VARIABLES
  part,        \* content of the part file; empty when there is none
  target,      \* content of the file under the archive's name, or NoFile
  synced,      \* what the part holds has reached the disk
  settled,     \* what the target holds has reached the disk
  undo,        \* what a power failure may put back under the name
  remote,      \* the server's copy
  pc,          \* place in `fetch`, "idle" between attempts
  hashed,      \* what the hasher has been fed
  modified,    \* the Last-Modified of this attempt's replies
  body         \* the reply being read: its copy, and the blocks to come

files == <<part, target, synced, settled, undo>>
vars  == <<files, remote, pc, hashed, modified, body>>

-----------------------------------------------------------------------------

\* The copies a server may hold: the one the catalog knows, another of the
\* same size, and one of another size.
Copies == {"wanted", "other", "longer"}

Total(copy) == IF copy = "longer" THEN Size + 1 ELSE Size

\* A block of a copy, or one a power failure left behind.
Blocks == Copies \cup {"lost"}

Contents(n) == UNION {[1 .. k -> Blocks] : k \in 0 .. n}

\* The archive itself: what its SHA-256 stands for.
Archive == [k \in 1 .. Size |-> "wanted"]

Matches(content) == content = Archive

NoFile == <<"no file">>

NoBody == [copy |-> "none", left |-> 0]

\* A file of the user's under the archive's name.
Foreign(n) == [k \in 1 .. n |-> "other"]

PCs == {"idle", "target", "part", "receive", "body", "sync", "verify", "rename"}

TypeOK ==
  /\ part \in Contents(Size + 1)
  /\ target \in Contents(Size + 1) \cup {NoFile}
  /\ undo \in Contents(Size + 1) \cup {NoFile}
  /\ synced \in BOOLEAN /\ settled \in BOOLEAN
  /\ remote \in Copies
  /\ pc \in PCs
  /\ hashed \in Contents(Size)
  /\ modified \in Copies \cup {"none"}
  /\ body \in [copy : Copies \cup {"none"}, left : 0 .. Size]

\* Files of these names may lie in the folder already.
Init ==
  /\ part \in {<<>>, Foreign(Size + 1)}
  /\ target \in {NoFile, Foreign(Size), Foreign(Size + 1)}
  /\ synced = TRUE /\ settled = TRUE /\ undo = target
  /\ remote \in Copies
  /\ pc = "idle" /\ hashed = <<>> /\ modified = "none" /\ body = NoBody

\* `fetch` returns, with success, a problem, or because it was stopped.
Return ==
  /\ pc' = "idle" /\ hashed' = <<>> /\ modified' = "none" /\ body' = NoBody

Goto(place) == pc' = place

UnchangedFiles == UNCHANGED files

DeletePart == part' = <<>> /\ synced' = TRUE

Start ==
  /\ pc = "idle" /\ Goto("target")
  /\ UNCHANGED <<files, remote, hashed, modified, body>>

\* A finished file the job did not record is kept, any other of that size
\* deleted.
CheckTarget ==
  /\ pc = "target"
  /\ \/ UnchangedFiles /\ Return
     \/ /\ target = NoFile \/ (target # NoFile /\ Len(target) # Size)
        /\ Goto("part") /\ UNCHANGED <<files, hashed, modified, body>>
     \/ /\ target # NoFile /\ Len(target) = Size /\ ~Matches(target)
        /\ target' = NoFile /\ undo' = NoFile /\ settled' = TRUE
        /\ Goto("part") /\ UNCHANGED <<part, synced, hashed, modified, body>>
  /\ UNCHANGED remote

\* What the hasher is fed of a part that is continued.  (Nothing.)
Fresh(content) == <<>>
Rehashed(content) == content

\* The part file as it is opened.  (Truncated.)
Truncated(content) == <<>>
Opened(content) == content

\* A part of the archive's size at most is hashed again and continued.
CheckPart ==
  /\ pc = "part"
  /\ \/ UnchangedFiles /\ Return
     \/ /\ Len(part) > Size /\ DeletePart /\ UNCHANGED <<target, settled, undo>>
        /\ \/ Goto("receive") /\ UNCHANGED <<hashed, modified, body>>
           \/ Return              \* no space on the disk
     \/ /\ Len(part) <= Size
        /\ part' = Opened(part) /\ hashed' = Rehashed(part)
        /\ Goto("receive")
        /\ UNCHANGED <<target, synced, settled, undo, modified, body>>
  /\ UNCHANGED remote

Held == Len(hashed)

\* Blocks of the next request.  (Past the end of the archive.)
WholeRange == RangeBlocks
NextRange == IF RangeBlocks < Size - Held THEN RangeBlocks ELSE Size - Held

\* `If-Range`: a copy other than the one this attempt began with is refused.
SameCopy == modified \in {"none", remote}

\* One request.  After a stop or a failed request the part stays; a copy of
\* another size deletes it.  A reply need not carry a Last-Modified.
Request ==
  /\ pc = "receive" /\ Held < Size
  /\ \/ UnchangedFiles /\ Return
     \/ /\ SameCopy /\ Total(remote) # Size
        /\ DeletePart /\ UNCHANGED <<target, settled, undo>> /\ Return
     \/ /\ SameCopy /\ Total(remote) = Size
        /\ body' = [copy |-> remote, left |-> NextRange]
        /\ \/ UNCHANGED modified
           \/ modified = "none" /\ modified' = remote
        /\ Goto("body") /\ UNCHANGED <<files, hashed>>
  /\ UNCHANGED remote

\* Where a reply that ends too early leads.  (To the next request.)
NextRequest ==
  /\ Goto("receive") /\ body' = NoBody /\ UNCHANGED <<hashed, modified>>
GiveUp == Return

\* One block of the reply: written and hashed; written in part only, so
\* that the disk is ahead of the hasher; or the reply ends or breaks.
Read ==
  /\ pc = "body" /\ body.left > 0
  /\ \/ /\ part' = Append(part, body.copy) /\ hashed' = Append(hashed, body.copy)
        /\ synced' = FALSE
        /\ body' = [body EXCEPT !.left = @ - 1]
        /\ UNCHANGED <<target, settled, undo, pc, modified>>
     \/ /\ part' = Append(part, body.copy) /\ synced' = FALSE
        /\ UNCHANGED <<target, settled, undo>> /\ Return
     \/ UnchangedFiles /\ GiveUp
  /\ UNCHANGED remote

EndOfRange ==
  /\ pc = "body" /\ body.left = 0
  /\ Goto("receive") /\ body' = NoBody
  /\ UNCHANGED <<files, remote, hashed, modified>>

Received ==
  /\ pc = "receive" /\ Held >= Size
  /\ Goto("sync")
  /\ UNCHANGED <<files, remote, hashed, modified, body>>

\* `sync_all`.  (Leaving it to the system.)
NotSynced == synced' = synced
NowSynced == synced' = TRUE

Sync ==
  /\ pc = "sync"
  /\ \/ /\ NowSynced /\ Goto("verify")
        /\ UNCHANGED <<part, target, settled, undo, hashed, modified, body>>
     \/ UnchangedFiles /\ Return
  /\ UNCHANGED remote

Verify ==
  /\ pc = "verify"
  /\ \/ /\ Matches(hashed) /\ Goto("rename")
        /\ UNCHANGED <<files, hashed, modified, body>>
     \/ /\ ~Matches(hashed)
        /\ DeletePart \/ UNCHANGED <<part, synced>>
        /\ UNCHANGED <<target, settled, undo>> /\ Return
  /\ UNCHANGED remote

\* The rename itself may still be undone by a power failure.
Rename ==
  /\ pc = "rename"
  /\ \/ /\ target' = part /\ settled' = synced /\ undo' = target
        /\ DeletePart
     \/ UnchangedFiles
  /\ Return /\ UNCHANGED remote

Step ==
  \/ CheckTarget \/ CheckPart \/ Request \/ Read \/ EndOfRange \/ Received
  \/ Sync \/ Verify \/ Rename

-----------------------------------------------------------------------------
(* The world.                                                               *)

ServerChanges ==
  /\ remote' \in Copies \ {remote}
  /\ UNCHANGED <<files, pc, hashed, modified, body>>

\* What was written reaches the disk sooner or later.
Flush ==
  /\ ~synced \/ ~settled \/ undo # target
  /\ synced' = TRUE /\ settled' = TRUE /\ undo' = target
  /\ UNCHANGED <<part, target, remote, pc, hashed, modified, body>>

\* The launcher is closed or killed.
Crash ==
  /\ pc # "idle"
  /\ UnchangedFiles /\ Return /\ UNCHANGED remote

\* What may be left of content that had not reached the disk.
Remains(content, onDisk) ==
  IF onDisk THEN {content}
  ELSE {left \in Contents(Len(content)) :
          \A k \in 1 .. Len(left) : left[k] \in {content[k], "lost"}}

\* The power fails: unsynced content is damaged or cut, and the last rename
\* may be gone, in which case the part is back.
PowerLoss ==
  /\ Return
  /\ synced' = TRUE /\ settled' = TRUE
  /\ \/ /\ part' \in Remains(part, synced)
        /\ target' \in (IF target = NoFile THEN {NoFile}
                        ELSE Remains(target, settled))
        /\ undo' = target'
     \/ /\ undo # target /\ target # NoFile
        /\ part' \in Remains(target, settled)
        /\ target' = undo /\ undo' = undo
  /\ UNCHANGED remote

Next == Start \/ Step \/ ServerChanges \/ Flush \/ Crash \/ PowerLoss

\* `fetch` goes on: the client's timeouts end every request.
Spec == Init /\ [][Next]_vars /\ WF_vars(Step)

-----------------------------------------------------------------------------
(* What holds.                                                              *)

\* The hasher has seen what the part file holds, whatever earlier attempts,
\* kills and power failures left in it (`fetch` hashes the part again).
HashFollowsDisk ==
  pc \in {"receive", "body", "sync", "verify", "rename"} => hashed = part

\* Whatever appears under the archive's name is the archive, also when the
\* power fails right after the rename; the launcher puts nothing else there
\* (`sync_all` before the comparison and the rename).
OnlyVerifiedFiles ==
  [][target' # target => target' \in {NoFile, undo} \/ Matches(target')]_vars

\* "an interrupted file continues from its last byte" (transfer.rs:25): no
\* attempt throws a sound part away, except for a server whose copy has
\* another size, and except for the power.
IsSound(content) == \A k \in 1 .. Len(content) : content[k] = "wanted"

Continues(old, new) ==
  Len(old) <= Len(new) /\ \A k \in 1 .. Len(old) : old[k] = new[k]

SoundPartIsContinued ==
  [][ IsSound(part) /\ ~PowerLoss =>
        Continues(part, part') \/ target' = part \/ remote = "longer" ]_vars

\* Every attempt ends, whatever the server answers and however often its
\* copy changes: a reply without the blocks asked for ends the attempt.
AttemptEnds == pc # "idle" ~> pc = "idle"

\* Attempt after attempt an archive gets nearer: each one ends and none gives
\* up what is sound.
AttemptsConverge == SoundPartIsContinued /\ AttemptEnds
=============================================================================
