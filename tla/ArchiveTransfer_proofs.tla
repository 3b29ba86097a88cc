----------------------- MODULE ArchiveTransfer_proofs -----------------------
(***************************************************************************)
(* Proofs about ArchiveTransfer, for an archive of any size fetched in     *)
(* ranges of any length: its type invariant, that the hasher has seen what *)
(* the part file holds, and that nothing but the archive appears under the *)
(* archive's name.                                                         *)
(***************************************************************************)
EXTENDS ArchiveTransfer, TLAPS

-----------------------------------------------------------------------------
(* The contents of files.                                                   *)

\* Contents(n) holds the sequences of at most n blocks.
LEMMA ContentsAreSequences ==
  ASSUME NEW n \in Nat, NEW s
  PROVE  s \in Contents(n) <=> s \in Seq(Blocks) /\ Len(s) <= n
<1>1. ASSUME s \in Contents(n) PROVE s \in Seq(Blocks) /\ Len(s) <= n
  <2>1. PICK k \in 0 .. n : s \in [1 .. k -> Blocks]
    BY <1>1 DEF Contents
  <2>2. s \in Seq(Blocks) /\ Len(s) = k
    BY <2>1
  <2> QED BY <2>2
<1>2. ASSUME s \in Seq(Blocks), Len(s) <= n PROVE s \in Contents(n)
  <2>1. Len(s) \in 0 .. n /\ s \in [1 .. Len(s) -> Blocks]
    BY <1>2
  <2> QED BY <2>1 DEF Contents
<1> QED BY <1>1, <1>2

LEMMA EmptyIsContents == \A n \in Nat : <<>> \in Contents(n)
<1>1. <<>> \in Seq(Blocks) /\ Len(<<>>) = 0
  OBVIOUS
<1>2. ASSUME NEW n \in Nat PROVE <<>> \in Contents(n)
  <2>1. \A e : e \in Seq(Blocks) /\ Len(e) <= n => e \in Contents(n)
    BY ContentsAreSequences
  <2>2. Len(<<>>) <= n
    BY <1>1
  <2> QED BY <1>1, <2>1, <2>2
<1> QED BY <1>2

\* What a power failure leaves of a file is a file no longer than it was.
LEMMA RemainsAreContents ==
  ASSUME NEW n \in Nat, NEW content \in Contents(n), NEW onDisk,
         NEW left \in Remains(content, onDisk)
  PROVE  left \in Contents(n)
<1>1. content \in Seq(Blocks) /\ Len(content) <= n /\ Len(content) \in Nat
  BY ContentsAreSequences
<1>2. left = content \/ left \in Contents(Len(content))
  BY DEF Remains
<1>3. CASE left = content
  BY <1>3
<1>4. CASE left \in Contents(Len(content))
  <2>1. left \in Seq(Blocks) /\ Len(left) <= Len(content)
    BY <1>1, <1>4, ContentsAreSequences
  <2> QED BY <1>1, <2>1, ContentsAreSequences
<1> QED BY <1>2, <1>3, <1>4

\* A block more makes a file one block longer.
LEMMA AppendIsContents ==
  ASSUME NEW n \in Nat, NEW s \in Contents(n), NEW b \in Blocks, Len(s) < n
  PROVE  /\ Append(s, b) \in Contents(n)
         /\ Len(Append(s, b)) = Len(s) + 1
<1>1. s \in Seq(Blocks) /\ Len(s) \in Nat
  BY ContentsAreSequences
<1>2. Append(s, b) \in Seq(Blocks) /\ Len(Append(s, b)) = Len(s) + 1
  BY <1>1
<1>3. Len(Append(s, b)) <= n
  BY <1>1, <1>2
<1>4. \A e : e \in Seq(Blocks) /\ Len(e) <= n => e \in Contents(n)
  BY ContentsAreSequences
<1>5. Append(s, b) \in Contents(n)
  BY <1>2, <1>3, <1>4
<1> QED BY <1>2, <1>5

-----------------------------------------------------------------------------
(* The inductive invariants.                                                *)

\* What is about to be renamed is on the disk and matched its SHA-256; and
\* so has, by then, whatever a rename left under the archive's name.
SyncedInv ==
  /\ pc \in {"verify", "rename"} => synced = TRUE
  /\ pc = "rename" => Matches(hashed)
  /\ settled = TRUE

\* Nothing is fed before the part file is looked at.
NothingFed == pc \in {"idle", "target", "part"} => hashed = <<>>

HashInv == HashFollowsDisk /\ NothingFed /\ SyncedInv

LEMMA HashInvHolds == Spec => []HashInv
<1>1. Init => HashInv
  BY DEF Init, HashInv, HashFollowsDisk, NothingFed, SyncedInv
<1>2. HashInv /\ [Next]_vars => HashInv'
  <2> SUFFICES ASSUME HashInv, [Next]_vars PROVE HashInv'
    OBVIOUS
  <2> USE DEF HashInv, HashFollowsDisk, NothingFed, SyncedInv, Goto, Return,
              UnchangedFiles, files, DeletePart
  <2>1. CASE Start
    BY <2>1 DEF Start
  <2>2. CASE CheckTarget
    BY <2>2 DEF CheckTarget
  <2>3. CASE CheckPart
    BY <2>3 DEF CheckPart, Opened, Rehashed
  <2>4. CASE Request
    BY <2>4 DEF Request
  <2>5. CASE Read
    BY <2>5 DEF Read, GiveUp
  <2>6. CASE EndOfRange
    BY <2>6 DEF EndOfRange
  <2>7. CASE Received
    BY <2>7 DEF Received
  <2>8. CASE Sync
    BY <2>8 DEF Sync, NowSynced
  <2>9. CASE Verify
    BY <2>9 DEF Verify
  <2>10. CASE Rename
    BY <2>10 DEF Rename
  <2>11. CASE ServerChanges
    BY <2>11 DEF ServerChanges
  <2>12. CASE Flush
    BY <2>12 DEF Flush
  <2>13. CASE Crash
    BY <2>13 DEF Crash
  <2>14. CASE PowerLoss
    BY <2>14 DEF PowerLoss
  <2>15. CASE UNCHANGED vars
    BY <2>15 DEF vars
  <2> QED
    BY <2>1, <2>2, <2>3, <2>4, <2>5, <2>6, <2>7, <2>8, <2>9, <2>10, <2>11,
       <2>12, <2>13, <2>14, <2>15 DEF Next, Step
<1> QED
  BY <1>1, <1>2, PTL DEF Spec

\* What the hasher has been fed is what the part file holds, whatever earlier
\* attempts, kills and power failures left in it.
THEOREM HashFollows == Spec => []HashFollowsDisk
<1>1. HashInv => HashFollowsDisk
  BY DEF HashInv
<1> QED
  BY <1>1, HashInvHolds, PTL

\* Nothing but the archive appears under the archive's name, except what a
\* power failure puts back there.
THEOREM OnlyVerified == Spec => OnlyVerifiedFiles
<1>1. HashInv /\ [Next]_vars =>
        [target' # target => target' \in {NoFile, undo} \/ Matches(target')]_vars
  <2> SUFFICES ASSUME HashInv, Next, target' # target,
                      target' \notin {NoFile, undo}
               PROVE  Matches(target')
    OBVIOUS
  <2> USE DEF UnchangedFiles, files
  <2>1. CASE Step
    <3>1. CASE CheckTarget
      BY <3>1 DEF CheckTarget
    <3>2. CASE Rename
      <4>1. pc = "rename" /\ target' = part
        BY <3>2 DEF Rename
      <4>2. hashed = part /\ Matches(hashed)
        BY <4>1 DEF HashInv, HashFollowsDisk, SyncedInv
      <4> QED BY <4>1, <4>2 DEF Matches
    <3>3. CASE \/ CheckPart \/ Request \/ Read \/ EndOfRange \/ Received
               \/ Sync \/ Verify
      <4>1. target' = target
        BY <3>3 DEF CheckPart, Request, Read, EndOfRange, Received, Sync, Verify
      <4> QED BY <4>1
    <3> QED BY <2>1, <3>1, <3>2, <3>3 DEF Step
  <2>2. CASE PowerLoss
    <3>1. settled
      BY DEF HashInv, SyncedInv
    <3>2. \A content : Remains(content, settled) = {content}
      BY <3>1 DEF Remains
    <3>3. target' = target \/ target' \in {NoFile, undo}
      BY <2>2, <3>2 DEF PowerLoss
    <3> QED BY <3>3
  <2>3. CASE Start \/ ServerChanges \/ Flush \/ Crash
    <3>1. target' = target
      BY <2>3 DEF Start, ServerChanges, Flush, Crash
    <3> QED BY <3>1
  <2> QED BY <2>1, <2>2, <2>3 DEF Next
<1> QED
  BY <1>1, HashInvHolds, PTL DEF Spec, OnlyVerifiedFiles

-----------------------------------------------------------------------------
(* Type correctness.                                                        *)

\* A reply ends within the archive: its blocks still to come are no more
\* than the archive lacks.
BodyFits ==
  /\ pc = "body" => body.copy \in Copies /\ Len(hashed) + body.left <= Size

TypeInv == TypeOK /\ BodyFits

\* The type invariant needs that the hasher follows the disk: a request is
\* measured by what was hashed, and its reply appended to what is on the disk.
THEOREM TypeCorrect == Spec => []TypeOK
<1> USE ConstantsAssumption
<1>1. Init => TypeInv
  <2> SUFFICES ASSUME Init PROVE TypeInv
    OBVIOUS
  <2>1. \A n \in Nat : <<>> \in Contents(n)
    BY EmptyIsContents
  <2>2. /\ Foreign(Size) \in Contents(Size + 1)
        /\ Foreign(Size + 1) \in Contents(Size + 1)
    <3>1. \A n \in Nat : Foreign(n) \in Seq(Blocks) /\ Len(Foreign(n)) = n
      BY DEF Foreign, Blocks, Copies
    <3>2. Size \in Nat /\ Size + 1 \in Nat /\ Size <= Size + 1
      OBVIOUS
    <3> QED BY <3>1, <3>2, ContentsAreSequences
  <2>3. NoBody \in [copy : Copies \cup {"none"}, left : 0 .. Size]
    BY DEF NoBody
  <2> QED
    BY <2>1, <2>2, <2>3 DEF Init, TypeInv, TypeOK, BodyFits, PCs, Copies
<1>2. TypeInv /\ HashFollowsDisk /\ [Next]_vars => TypeInv'
  <2> SUFFICES ASSUME TypeInv, HashFollowsDisk, [Next]_vars PROVE TypeInv'
    OBVIOUS
  <2> USE DEF TypeInv, TypeOK, BodyFits, Goto, UnchangedFiles, files, PCs
  <2>1. /\ Size \in Nat /\ Size + 1 \in Nat /\ RangeBlocks \in Nat
        /\ \A n \in Nat : <<>> \in Contents(n)
    BY EmptyIsContents
  <2>2. Return => /\ pc' = "idle" /\ hashed' \in Contents(Size)
                  /\ modified' \in Copies \cup {"none"}
                  /\ body' \in [copy : Copies \cup {"none"}, left : 0 .. Size]
    BY <2>1 DEF Return, NoBody
  <2>3. DeletePart => part' \in Contents(Size + 1) /\ synced' \in BOOLEAN
    BY <2>1 DEF DeletePart
  <2>4. CASE Start
    BY <2>4 DEF Start
  <2>5. CASE CheckTarget
    <3>1. CASE Return
      BY <2>5, <3>1, <2>2 DEF CheckTarget
    <3>2. CASE Goto("part") /\ UNCHANGED <<hashed, modified, body>>
      BY <2>5, <3>2 DEF CheckTarget
    <3> QED BY <2>5, <3>1, <3>2 DEF CheckTarget
  <2>6. CASE CheckPart
    <3>1. Len(part) <= Size => part \in Contents(Size)
      BY <2>1, ContentsAreSequences
    <3> QED
      BY <2>6, <2>2, <2>3, <3>1 DEF CheckPart, Opened, Rehashed
  <2>7. CASE Request
    <3>1. CASE Goto("body")
      <4>1. Len(hashed) \in Nat /\ Len(hashed) < Size
        BY <2>7, <2>1, ContentsAreSequences DEF Request, Held
      <4>2. NextRange \in 0 .. Size /\ Len(hashed) + NextRange <= Size
        BY <2>1, <4>1 DEF NextRange, Held
      <4>3. /\ body' = [copy |-> remote, left |-> NextRange]
            /\ hashed' = hashed /\ UNCHANGED <<files, remote>>
            /\ modified' \in {modified, remote}
        BY <2>7, <3>1 DEF Request, Return
      <4> QED
        BY <3>1, <4>1, <4>2, <4>3
    <3>2. CASE ~Goto("body")
      BY <2>7, <3>2, <2>2, <2>3 DEF Request
    <3> QED BY <3>1, <3>2
  <2>8. CASE Read
    <3>1. /\ hashed = part /\ Len(hashed) \in Nat
          /\ body.copy \in Blocks /\ body.left \in 0 .. Size
          /\ body.left > 0 /\ Len(hashed) + body.left <= Size
      BY <2>8, <2>1, ContentsAreSequences DEF Read, HashFollowsDisk, Blocks
    <3>2. Len(hashed) < Size /\ Len(part) < Size + 1
      BY <3>1, <2>1
    <3>3. /\ Append(hashed, body.copy) \in Contents(Size)
          /\ Len(Append(hashed, body.copy)) = Len(hashed) + 1
          /\ Append(part, body.copy) \in Contents(Size + 1)
      BY <2>1, <3>1, <3>2, AppendIsContents
    <3>4. CASE body' = [body EXCEPT !.left = @ - 1] /\ pc' = pc
      <4>1. /\ part' = Append(part, body.copy) /\ synced' \in BOOLEAN
            /\ hashed' = Append(hashed, body.copy)
            /\ UNCHANGED <<target, settled, undo, pc, modified, remote>>
        BY <2>8, <3>4 DEF Read, GiveUp, Return
      <4>2. /\ body' \in [copy : Copies \cup {"none"}, left : 0 .. Size]
            /\ body'.copy = body.copy /\ body'.left = body.left - 1
        BY <3>1, <3>4
      <4> QED BY <3>1, <3>3, <4>1, <4>2
    <3>5. CASE Return
      BY <2>8, <3>3, <3>5, <2>2 DEF Read, GiveUp
    <3> QED BY <2>8, <3>4, <3>5 DEF Read, GiveUp
  <2>9. CASE EndOfRange
    BY <2>9 DEF EndOfRange, NoBody
  <2>10. CASE Received
    BY <2>10 DEF Received
  <2>11. CASE Sync
    BY <2>11, <2>2 DEF Sync, NowSynced
  <2>12. CASE Verify
    BY <2>12, <2>2, <2>3 DEF Verify
  <2>13. CASE Rename
    BY <2>13, <2>2, <2>3 DEF Rename
  <2>14. CASE ServerChanges
    BY <2>14 DEF ServerChanges
  <2>15. CASE Flush
    BY <2>15 DEF Flush
  <2>16. CASE Crash
    BY <2>16, <2>2 DEF Crash
  <2>17. CASE PowerLoss
    <3>1. \A left \in Remains(part, synced) : left \in Contents(Size + 1)
      BY <2>1, RemainsAreContents
    <3>2. target # NoFile =>
            \A left \in Remains(target, settled) : left \in Contents(Size + 1)
      BY <2>1, RemainsAreContents
    <3> QED
      BY <2>17, <2>2, <3>1, <3>2 DEF PowerLoss
  <2>18. CASE UNCHANGED vars
    BY <2>18 DEF vars
  <2> QED
    BY <2>4, <2>5, <2>6, <2>7, <2>8, <2>9, <2>10, <2>11, <2>12, <2>13, <2>14,
       <2>15, <2>16, <2>17, <2>18 DEF Next, Step
<1>3. TypeInv => TypeOK
  BY DEF TypeInv
<1> QED
  BY <1>1, <1>2, <1>3, HashFollows, PTL DEF Spec

=============================================================================
