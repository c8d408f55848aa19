---------------------------- MODULE VNSIRecording ----------------------------
(***************************************************************************)
(* Playing a recording over VNSI: cVNSIRecording of the client             *)
(* (addons/pvr.vdr.vnsi/src/VNSIRecording.cpp) and cRecPlayer of the       *)
(* server plugin (recplayer.c), with the two requests between them.  The   *)
(* recording may still be made while it is played: VDR writes it to a row  *)
(* of files, of which the last one grows.                                  *)
(*                                                                         *)
(* A byte is the file it is in and its place there.                        *)
(***************************************************************************)
EXTENDS Integers, SequencesExt, Sums

CONSTANTS
  RecFileSize,  \* the size at which VDR begins a new file
  MaxRecFiles,  \* bound: files
  BlockSizes,   \* the sizes of the blocks that are asked for
  ZeroAnswer,   \* the length of the zero that answers for an empty block; four in the code
  MaxReopens    \* bound: lost connections

ASSUME RecordingAssumption ==
  /\ RecFileSize \in Nat \ {0} /\ MaxRecFiles \in Nat \ {0}
  /\ BlockSizes \subseteq Nat \ {0} /\ ZeroAnswer \in Nat \ {0} /\ MaxReopens \in Nat

VARIABLES
  recFiles,   \* the sizes of the files
  deleted,    \* the recording was deleted
  segments,   \* m_segments: the sizes that scan() found
  fileOpen,   \* m_fileOpen: the file the player has open, or 0
  playerAt,   \* none, scan, ready: the server's cRecPlayer
  recPos,     \* m_currentPlayingRecordPosition
  recLength,  \* m_currentPlayingRecordBytes
  playClientAt, \* closed, opening, open, lost
  reopens,
  torn,       \* history: a file grew after scan() had looked at it, and was not the last
  misread,    \* history: a byte came that is not the one at the position
  zeros       \* history: an empty block came

recordingVars == <<recFiles, deleted, segments, fileOpen, playerAt, recPos, recLength, playClientAt,
                   reopens, torn, misread, zeros>>

RecordingInit ==
  /\ recFiles = <<1>> /\ deleted = FALSE
  /\ segments = <<>> /\ fileOpen = 0 /\ playerAt = "none"
  /\ recPos = 0 /\ recLength = 0 /\ playClientAt = "closed" /\ reopens = 0
  /\ torn = FALSE /\ misread = FALSE /\ zeros = FALSE

-----------------------------------------------------------------------------
(* VDR (external)                                                          *)

Records ==
  /\ ~deleted
  /\ \/ Last(recFiles) < RecFileSize /\ recFiles' = [recFiles EXCEPT ![Len(recFiles)] = @ + 1]
     \/ Len(recFiles) < MaxRecFiles /\ recFiles' = Append(recFiles, 1)
  /\ UNCHANGED <<fileOpen, deleted, segments, playerAt, recPos, recLength, playClientAt, reopens,
                 torn, misread, zeros>>

DeletedByUser ==
  /\ ~deleted /\ deleted' = TRUE
  /\ UNCHANGED <<fileOpen, recFiles, segments, playerAt, recPos, recLength, playClientAt, reopens,
                 torn, misread, zeros>>

-----------------------------------------------------------------------------
(* Opening                                                                 *)

\* On a new connection, so the server has no player yet.
OpenRecording ==
  /\ playClientAt \in {"closed", "lost"}
  /\ playClientAt' = "opening" /\ playerAt' = "scan" /\ segments' = <<>> /\ fileOpen' = 0
  /\ UNCHANGED <<recFiles, deleted, recPos, recLength, reopens, torn, misread, zeros>>

\* scan(): one file after another, until one is not there.
Scan ==
  /\ playerAt = "scan"
  /\ LET i == Len(segments) + 1
     IN IF i <= Len(recFiles) /\ ~deleted
        THEN /\ segments' = Append(segments, recFiles[i])
             /\ torn' = (torn \/ (i > 1 /\ segments[i - 1] # recFiles[i - 1]))
             /\ UNCHANGED playerAt
        ELSE playerAt' = "ready" /\ UNCHANGED <<segments, torn>>
  /\ UNCHANGED <<fileOpen, recFiles, deleted, recPos, recLength, playClientAt, reopens, misread, zeros>>

\* The answer to VNSI_RECSTREAM_OPEN: a reopened recording starts over.
RecordingOpened ==
  /\ playClientAt = "opening" /\ playerAt = "ready"
  /\ recLength' = Total(segments) /\ recPos' = 0
  /\ playClientAt' = "open"
  /\ UNCHANGED <<fileOpen, recFiles, deleted, segments, playerAt, reopens, torn, misread, zeros>>

PlayConnectionLost ==
  /\ playClientAt = "open" /\ reopens < MaxReopens
  /\ playClientAt' = "lost" /\ playerAt' = "none" /\ segments' = <<>> /\ reopens' = reopens + 1
  /\ fileOpen' = 0
  /\ UNCHANGED <<recFiles, deleted, recPos, recLength, torn, misread, zeros>>

CloseRecording ==
  /\ playClientAt = "open"
  /\ playClientAt' = "closed" /\ playerAt' = "none" /\ segments' = <<>> /\ fileOpen' = 0
  /\ UNCHANGED <<recFiles, deleted, recPos, recLength, reopens, torn, misread, zeros>>

-----------------------------------------------------------------------------
(* Reading: the byte at a place of the recording, as it is on disk         *)

StartOf(i) == SumTo(segments, i - 1)

ByteAt(p) ==
  LET i == CHOOSE n \in DOMAIN recFiles :
             SumTo(recFiles, n - 1) < p /\ p <= SumTo(recFiles, n)
  IN <<i, p - SumTo(recFiles, i - 1)>>

SegmentsWith(p) == {i \in DOMAIN segments : StartOf(i) <= p /\ p < StartOf(i) + segments[i]}

\* What a file gives from a place on: no more than it has by now.  A deleted
\* one can be read on if it is open.
FileGives(i, from, amount) ==
  IF deleted /\ i # fileOpen THEN <<>>
  ELSE [k \in 1..(IF from + amount > recFiles[i] THEN recFiles[i] - from ELSE amount) |-> <<i, from + k>>]

\* The rest is looked for one byte too far.
TooFar(position, got) == position + got + 1

From(position, got) == position + got

\* One round of getBlock: what one file gives of the block.
GetPart(position, asked) ==
  LET total == Total(segments)
      amount == IF position + asked > total THEN total - position ELSE asked
  IN IF position >= total \/ SegmentsWith(position) = {} THEN <<>>
     ELSE LET i == CHOOSE n \in SegmentsWith(position) : \A m \in SegmentsWith(position) : n <= m
          IN FileGives(i, position - StartOf(i), amount)

\* getBlock, which calls itself for the rest, until that gives nothing: each
\* round gives a byte at least, so there are no more rounds than bytes.
GetBlock(position, asked) ==
  LET block[k \in 0..asked] ==
        IF k = 0 THEN <<>>
        ELSE block[k - 1] \o GetPart(From(position, Len(block[k - 1])), asked - Len(block[k - 1]))
  IN  block[asked]

\* The file that was open last, after got bytes of the asked have come.
OpenAfter(asked, got) ==
  LET missed == got < asked /\ recPos + got < Total(segments)
      i == CHOOSE n \in SegmentsWith(recPos + got - (IF missed THEN 0 ELSE 1)) : TRUE
  IN IF deleted /\ i # fileOpen THEN 0 ELSE i

\* Read: an empty block is answered with a zero, which counts as data unless
\* it is longer than the block that was asked for.
ReadBlock(n) ==
  /\ playClientAt = "open" /\ recPos < recLength
  /\ LET bytes == GetBlock(recPos, n)
     IN /\ fileOpen' = OpenAfter(n, Len(bytes))
        /\ IF bytes = <<>>
           THEN /\ recPos' = IF ZeroAnswer <= n THEN recPos + ZeroAnswer ELSE recPos
                /\ zeros' = (zeros \/ ZeroAnswer <= n)
                /\ UNCHANGED misread
           ELSE /\ recPos' = recPos + Len(bytes)
                /\ misread' = (misread \/ \E k \in DOMAIN bytes : bytes[k] # ByteAt(recPos + k))
                /\ UNCHANGED zeros
  /\ UNCHANGED <<recFiles, deleted, segments, playerAt, recLength, playClientAt, reopens, torn>>

\* Anywhere before the end.
SeekRecording(p) ==
  /\ playClientAt \in {"open", "lost"} /\ p < recLength /\ p # recPos
  /\ recPos' = p
  /\ UNCHANGED <<fileOpen, recFiles, deleted, segments, playerAt, recLength, playClientAt, reopens,
                 torn, misread, zeros>>

-----------------------------------------------------------------------------
RecordingNext ==
  \/ Records \/ DeletedByUser
  \/ OpenRecording \/ Scan \/ RecordingOpened \/ PlayConnectionLost \/ CloseRecording
  \/ \E n \in BlockSizes : ReadBlock(n)
  \/ \E p \in 0..(RecFileSize * MaxRecFiles) : SeekRecording(p)

RecordingSpec == RecordingInit /\ [][RecordingNext]_recordingVars

-----------------------------------------------------------------------------
(* Properties                                                              *)

(* The bytes that are read are those at the position, across the ends of   *)
(* files and after every seek and reconnection, also while the recording   *)
(* goes on; only when a file had not ended when scan() looked at it, and   *)
(* the next one was there when it came to that, are all later positions    *)
(* wrong.                                                                  *)
ReadAgrees == misread => torn

(* Before the end of what was opened a block is never empty, so no zero is *)
(* taken for data, unless the recording was deleted meanwhile.             *)
ZerosOnlyWhenDeleted == zeros => deleted

(* A recording is read as it is on the disk.                               *)
RecordingRead ==
  /\ ReadAgrees
  /\ ZerosOnlyWhenDeleted
=============================================================================
