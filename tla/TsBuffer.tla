------------------------------ MODULE TsBuffer ------------------------------
(***************************************************************************)
(* The reader of a time-shift buffer on disk (lib/tsreader of the          *)
(* MediaPortal add-on: MultiFileReader.cpp, TSReader.cpp; the Argus add-on *)
(* has a copy).  A TV server writes a stream to a row of files, removes    *)
(* the oldest, and rewrites an index of them; the reader polls the index   *)
(* and gives the stream one position that runs through all files.          *)
(*                                                                         *)
(* The bytes of the stream are numbered from 1.  The server's program is   *)
(* outside the sources: it may write, remove and rewrite the index at any  *)
(* time; one rewriting of the index is atomic, the reader's look at it is  *)
(* not.  It rewrites the index after every file it adds or removes, and    *)
(* with the position of every write to the file the index calls the last.  *)
(***************************************************************************)
EXTENDS Integers, SequencesExt, Sums

CONSTANTS
  FileSize,   \* the size at which the server begins a new file
  KeptFiles,  \* the number of files it keeps at least
  MaxFiles,   \* bound: files it makes
  Tries,      \* the looks at a changing index in one refresh; ten in the code
  ReadSize    \* numbers of bytes asked for in one read

ASSUME TsBufferAssumption ==
  /\ FileSize \in Nat \ {0} /\ KeptFiles \in Nat \ {0} /\ MaxFiles \in Nat
  /\ Tries \in Nat \ {0} /\ ReadSize \subseteq Nat \ {0}

VARIABLES
  sizes,     \* the sizes of the files the server made
  gone,      \* how many of them it has removed
  index,     \* the index on disk: position in the last file, files added, removed
  tsFiles,   \* m_tsFiles
  counts,    \* m_filesAdded, m_filesRemoved
  bounds,    \* m_startPosition, m_endPosition
  position,  \* m_currentPosition
  zapped,    \* m_lastZapPosition
  fileId,    \* m_TSFileId
  handle,    \* m_TSFile is open
  refreshAt, \* where the reader is in RefreshTSBufferFile
  refreshFor, \* what it refreshes for
  missing,   \* bytes of the request that are still to be read
  header, names, looks, \* what it has seen of the index, and how often it looked
  next,      \* history: the byte that should come next, 0 for any
  misplaced, \* history: another byte came
  recounted, \* history: its positions do not mean the same bytes as before
  zapByte,   \* history: the last byte known of the channel before the last zap
  failed     \* history: a refresh failed since then

diskVars == <<sizes, gone, index>>
listVars == <<tsFiles, counts, bounds>>
readVars == <<position, zapped, fileId, handle>>
lookVars == <<header, names, looks>>
ghostVars == <<next, misplaced, recounted, zapByte, failed>>
tsBufferVars == <<diskVars, listVars, readVars, lookVars, refreshAt, refreshFor, missing, ghostVars>>

-----------------------------------------------------------------------------
(* The server (external)                                                   *)

Before(f) == SumTo(sizes, f - 1)
\* The server removed the files of all bytes up to here.
LastRemoved == Before(gone + 1)
UpToDate == [position |-> Last(sizes), added |-> Len(sizes), removed |-> gone]

ServerWrites ==
  /\ Last(sizes) < FileSize
  /\ sizes' = [sizes EXCEPT ![Len(sizes)] = @ + 1]
  /\ index' = IF index.added = Len(sizes) THEN [index EXCEPT !.position = @ + 1] ELSE index
  /\ UNCHANGED <<gone, listVars, readVars, lookVars, refreshAt, refreshFor, missing, ghostVars>>

ServerBeginsFile ==
  /\ Last(sizes) > 0 /\ Len(sizes) < MaxFiles /\ index.added = Len(sizes)
  /\ sizes' = Append(sizes, 0)
  /\ UNCHANGED <<gone, index, listVars, readVars, lookVars, refreshAt, refreshFor, missing, ghostVars>>

ServerRemovesFile ==
  /\ Len(sizes) - gone > KeptFiles /\ index.removed = gone
  /\ gone' = gone + 1
  /\ UNCHANGED <<sizes, index, listVars, readVars, lookVars, refreshAt, refreshFor, missing, ghostVars>>

ServerWritesIndex ==
  /\ index # UpToDate
  /\ index' = UpToDate
  /\ UNCHANGED <<sizes, gone, listVars, readVars, lookVars, refreshAt, refreshFor, missing, ghostVars>>

-----------------------------------------------------------------------------
NoHeader == [position |-> 0, added |-> 0, removed |-> 0]
NoCounts == [added |-> 0, removed |-> 0]

TsBufferInit ==
  /\ sizes = <<0>> /\ gone = 0 /\ index = [position |-> 0, added |-> 1, removed |-> 0]
  /\ tsFiles = <<>> /\ counts = NoCounts
  /\ bounds = [start |-> 0, end |-> 0]
  /\ position = 0 /\ zapped = 0 /\ fileId = 0 /\ handle = FALSE
  /\ refreshAt = "header" /\ refreshFor = "open" /\ missing = 0
  /\ header = NoHeader /\ names = NoCounts /\ looks = 0
  /\ next = 0 /\ misplaced = FALSE /\ recounted = FALSE /\ zapByte = 0 /\ failed = FALSE

(* RefreshTSBufferFile                                                     *)

Counts(x) == [added |-> x.added, removed |-> x.removed]

\* Where the buffer begins and ends: the last file ends where the header
\* says, and a channel change hides what was before it.
Settled(files, x) ==
  LET last == Last(files)
      all == [files EXCEPT ![Len(files)].length = x.position]
      from == files[1].start
  IN /\ tsFiles' = all
     /\ bounds' = [start |-> IF zapped > from THEN zapped ELSE from,
                   end |-> last.start + x.position]

\* The header says that no file came or went.
RefreshEnds ==
  /\ refreshAt = "header" /\ Counts(index) = counts
  /\ IF tsFiles = <<>> THEN tsFiles' = <<>> /\ bounds' = [start |-> 0, end |-> 0]
     ELSE Settled(tsFiles, index)
  /\ refreshAt' = "done" /\ looks' = 0
  /\ UNCHANGED <<diskVars, counts, readVars, header, names, refreshFor, missing, ghostVars>>

ReadHeader ==
  /\ refreshAt = "header" /\ Counts(index) # counts
  /\ header' = index
  /\ refreshAt' = "list"
  /\ UNCHANGED <<diskVars, listVars, readVars, names, looks, refreshFor, missing, ghostVars>>

ReadList ==
  /\ refreshAt = "list"
  /\ names' = Counts(index)
  /\ refreshAt' = "footer"
  /\ UNCHANGED <<diskVars, listVars, readVars, header, looks, refreshFor, missing, ghostVars>>

\* The footer is not looked at.
FooterIgnored ==
  /\ refreshAt = "footer"
  /\ refreshAt' = "apply" /\ looks' = 0
  /\ UNCHANGED <<diskVars, listVars, readVars, header, names, refreshFor, missing, ghostVars>>

\* The index was rewritten since the header was read: look again.  After the
\* last look the refresh fails, which nobody heeds.
ReadFooter ==
  /\ refreshAt = "footer"
  /\ IF Counts(index) = Counts(header)
     THEN refreshAt' = "apply" /\ looks' = 0 /\ UNCHANGED failed
     ELSE IF looks + 1 < Tries
     THEN refreshAt' = "header" /\ looks' = looks + 1 /\ UNCHANGED failed
     ELSE refreshAt' = "done" /\ looks' = 0 /\ failed' = TRUE
  /\ UNCHANGED <<diskVars, listVars, readVars, header, names, refreshFor, missing,
                 next, misplaced, recounted, zapByte>>

\* GetFileLength, 0 for a file that is not there any more.
FileLength(f) == IF f <= gone THEN 0 ELSE sizes[f]

\* The file that was the last has grown until the next began.
Grown(files) == [files EXCEPT ![Len(files)].length = FileLength(files[Len(files)].id)]

EndOf(files) == IF files = <<>> THEN 0 ELSE Last(files).start + Last(files).length

\* The list with the removed files taken off and the new ones added.
Merged(kept, from, to) ==
  LET old == IF kept = <<>> THEN <<>> ELSE Grown(kept)
      merged[k \in 0..(to - from)] ==
        IF k = 0 THEN old
        ELSE Append(merged[k - 1], [id |-> from + k, start |-> EndOf(merged[k - 1]),
                                    length |-> FileLength(from + k)])
  IN IF from < to THEN merged[to - from] ELSE old

ApplyIndex ==
  LET drop == header.removed - counts.removed
      kept == IF drop >= Len(tsFiles) THEN <<>> ELSE SubSeq(tsFiles, drop + 1, Len(tsFiles))
      files == Merged(kept, names.removed + Len(kept), names.added)
  IN /\ refreshAt = "apply"
     /\ IF files = <<>> THEN tsFiles' = <<>> /\ bounds' = [start |-> 0, end |-> 0]
        ELSE Settled(files, header)
     /\ counts' = Counts(header)
     /\ refreshAt' = "done"
     /\ recounted' = (recounted \/ (tsFiles # <<>> /\ (kept = <<>> \/ Last(kept).id <= gone)))
     /\ header' = NoHeader /\ names' = NoCounts
     /\ UNCHANGED <<diskVars, readVars, looks, refreshFor, missing, next, misplaced, zapByte, failed>>

-----------------------------------------------------------------------------
(* Read, SetFilePointer, OnZap: each refreshes first.                      *)

Begin(what, n) ==
  /\ refreshFor = "none"
  /\ refreshFor' = what /\ missing' = n /\ refreshAt' = "header"
  /\ UNCHANGED <<diskVars, listVars, readVars, lookVars, ghostVars>>

BeginRead(n) == Begin("read", n)
BeginGetFileSize == Begin("size", 0)
BeginSeek == Begin("seek", 0)
BeginZap == Begin("zap", 0)

CallEnds == refreshFor' = "none" /\ refreshAt' = "no" /\ missing' = 0

Clamped(p) ==
  LET low == IF p < bounds.start THEN bounds.start ELSE p
  IN IF low > bounds.end THEN bounds.end ELSE low

\* OpenFile ends; the seek to the start that follows it refreshes again.
FileOpened ==
  /\ refreshFor = "open" /\ refreshAt = "done"
  /\ position' = 0
  /\ refreshFor' = "rewind" /\ refreshAt' = "header"
  /\ UNCHANGED <<diskVars, listVars, zapped, fileId, handle, lookVars, missing, ghostVars>>

Rewound ==
  /\ refreshFor = "rewind" /\ refreshAt = "done"
  /\ position' = Clamped(bounds.start)
  /\ CallEnds
  /\ UNCHANGED <<diskVars, listVars, zapped, fileId, handle, lookVars, ghostVars>>

\* The refresh is all that others see of GetFileSize.
SizeTaken ==
  /\ refreshFor = "size" /\ refreshAt = "done"
  /\ CallEnds
  /\ UNCHANGED <<diskVars, listVars, readVars, lookVars, ghostVars>>

MovedUp == IF position < bounds.start THEN bounds.start ELSE position

FilesWith(p) == {i \in DOMAIN tsFiles : p < tsFiles[i].start + tsFiles[i].length}

\* Past the end of the last file, or no file at all.
ReadNothing ==
  /\ refreshFor = "read" /\ refreshAt = "done" /\ FilesWith(MovedUp) = {}
  /\ position' = MovedUp
  /\ CallEnds
  /\ UNCHANGED <<diskVars, listVars, zapped, fileId, handle, lookVars, ghostVars>>

\* A reader may have gone past a byte that it has read, whose file was
\* removed, or that is from before the last zap.
Passed(byte) == byte < next \/ byte <= LastRemoved \/ byte <= zapByte

\* As much as the file has, from the place of the position in it; if that is
\* less than was asked for, the rest is read after another refresh.  A file
\* that cannot be opened, or holds less, is read over without a word.
ReadFile ==
  /\ refreshFor = "read" /\ refreshAt = "done" /\ FilesWith(MovedUp) # {}
  /\ LET file == tsFiles[CHOOSE i \in FilesWith(MovedUp) : \A j \in FilesWith(MovedUp) : i <= j]
         offset == MovedUp - file.start
         rest == file.length - offset
         n == IF missing > rest THEN rest ELSE missing
         open == IF fileId = file.id THEN handle ELSE file.id > gone
         first == Before(file.id) + offset + 1
     IN /\ fileId' = file.id /\ handle' = open
        /\ position' = MovedUp + n
        /\ misplaced' = (misplaced \/ (/\ open /\ next # 0 /\ ~recounted
                                       /\ first < next \/ ~Passed(first - 1)))
        /\ next' = IF open THEN first + n ELSE next
        /\ IF missing > rest
           THEN refreshAt' = "header" /\ missing' = missing - n /\ UNCHANGED refreshFor
           ELSE CallEnds
  /\ UNCHANGED <<diskVars, listVars, zapped, lookVars, recounted, zapByte, failed>>

\* From the start, the end or the position, into the refreshed bounds.
SetFilePointer(p) ==
  /\ refreshFor = "seek" /\ refreshAt = "done"
  /\ position' = Clamped(p)
  /\ next' = 0
  /\ CallEnds
  /\ UNCHANGED <<diskVars, listVars, zapped, fileId, handle, lookVars,
                 misplaced, recounted, zapByte, failed>>

LastKnownByte == IF tsFiles = <<>> THEN 0 ELSE Before(Last(tsFiles).id) + Last(tsFiles).length

\* OnZap, on Windows and with no position from the server: to the end of the
\* refreshed buffer, and nothing before it is shown again.  Elsewhere OnZap
\* is a SetFilePointer to the end and no more.
OnChannelChange ==
  /\ refreshFor = "zap" /\ refreshAt = "done"
  /\ position' = Clamped(bounds.end) /\ zapped' = Clamped(bounds.end)
  /\ next' = 0 /\ zapByte' = LastKnownByte /\ failed' = FALSE
  /\ CallEnds
  /\ UNCHANGED <<diskVars, listVars, fileId, handle, lookVars, misplaced, recounted>>

-----------------------------------------------------------------------------
TsBufferNext ==
  \/ ServerWrites \/ ServerBeginsFile \/ ServerRemovesFile \/ ServerWritesIndex
  \/ \E n \in ReadSize : BeginRead(n)
  \/ BeginGetFileSize \/ BeginSeek \/ BeginZap
  \/ FileOpened \/ Rewound \/ SizeTaken
  \/ RefreshEnds \/ ReadHeader \/ ReadList \/ ReadFooter \/ ApplyIndex
  \/ ReadNothing \/ ReadFile \/ OnChannelChange
  \/ \E p \in 0..(FileSize * MaxFiles) : SetFilePointer(p)

TsBufferSpec == TsBufferInit /\ [][TsBufferNext]_tsBufferVars

-----------------------------------------------------------------------------
(* Properties                                                              *)

(* What a read returns continues what the last one returned, byte for      *)
(* byte, through new files, grown files and an index rewritten while it is *)
(* read; what it skips is of files the server removed before they were     *)
(* read, or from before the last zap (as when a refresh failed and let it  *)
(* read there).  Only a reader that knew no file of the new list, or whose *)
(* last file went before its length was asked, counts its positions anew.  *)
NothingSkipped == ~misplaced

(* In the list, each file begins where the one before it ends, and that is *)
(* where the next file on disk begins, unless the file was removed before  *)
(* its length could be asked.                                              *)
FilesInPlace ==
  \A i \in 1..(Len(tsFiles) - 1) :
     LET file == tsFiles[i] IN
     /\ tsFiles[i + 1].id = file.id + 1
     /\ tsFiles[i + 1].start = file.start + file.length
     /\ file.length = sizes[file.id] \/ file.id <= gone

(* Nothing the reader knew of the channel before is read after a zap, also *)
(* by a seek to the start, unless positions were counted anew since: a     *)
(* reader that was paused for longer than the buffer loses all its files   *)
(* at once, and the new ones begin at zero again while its own position    *)
(* stays.  Nor does it hold when a refresh failed, after which the reader  *)
(* goes on with the start from before the zap.  What the server wrote      *)
(* after the zap's own look at the index it does read, and if that look    *)
(* failed, what it wrote since the one before.                             *)
ZapHolds == next # 0 /\ ~recounted /\ ~failed => next > zapByte

(* The time-shift buffer is read as one stream, in the order it was        *)
(* written, and from the new channel on after a zap.                       *)
BufferInOrder ==
  /\ NothingSkipped
  /\ FilesInPlace
  /\ ZapHolds
=============================================================================
