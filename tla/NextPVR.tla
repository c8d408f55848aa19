------------------------------ MODULE NextPVR ------------------------------
(***************************************************************************)
(* The streams of cPVRClientNextPVR (pvrclient-nextpvr.cpp 1035-1565).     *)
(* One socket, m_streamingclient, and one ring buffer serve live channels  *)
(* and recordings alike; XBMC's player calls open, read, seek and close    *)
(* one after the other, and the threads that ask for channels, guide and   *)
(* timers go through DoRequest, which shares m_mutex with the reads and    *)
(* the seeks of recordings but not with those of live channels.            *)
(*                                                                         *)
(* A byte is the stream it belongs to, streams being numbered as they are  *)
(* requested, and its offset in it.                                        *)
(***************************************************************************)
EXTENDS RingBuffer

CONSTANTS
  Size,        \* of m_incomingStreamBuffer: 188 * 2000
  Chunk,       \* most bytes one receive() of a read takes: 188 * 100
  Wanted,      \* iBufferSize, what XBMC asks a read for
  Span,        \* how many offsets %d tells apart: 2^32
  Target,      \* bound: the offsets XBMC seeks to
  MaxBytes,    \* bound: the last byte of a stream
  MaxStreams   \* bound: streams requested

ASSUME StreamAssumption ==
  /\ {Size, Chunk, Wanted, Span, MaxBytes, MaxStreams} \subseteq Nat \ {0}
  /\ Target \subseteq Int
  /\ Chunk + Wanted <= Size
  /\ Byte = [stream : 0..MaxStreams, off : -1..MaxBytes]

VARIABLES
  incoming,    \* m_incomingStreamBuffer
  socket,      \* m_streamingclient: the stream requested last, the offset of
               \* the next byte it brings, and whether it can bring more
  opened,      \* what XBMC has open
  reading,     \* a read of XBMC is under way
  handed,      \* the bytes the last read returned
  recording,   \* m_currentRecordingLength and m_currentRecordingPosition
  ahead,       \* history: how far the position is ahead of the bytes
  astray,      \* history: the last request for a recording was for an offset that
               \* %d cannot write or that the recording does not have, or its first
               \* byte found the buffer full
  npMutex,     \* who holds m_mutex
  request      \* DoRequest of some other thread

nextPVRVars ==
  <<incoming, socket, opened, reading, handed, recording, ahead, astray, npMutex,
    request>>

streamVars == <<incoming, socket, recording, ahead, astray>>

NextPVRTypeOK ==
  /\ incoming \in RingBuffers(Size)
  /\ socket \in [stream : 0..MaxStreams, next : -1..(MaxBytes + 1), more : BOOLEAN]
  /\ opened \in {"nothing", "channel", "recording"}
  /\ reading \in BOOLEAN
  /\ Len(handed) \in {0, Wanted}
  /\ recording \in [length : {0, MaxBytes + 1}, position : Int]
  /\ ahead \in Int /\ astray \in BOOLEAN
  /\ npMutex \in {"free", "player", "request"}
  /\ request \in {"none", "waits", "talks"}

NextPVRInit ==
  /\ incoming = Create(Size)
  /\ socket = [stream |-> 0, next |-> 0, more |-> FALSE]
  /\ opened = "nothing"
  /\ reading = FALSE
  /\ handed = <<>>
  /\ recording = [length |-> 0, position |-> 0]
  /\ ahead = 0 /\ astray = FALSE
  /\ npMutex = "free"
  /\ request = "none"

\* The n bytes that come next from the socket.
Arriving(n) ==
  [i \in 1..n |-> [stream |-> socket.stream, off |-> socket.next + i - 1]]

-----------------------------------------------------------------------------
(* Opening: the server answers with a header and the first bytes behind it *)

\* create() closes the socket of the stream before; no connection is made.
Unreachable ==
  /\ socket' = [socket EXCEPT !.more = FALSE]
  /\ UNCHANGED incoming

\* The first packet does not hold the whole header.  Nothing of it is kept
\* and the rest of the header will arrive as if it were the stream.
HeaderSplit(from) ==
  /\ socket.stream < MaxStreams
  /\ socket' = [stream |-> socket.stream + 1, next |-> from - 1, more |-> TRUE]
  /\ UNCHANGED incoming

\* The header and one byte of the stream at most.
HeaderWhole(from) ==
  /\ socket.stream < MaxStreams
  /\ \E n \in 0..1 :
       /\ from + n <= MaxBytes + 1
       /\ socket' = [stream |-> socket.stream + 1, next |-> from + n, more |-> TRUE]
       /\ incoming' = WriteData(incoming,
            [i \in 1..n |-> [stream |-> socket.stream + 1, off |-> from]])

FirstByteLost(from) == socket'.next > from /\ GetMaxWriteSize(incoming) = 0

\* 404 is looked for in the header of a channel only, and after the bytes
\* behind it were stored; a header of 256 bytes or more is not searched.
OpenLiveStream ==
  /\ opened = "nothing"
  /\ \/ (Unreachable \/ HeaderSplit(0) \/ HeaderWhole(0)) /\ UNCHANGED opened
     \/ HeaderWhole(0) /\ opened' = "channel"
  /\ handed' = <<>>
  /\ UNCHANGED <<reading, recording, ahead, astray, npMutex, request>>

\* XBMC changes the channel without closing the one before: m_iCurrentChannel
\* is never set, so every switch is an open.
SwitchChannel ==
  /\ opened = "channel" /\ ~reading
  /\ \/ (Unreachable \/ HeaderSplit(0) \/ HeaderWhole(0)) /\ opened' = "nothing"
     \/ HeaderWhole(0) /\ UNCHANGED opened
  /\ handed' = <<>>
  /\ UNCHANGED <<reading, recording, ahead, astray, npMutex, request>>

\* The length is read from a header shorter than 256 bytes that has it.
OpenRecordedStream ==
  /\ opened = "nothing"
  /\ \/ /\ Unreachable \/ HeaderSplit(0)
        /\ recording' = [length |-> 0, position |-> 0]
        /\ UNCHANGED opened
     \/ /\ HeaderWhole(0)
        /\ \E length \in {0, MaxBytes + 1} :
             recording' = [length |-> length, position |-> 0]
        /\ opened' = "recording"
  /\ ahead' = GetMaxReadSize(incoming)
  /\ astray' = FirstByteLost(0)
  /\ handed' = <<>>
  /\ UNCHANGED <<reading, npMutex, request>>

CloseStream ==
  /\ opened # "nothing" /\ ~reading
  /\ socket' = [socket EXCEPT !.more = FALSE]
  /\ recording' = IF opened = "recording" THEN [length |-> 0, position |-> 0]
                  ELSE recording
  /\ opened' = "nothing"
  /\ UNCHANGED <<incoming, reading, handed, ahead, astray, npMutex, request>>

-----------------------------------------------------------------------------
(* Seeking: what OpenRecordingInternal returns is not looked at            *)

\* The offset is a long long, written with %d: its low half, with a sign.
Formatted(offset) ==
  LET low == offset % Span IN IF 2 * low >= Span THEN low - Span ELSE low

\* Where the server begins.  A Range that is none, or begins behind the end, it
\* answers with all there is or with nothing.
ServedFrom(offset) ==
  IF Formatted(offset) \in 0..MaxBytes THEN {Formatted(offset)} ELSE {0, MaxBytes + 1}

\* SEEK_END counts back from the position and every other whence is taken as
\* SEEK_SET: the target is any offset, and looked at by nobody.  The bytes
\* buffered stay buffered.
SeekRecordedStream ==
  /\ opened = "recording" /\ ~reading
  /\ npMutex = "free"
  /\ recording.length # 0
  /\ \E to \in Target : \E from \in ServedFrom(to) :
       /\ recording' = [recording EXCEPT !.position = to]
       /\ \/ Unreachable /\ UNCHANGED ahead
          \/ HeaderSplit(from) /\ ahead' = GetMaxReadSize(incoming) + 1
          \/ HeaderWhole(from) /\ ahead' = GetMaxReadSize(incoming)
       /\ astray' = (to \notin 0..MaxBytes \/ Formatted(to) # to \/ FirstByteLost(from))
  /\ handed' = <<>>
  /\ UNCHANGED <<opened, reading, npMutex, request>>

-----------------------------------------------------------------------------
(* Reading                                                                 *)

ReadStarts ==
  /\ opened # "nothing" /\ ~reading
  /\ IF opened = "recording" THEN npMutex = "free" /\ npMutex' = "player"
                             ELSE UNCHANGED npMutex
  /\ reading' = TRUE
  /\ handed' = <<>>
  /\ UNCHANGED <<incoming, socket, opened, recording, ahead, astray, request>>

\* Another round of the loop: a recording is read until there is enough, a
\* channel until there is no room for a chunk or nothing comes.
AnotherRound ==
  IF opened = "recording" THEN GetMaxReadSize(incoming) < Wanted
  ELSE GetMaxWriteSize(incoming) >= Chunk

ReadReceives ==
  /\ reading /\ AnotherRound
  /\ socket.more
  /\ \E n \in 1..Chunk :
       /\ socket.next + n <= MaxBytes + 1
       /\ incoming' = WriteData(incoming, Arriving(n))
       /\ socket' = [socket EXCEPT !.next = @ + n]
  /\ UNCHANGED <<opened, reading, handed, recording, ahead, astray, npMutex, request>>

\* A read of a channel that never has enough.
OnlyFull == ~AnotherRound

\* A receive() that returns nothing ends the read of a channel when there is
\* enough; otherwise the loop goes on, for ever when the stream has ended.
MayStop ==
  \/ ~AnotherRound
  \/ opened = "channel" /\ GetMaxReadSize(incoming) >= Wanted

ReadReturns ==
  /\ reading /\ MayStop
  /\ handed' = BytesAt(incoming, Wanted)
  /\ incoming' = SkipBytes(incoming, Wanted)
  /\ reading' = FALSE
  /\ IF opened = "recording"
     THEN /\ recording' = [recording EXCEPT !.position = @ + Wanted]
          /\ npMutex' = "free"
     ELSE UNCHANGED <<recording, npMutex>>
  /\ UNCHANGED <<socket, opened, ahead, astray, request>>

\* The server closes the connection, or has sent all there is.
StreamEnds ==
  /\ socket.more
  /\ socket' = [socket EXCEPT !.more = FALSE]
  /\ UNCHANGED <<incoming, opened, reading, handed, recording, ahead, astray, npMutex, request>>

-----------------------------------------------------------------------------
(* DoRequest                                                               *)

Ask ==
  /\ request = "none"
  /\ request' = "waits"
  /\ UNCHANGED <<streamVars, opened, reading, handed, npMutex>>

Locked ==
  /\ request = "waits" /\ npMutex = "free"
  /\ request' = "talks" /\ npMutex' = "request"
  /\ UNCHANGED <<streamVars, opened, reading, handed>>

\* No connection, or all of the answer has come.
Answered ==
  /\ request = "talks"
  /\ request' = "none" /\ npMutex' = "free"
  /\ UNCHANGED <<streamVars, opened, reading, handed>>

-----------------------------------------------------------------------------
NextPVRNext ==
  \/ OpenLiveStream \/ SwitchChannel \/ OpenRecordedStream \/ CloseStream
  \/ SeekRecordedStream
  \/ ReadStarts \/ ReadReceives \/ ReadReturns \/ StreamEnds
  \/ Ask \/ Locked \/ Answered

NextPVRSpec == NextPVRInit /\ [][NextPVRNext]_nextPVRVars

\* What the loops and the scheduler guarantee: a read that may end or receive
\* does, a mutex that is free again and again is got; and what is asked of the
\* server: it closes a stream of which all was sent, answers a request or
\* closes its connection.
NextPVRFairness ==
  /\ WF_nextPVRVars(ReadReturns) /\ WF_nextPVRVars(ReadReceives)
  /\ WF_nextPVRVars(StreamEnds /\ socket.next > MaxBytes)
  /\ SF_nextPVRVars(Locked) /\ WF_nextPVRVars(Answered)

-----------------------------------------------------------------------------
(* Properties                                                              *)

(* No byte that was received is lost, repeated or moved on its way through *)
(* the ring buffer: what the last read handed out, what is buffered and    *)
(* what comes next follow each other, the end of a stream excepted, after  *)
(* which the bytes of a later one come.                                    *)
Follows(a, b) ==
  \/ a.stream < b.stream
  \/ a.stream = b.stream /\ b.off = a.off + 1

NoByteLost ==
  LET bytes == handed \o Contents(incoming) \o
               (IF socket.more THEN Arriving(1) ELSE <<>>)
  IN  \A i \in 1..(Len(bytes) - 1) : Follows(bytes[i], bytes[i + 1])

(* PositionRecordedStream tells the offset of the next byte a read will    *)
(* return, ahead by just the bytes of earlier requests that were buffered  *)
(* when the stream was opened or sought, and that a read returns first     *)
(* because the buffer is never cleared.  Not so after a seek to an offset  *)
(* that %d does not write as it is or that the recording does not have:    *)
(* the position is the target all the same.                                *)
PositionAhead ==
  (opened = "recording" /\ socket.more /\ ~astray) =>
    socket.next = recording.position + GetMaxReadSize(incoming) - ahead

(* A read comes to an end, unless the stream did: then it loops for ever,  *)
(* a recording's with m_mutex held.                                        *)
Starved == reading /\ ~socket.more /\ GetMaxReadSize(incoming) < Wanted

ReadsEnd == reading ~> (~reading \/ Starved)

(* A request of another thread gets m_mutex and ends, unless the read of a *)
(* recording that ended keeps it for ever.                                 *)
RequestsEnd == (request = "waits") ~> (request = "none" \/ (Starved /\ npMutex = "player"))

(* A stream arrives whole, and its position is told as the buffer allows:  *)
(* nothing is lost or doubled between the socket and the player.           *)
StreamIntact ==
  /\ NoByteLost
  /\ PositionAhead

(* Reads of the player and requests of other threads end, except on a      *)
(* recording that has ended.                                               *)
CallsEnd ==
  /\ ReadsEnd
  /\ RequestsEnd
=============================================================================
