------------------------------ MODULE ArgusLive ------------------------------
(***************************************************************************)
(* Live TV of the ForTheRecord/Argus add-on (addons/                       *)
(* pvr.fortherecord.argus/src: pvrclient-fortherecord.cpp,                 *)
(* fortherecordrpc.cpp, KeepAliveThread.cpp).  The player's thread opens,  *)
(* switches and closes channels and recordings with one reader for both; a *)
(* thread of the add-on tells the server every ten seconds that the live   *)
(* stream is still wanted.  The requests of both take turns, under         *)
(* communication_mutex, but the stream they name, a global object, is      *)
(* read and assigned without a lock.  The thread is a CThread, taken here  *)
(* by what CreateThread, StopThread and IsRunning do.                      *)
(***************************************************************************)
EXTENDS Naturals

CONSTANTS
  ArgusChannel,
  MaxTunes,      \* bound: requests to tune
  MaxRecordings  \* bound: recordings played

ASSUME ArgusAssumption == MaxTunes \in Nat /\ MaxRecordings \in Nat

VARIABLES
  argusAt,    \* where the player's thread is
  tuning,     \* the channel it opens
  current,    \* g_current_livestream
  started,    \* m_bTimeShiftStarted
  reported,   \* m_iCurrentChannel
  fileRead,   \* what m_tsreader was opened for: a stream, a recording, or nothing
  keeper,     \* where the keep-alive thread is
  keeperStop, \* its m_bStop
  liveStreams, \* the streams the server keeps for this client
  tunes, replays,
  nameless,   \* history: the stream of the object came without the name of a file
  lostAnswer, \* history: a request failed, or its answer was lost
  keeperLate, \* history: a StopThread gave up waiting
  clashes     \* history: what changed the object while the thread read it

argusPlayer == <<argusAt, tuning>>
argusStream == <<current, started, reported, fileRead>>
argusKeeper == <<keeper, keeperStop>>
argusBounds == <<tunes, replays>>
argusHistory == <<nameless, lostAnswer, keeperLate, clashes>>
argusVars == <<argusPlayer, argusStream, argusKeeper, liveStreams, argusBounds, argusHistory>>

Stream == {[n |-> i, on |-> c] : i \in 1..MaxTunes, c \in ArgusChannel}
\* The empty object; its "channel" is m_iCurrentChannel = 0.
OffAir == "none"
NoStream == [n |-> 0, on |-> OffAir]
ARecording == [n |-> 0, on |-> "recording"]

ArgusTypeOK ==
  /\ argusAt \in {"idle", "tunes", "retunes", "starts", "gives up", "closes", "reopens",
                  "stops", "restops", "failed"}
  /\ tuning \in ArgusChannel \cup {OffAir} /\ reported \in ArgusChannel \cup {OffAir}
  /\ current \in Stream \cup {NoStream} /\ fileRead \in Stream \cup {NoStream, ARecording}
  /\ keeper \in {"none", "loops", "reads", "calls", "sleeps"}
  /\ liveStreams \subseteq Stream /\ clashes \subseteq {"tune", "stop"}

ArgusInit ==
  /\ argusAt = "idle" /\ tuning = OffAir
  /\ current = NoStream /\ started = FALSE /\ reported = OffAir /\ fileRead = NoStream
  /\ keeper = "none" /\ keeperStop = FALSE /\ liveStreams = {}
  /\ tunes = 0 /\ replays = 0
  /\ nameless = FALSE /\ lostAnswer = FALSE /\ keeperLate = FALSE /\ clashes = {}

-----------------------------------------------------------------------------
(* The keep-alive thread                                                   *)

IsRunning == keeper # "none"
Lively == IsRunning /\ ~keeperStop

KeeperOnly ==
  UNCHANGED <<argusPlayer, argusStream, keeperStop, liveStreams, argusBounds, argusHistory>>

KeeperLoops ==
  /\ keeper = "loops"
  /\ keeper' = IF keeperStop THEN "none" ELSE "reads"
  /\ KeeperOnly

\* KeepLiveStreamAlive, which makes no request if there is no stream.
KeeperReads ==
  /\ keeper = "reads"
  /\ keeper' = IF current = NoStream THEN "sleeps" ELSE "calls"
  /\ KeeperOnly

\* The request, which may take long, and the hundred short sleeps.
KeeperGoesOn ==
  /\ \/ keeper = "calls" /\ keeper' = "sleeps"
     \/ keeper = "sleeps" /\ keeper' = "loops"
  /\ KeeperOnly

-----------------------------------------------------------------------------
(* The server                                                              *)

\* A stream nobody has asked for in a while is stopped; not one just tuned to.
StreamExpires ==
  /\ ~Lively /\ argusAt # "starts"
  /\ \E s \in liveStreams : liveStreams' = liveStreams \ {s}
  /\ UNCHANGED <<argusPlayer, argusStream, argusKeeper, argusBounds, argusHistory>>

-----------------------------------------------------------------------------
(* _OpenLiveStream, which switches as well                                 *)

\* communication_mutex is free.
MayCall == keeper # "calls"

Touched(by) == clashes' = IF keeper = "reads" THEN clashes \cup {by} ELSE clashes

\* An unknown channel, or one that is looked up.
OpenLiveChannel(c) ==
  /\ argusAt = "idle" /\ fileRead # ARecording
  /\ tunes < MaxTunes
  /\ tuning' = c /\ argusAt' \in {"tunes", "failed"}
  /\ UNCHANGED <<argusStream, argusKeeper, liveStreams, argusBounds, argusHistory>>

CallsTune ==
  /\ argusAt \in {"tunes", "retunes"} /\ MayCall
  /\ tunes < MaxTunes /\ tunes' = tunes + 1

NewStream == [n |-> tunes + 1, on |-> tuning]

\* The stream that the request names, if any, is tuned to the channel.
Retuned == (liveStreams \ {current}) \cup {NewStream}

TuneSucceeds ==
  /\ CallsTune
  /\ liveStreams' = Retuned /\ current' = NewStream
  /\ argusAt' = "starts" /\ Touched("tune") /\ nameless' = FALSE
  /\ UNCHANGED <<tuning, started, reported, fileRead, argusKeeper, replays, lostAnswer,
                 keeperLate>>

\* The thread is left to find out for itself.
StopsNothing(place, after) == UNCHANGED keeperStop /\ argusAt' = after

\* StopThread, if the thread runs, and what comes after it.
Stops(place, after) ==
  IF IsRunning THEN keeperStop' = TRUE /\ argusAt' = place
               ELSE UNCHANGED keeperStop /\ argusAt' = after

\* The answer is good, but names no file: the call fails with the new stream in
\* the object.  On Linux and Darwin the name is never empty, for a prefix has
\* been put before it, and TuneSucceeds stands for this answer too.
TuneNameless ==
  /\ CallsTune
  /\ liveStreams' = Retuned /\ current' = NewStream
  /\ Touched("tune") /\ nameless' = TRUE
  /\ Stops("gives up", "failed")
  /\ UNCHANGED <<tuning, started, reported, fileRead, keeper, replays, lostAnswer, keeperLate>>

\* A refusal, or a request that fails, on its way to the server or back; a
\* failure stops the thread.
TuneFails ==
  /\ CallsTune
  /\ \/ UNCHANGED <<liveStreams, lostAnswer>>
     \/ lostAnswer' = TRUE /\ liveStreams' \in {liveStreams, Retuned}
  /\ Stops("gives up", "failed")
  /\ UNCHANGED <<tuning, argusStream, keeper, replays, nameless, keeperLate, clashes>>

\* NoReTunePossible: the live stream is closed first.
TuneNeedsClose ==
  /\ CallsTune /\ argusAt = "tunes" /\ current # NoStream
  /\ Stops("reopens", "restops")
  /\ UNCHANGED <<tuning, argusStream, keeper, liveStreams, replays, argusHistory>>

\* A thread that has been told to stop, and still runs, is not replaced.
StreamStarts ==
  /\ argusAt = "starts"
  /\ started' = TRUE /\ reported' = tuning /\ fileRead' = current
  /\ IF IsRunning THEN UNCHANGED argusKeeper ELSE keeper' = "loops" /\ keeperStop' = FALSE
  /\ argusAt' = "idle"
  /\ UNCHANGED <<tuning, current, liveStreams, argusBounds, argusHistory>>

-----------------------------------------------------------------------------
(* CloseLiveStream                                                         *)

\* XBMC closes what it could not open or switch, and whenever it wants to.
CloseLiveChannel ==
  /\ argusAt = "failed" \/ (argusAt = "idle" /\ started)
  /\ Stops("closes", "stops")
  /\ UNCHANGED <<tuning, argusStream, keeper, liveStreams, argusBounds, argusHistory>>

\* The thread has ended, or five seconds are over.
StopThreadReturns ==
  /\ argusAt \in {"gives up", "closes", "reopens"}
  /\ keeperLate' = (keeperLate \/ IsRunning)
  /\ \/ argusAt = "gives up" /\ argusAt' = "failed"
     \/ argusAt = "closes" /\ argusAt' = "stops"
     \/ argusAt = "reopens" /\ argusAt' = "restops"
  /\ UNCHANGED <<tuning, argusStream, argusKeeper, liveStreams, argusBounds, nameless,
                 lostAnswer, clashes>>

\* StopLiveStream forgets the stream also when the request fails.
StopLive ==
  /\ argusAt \in {"stops", "restops"}
  /\ IF started
     THEN /\ MayCall \/ current = NoStream
          /\ \/ liveStreams' = liveStreams \ {current} /\ UNCHANGED lostAnswer
             \/ lostAnswer' = TRUE /\ liveStreams' \in {liveStreams, liveStreams \ {current}}
          /\ current' = NoStream /\ nameless' = FALSE /\ Touched("stop")
          /\ started' = FALSE /\ reported' = OffAir /\ fileRead' = NoStream
     ELSE UNCHANGED <<liveStreams, argusStream, nameless, lostAnswer, clashes>>
  /\ argusAt' = IF argusAt = "stops" THEN "idle" ELSE "retunes"
  /\ UNCHANGED <<tuning, argusKeeper, argusBounds, keeperLate>>

-----------------------------------------------------------------------------
(* Recordings                                                              *)

\* The reader finds the file, or is gone.
PlayRecording ==
  /\ argusAt = "idle" /\ ~started
  /\ replays < MaxRecordings /\ replays' = replays + 1
  /\ fileRead' \in {ARecording, NoStream}
  /\ UNCHANGED <<argusPlayer, current, started, reported, argusKeeper, liveStreams, tunes,
                 argusHistory>>

StopRecording ==
  /\ argusAt = "idle" /\ fileRead = ARecording
  /\ fileRead' = NoStream
  /\ UNCHANGED <<argusPlayer, current, started, reported, argusKeeper, liveStreams, argusBounds,
                 argusHistory>>

-----------------------------------------------------------------------------
ArgusNext ==
  \/ KeeperLoops \/ KeeperReads \/ KeeperGoesOn \/ StreamExpires
  \/ \E c \in ArgusChannel : OpenLiveChannel(c)
  \/ TuneSucceeds \/ TuneNameless \/ TuneFails \/ TuneNeedsClose \/ StreamStarts
  \/ CloseLiveChannel \/ StopThreadReturns \/ StopLive \/ PlayRecording \/ StopRecording

ArgusSpec == ArgusInit /\ [][ArgusNext]_argusVars

-----------------------------------------------------------------------------
(* Properties                                                              *)

(* Whoever watches is not cut off: while a channel is played the server    *)
(* still streams it, and a thread says that it is wanted.  Not if a        *)
(* StopThread gave up: the old thread then runs on, is not replaced, and   *)
(* ends.                                                                   *)
StreamKeptAlive ==
  argusAt = "idle" /\ started /\ ~keeperLate => Lively /\ current \in liveStreams

(* What is read, reported and named to the server is one stream.  A stream *)
(* whose file the server did not name is left in the object, to be named   *)
(* with the next tune, and on the server, where no close ends it and its   *)
(* tuner is held until it expires; but nothing is read of it or reported.  *)
OneStream ==
  argusAt = "idle" /\ fileRead # ARecording =>
    IF nameless
    THEN ~started /\ fileRead = NoStream /\ reported = OffAir
    ELSE /\ fileRead = current
         /\ started <=> current # NoStream
         /\ reported = current.on

(* The server keeps no stream that the client could not name to it, and    *)
(* with it a tuner, unless a request failed: also when a channel could not *)
(* be tuned to, or only after the one before was closed.                   *)
NoStreamLeft ==
  argusAt = "idle" /\ ~lostAnswer => liveStreams \subseteq {current}

(* The thread never reads the object while it is cleared, for it is        *)
(* stopped first, unless that took too long.  A switch assigns it with the *)
(* thread running: that race is there.                                     *)
ClearedInPeace == "stop" \in clashes => keeperLate

(* The client, its thread and the server agree on the live stream.         *)
StreamInHand ==
  /\ StreamKeptAlive
  /\ OneStream
  /\ NoStreamLeft
  /\ ClearedInPeace
=============================================================================
