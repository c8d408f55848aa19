------------------------------- MODULE MPLive -------------------------------
(***************************************************************************)
(* Live TV of the MediaPortal add-on (addons/pvr.mediaportal.tvserver/src/ *)
(* pvrclient-mediaportal.cpp): opening, switching and closing a channel,   *)
(* and playing a recording, with one reader for both.  What the reader     *)
(* does inside is TsBuffer's.                                              *)
(*                                                                         *)
(* The calls come from one thread of XBMC, one after another; the server   *)
(* comes and goes between them, refuses, or does not answer in time.  It   *)
(* knows a client by its host, not by the connection: the client makes a   *)
(* new one after every answer that failed to come, and goes on.  Web       *)
(* streams, whose answer names no buffer, are left out.                    *)
(***************************************************************************)
EXTENDS Naturals

CONSTANTS
  MpChannel,   \* channels
  BufferFile,  \* what a time-shift is read from: a buffer file, or an rtsp URL
  MaxPlays,    \* bound: calls
  MaxLost      \* bound: times the server goes away

None == "none"
Rec == "recording"

ASSUME MPLiveAssumption ==
  /\ MaxPlays \in Nat /\ MaxLost \in Nat
  /\ {None, Rec} \cap (MpChannel \cup BufferFile) = {}

VARIABLES
  setup,      \* the settings and the platform: g_bUseRTSP, g_bFastChannelSwitch, Windows
  mp,         \* m_iCurrentChannel, m_bTimeShiftStarted, m_tsreader; the server's time-shift;
              \* and a history, unsure: nothing has been heard from the server of its
              \* time-shift since a request about it failed, or since it was lost
  serverUp,
  playing,    \* what XBMC takes to be playing
  mpCalls, timesLost,
  closed      \* history: the last call closed live TV, and reached the server

mpVars == <<setup, mp, serverUp, playing, mpCalls, timesLost, closed>>

Reader(file, open) == [file |-> file, open |-> open]
NoReader == Reader(None, FALSE)
NoTimeshift == [channel |-> None, file |-> None]

MPLiveInit ==
  /\ setup \in [rtsp : BOOLEAN, fast : BOOLEAN, windows : BOOLEAN]
  /\ mp = [channel |-> None, started |-> FALSE, reader |-> NoReader,
           timeshift |-> NoTimeshift, ok |-> TRUE, unsure |-> FALSE]
  /\ serverUp = TRUE /\ playing = None /\ mpCalls = 0 /\ timesLost = 0 /\ closed = FALSE

-----------------------------------------------------------------------------
(* What a call makes of the client, and returns in ok: the set of outcomes *)

\* IsUp: a server that went away may not have been noticed yet.
FoundUp == IF serverUp THEN {TRUE} ELSE BOOLEAN

\* On Windows another buffer file is opened, in the same reader; a reader whose
\* file could not be opened still has its name.  Elsewhere the reader seeks and
\* returns S_OK, which is zero, for true.
OnZap(s) ==
  IF ~setup.windows THEN {[s EXCEPT !.ok = FALSE]}
  ELSE IF s.timeshift.file = s.reader.file THEN {[s EXCEPT !.ok = TRUE]}
  ELSE {[s EXCEPT !.reader = Reader(s.timeshift.file, o), !.ok = o] : o \in BOOLEAN}

\* The server has started the time-shift.
AttachReader(c, s) ==
  IF s.reader # NoReader
  THEN IF setup.rtsp THEN {[s EXCEPT !.ok = TRUE]} ELSE OnZap(s)
  ELSE {[s EXCEPT !.ok = FALSE],
        [s EXCEPT !.reader = Reader(s.timeshift.file, TRUE), !.channel = c, !.ok = TRUE]}

Timeshifts(c) == {[channel |-> c, file |-> f] : f \in BufferFile}

\* A refusal, which may cost the time-shift there was, or no answer, to a request
\* that was carried out or not: m_bTimeShiftStarted stays what it is.
NotTuned(c, s) ==
  {[s EXCEPT !.timeshift = t, !.ok = FALSE] : t \in {s.timeshift, NoTimeshift}} \cup
  {[s EXCEPT !.timeshift = t, !.ok = FALSE, !.unsure = TRUE] :
     t \in {s.timeshift, NoTimeshift} \cup Timeshifts(c)}

Tuned(c, s) ==
  IF ~serverUp THEN {[s EXCEPT !.ok = FALSE]}
  ELSE NotTuned(c, s) \cup
       UNION {AttachReader(c, [s EXCEPT !.started = TRUE, !.timeshift = t, !.unsure = FALSE]) :
                t \in Timeshifts(c)}

\* A channel that cannot be tuned to leaves the old one as the current.
OpenKeepsChannel(c, s) ==
  UNION {IF ~up THEN {[s EXCEPT !.channel = None, !.ok = FALSE]}
         ELSE IF s.channel = c THEN {[s EXCEPT !.ok = TRUE]}
         ELSE Tuned(c, s) : up \in FoundUp}

OpenLive(c, s) ==
  UNION {IF ~up THEN {[s EXCEPT !.channel = None, !.ok = FALSE]}
         ELSE IF s.channel = c THEN {[s EXCEPT !.ok = TRUE]}
         ELSE Tuned(c, [s EXCEPT !.channel = None]) : up \in FoundUp}

\* What becomes of StopTimeshift is not asked: the client forgets the time-shift.
Stopped(s) ==
  LET forgotten == [s EXCEPT !.reader = NoReader, !.started = FALSE, !.channel = None] IN
  {[forgotten EXCEPT !.unsure = TRUE]} \cup
  (IF ~serverUp THEN {}
   ELSE {[forgotten EXCEPT !.timeshift = NoTimeshift, !.unsure = u] : u \in BOOLEAN})

CloseLive(s) == UNION {IF up /\ s.started THEN Stopped(s) ELSE {s} : up \in FoundUp}

SwitchTo(c, s) ==
  IF s.channel = c THEN {[s EXCEPT !.ok = TRUE]}
  ELSE UNION {OpenLive(c, t) : t \in IF setup.fast THEN {s} ELSE CloseLive(s)}

\* The reader there was is overwritten; one that does not open stays.
OpensRecording(s) ==
  {[s EXCEPT !.ok = FALSE]} \cup
  (IF serverUp THEN {[s EXCEPT !.reader = Reader(Rec, o), !.ok = o] : o \in BOOLEAN} ELSE {})

ClosesRecording(s) == {IF up THEN [s EXCEPT !.reader = NoReader] ELSE s : up \in FoundUp}

-----------------------------------------------------------------------------
Called == mpCalls < MaxPlays /\ mpCalls' = mpCalls + 1 /\ UNCHANGED <<setup, serverUp, timesLost>>

OpenChannel(c) ==
  /\ Called /\ playing = None
  /\ mp' \in OpenLive(c, mp)
  /\ playing' = IF mp'.ok THEN c ELSE None
  /\ closed' = FALSE

ChangeChannel(c) ==
  /\ Called /\ playing \in MpChannel
  /\ mp' \in SwitchTo(c, mp)
  /\ playing' = IF mp'.ok THEN c ELSE None
  /\ closed' = FALSE

CloseChannel ==
  /\ Called /\ playing # Rec
  /\ mp' \in CloseLive(mp)
  /\ playing' = None /\ closed' = serverUp

OpenRecordedStream ==
  /\ Called /\ playing = None
  /\ mp' \in OpensRecording(mp)
  /\ playing' = IF mp'.ok THEN Rec ELSE None
  /\ closed' = FALSE

CloseRecordedStream ==
  /\ Called /\ playing = Rec
  /\ mp' \in ClosesRecording(mp)
  /\ playing' = None /\ closed' = FALSE

\* The server (external); it may keep the time-shift of a client it lost.
ServerLost ==
  /\ serverUp /\ timesLost < MaxLost
  /\ serverUp' = FALSE /\ timesLost' = timesLost + 1 /\ closed' = FALSE
  /\ \E t \in {mp.timeshift, NoTimeshift} : mp' = [mp EXCEPT !.timeshift = t, !.unsure = TRUE]
  /\ UNCHANGED <<setup, playing, mpCalls>>

ServerBack ==
  /\ ~serverUp /\ serverUp' = TRUE
  /\ UNCHANGED <<setup, mp, playing, mpCalls, timesLost, closed>>

MPLiveNext ==
  \/ \E c \in MpChannel : OpenChannel(c) \/ ChangeChannel(c)
  \/ CloseChannel \/ OpenRecordedStream \/ CloseRecordedStream
  \/ ServerLost \/ ServerBack

MPLiveSpec == MPLiveInit /\ [][MPLiveNext]_mpVars

-----------------------------------------------------------------------------
(* Properties                                                              *)

(* With the server heard from, the current channel is the one it           *)
(* time-shifts, and the reader reads what it writes: opening the channel   *)
(* one has is answered with true and nothing else.                         *)
CurrentIsServed ==
  mp.channel # None /\ ~mp.unsure =>
    mp.timeshift.channel = mp.channel /\ mp.reader = Reader(mp.timeshift.file, TRUE)

(* Closing live TV frees the server's card and the reader, also when the   *)
(* server tuned but the reader did not open and no channel is the current  *)
(* one; only the reader of a recording that did not open may be there.     *)
(* Not if StopTimeshift failed; and not if TimeshiftChannel was carried    *)
(* out and not answered: then m_bTimeShiftStarted is not set, no close     *)
(* stops the time-shift, and the card is busy until a channel is opened    *)
(* and closed again.                                                       *)
CloseFreesAll ==
  closed /\ ~mp.unsure => mp.timeshift = NoTimeshift /\ mp.reader.file \in {None, Rec}

(* When opening or switching returned true, the reader is one of what the  *)
(* server writes for that channel, also when it was used for another       *)
(* before, except with rtsp, where a reader that is used again keeps its   *)
(* URL.                                                                    *)
PlaysWhatWasOpened ==
  playing \in MpChannel /\ ~mp.unsure /\ ~setup.rtsp =>
    mp.timeshift.channel = playing /\ mp.reader.file = mp.timeshift.file

(* What the client plays, its current channel and the card the server has  *)
(* busy for it agree, through every opening, switch and close.             *)
LiveFollowsServer ==
  /\ CurrentIsServed
  /\ CloseFreesAll
  /\ PlaysWhatWasOpened
=============================================================================
