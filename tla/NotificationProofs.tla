-------------------------- MODULE NotificationProofs --------------------------
(***************************************************************************)
(* What is signalled arrives: proofs about CEvent (Event), about the flags *)
(* of the DVBViewer add-on (DvbUpdates), the events of the MythTV backend  *)
(* (MythRecordings), what the MediaPortal server is told (MPLive), and     *)
(* what the Vu+ client keeps of its box (VuRecordings, VuChannels,         *)
(* VuTimers). Protocols in which one side leaves a note for another, or    *)
(* for its own next run, each with its own way of losing it.               *)
(***************************************************************************)
EXTENDS Event, DvbUpdates, MythRecordings, MPLive, VuRecordings, VuChannels, VuTimers,
        SequenceLemmas, FiniteSetTheorems, TLAPS

-----------------------------------------------------------------------------
(* Event                                                                   *)

(* The waiters: each one that blocks is counted, and nobody else unless a  *)
(* wait has timed out.                                                     *)
Counts ==
  /\ blocked \subseteq Waiter /\ owed \subseteq blocked
  /\ waiting \in Nat /\ timeouts \in Nat
  /\ waiting >= Cardinality(blocked)
  /\ timeouts = 0 => waiting = Cardinality(blocked)

(* While a broadcast is in force everybody blocked has been woken or will  *)
(* be, and those it is owed to see it as one.                              *)
InForce ==
  /\ signaled /\ broadcast => blocked \subseteq awake \/ \E s \in Signaller : notifying[s] = "all"
  /\ owed # {} => broadcast \/ mixed

Kinds ==
  /\ signaled \in BOOLEAN /\ broadcast \in BOOLEAN /\ served \in BOOLEAN
  /\ notifying \in [Signaller -> {"nothing", "one", "all"}]

EventInv == Kinds /\ Counts /\ InForce /\ SignalsReach

\* What one waiter does to the sets and their sizes when it goes.
LEMMA OneLess ==
  ASSUME EventAssumption, Counts, NEW w \in blocked
  PROVE  /\ blocked \ {w} \subseteq Waiter
         /\ Cardinality(blocked \ {w}) = Cardinality(blocked) - 1
         /\ Cardinality(blocked) \in Nat
         /\ Cardinality(blocked) >= 1
         /\ blocked \ {w} # {} => Cardinality(blocked \ {w}) >= 1
<1>1. IsFiniteSet(blocked)
  BY FS_Subset DEF EventAssumption, Counts
<1>2. /\ IsFiniteSet(blocked \ {w})
      /\ Cardinality(blocked \ {w}) = Cardinality(blocked) - 1
  BY <1>1, FS_RemoveElement
<1>3. Cardinality(blocked) \in Nat /\ Cardinality(blocked \ {w}) \in Nat
  BY <1>1, <1>2, FS_CardinalityType
<1>4. blocked \ {w} # {} => Cardinality(blocked \ {w}) # 0
  BY <1>2, FS_EmptySet
<1>. QED  BY <1>2, <1>3, <1>4 DEF Counts

\* And when it comes.
LEMMA OneMoreBlocked ==
  ASSUME EventAssumption, Counts, NEW w \in Waiter, w \notin blocked
  PROVE  /\ Cardinality(blocked \cup {w}) = Cardinality(blocked) + 1
         /\ Cardinality(blocked) \in Nat
<1>1. IsFiniteSet(blocked)
  BY FS_Subset DEF EventAssumption, Counts
<1>. QED  BY <1>1, FS_AddElement, FS_CardinalityType

\* Each part of the invariant, for each action.
LEMMA WaitKeeps ==
  ASSUME EventAssumption, AutoReset = TRUE, EventInv, NEW w \in Waiter, Wait(w)
  PROVE  EventInv'
<1>. USE DEF EventInv, SignalsReach
<1>1. CASE Answered(waiting + 1) /\ UNCHANGED blocked
  <2>1. /\ waiting' = waiting /\ signaled /\ timeouts' = timeouts
        /\ signaled' = (waiting # 0 /\ broadcast) /\ served' = TRUE
    BY <1>1 DEF Answered, Counts
  <2>2. UNCHANGED <<broadcast, awake, notifying, owed, mixed, blocked>>
    BY <1>1 DEF Wait
  <2>3. Kinds' /\ Counts'
    BY <2>1, <2>2 DEF Kinds, Counts
  <2>4. InForce' /\ NoLostSignal'
    BY <2>1, <2>2 DEF InForce, NoLostSignal
  <2>5. ASSUME owed # {}  PROVE waiting # 0
    <3>1. PICK u : u \in owed
      BY <2>5
    <3>2. u \in blocked
      BY <3>1 DEF Counts
    <3>3. Cardinality(blocked) \in Nat /\ Cardinality(blocked) >= 1
      BY <3>2, OneLess
    <3>. QED  BY <3>3 DEF Counts
  <2>6. BroadcastReachesAll'
    BY <2>1, <2>2, <2>5 DEF BroadcastReachesAll, InForce
  <2>7. BroadcastIsSpent'
    <3>1. blocked = {} /\ timeouts = 0 => waiting = 0
      <4>1. Cardinality({}) = 0
        BY FS_EmptySet
      <4>. QED  BY <4>1 DEF Counts
    <3>2. timeouts = 0 \/ timeouts > 0
      BY DEF Counts
    <3>3. waiting = 0 => ~signaled'
      BY <2>1
    <3>. QED  BY <2>1, <2>2, <3>1, <3>2, <3>3, Zenon DEF BroadcastIsSpent
  <2>. QED  BY <2>3, <2>4, <2>6, <2>7
<1>2. CASE /\ ~signaled /\ waiting' = waiting + 1 /\ blocked' = blocked \cup {w}
           /\ UNCHANGED <<signaled, served, timeouts>>
  <2>1. UNCHANGED <<broadcast, awake, notifying, owed, mixed>> /\ w \notin blocked
    BY DEF Wait
  <2>2. Counts'
    <3>1. Cardinality(blocked') = Cardinality(blocked) + 1 /\ Cardinality(blocked) \in Nat
      BY <1>2, <2>1, OneMoreBlocked
    <3>. QED  BY <1>2, <2>1, <3>1 DEF Counts
  <2>3. Kinds' /\ InForce' /\ NoLostSignal' /\ BroadcastReachesAll'
    BY <1>2, <2>1 DEF Kinds, InForce, NoLostSignal, BroadcastReachesAll
  <2>4. BroadcastIsSpent'
    BY <1>2 DEF BroadcastIsSpent
  <2>. QED  BY <2>2, <2>3, <2>4
<1>. QED  BY <1>1, <1>2 DEF Wait

\* A waiter that goes with an answer: Wakes and Expires.
LEMMA AnswerKeeps ==
  ASSUME EventAssumption, AutoReset = TRUE, EventInv, NEW w \in blocked,
         Answered(waiting), Leave(w), UNCHANGED <<broadcast, notifying, mixed, sets>>
  PROVE  EventInv'
<1>. USE DEF EventInv, SignalsReach
<1>1. /\ waiting' = waiting - 1 /\ signaled /\ timeouts' = timeouts /\ served' = TRUE
      /\ signaled' = (waiting - 1 # 0 /\ broadcast)
  BY DEF Answered
<1>2. blocked' = blocked \ {w} /\ awake' = awake \ {w} /\ owed' = owed \ {w}
  BY DEF Leave
<1>3. /\ blocked' \subseteq Waiter
      /\ Cardinality(blocked') = Cardinality(blocked) - 1
      /\ Cardinality(blocked) \in Nat /\ Cardinality(blocked) >= 1
      /\ blocked' # {} => Cardinality(blocked') >= 1
  BY <1>2, OneLess
<1>4. Kinds'
  BY <1>1 DEF Kinds
<1>5. Counts'
  BY <1>1, <1>2, <1>3 DEF Counts
<1>6. InForce'
  BY <1>1, <1>2 DEF InForce
<1>7. NoLostSignal'
  BY <1>1, <1>2 DEF InForce, NoLostSignal
<1>8. BroadcastReachesAll'
  <2>1. owed' # {} => waiting - 1 # 0
    BY <1>2, <1>3 DEF Counts
  <2>. QED  BY <1>1, <1>2, <2>1 DEF InForce, BroadcastReachesAll
<1>9. BroadcastIsSpent'
  <2>1. Cardinality({}) = 0
    BY FS_EmptySet
  <2>2. blocked' = {} /\ timeouts = 0 => waiting - 1 = 0
    BY <1>3, <2>1 DEF Counts
  <2>3. timeouts = 0 \/ timeouts > 0
    BY DEF Counts
  <2>4. waiting - 1 = 0 => ~signaled'
    BY <1>1
  <2>. QED  BY <1>1, <2>2, <2>3, <2>4, Zenon DEF BroadcastIsSpent
<1>. QED  BY <1>4, <1>5, <1>6, <1>7, <1>8, <1>9

LEMMA WakesKeeps ==
  ASSUME EventAssumption, AutoReset = TRUE, EventInv, awake \subseteq blocked,
         NEW w \in Waiter, Wakes(w)
  PROVE  EventInv'
<1>1. CASE Answered(waiting) /\ Leave(w)
  BY <1>1, AnswerKeeps DEF Wakes
<1>2. CASE /\ ~signaled /\ awake' = awake \ {w}
           /\ UNCHANGED <<signaled, waiting, blocked, owed, served, timeouts>>
  BY <1>2 DEF Wakes, EventInv, SignalsReach, Kinds, Counts, InForce, NoLostSignal,
              BroadcastReachesAll, BroadcastIsSpent
<1>. QED  BY <1>1, <1>2 DEF Wakes

LEMMA ExpiresKeeps ==
  ASSUME EventAssumption, AutoReset = TRUE, EventInv, NEW w \in Waiter, Expires(w)
  PROVE  EventInv'
<1>1. CASE Answered(waiting)
  BY <1>1, AnswerKeeps DEF Expires
<1>2. CASE Refused(waiting)
  <2>. USE DEF EventInv, SignalsReach
  <2>1. /\ ~signaled /\ waiting' = waiting /\ timeouts' = timeouts + 1
        /\ UNCHANGED <<signaled, served, broadcast, notifying, mixed>>
    BY <1>2 DEF Refused, Expires
  <2>2. /\ w \in blocked
        /\ blocked' = blocked \ {w} /\ awake' = awake \ {w} /\ owed' = owed \ {w}
    BY DEF Expires, Leave
  <2>3. /\ Cardinality(blocked') = Cardinality(blocked) - 1
        /\ Cardinality(blocked) \in Nat
    BY <2>2, OneLess
  <2>4. Counts'
    BY <2>1, <2>2, <2>3 DEF Counts
  <2>5. Kinds' /\ InForce' /\ NoLostSignal' /\ BroadcastReachesAll' /\ BroadcastIsSpent'
    BY <2>1, <2>2 DEF Kinds, InForce, NoLostSignal, BroadcastReachesAll, BroadcastIsSpent
  <2>. QED  BY <2>4, <2>5
<1>. QED  BY <1>1, <1>2 DEF Expires

LEMMA SpuriousKeeps ==
  ASSUME EventInv, NEW w \in Waiter, SpuriousWake(w)
  PROVE  EventInv'
BY DEF SpuriousWake, EventInv, SignalsReach, Kinds, Counts, InForce, NoLostSignal,
       BroadcastReachesAll, BroadcastIsSpent

LEMMA SetKeeps ==
  ASSUME EventInv, NEW s \in Signaller, NEW whom \in {"one", "all"}, Set(s, whom)
  PROVE  EventInv'
<1>. USE DEF EventInv, SignalsReach
<1>1. /\ signaled' = TRUE /\ served' = FALSE /\ broadcast' = (whom = "all")
      /\ notifying' = [notifying EXCEPT ![s] = whom]
      /\ UNCHANGED <<waiting, blocked, awake, timeouts>>
      /\ mixed' = (mixed \/ (whom = "one" /\ owed # {}))
      /\ owed' = IF whom = "all" THEN blocked ELSE owed
  BY DEF Set
<1>2. notifying'[s] = whom
  BY <1>1 DEF Kinds
<1>3. Kinds'
  BY <1>1 DEF Kinds
<1>4. Counts'
  <2>1. owed' \subseteq blocked'
    BY <1>1 DEF Counts
  <2>. QED  BY <1>1, <2>1 DEF Counts
<1>5. InForce'
  <2>1. CASE whom = "all"
    BY <1>1, <1>2, <2>1 DEF InForce
  <2>2. CASE whom = "one"
    BY <1>1, <2>2 DEF InForce
  <2>. QED  BY <2>1, <2>2
<1>6. NoLostSignal'
  BY <1>2 DEF NoLostSignal
<1>7. BroadcastReachesAll' /\ BroadcastIsSpent'
  BY <1>1 DEF BroadcastReachesAll, BroadcastIsSpent
<1>. QED  BY <1>3, <1>4, <1>5, <1>6, <1>7

LEMMA NotifiesKeeps ==
  ASSUME EventInv, NEW s \in Signaller, Notifies(s)
  PROVE  EventInv'
<1>. USE DEF EventInv, SignalsReach
<1>1. /\ UNCHANGED <<signaled, broadcast, waiting, blocked, owed, served, timeouts, mixed>>
      /\ notifying' = [notifying EXCEPT ![s] = "nothing"]
  BY DEF Notifies
<1>2. Kinds' /\ Counts' /\ BroadcastReachesAll' /\ BroadcastIsSpent'
  BY <1>1 DEF Kinds, Counts, BroadcastReachesAll, BroadcastIsSpent
<1>3. InForce' /\ NoLostSignal'
  <2>1. CASE notifying[s] = "all" /\ awake' = blocked
    BY <1>1, <2>1 DEF InForce, NoLostSignal
  <2>2. ASSUME notifying[s] = "one", awake \subseteq awake'
        PROVE  InForce'
    <3>1. \A t \in Signaller : notifying[t] = "all" => notifying'[t] = "all"
      BY <1>1, <2>2 DEF Kinds
    <3>. QED  BY <1>1, <2>2, <3>1 DEF InForce
  <2>3. CASE notifying[s] = "one" /\ \E w \in blocked \ awake : awake' = awake \cup {w}
    BY <2>2, <2>3 DEF NoLostSignal
  <2>4. CASE notifying[s] = "one" /\ blocked \subseteq awake /\ UNCHANGED awake
    BY <1>1, <2>2, <2>4 DEF NoLostSignal
  <2>. QED  BY <2>1, <2>3, <2>4 DEF Notifies
<1>. QED  BY <1>2, <1>3

(* CEvent, which every user creates with m_bAutoReset, reaches those it    *)
(* should, for any number of threads that wait and that signal: no signal  *)
(* is lost, a broadcast reaches everybody who was blocked, and is over     *)
(* then, unless a wait has timed out before or a Signal() came in between. *)
THEOREM SignalsArrive ==
  ASSUME AutoReset = TRUE
  PROVE  EventSpec => []SignalsReach
<1>. DEFINE Inv == EventInv /\ awake \subseteq blocked
<1>1. EventInit => Inv
  <2> SUFFICES ASSUME EventInit  PROVE Inv
    OBVIOUS
  <2>1. Cardinality({}) = 0
    BY FS_EmptySet
  <2>2. Counts /\ awake \subseteq blocked
    BY <2>1 DEF EventInit, Counts
  <2>3. Kinds
    BY DEF EventInit, Kinds
  <2>4. InForce /\ SignalsReach
    BY DEF EventInit, InForce, SignalsReach, NoLostSignal, BroadcastReachesAll, BroadcastIsSpent
  <2>. QED  BY <2>2, <2>3, <2>4 DEF EventInv
<1>2. Inv /\ [EventNext]_eventVars => Inv'
  <2> SUFFICES ASSUME Inv, [EventNext]_eventVars  PROVE Inv'
    OBVIOUS
  <2>1. EventInv'
    <3>1. ASSUME NEW w \in Waiter, Wait(w) \/ Wakes(w) \/ Expires(w) \/ SpuriousWake(w)
          PROVE  EventInv'
      BY <3>1, EventAssumption, WaitKeeps, WakesKeeps, ExpiresKeeps, SpuriousKeeps
    <3>2. ASSUME NEW s \in Signaller, Set(s, "one") \/ Set(s, "all") \/ Notifies(s)
          PROVE  EventInv'
      BY <3>2, SetKeeps, NotifiesKeeps
    <3>3. CASE UNCHANGED eventVars
      BY <3>3 DEF eventVars, EventInv, SignalsReach, Kinds, Counts, InForce, NoLostSignal,
                  BroadcastReachesAll, BroadcastIsSpent
    <3>. QED  BY <3>1, <3>2, <3>3 DEF EventNext
  <2>2. (awake \subseteq blocked)'
    BY DEF EventNext, Wait, Wakes, Expires, Leave, SpuriousWake, Set, Notifies, eventVars
  <2>. QED  BY <2>1, <2>2
<1>. QED  BY <1>1, <1>2, PTL DEF EventSpec, EventInv

-----------------------------------------------------------------------------
(* DvbUpdates                                                              *)

Places ==
  /\ callerAt \in [Caller -> {"idle", "second"}]
  /\ switchAt \in {"idle", "first", "second"}

(* Between asking for the EPG and clearing the flag, the thread has asked  *)
(* for the channel of every switch that is over, or the flag was set after *)
(* it asked.                                                               *)
AskedBeforeClearing ==
  updaterAt = "clearEpg" /\ switchAt = "idle" /\ m_iCurrentChannel # NoChannel =>
    asked = m_iCurrentChannel \/ tooLate

DvbInv == Places /\ AskedBeforeClearing /\ UpdatesFollow

(* The update thread of the DVBViewer add-on: for any number of threads    *)
(* and channels, a command the server has carried out reaches m_timers,    *)
(* and the EPG of the channel one watches is asked for, but in the cases   *)
(* UpdatesFollow names.                                                    *)
THEOREM FlagsServed == DvbSpec => []UpdatesFollow
<1>. USE DEF UpdatesFollow, Places
<1>1. DvbInit => DvbInv
  BY DEF DvbInit, DvbInv, AskedBeforeClearing, ChangeReachesTimers, EpgAskedFor
<1>2. DvbInv /\ [DvbNext]_dvbVars => DvbInv'
  <2> SUFFICES ASSUME DvbInv, [DvbNext]_dvbVars  PROVE DvbInv'
    OBVIOUS
  <2>. USE DEF DvbInv, timerSide, epgSide
  <2>1. ASSUME NEW a \in Caller, Command(a)  PROVE DvbInv'
    BY <2>1 DEF Command, SendsCommand, SetsFlag, AskedBeforeClearing, ChangeReachesTimers,
                EpgAskedFor
  <2>2. ASSUME NEW ch \in DvbChannel, BeginSwitch(ch)  PROVE DvbInv'
    BY <2>2 DEF BeginSwitch, AskedBeforeClearing, ChangeReachesTimers, EpgAskedFor
  <2>3. CASE SwitchChannel
    BY <2>3 DEF SwitchChannel, SetsChannel, SetsEpgFlag, AskedBeforeClearing,
                ChangeReachesTimers, EpgAskedFor
  <2>4. CASE CloseLiveStream
    BY <2>4 DEF CloseLiveStream, AskedBeforeClearing, ChangeReachesTimers, EpgAskedFor
  <2>5. CASE LooksAtEpg \/ LooksAtTimers
    BY <2>5 DEF LooksAtEpg, LooksAtTimers, Moves, AskedBeforeClearing, ChangeReachesTimers,
                EpgAskedFor
  <2>6. CASE AsksForEpg \/ ClearsEpg
    BY <2>6 DEF AsksForEpg, ClearsEpg, Moves, AskedBeforeClearing, ChangeReachesTimers,
                EpgAskedFor
  <2>7. CASE PerformUpdates
    BY <2>7 DEF PerformUpdates, ClearsTimers, UpdatesTimers, ListMissing, Moves,
                AskedBeforeClearing, ChangeReachesTimers, EpgAskedFor
  <2>8. CASE UNCHANGED dvbVars
    BY <2>8 DEF dvbVars, AskedBeforeClearing, ChangeReachesTimers, EpgAskedFor
  <2>. QED  BY <2>1, <2>2, <2>3, <2>4, <2>5, <2>6, <2>7, <2>8
            DEF DvbNext, Loop, OpenLiveStream, GetLiveStreamURL
<1>. QED  BY <1>1, <1>2, PTL DEF DvbSpec, DvbInv

-----------------------------------------------------------------------------
(* MythRecordings                                                          *)

MythInv ==
  /\ events \in Seq(ListEvents \cup {"schedule"})
  /\ stream \in {"none", "live", "recording", "openingLive", "openingRecording"}
  /\ RecordingsKnown

(* The list of recordings of the MythTV add-on: for any number of changes, *)
(* playbacks and losses of the event connection, XBMC has the list of the  *)
(* backend or is about to fetch it, but for what fell into a playback or   *)
(* was lost; and the playback mode ends with the playback.                 *)
THEOREM ListKnown == MythRecordingsSpec => []RecordingsKnown
<1>. USE DEF RecordingsKnown, PlaybackWhilePlaying, backendVars
<1>1. MythRecordingsInit => MythInv
  <2>1. <<>> \in Seq(ListEvents \cup {"schedule"})
    OBVIOUS
  <2>. QED  BY <2>1 DEF MythRecordingsInit, MythInv, ListFollowsEvents
<1>2. MythInv /\ [MythRecordingsNext]_mythRecVars => MythInv'
  <2> SUFFICES ASSUME MythInv, [MythRecordingsNext]_mythRecVars  PROVE MythInv'
    OBVIOUS
  <2>. USE DEF MythInv
  <2>1. ASSUME NEW kind \in ListEvents \cup {"schedule"}, events' = Append(events, kind)
        PROVE  events' \in Seq(ListEvents \cup {"schedule"}) /\ events' # <<>>
    BY <2>1
  <2>2. ASSUME NEW kind \in ListEvents, ListChanges(kind)  PROVE MythInv'
    BY <2>1, <2>2 DEF ListChanges, ListFollowsEvents
  <2>3. CASE ScheduleChanges
    BY <2>1, <2>3 DEF ScheduleChanges, ListFollowsEvents
  <2>4. CASE EventsLost
    BY <2>4 DEF EventsLost, ListFollowsEvents
  <2>5. CASE HandleEvent
    <3>1. /\ events # <<>> /\ events' = Tail(events)
          /\ UNCHANGED <<backendVars, m_playback, stream, fetchAt, listKnown>>
      BY <2>5 DEF HandleEvent
    <3>2. /\ Head(events) \in ListEvents \cup {"schedule"}
          /\ events' \in Seq(ListEvents \cup {"schedule"})
      BY <3>1
    <3>3. listTrigger' \/ unheard'
      BY <2>5, <3>2 DEF HandleEvent
    <3>. QED  BY <3>1, <3>2, <3>3 DEF ListFollowsEvents
  <2>6. CASE GetRecordingsAmount \/ GetRecordings \/ SetRecordingPlayCount
    BY <2>6 DEF GetRecordingsAmount, GetRecordings, SetRecordingPlayCount, ListFollowsEvents
  <2>7. ASSUME NEW opening \in {"openingLive", "openingRecording"}, OpenStream(opening)
        PROVE  MythInv'
    BY <2>7 DEF OpenStream, OneMore, PlayFrame, ListFollowsEvents
  <2>8. CASE StreamOpens
    BY <2>8 DEF StreamOpens, PlayFrame, ListFollowsEvents
  <2>9. CASE SwitchStream \/ CloseStream
    BY <2>9 DEF SwitchStream, CloseStream, OneMore, PlayFrame, ListFollowsEvents
  <2>10. CASE UNCHANGED mythRecVars
    BY <2>10 DEF mythRecVars, ListFollowsEvents
  <2>. QED  BY <2>2, <2>3, <2>4, <2>5, <2>6, <2>7, <2>8, <2>9, <2>10 DEF MythRecordingsNext
<1>. QED  BY <1>1, <1>2, PTL DEF MythRecordingsSpec, MythInv

-----------------------------------------------------------------------------
(* MPLive                                                                  *)

(* The members a call of the client may change, with its result.           *)
MpType ==
  [channel : MpChannel \cup {None}, started : BOOLEAN,
   reader : [file : BufferFile \cup {None, Rec}, open : BOOLEAN],
   timeshift : [channel : MpChannel \cup {None}, file : BufferFile \cup {None}],
   ok : BOOLEAN, unsure : BOOLEAN]

(* With a current channel, the server's time-shift is of that channel and  *)
(* the reader reads it.                                                    *)
Served(s) ==
  s.channel # None =>
    s.started /\ s.timeshift.channel = s.channel /\ s.reader = Reader(s.timeshift.file, TRUE)

(* Without a time-shift of the server's, no reader is left open on one.    *)
Freed(s) == s.started \/ (s.timeshift = NoTimeshift /\ s.reader.file \in {None, Rec})

(* A time-shift of which something was heard last.                         *)
Sure(s) == ~s.unsure => serverUp /\ Freed(s)

(* The settings, the members and the server.                               *)
MPTypes ==
  /\ setup \in [rtsp : BOOLEAN, fast : BOOLEAN, windows : BOOLEAN]
  /\ mp \in MpType /\ serverUp \in BOOLEAN /\ closed \in BOOLEAN
  /\ playing \in MpChannel \cup {None, Rec}

(* The inductive invariant. As long as something was heard of the          *)
(* time-shift last, client and server are in step, and what XBMC was told  *)
(* it plays is what is played.                                             *)
MPInv ==
  /\ MPTypes
  /\ Sure(mp)
  /\ ~mp.unsure =>
       /\ Served(mp)
       /\ mp.channel # None => playing = mp.channel
       /\ closed => ~mp.started
       /\ playing \in MpChannel /\ ~setup.rtsp =>
            mp.timeshift.channel = playing /\ mp.reader.file = mp.timeshift.file

\* A channel was tuned to, by a reader that there was or a new one.
TunedWell(c, r) ==
  /\ ~r.unsure /\ r.started /\ r.timeshift.channel = c /\ r.channel \in {None, c}
  /\ r.channel # None => r.ok /\ r.reader = Reader(r.timeshift.file, TRUE)
  /\ r.ok /\ ~setup.rtsp => r.reader.file = r.timeshift.file

(* r and s have the same time-shift and reader.                            *)
Alike(r, s) ==
  /\ r.started = s.started /\ r.reader = s.reader /\ r.timeshift = s.timeshift
  /\ r.unsure = s.unsure

(* r comes of s by a request that failed: with an answer, the time-shift   *)
(* there was is there, or ended.                                           *)
FailedFrom(r, s) ==
  /\ r.channel = None /\ ~r.ok /\ r.started = s.started /\ r.reader = s.reader
  /\ ~r.unsure => ~s.unsure /\ r.timeshift \in {s.timeshift, NoTimeshift}

(* The names of channels, files and of nothing differ.                     *)
LEMMA Names == None \notin MpChannel /\ Rec \notin MpChannel /\ None \notin BufferFile /\ Rec \notin BufferFile /\ None # Rec
BY MPLiveAssumption DEF None, Rec

(* A reader that changes to another file keeps the rest.                   *)
LEMMA OnZapIs ==
  ASSUME NEW s \in MpType, s.timeshift.file \in BufferFile, NEW r \in OnZap(s)
  PROVE  /\ r \in MpType /\ r.started = s.started /\ r.timeshift = s.timeshift
         /\ r.unsure = s.unsure /\ r.channel = s.channel /\ (r.ok => r.reader.file = s.timeshift.file)
<1>1. CASE r = [s EXCEPT !.ok = FALSE]
  BY <1>1 DEF MpType
<1>2. CASE s.timeshift.file = s.reader.file /\ r = [s EXCEPT !.ok = TRUE]
  BY <1>2 DEF MpType
<1>3. ASSUME NEW o \in BOOLEAN, r = [s EXCEPT !.reader = Reader(s.timeshift.file, o), !.ok = o]
      PROVE  /\ r \in MpType /\ r.started = s.started /\ r.timeshift = s.timeshift
             /\ r.unsure = s.unsure /\ r.channel = s.channel /\ (r.ok => r.reader.file = s.timeshift.file)
  BY <1>3 DEF MpType, Reader
<1>. QED  BY <1>1, <1>2, <1>3 DEF OnZap

(* A reader that is attached, new or used again, reads the time-shift.     *)
LEMMA AttachIs ==
  ASSUME NEW c \in MpChannel, NEW s \in MpType, s.started, ~s.unsure, s.channel = None,
         s.timeshift.file \in BufferFile, s.timeshift.channel = c,
         NEW r \in AttachReader(c, s)
  PROVE  r \in MpType /\ TunedWell(c, r)
<1>1. CASE s.reader # NoReader /\ setup.rtsp
  BY <1>1 DEF AttachReader, MpType, TunedWell
<1>2. CASE s.reader # NoReader /\ ~setup.rtsp
  BY <1>2, OnZapIs DEF AttachReader, TunedWell
<1>3. CASE s.reader = NoReader /\ r = [s EXCEPT !.ok = FALSE]
  BY <1>3, Names DEF MpType, TunedWell
<1>4. CASE r = [s EXCEPT !.reader = Reader(s.timeshift.file, TRUE), !.channel = c, !.ok = TRUE]
  BY <1>4 DEF MpType, TunedWell, Reader
<1>. QED  BY <1>1, <1>2, <1>3, <1>4 DEF AttachReader

(* Tuning fails, or the server serves the channel.                         *)
LEMMA TunedIs ==
  ASSUME NEW c \in MpChannel, NEW s \in MpType, s.channel = None, NEW r \in Tuned(c, s),
         ~s.unsure => serverUp
  PROVE  r \in MpType /\ (FailedFrom(r, s) \/ (serverUp /\ TunedWell(c, r)))
<1>1. \A t \in Timeshifts(c) \cup {s.timeshift, NoTimeshift} :
        t \in [channel : MpChannel \cup {None}, file : BufferFile \cup {None}]
  BY DEF Timeshifts, MpType, NoTimeshift
<1>2. CASE r = [s EXCEPT !.ok = FALSE]
  BY <1>2 DEF MpType, FailedFrom
<1>3. CASE \E t \in {s.timeshift, NoTimeshift} : r = [s EXCEPT !.timeshift = t, !.ok = FALSE]
  BY <1>1, <1>3 DEF MpType, FailedFrom
<1>4. CASE \E t \in {s.timeshift, NoTimeshift} \cup Timeshifts(c) :
             r = [s EXCEPT !.timeshift = t, !.ok = FALSE, !.unsure = TRUE]
  BY <1>1, <1>4 DEF MpType, FailedFrom
<1>5. ASSUME serverUp, NEW f \in Timeshifts(c),
             r \in AttachReader(c, [s EXCEPT !.started = TRUE, !.timeshift = f, !.unsure = FALSE])
      PROVE  r \in MpType /\ TunedWell(c, r)
  <2>. DEFINE t == [s EXCEPT !.started = TRUE, !.timeshift = f, !.unsure = FALSE]
  <2>1. /\ t \in MpType /\ t.started /\ ~t.unsure /\ t.channel = None
        /\ t.timeshift.file \in BufferFile /\ t.timeshift.channel = c
    <3>1. f.file \in BufferFile /\ f.channel = c
      BY DEF Timeshifts
    <3>2. f \in [channel : MpChannel \cup {None}, file : BufferFile \cup {None}]
      BY <1>1
    <3>. QED  BY <3>1, <3>2 DEF MpType
  <2>. HIDE DEF t
  <2>2. r \in AttachReader(c, t)
    BY <1>5 DEF t
  <2>. QED  BY <2>1, <2>2, AttachIs
<1>. QED  BY <1>2, <1>3, <1>4, <1>5 DEF Tuned, NotTuned

\* What opening a channel may come to.
LEMMA OpenLiveIs ==
  ASSUME NEW c \in MpChannel, NEW s \in MpType, serverUp \in BOOLEAN, NEW r \in OpenLive(c, s),
         ~s.unsure => serverUp
  PROVE  /\ r \in MpType
         /\ \/ FailedFrom(r, s)
            \/ s.channel = c /\ r.channel = c /\ r.ok /\ Alike(r, s)
            \/ serverUp /\ TunedWell(c, r)
<1>1. CASE r = [s EXCEPT !.channel = None, !.ok = FALSE]
  BY <1>1 DEF MpType, FailedFrom
<1>2. CASE s.channel = c /\ r = [s EXCEPT !.ok = TRUE]
  BY <1>2 DEF MpType, Alike
<1>3. CASE r \in Tuned(c, [s EXCEPT !.channel = None])
  <2>. DEFINE t == [s EXCEPT !.channel = None]
  <2>1. t \in MpType /\ t.channel = None /\ Alike(t, s)
    BY DEF MpType, Alike
  <2>. HIDE DEF t
  <2>2. r \in Tuned(c, t)
    BY <1>3 DEF t
  <2>. QED  BY <2>1, <2>2, TunedIs DEF Alike, FailedFrom
<1>. QED  BY <1>1, <1>2, <1>3 DEF OpenLive, FoundUp

(* Closing needs a server to have any effect; with one that answers, all   *)
(* is let go.                                                              *)
LEMMA CloseLiveIs ==
  ASSUME NEW s \in MpType, serverUp \in BOOLEAN, NEW r \in CloseLive(s)
  PROVE  /\ r \in MpType
         /\ \/ r = s /\ (serverUp => ~s.started)
            \/ /\ ~r.started /\ r.channel = None /\ r.reader = NoReader
               /\ ~r.unsure => serverUp /\ r.timeshift = NoTimeshift
<1>. DEFINE t == [s EXCEPT !.reader = NoReader, !.started = FALSE, !.channel = None]
<1>1. t \in MpType /\ ~t.started /\ t.channel = None /\ t.reader = NoReader
  BY DEF MpType, NoReader, Reader
<1>2. CASE r \in Stopped(s)
  <2>1. \/ r = [t EXCEPT !.unsure = TRUE]
        \/ serverUp /\ \E u \in BOOLEAN : r = [t EXCEPT !.timeshift = NoTimeshift, !.unsure = u]
    BY <1>2 DEF Stopped
  <2>. HIDE DEF t
  <2>2. CASE r = [t EXCEPT !.unsure = TRUE]
    BY <1>1, <2>2 DEF MpType
  <2>3. ASSUME serverUp, NEW u \in BOOLEAN,
               r = [t EXCEPT !.timeshift = NoTimeshift, !.unsure = u]
        PROVE  r \in MpType /\ ~r.started /\ r.channel = None /\ r.reader = NoReader
               /\ r.timeshift = NoTimeshift
    BY <1>1, <2>3 DEF MpType, NoTimeshift
  <2>. QED  BY <2>1, <2>2, <2>3
<1>3. CASE r = s /\ (serverUp => ~s.started)
  BY <1>3
<1>. QED  BY <1>2, <1>3 DEF CloseLive, FoundUp

\* And switching to one.
LEMMA SwitchIs ==
  ASSUME NEW c \in MpChannel, NEW s \in MpType, serverUp \in BOOLEAN, NEW r \in SwitchTo(c, s),
         Sure(s)
  PROVE  /\ r \in MpType
         /\ \/ r.channel = None /\ ~r.ok /\ Sure(r)
            \/ s.channel = c /\ r.channel = c /\ r.ok /\ Alike(r, s)
            \/ serverUp /\ TunedWell(c, r)
<1>1. CASE s.channel = c
  BY <1>1 DEF SwitchTo, MpType, Alike
<1>2. CASE s.channel # c
  <2>1. PICK t \in {s} \cup CloseLive(s) : r \in OpenLive(c, t)
    BY <1>2 DEF SwitchTo
  <2>2. t \in MpType /\ Sure(t) /\ t.channel # c
    BY <1>2, <2>1, CloseLiveIs, Names DEF Sure, Freed, NoReader, Reader
  <2>3. FailedFrom(r, t) => Sure(r)
    BY <2>2 DEF FailedFrom, Sure, Freed
  <2>. QED  BY <2>1, <2>2, <2>3, OpenLiveIs DEF Sure, FailedFrom
<1>. QED  BY <1>1, <1>2

\* The first record, and one that lost the time-shift, are what they should be.
LEMMA MpTypeIs ==
  /\ [channel |-> None, started |-> FALSE, reader |-> NoReader,
      timeshift |-> NoTimeshift, ok |-> TRUE, unsure |-> FALSE] \in MpType
  /\ \A s \in MpType, t \in {mp.timeshift, NoTimeshift} :
       mp \in MpType => [s EXCEPT !.timeshift = t, !.unsure = TRUE] \in MpType
<1>1. NoTimeshift \in [channel : MpChannel \cup {None}, file : BufferFile \cup {None}]
  BY DEF NoTimeshift
<1>2. NoReader \in [file : BufferFile \cup {None, Rec}, open : BOOLEAN]
  BY DEF NoReader, Reader
<1>3. ASSUME NEW s \in MpType, NEW t \in {mp.timeshift, NoTimeshift}, mp \in MpType
      PROVE  [s EXCEPT !.timeshift = t, !.unsure = TRUE] \in MpType
  BY <1>1, <1>3 DEF MpType
<1>. QED  BY <1>1, <1>2, <1>3 DEF MpType

(* A call that leaves a channel tuned, or none, keeps the invariant.       *)
LEMMA Opened ==
  ASSUME MPInv, NEW c \in MpChannel, Called, playing' = IF mp'.ok THEN c ELSE None,
         closed' = FALSE, mp' \in MpType,
         \/ mp'.channel = None /\ ~mp'.ok /\ Sure(mp')
         \/ mp.channel = c /\ mp'.channel = c /\ mp'.ok /\ Alike(mp', mp)
         \/ serverUp /\ TunedWell(c, mp')
  PROVE  MPInv'
<1>. USE Names DEF MPInv, MPTypes, Called, Sure
<1>1. MPTypes'
  OBVIOUS
<1>2. CASE mp'.channel = None /\ ~mp'.ok /\ Sure(mp')
  BY <1>1, <1>2 DEF Served, Freed
<1>3. CASE mp.channel = c /\ mp'.channel = c /\ mp'.ok /\ Alike(mp', mp)
  BY <1>1, <1>3 DEF Served, Freed, Alike, Reader
<1>4. CASE serverUp /\ TunedWell(c, mp')
  BY <1>1, <1>4 DEF Served, Freed, TunedWell
<1>. QED  BY <1>2, <1>3, <1>4

(* Every call of the player, and every going and coming of the server,     *)
(* keeps the invariant.                                                    *)
LEMMA MPInvKept == MPInv /\ [MPLiveNext]_mpVars => MPInv'
<1>. SUFFICES ASSUME MPInv, [MPLiveNext]_mpVars PROVE MPInv'
  OBVIOUS
<1>. USE Names
<1>1. ASSUME NEW c \in MpChannel, OpenChannel(c) PROVE MPInv'
  <2>1. mp \in MpType /\ serverUp \in BOOLEAN /\ mp' \in OpenLive(c, mp)
    BY <1>1 DEF OpenChannel, MPInv, MPTypes
  <2>2. /\ mp' \in MpType
        /\ \/ FailedFrom(mp', mp)
           \/ mp.channel = c /\ mp'.channel = c /\ mp'.ok /\ Alike(mp', mp)
           \/ serverUp /\ TunedWell(c, mp')
    BY <2>1, OpenLiveIs DEF MPInv, Sure
  <2>3. FailedFrom(mp', mp) => mp'.channel = None /\ ~mp'.ok /\ Sure(mp')
    BY <1>1 DEF FailedFrom, MPInv, Sure, Freed, OpenChannel, Called
  <2>. QED  BY <1>1, <2>2, <2>3, Opened DEF OpenChannel
<1>2. ASSUME NEW c \in MpChannel, ChangeChannel(c) PROVE MPInv'
  <2>1. mp \in MpType /\ serverUp \in BOOLEAN /\ mp' \in SwitchTo(c, mp)
    BY <1>2 DEF ChangeChannel, MPInv, MPTypes
  <2>2. /\ mp' \in MpType
        /\ \/ mp'.channel = None /\ ~mp'.ok /\ Sure(mp')
           \/ mp.channel = c /\ mp'.channel = c /\ mp'.ok /\ Alike(mp', mp)
           \/ serverUp /\ TunedWell(c, mp')
    BY <2>1, SwitchIs DEF MPInv
  <2>. QED  BY <1>2, <2>2, Opened DEF ChangeChannel
<1>3. ASSUME CloseChannel PROVE MPInv'
  <2>1. mp \in MpType /\ serverUp \in BOOLEAN /\ mp' \in CloseLive(mp)
    BY <1>3 DEF CloseChannel, MPInv, MPTypes
  <2>. QED  BY <1>3, <2>1, CloseLiveIs DEF CloseChannel, Called, MPInv, MPTypes, Sure, Served, Freed, NoReader, Reader
<1>4. ASSUME OpenRecordedStream PROVE MPInv'
  <2>1. /\ mp' \in MpType /\ mp'.channel = mp.channel /\ mp'.started = mp.started /\ mp'.timeshift = mp.timeshift
        /\ mp'.unsure = mp.unsure
        /\ mp'.reader = mp.reader \/ mp'.reader.file = Rec
    <3>1. CASE mp' = [mp EXCEPT !.ok = FALSE]
      BY <3>1 DEF MPInv, MPTypes, MpType
    <3>2. ASSUME NEW o \in BOOLEAN, mp' = [mp EXCEPT !.reader = Reader(Rec, o), !.ok = o]
          PROVE  (/\ mp' \in MpType /\ mp'.channel = mp.channel /\ mp'.started = mp.started
                  /\ mp'.timeshift = mp.timeshift /\ mp'.unsure = mp.unsure
                  /\ (mp'.reader = mp.reader \/ mp'.reader.file = Rec))
      BY <3>2 DEF MPInv, MPTypes, MpType, Reader
    <3>. QED  BY <1>4, <3>1, <3>2 DEF OpenRecordedStream, OpensRecording
  <2>. QED  BY <1>4, <2>1 DEF OpenRecordedStream, Called, MPInv, MPTypes, Sure, Served, Freed
<1>5. ASSUME CloseRecordedStream PROVE MPInv'
  <2>1. /\ mp' \in MpType /\ mp'.channel = mp.channel /\ mp'.started = mp.started /\ mp'.timeshift = mp.timeshift
        /\ mp'.unsure = mp.unsure
        /\ mp'.reader = mp.reader \/ mp'.reader = NoReader
    <3>1. mp' = mp \/ mp' = [mp EXCEPT !.reader = NoReader]
      BY <1>5 DEF CloseRecordedStream, ClosesRecording, FoundUp
    <3>2. CASE mp' = mp
      BY <3>2 DEF MPInv, MPTypes
    <3>3. CASE mp' = [mp EXCEPT !.reader = NoReader]
      BY <3>3 DEF MPInv, MPTypes, MpType, Reader, NoReader
    <3>. QED  BY <3>1, <3>2, <3>3
  <2>2. mp.channel \in MpChannel \cup {None}
    BY DEF MPInv, MPTypes, MpType
  <2>3. ~mp.unsure => mp.channel = None /\ serverUp /\ Freed(mp')
    <3>1. ~mp.unsure => mp.channel = None /\ serverUp /\ Freed(mp)
      BY <1>5, <2>2 DEF CloseRecordedStream, MPInv, Sure
    <3>. QED  BY <2>1, <3>1 DEF Freed, NoReader, Reader
  <2>. QED  BY <1>5, <2>1, <2>3 DEF CloseRecordedStream, Called, MPInv, MPTypes, Sure, Served
<1>6. ASSUME ServerLost PROVE MPInv'
  <2>1. mp' \in MpType /\ mp'.unsure
    <3>1. PICK t \in {mp.timeshift, NoTimeshift} : mp' = [mp EXCEPT !.timeshift = t, !.unsure = TRUE]
      BY <1>6 DEF ServerLost
    <3>. QED  BY <3>1, MpTypeIs DEF MPInv, MPTypes, MpType
  <2>. QED  BY <1>6, <2>1 DEF ServerLost, MPInv, MPTypes, Sure
<1>7. ASSUME ServerBack PROVE MPInv'
  BY <1>7 DEF ServerBack, MPInv, MPTypes, Sure, Freed, Served
<1>8. CASE UNCHANGED mpVars
  BY <1>8 DEF mpVars, MPInv, MPTypes, Sure, Freed, Served
<1>. QED  BY <1>1, <1>2, <1>3, <1>4, <1>5, <1>6, <1>7, <1>8 DEF MPLiveNext

(* The MediaPortal client plays what the server was asked for, and a close *)
(* lets it go, as long as the server was heard from.                       *)
THEOREM LiveServed == MPLiveSpec => []LiveFollowsServer
<1>1. MPLiveInit => MPInv
  <2>. SUFFICES ASSUME MPLiveInit PROVE MPInv
    OBVIOUS
  <2>1. MPTypes
    BY MpTypeIs DEF MPLiveInit, MPTypes
  <2>2. mp.channel = None /\ Freed(mp)
    BY DEF MPLiveInit, Freed, NoReader, Reader
  <2>. QED  BY <2>1, <2>2, Names DEF MPLiveInit, MPInv, Sure, Served
<1>2. MPInv /\ [MPLiveNext]_mpVars => MPInv'
  BY MPInvKept
<1>3. MPInv => LiveFollowsServer
  BY DEF MPInv, Sure, Served, Freed, LiveFollowsServer, CurrentIsServed, CloseFreesAll, PlaysWhatWasOpened
<1>. QED  BY <1>1, <1>2, <1>3, PTL DEF MPLiveSpec

-----------------------------------------------------------------------------
(* VuRecordings                                                            *)

(* What the list and the file hold of a recording.                         *)
PlayedEntry == [url : Recording, position : Position]

(* The types, and what a client that does not run has.                     *)
RecordingTypes ==
  /\ stored \subseteq Recording
  /\ running \in BOOLEAN /\ complete \in BOOLEAN /\ storing \in BOOLEAN
  /\ unsaved \subseteq Recording /\ forgotten \subseteq Recording
  /\ locations \in {<<>>, Location}
  /\ recordings \in Seq(PlayedEntry) /\ positions \subseteq PlayedEntry
  /\ fetching \in 0..(Len(Location) + 1)
  /\ lastSet \in [Recording -> Position]
  /\ ~running => recordings = <<>> /\ fetching = 0 /\ ~complete /\ ~storing /\ unsaved = {}
  /\ storing => running /\ fetching = 0 /\ unsaved = {}
  /\ complete => fetching = 0
  /\ locations = <<>> => recordings = <<>>

(* The list has each recording once, for it is of one location, and the    *)
(* locations fetched are before the next one.                              *)
ListedOnce ==
  /\ \A i, j \in DOMAIN recordings : recordings[i].url = recordings[j].url => i = j
  /\ fetching # 0 =>
       \A i \in DOMAIN recordings :
         \E k \in 1..(fetching - 1) : Directory[recordings[i].url] = locations[k]

(* What was set last is in the list, or in the file, unless it was lost: a *)
(* position the file does not have yet is in the list, which has every     *)
(* recording of the locations fetched that was ever played.                *)
PlayedListed ==
  /\ fetching # 0 =>
       \A r \in stored, k \in 1..(fetching - 1) :
         Directory[r] = locations[k] /\ lastSet[r] # 0 => r \in Urls(recordings)
  /\ complete => \A r \in stored : lastSet[r] # 0 => r \in Urls(recordings)

ListTells ==
  \A i \in DOMAIN recordings :
    recordings[i].url \in stored \ forgotten =>
      recordings[i].position = IF fetching = 0 \/ ~InFile(recordings[i].url)
                               THEN lastSet[recordings[i].url] ELSE 0

FileTells ==
  \A r \in stored \ (forgotten \cup unsaved) :
    /\ \A e \in positions : e.url = r => e.position = lastSet[r]
    /\ ~InFile(r) => lastSet[r] = 0

UnsavedListed ==
  \A r \in unsaved \ forgotten :
    r \in Urls(recordings) /\ (fetching # 0 => ~InFile(r))

PositionsKnown == PlayedListed /\ ListTells /\ FileTells /\ UnsavedListed

(* The inductive invariant.                                                *)
PlayedInv == RecordingTypes /\ ListedOnce /\ PositionsKnown

(* The locations differ, and a recording is in one of them.                *)
LEMMA Locations ==
  /\ IsFiniteSet(Recording)
  /\ DOMAIN Location = 1..Len(Location) /\ Len(Location) \in Nat
  /\ \A i, j \in DOMAIN Location : Location[i] = Location[j] => i = j
  /\ \A r \in Recording : \E k \in DOMAIN Location : Directory[r] = Location[k]
BY DirectoryAssumption DEF IsInjective, Range

(* What an entry of the list is, and a list without any.                   *)
LEMMA EntryIs ==
  /\ \A e \in PlayedEntry : e.url \in Recording /\ e.position \in Position
  /\ \A r \in Recording, p \in Position :
       /\ [url |-> r, position |-> p] \in PlayedEntry
       /\ [url |-> r, position |-> p].url = r /\ [url |-> r, position |-> p].position = p
  /\ <<>> \in Seq(PlayedEntry) /\ DOMAIN <<>> = {} /\ Urls(<<>>) = {} /\ Range(<<>>) = {}
  /\ 0 \in Position
<1>1. DOMAIN <<>> = {}
  OBVIOUS
<1>. QED  BY <1>1 DEF PlayedEntry, Position, Urls, Range

(* The recordings of a location, as GetRecordingFromLocation lists them.   *)
LEMMA AnswerIs ==
  ASSUME RecordingTypes, NEW here, here = {r \in stored : Directory[r] = locations[fetching]},
         NEW new, new = [i \in DOMAIN SetToSeq(here) |-> [url |-> SetToSeq(here)[i], position |-> 0]]
  PROVE  /\ new \in Seq(PlayedEntry)
         /\ \A i \in DOMAIN new : new[i].position = 0 /\ new[i].url \in here
         /\ \A i, j \in DOMAIN new : new[i].url = new[j].url => i = j
         /\ here \subseteq Urls(new)
<1>1. IsFiniteSet(here) /\ here \subseteq Recording
  BY Locations, FS_Subset DEF RecordingTypes
<1> DEFINE list == SetToSeq(here)
<1>2. /\ list \in Seq(here) /\ Range(list) = here
      /\ \A i, j \in DOMAIN list : list[i] = list[j] => i = j
  BY <1>1, Listed
<1>. HIDE DEF list
<1>3. DOMAIN list = 1..Len(list) /\ Len(list) \in Nat /\ \A i \in DOMAIN list : list[i] \in here
  BY <1>2
<1>4. new = [i \in DOMAIN list |-> [url |-> list[i], position |-> 0]]
  BY DEF list
<1>5. DOMAIN new = DOMAIN list /\ \A i \in DOMAIN new : /\ new[i] = [url |-> list[i], position |-> 0]
                                                      /\ new[i].url = list[i] /\ new[i].position = 0
  <2>1. DOMAIN new = DOMAIN list /\ \A i \in DOMAIN list : new[i] = [url |-> list[i], position |-> 0]
    BY <1>4, Zenon
  <2>2. \A u : [url |-> u, position |-> 0].url = u /\ [url |-> u, position |-> 0].position = 0
    OBVIOUS
  <2>. QED  BY <2>1, <2>2, Zenon
<1>6. new \in Seq(PlayedEntry)
  <2>1. \A i \in DOMAIN list : [url |-> list[i], position |-> 0] \in PlayedEntry
    BY <1>1, <1>3, EntryIs
  <2>2. new = [i \in 1..Len(list) |-> new[i]]
    BY <1>3, <1>4, <1>5, Zenon
  <2>3. \A i \in 1..Len(list) : new[i] \in PlayedEntry
    BY <1>3, <1>5, <2>1
  <2>4. \A n \in Nat : \A f : f = [i \in 1..n |-> f[i]] /\ (\A i \in 1..n : f[i] \in PlayedEntry)
          => f \in Seq(PlayedEntry)
    OBVIOUS
  <2>. QED  BY <1>3, <2>2, <2>3, <2>4, Zenon
<1>7. here \subseteq Urls(new)
  <2>1. \A r \in here : \E i \in DOMAIN list : list[i] = r
    BY <1>2 DEF Range
  <2>. QED  BY <1>5, <2>1 DEF Urls
<1>8. \A i \in DOMAIN new : new[i].position = 0 /\ new[i].url \in here
  BY <1>3, <1>5, Zenon
<1>9. \A i, j \in DOMAIN new : new[i].url = new[j].url => i = j
  BY <1>2, <1>5, ZenonT(30)
<1>. QED  BY <1>6, <1>7, <1>8, <1>9, Zenon

(* A list and another behind it.                                           *)
LEMMA TwoLists ==
  ASSUME NEW a \in Seq(PlayedEntry), NEW b \in Seq(PlayedEntry)
  PROVE  /\ a \o b \in Seq(PlayedEntry)
         /\ \A i \in DOMAIN (a \o b) : \/ i \in DOMAIN a /\ (a \o b)[i] = a[i]
                                       \/ i \notin DOMAIN a /\ i - Len(a) \in DOMAIN b /\ (a \o b)[i] = b[i - Len(a)]
         /\ \A i \in DOMAIN (a \o b) : i \in Nat
         /\ Urls(a \o b) = Urls(a) \cup Urls(b)
<1>1. /\ DOMAIN a = 1..Len(a) /\ DOMAIN b = 1..Len(b) /\ DOMAIN (a \o b) = 1..(Len(a) + Len(b))
      /\ Len(a) \in Nat /\ Len(b) \in Nat
      /\ \A i \in 1..(Len(a) + Len(b)) : (a \o b)[i] = IF i <= Len(a) THEN a[i] ELSE b[i - Len(a)]
  BY ConcatProperties
<1>2. \A i \in DOMAIN (a \o b) : \/ i \in DOMAIN a /\ (a \o b)[i] = a[i]
                                 \/ i \notin DOMAIN a /\ i - Len(a) \in DOMAIN b /\ (a \o b)[i] = b[i - Len(a)]
  BY <1>1
<1>3. \A i \in DOMAIN a : i \in DOMAIN (a \o b) /\ (a \o b)[i] = a[i]
  BY <1>1
<1>4. \A i \in DOMAIN b : Len(a) + i \in DOMAIN (a \o b) /\ (a \o b)[Len(a) + i] = b[i]
  BY <1>1
<1>5. Urls(a \o b) = Urls(a) \cup Urls(b)
  <2>1. Urls(a \o b) \subseteq Urls(a) \cup Urls(b)
    BY <1>2 DEF Urls
  <2>2. Urls(a) \subseteq Urls(a \o b)
    BY <1>3 DEF Urls
  <2>3. Urls(b) \subseteq Urls(a \o b)
    BY <1>4 DEF Urls
  <2>. QED  BY <2>1, <2>2, <2>3
<1>. QED  BY <1>1, <1>2, <1>5

(* What a list restored from the file has: the positions of the file, and  *)
(* its own where the file has none.                                        *)
LEMMA RestoredIs ==
  ASSUME RecordingTypes
  PROVE  LET list == Restored(recordings)
         IN  /\ list \in Seq(PlayedEntry) /\ DOMAIN list = DOMAIN recordings
             /\ (list = <<>>) = (recordings = <<>>)
             /\ \A i \in DOMAIN list :
                  /\ list[i].url = recordings[i].url
                  /\ \/ /\ \A e \in positions : e.url # list[i].url
                        /\ list[i].position = recordings[i].position
                     \/ \E e \in positions : e.url = list[i].url /\ list[i].position = e.position
<1> DEFINE list == Restored(recordings)
           known(i) == {p \in positions : p.url = recordings[i].url}
<1>1. /\ DOMAIN recordings = 1..Len(recordings) /\ Len(recordings) \in Nat
      /\ \A i \in DOMAIN recordings : recordings[i] \in PlayedEntry
      /\ positions \subseteq PlayedEntry
  BY DEF RecordingTypes
<1>2. ASSUME NEW i \in DOMAIN recordings
      PROVE  /\ list[i] \in PlayedEntry /\ list[i].url = recordings[i].url
             /\ \/ known(i) = {} /\ list[i].position = recordings[i].position
                \/ \E e \in known(i) : list[i].position = e.position
  <2>0. list[i] = IF known(i) = {} THEN recordings[i]
                  ELSE [recordings[i] EXCEPT !.position = (CHOOSE p \in known(i) : TRUE).position]
    BY DEF Restored
  <2>1. CASE known(i) = {}
    BY <1>1, <2>0, <2>1
  <2>2. CASE known(i) # {}
    <3> DEFINE e == CHOOSE p \in known(i) : TRUE
    <3>1. e \in known(i)
      BY <2>2
    <3>. HIDE DEF e
    <3>2. e.position \in Position /\ recordings[i] \in PlayedEntry
      BY <1>1, <3>1, EntryIs
    <3>3. ASSUME NEW x \in PlayedEntry, NEW p \in Position
          PROVE  /\ [x EXCEPT !.position = p] \in PlayedEntry
                 /\ [x EXCEPT !.position = p].url = x.url /\ [x EXCEPT !.position = p].position = p
      BY DEF PlayedEntry
    <3>4. list[i] = [recordings[i] EXCEPT !.position = e.position]
      BY <2>0, <2>2 DEF e
    <3>. QED  BY <3>1, <3>2, <3>3, <3>4
  <2>. QED  BY <2>1, <2>2
<1>3. DOMAIN list = DOMAIN recordings
  BY DEF Restored
<1>4. list \in Seq(PlayedEntry)
  <2>1. list = [i \in 1..Len(recordings) |-> list[i]]
    BY <1>1 DEF Restored
  <2>2. \A i \in 1..Len(recordings) : list[i] \in PlayedEntry
    BY <1>1, <1>2
  <2>. HIDE DEF list
  <2>. QED  BY <1>1, <2>1, <2>2
<1>5. (list = <<>>) = (recordings = <<>>)
  <2>1. \A s \in Seq(PlayedEntry) : s = <<>> <=> DOMAIN s = {}
    OBVIOUS
  <2>2. recordings \in Seq(PlayedEntry)
    BY DEF RecordingTypes
  <2>. QED  BY <1>3, <1>4, <2>1, <2>2
<1>. QED  BY <1>2, <1>3, <1>4, <1>5

(* The initial states.                                                     *)
LEMMA PlayedInit == VuRecordingsInit => PlayedInv
<1>. SUFFICES ASSUME VuRecordingsInit PROVE PlayedInv
  OBVIOUS
<1>. USE DEF VuRecordingsInit
<1>1. \A r \in Recording : 0 \in Position /\ lastSet[r] = 0
  BY DEF Position
<1>2. RecordingTypes
  <2>1. lastSet \in [Recording -> Position]
    BY DEF Position
  <2>2. recordings \in Seq(PlayedEntry) /\ positions \subseteq PlayedEntry
    BY EntryIs
  <2>3. fetching \in 0..(Len(Location) + 1)
    BY Locations
  <2>. QED  BY <2>1, <2>2, <2>3 DEF RecordingTypes
<1>3. ListedOnce
  BY EntryIs DEF ListedOnce
<1>4. PositionsKnown
  BY <1>1, EntryIs DEF PositionsKnown, PlayedListed, ListTells, FileTells, UnsavedListed
<1>. QED  BY <1>2, <1>3, <1>4 DEF PlayedInv

(* What is always so of a client that fetches its list.                    *)
LEMMA FetchIs ==
  ASSUME RecordingTypes
  PROVE  /\ DOMAIN recordings = 1..Len(recordings) /\ Len(recordings) \in Nat
         /\ \A i \in DOMAIN recordings :
              /\ recordings[i] \in PlayedEntry
              /\ recordings[i].url \in Recording /\ recordings[i].position \in Position
         /\ Range(recordings) \subseteq PlayedEntry
         /\ fetching \in Nat /\ DOMAIN locations = 1..Len(locations) /\ Len(locations) \in Nat
         /\ Len(locations) <= Len(Location)
         /\ fetching \in DOMAIN locations =>
              fetching # 0 /\ running /\ ~complete /\ locations = Location
         /\ recordings = <<>> <=> DOMAIN recordings = {}
<1>1. /\ DOMAIN recordings = 1..Len(recordings) /\ Len(recordings) \in Nat
      /\ \A i \in DOMAIN recordings : recordings[i] \in PlayedEntry
      /\ fetching \in Nat
  BY Locations DEF RecordingTypes
<1>2. \A i \in DOMAIN recordings :
              recordings[i].url \in Recording /\ recordings[i].position \in Position
  BY <1>1, EntryIs
<1>3. Range(recordings) \subseteq PlayedEntry
  BY <1>1 DEF Range
<1>4. /\ DOMAIN locations = 1..Len(locations) /\ Len(locations) \in Nat
      /\ Len(locations) <= Len(Location)
  <2>1. CASE locations = <<>>
    <3>1. Len(<<>>) = 0 /\ DOMAIN <<>> = 1..0
      OBVIOUS
    <3>. QED  BY <2>1, <3>1, Locations
  <2>2. CASE locations = Location
    BY <2>2, Locations
  <2>. QED  BY <2>1, <2>2 DEF RecordingTypes
<1>5. fetching \in DOMAIN locations => fetching # 0 /\ running /\ ~complete /\ locations = Location
  <2>1. fetching \in DOMAIN locations => fetching # 0 /\ locations # <<>>
    BY <1>1, <1>4
  <2>. QED  BY <2>1 DEF RecordingTypes
<1>6. recordings = <<>> <=> DOMAIN recordings = {}
  <2>1. \A s \in Seq(PlayedEntry) : s = <<>> <=> DOMAIN s = {}
    OBVIOUS
  <2>. QED  BY <2>1 DEF RecordingTypes
<1>. QED  BY <1>1, <1>2, <1>3, <1>4, <1>5, <1>6

(* A position is set: the entry of the recording has it, and all else is   *)
(* as it was.                                                              *)
LEMMA SetIs ==
  ASSUME RecordingTypes, SetRecordingLastPlayedPosition
  PROVE  \E i \in DOMAIN recordings, p \in Position :
           /\ recordings' \in Seq(PlayedEntry) /\ DOMAIN recordings' = DOMAIN recordings
           /\ recordings'[i].url = recordings[i].url /\ recordings'[i].position = p
           /\ \A j \in DOMAIN recordings : j # i => recordings'[j] = recordings[j]
           /\ lastSet' \in [Recording -> Position] /\ lastSet'[recordings[i].url] = p
           /\ \A r \in Recording : r # recordings[i].url => lastSet'[r] = lastSet[r]
           /\ \/ /\ storing \/ (fetching # 0 /\ InFile(recordings[i].url))
                 /\ forgotten' = forgotten \cup {recordings[i].url} /\ unsaved' = unsaved
              \/ /\ ~storing /\ (fetching # 0 => ~InFile(recordings[i].url))
                 /\ forgotten' = forgotten \ {recordings[i].url}
                 /\ unsaved' = unsaved \cup {recordings[i].url}
<1> DEFINE late(r) == storing \/ (fetching # 0 /\ InFile(r))
<1>1. PICK i \in DOMAIN recordings, p \in Position :
        /\ recordings' = [recordings EXCEPT ![i].position = p]
        /\ lastSet' = [lastSet EXCEPT ![recordings[i].url] = p]
        /\ forgotten' = IF late(recordings[i].url) THEN forgotten \cup {recordings[i].url}
                        ELSE forgotten \ {recordings[i].url}
        /\ unsaved' = IF late(recordings[i].url) THEN unsaved ELSE unsaved \cup {recordings[i].url}
  BY DEF SetRecordingLastPlayedPosition
<1>2. recordings[i] \in PlayedEntry /\ recordings[i].url \in Recording
  BY FetchIs
<1> DEFINE new == [recordings[i] EXCEPT !.position = p]
<1>3. new \in PlayedEntry /\ new.url = recordings[i].url /\ new.position = p
  BY <1>2 DEF PlayedEntry
<1>4. recordings' = [recordings EXCEPT ![i] = new]
  BY <1>1
<1>. HIDE DEF new
<1>5. recordings \in Seq(PlayedEntry) /\ lastSet \in [Recording -> Position]
  BY DEF RecordingTypes
<1>6. /\ recordings' \in Seq(PlayedEntry) /\ DOMAIN recordings' = DOMAIN recordings
      /\ recordings'[i] = new
      /\ \A j \in DOMAIN recordings : j # i => recordings'[j] = recordings[j]
  BY <1>3, <1>4, <1>5
<1>7. /\ lastSet' \in [Recording -> Position] /\ lastSet'[recordings[i].url] = p
      /\ \A r \in Recording : r # recordings[i].url => lastSet'[r] = lastSet[r]
  BY <1>1, <1>2, <1>5
<1>8. \/ /\ late(recordings[i].url)
         /\ forgotten' = forgotten \cup {recordings[i].url} /\ unsaved' = unsaved
      \/ /\ ~late(recordings[i].url)
         /\ forgotten' = forgotten \ {recordings[i].url}
         /\ unsaved' = unsaved \cup {recordings[i].url}
  BY <1>1, Zenon
<1>. QED  BY <1>3, <1>6, <1>7, <1>8

(* Every operation keeps the types.                                        *)
LEMMA RecordingTypesKept ==
  ASSUME PlayedInv, VuRecordingsNext
  PROVE  RecordingTypes'
<1>. RecordingTypes
  BY DEF PlayedInv
<1>0. StoreLastPlayedPositions =>
        positions' \subseteq PlayedEntry /\ forgotten' \subseteq Recording /\ unsaved' = {}
  BY FetchIs DEF StoreLastPlayedPositions, RecordingTypes, Played
<1>1. CASE OpenConnected
  BY <1>1 DEF OpenConnected, RecordingTypes
<1>2. CASE OpenUnreachable
  BY <1>0, <1>2 DEF OpenUnreachable, RecordingTypes
<1>3. CASE Quit
  BY <1>0, <1>3, EntryIs, Locations DEF Quit, Ended, RecordingTypes
<1>4. CASE GetRecordingsStarts
  <2>1. positions' \subseteq PlayedEntry /\ forgotten' \subseteq Recording
    BY <1>0, <1>4 DEF GetRecordingsStarts, RecordingTypes
  <2>2. CASE recordings = <<>>
    <3>1. /\ running /\ ~storing /\ fetching' = 1 /\ fetching' \in 0..(Len(Location) + 1)
          /\ complete' = FALSE
          /\ UNCHANGED <<stored, running, locations, recordings, lastSet, storing, unsaved>>
      BY <1>4, <2>2, Locations DEF GetRecordingsStarts
    <3>. QED  BY <2>1, <3>1 DEF RecordingTypes
  <2>3. CASE recordings # <<>>
    <3>1. running /\ storing' /\ fetching = 0 /\ unsaved' = {}
          /\ UNCHANGED <<fetching, stored, running, locations, recordings, complete, lastSet>>
      BY <1>0, <1>4, <2>3 DEF GetRecordingsStarts
    <3>. QED  BY <2>1, <3>1 DEF RecordingTypes
  <2>. QED  BY <2>2, <2>3
<1>11. CASE Killed
  <2>1. /\ positions' \subseteq PlayedEntry /\ forgotten' \subseteq Recording /\ unsaved' = {}
    BY <1>11 DEF Killed, RecordingTypes, Played
  <2>2. Ended
    BY <1>11 DEF Killed
  <2>3. /\ recordings' = <<>> /\ recordings' \in Seq(PlayedEntry) /\ fetching' = 0
        /\ fetching' \in 0..(Len(Location) + 1) /\ complete' = FALSE /\ storing' = FALSE
        /\ running' = FALSE /\ locations' = <<>> /\ UNCHANGED <<stored, lastSet>>
    BY <2>2, EntryIs, Locations DEF Ended
  <2>. QED  BY <2>1, <2>3 DEF RecordingTypes
<1>12. CASE ListCleared
  <2>1. fetching' = 1 /\ fetching' \in 0..(Len(Location) + 1) /\ unsaved' = {} /\ forgotten' = forgotten
    BY <1>12, Locations DEF ListCleared, RecordingTypes
  <2>2. recordings' = <<>> /\ recordings' \in Seq(PlayedEntry) /\ complete' = FALSE /\ storing' = FALSE
        /\ running /\ UNCHANGED <<stored, running, locations, positions, lastSet>>
    BY <1>12, EntryIs DEF ListCleared, RecordingTypes
  <2>. QED  BY <2>1, <2>2 DEF RecordingTypes
<1>5. CASE LocationAnswers
  <2> DEFINE here == {r \in stored : Directory[r] = locations[fetching]}
             new == [i \in DOMAIN SetToSeq(here) |-> [url |-> SetToSeq(here)[i], position |-> 0]]
  <2>1. recordings' = recordings \o new
    BY <1>5 DEF LocationAnswers
  <2>2. new \in Seq(PlayedEntry)
    BY AnswerIs
  <2>. HIDE DEF new
  <2>3. recordings' \in Seq(PlayedEntry)
    BY <2>1, <2>2, TwoLists DEF RecordingTypes
  <2>4. fetching' \in 0..(Len(Location) + 1)
    BY <1>5, FetchIs, Locations DEF LocationAnswers
  <2>. QED  BY <1>5, <2>3, <2>4, FetchIs DEF LocationAnswers, RecordingTypes
<1>6. CASE LocationFails
  BY <1>6, FetchIs, Locations DEF LocationFails, RecordingTypes, Played
<1>7. CASE GetRecordingsEnds
  <2>1. recordings' \in Seq(PlayedEntry) /\ (recordings' = <<>>) = (recordings = <<>>)
    BY <1>7, RestoredIs DEF GetRecordingsEnds
  <2>. QED  BY <1>7, <2>1, Locations DEF GetRecordingsEnds, RecordingTypes
<1>8. CASE SetRecordingLastPlayedPosition
  <2>1. /\ recordings' \in Seq(PlayedEntry) /\ DOMAIN recordings' = DOMAIN recordings
        /\ lastSet' \in [Recording -> Position] /\ recordings # <<>>
        /\ unsaved' \subseteq Recording /\ forgotten' \subseteq Recording
        /\ storing => unsaved' = unsaved
    BY <1>8, SetIs, FetchIs DEF RecordingTypes
  <2>. QED  BY <1>8, <2>1 DEF SetRecordingLastPlayedPosition, RecordingTypes
<1>9. CASE RecordingMade
  BY <1>9 DEF RecordingMade, RecordingTypes
<1>10. CASE RecordingDeleted
  BY <1>10 DEF RecordingDeleted, RecordingTypes
<1>. QED  BY <1>1, <1>2, <1>3, <1>4, <1>5, <1>6, <1>7, <1>8, <1>9, <1>10, <1>11, <1>12
         DEF VuRecordingsNext

(* Every operation keeps what is said of the list's recordings: a list     *)
(* starts empty, and what a location answers is of no location before it.  *)
LEMMA ListedOnceKept ==
  ASSUME PlayedInv, VuRecordingsNext
  PROVE  ListedOnce'
<1>. RecordingTypes /\ ListedOnce
  BY DEF PlayedInv
<1>1. CASE recordings' = <<>>
  <2>1. DOMAIN recordings' = {}
    BY <1>1, EntryIs
  <2>. QED  BY <2>1 DEF ListedOnce
<1>2. CASE LocationAnswers
  <2> DEFINE here == {r \in stored : Directory[r] = locations[fetching]}
             new == [i \in DOMAIN SetToSeq(here) |-> [url |-> SetToSeq(here)[i], position |-> 0]]
  <2>1. recordings' = recordings \o new /\ fetching' = fetching + 1 /\ locations' = locations
    BY <1>2 DEF LocationAnswers
  <2>2. /\ new \in Seq(PlayedEntry) /\ \A i \in DOMAIN new : new[i].url \in here
        /\ \A i, j \in DOMAIN new : new[i].url = new[j].url => i = j
    BY AnswerIs
  <2>. HIDE DEF new
  <2>3. fetching \in DOMAIN locations /\ fetching # 0 /\ locations = Location /\ fetching \in Nat
    BY <1>2, FetchIs DEF LocationAnswers
  <2>4. \A i \in DOMAIN recordings' :
          \/ i \in DOMAIN recordings /\ recordings'[i] = recordings[i]
          \/ i \notin DOMAIN recordings /\ i - Len(recordings) \in DOMAIN new
             /\ recordings'[i] = new[i - Len(recordings)]
    BY <2>1, <2>2, TwoLists DEF RecordingTypes
  <2>5. \A i \in DOMAIN recordings' : i \in Nat
    BY <2>1, <2>2, TwoLists DEF RecordingTypes
  <2>6. \A i \in DOMAIN recordings :
          \E k \in 1..(fetching - 1) : Directory[recordings[i].url] = locations[k]
    BY <2>3 DEF ListedOnce
  <2>7. \A i \in DOMAIN recordings : Directory[recordings[i].url] # locations[fetching]
    <3>1. \A k \in 1..(fetching - 1) : k \in DOMAIN Location /\ k # fetching
      BY <2>3, Locations
    <3>. QED  BY <2>3, <2>6, <3>1, Locations
  <2>8. \A i \in DOMAIN new : Directory[new[i].url] = locations[fetching]
    BY <2>2
  <2>9. ASSUME NEW i \in DOMAIN recordings', NEW j \in DOMAIN recordings',
               recordings'[i].url = recordings'[j].url
        PROVE  i = j
    <3>1. CASE i \in DOMAIN recordings
      <4>1. recordings'[i] = recordings[i]
        BY <2>4, <3>1
      <4>2. j \in DOMAIN recordings /\ recordings'[j] = recordings[j]
        BY <2>4, <2>7, <2>8, <2>9, <3>1, <4>1
      <4>. QED  BY <2>9, <3>1, <4>1, <4>2 DEF ListedOnce
    <3>2. CASE i \notin DOMAIN recordings
      <4>1. i - Len(recordings) \in DOMAIN new /\ recordings'[i] = new[i - Len(recordings)]
        BY <2>4, <3>2
      <4>2. j - Len(recordings) \in DOMAIN new /\ recordings'[j] = new[j - Len(recordings)]
        BY <2>4, <2>7, <2>8, <2>9, <3>2, <4>1
      <4>3. i - Len(recordings) = j - Len(recordings)
        BY <2>2, <2>9, <4>1, <4>2
      <4>. QED  BY <2>5, <4>3, FetchIs
    <3>. QED  BY <3>1, <3>2
  <2>10. ASSUME NEW i \in DOMAIN recordings'
         PROVE  \E k \in 1..(fetching' - 1) : Directory[recordings'[i].url] = locations'[k]
    <3>1. \A k \in 1..(fetching - 1) : k \in 1..(fetching' - 1)
      BY <2>1, <2>3
    <3>2. fetching \in 1..(fetching' - 1)
      BY <2>1, <2>3
    <3>3. CASE i \in DOMAIN recordings
      BY <2>1, <2>4, <2>6, <3>1, <3>3
    <3>4. CASE i \notin DOMAIN recordings
      BY <2>1, <2>4, <2>8, <3>2, <3>4
    <3>. QED  BY <3>3, <3>4
  <2>. QED  BY <2>9, <2>10 DEF ListedOnce
<1>3. CASE GetRecordingsEnds
  <2>1. /\ DOMAIN recordings' = DOMAIN recordings /\ fetching' = 0
        /\ \A i \in DOMAIN recordings : recordings'[i].url = recordings[i].url
    BY <1>3, RestoredIs DEF GetRecordingsEnds
  <2>. QED  BY <2>1 DEF ListedOnce
<1>4. CASE SetRecordingLastPlayedPosition
  <2>1. /\ DOMAIN recordings' = DOMAIN recordings
        /\ \A i \in DOMAIN recordings : recordings'[i].url = recordings[i].url
    BY <1>4, SetIs
  <2>. QED  BY <1>4, <2>1 DEF ListedOnce, SetRecordingLastPlayedPosition
<1>5. CASE /\ recordings' = recordings
           /\ fetching' = 0 \/ UNCHANGED <<fetching, locations>>
  BY <1>5 DEF ListedOnce
<1>6. OpenConnected => recordings' = <<>>
  BY DEF OpenConnected, RecordingTypes
<1>7. CASE GetRecordingsStarts
  <2>1. recordings = <<>> => DOMAIN recordings = {}
    BY EntryIs
  <2>. QED  BY <1>1, <1>5, <1>7 DEF GetRecordingsStarts
<1>. QED  BY <1>1, <1>2, <1>3, <1>4, <1>5, <1>6, <1>7 DEF VuRecordingsNext, OpenUnreachable, Quit,
              Killed, Ended, ListCleared, LocationFails, RecordingMade, RecordingDeleted

(* A list stored in the file: the file tells of every recording on the box *)
(* whose position was not lost now.                                        *)
LEMMA ListStored ==
  ASSUME PlayedInv, StoreLastPlayedPositions, fetching = 0
  PROVE  /\ unsaved' = {} /\ forgotten \subseteq forgotten'
         /\ \A r \in stored \ forgotten' :
              /\ \A e \in positions' : e.url = r => e.position = lastSet[r]
              /\ (\A e \in positions' : e.url # r) => lastSet[r] = 0
<1>. RecordingTypes /\ PositionsKnown
  BY DEF PlayedInv
<1>1. CASE /\ positions' = Range(recordings)
           /\ forgotten' = forgotten \cup IF complete THEN {} ELSE Played \ Urls(recordings)
  <2>1. ASSUME NEW r \in stored \ forgotten', NEW e \in positions', e.url = r
        PROVE  e.position = lastSet[r]
    <3>1. PICK i \in DOMAIN recordings : recordings[i] = e
      BY <1>1 DEF Range
    <3>. QED  BY <1>1, <2>1, <3>1 DEF PositionsKnown, ListTells
  <2>2. ASSUME NEW r \in stored \ forgotten', \A e \in positions' : e.url # r
        PROVE  lastSet[r] = 0
    <3>1. r \notin Urls(recordings)
      BY <1>1, <2>2 DEF Range, Urls
    <3>2. CASE complete
      BY <3>1, <3>2 DEF PositionsKnown, PlayedListed
    <3>3. CASE ~complete
      BY <1>1, <3>1, <3>3 DEF Played, RecordingTypes
    <3>. QED  BY <3>2, <3>3
  <2>. QED  BY <1>1, <2>1, <2>2 DEF StoreLastPlayedPositions
<1>2. CASE UNCHANGED positions /\ forgotten' = forgotten \cup unsaved
  BY <1>2 DEF StoreLastPlayedPositions, PositionsKnown, FileTells, InFile
<1>. QED  BY <1>1, <1>2 DEF StoreLastPlayedPositions

(* The client has ended: what is known is what the file tells.             *)
LEMMA EndedKnows ==
  ASSUME RecordingTypes, Ended, unsaved' = {},
         \A r \in stored \ forgotten' :
              /\ \A e \in positions' : e.url = r => e.position = lastSet[r]
              /\ (\A e \in positions' : e.url # r) => lastSet[r] = 0
  PROVE  PositionsKnown'
<1>1. /\ DOMAIN recordings' = {} /\ ~complete' /\ fetching' = 0
      /\ stored' = stored /\ lastSet' = lastSet
  BY EntryIs DEF Ended
<1>2. FileTells'
  BY <1>1 DEF FileTells, InFile
<1>. QED  BY <1>1, <1>2 DEF PositionsKnown, PlayedListed, ListTells, UnsavedListed

(* Every operation keeps what is known of the positions.                   *)
LEMMA PositionsKnownKept ==
  ASSUME PlayedInv, VuRecordingsNext
  PROVE  PositionsKnown'
<1>. RecordingTypes /\ ListedOnce /\ PositionsKnown
  BY DEF PlayedInv
<1>. DOMAIN <<>> = {} /\ Urls(<<>>) = {}
  BY EntryIs
<1>. USE DEF InFile
<1>1. CASE OpenConnected
  BY <1>1 DEF OpenConnected, RecordingTypes, PositionsKnown, PlayedListed, ListTells, FileTells,
              UnsavedListed
<1>2. CASE OpenUnreachable
  <2>1. /\ recordings' = <<>> /\ fetching = 0 /\ fetching' = 0 /\ ~complete'
        /\ UNCHANGED <<stored, lastSet>> /\ StoreLastPlayedPositions
    BY <1>2 DEF OpenUnreachable, RecordingTypes
  <2>2. /\ unsaved' = {}
        /\ \A r \in stored \ forgotten' :
              /\ \A e \in positions' : e.url = r => e.position = lastSet[r]
              /\ (\A e \in positions' : e.url # r) => lastSet[r] = 0
    BY <2>1, ListStored
  <2>. QED  BY <2>1, <2>2 DEF PositionsKnown, PlayedListed, ListTells, FileTells, UnsavedListed
<1>3. CASE Quit
  BY <1>3, ListStored, EndedKnows DEF Quit
<1>4. CASE Killed
  <2>1. CASE UNCHANGED positions /\ forgotten' = forgotten \cup unsaved
    <3>1. \A r \in stored \ forgotten' :
              /\ \A e \in positions' : e.url = r => e.position = lastSet[r]
              /\ (\A e \in positions' : e.url # r) => lastSet[r] = 0
      BY <2>1 DEF PositionsKnown, FileTells
    <3>. QED  BY <1>4, <3>1, EndedKnows DEF Killed
  <2>2. CASE positions' = {} /\ forgotten' = forgotten \cup Played
    <3>1. \A r \in stored \ forgotten' : lastSet[r] = 0
      BY <2>2 DEF Played, RecordingTypes
    <3>2. \A r \in stored \ forgotten' :
              /\ \A e \in positions' : e.url = r => e.position = lastSet[r]
              /\ (\A e \in positions' : e.url # r) => lastSet[r] = 0
      BY <2>2, <3>1
    <3>. QED  BY <1>4, <3>2, EndedKnows DEF Killed
  <2>. QED  BY <1>4, <2>1, <2>2 DEF Killed
<1>5. CASE GetRecordingsStarts
  <2>1. UNCHANGED <<stored, locations, recordings, lastSet>> /\ fetching = 0
    BY <1>5 DEF GetRecordingsStarts
  <2>2. CASE recordings = <<>>
    <3>1. fetching' = 1 /\ complete' = FALSE /\ UNCHANGED <<positions, unsaved, forgotten>>
      BY <1>5, <2>2 DEF GetRecordingsStarts
    <3>2. 1..(fetching' - 1) = {} /\ DOMAIN recordings' = {}
      BY <2>1, <2>2, <3>1
    <3>. QED  BY <2>1, <2>2, <3>1, <3>2
             DEF PositionsKnown, PlayedListed, ListTells, FileTells, UnsavedListed
  <2>3. CASE recordings # <<>>
    <3>1. fetching' = 0 /\ complete' = complete /\ StoreLastPlayedPositions
      BY <1>5, <2>1, <2>3 DEF GetRecordingsStarts
    <3>2. /\ unsaved' = {} /\ forgotten \subseteq forgotten'
          /\ \A r \in stored \ forgotten' :
              /\ \A e \in positions' : e.url = r => e.position = lastSet[r]
              /\ (\A e \in positions' : e.url # r) => lastSet[r] = 0
      BY <2>1, <3>1, ListStored
    <3>. QED  BY <2>1, <3>1, <3>2
             DEF PositionsKnown, PlayedListed, ListTells, FileTells, UnsavedListed
  <2>. QED  BY <2>2, <2>3
<1>6. CASE ListCleared
  <2>1. /\ recordings' = <<>> /\ ~complete' /\ fetching' = 1 /\ unsaved = {}
        /\ UNCHANGED <<stored, locations, positions, lastSet, unsaved, forgotten>>
    BY <1>6 DEF ListCleared, RecordingTypes
  <2>2. 1..(fetching' - 1) = {}
    BY <2>1
  <2>. QED  BY <2>1, <2>2 DEF PositionsKnown, PlayedListed, ListTells, FileTells, UnsavedListed
<1>7. CASE LocationAnswers
  <2> DEFINE here == {r \in stored : Directory[r] = locations[fetching]}
             new == [i \in DOMAIN SetToSeq(here) |-> [url |-> SetToSeq(here)[i], position |-> 0]]
  <2>1. /\ recordings' = recordings \o new /\ fetching' = fetching + 1
        /\ UNCHANGED <<stored, locations, positions, complete, lastSet, unsaved, forgotten>>
    BY <1>7 DEF LocationAnswers
  <2>2. /\ new \in Seq(PlayedEntry) /\ here \subseteq Urls(new)
        /\ \A i \in DOMAIN new : new[i].position = 0 /\ new[i].url \in here
    BY AnswerIs
  <2>. HIDE DEF new
  <2>3. fetching # 0 /\ fetching' # 0 /\ ~complete /\ fetching \in Nat /\ locations = Location
        /\ fetching \in DOMAIN Location
    BY <1>7, <2>1, FetchIs DEF LocationAnswers
  <2>4. /\ \A i \in DOMAIN recordings' :
             \/ i \in DOMAIN recordings /\ recordings'[i] = recordings[i]
             \/ i - Len(recordings) \in DOMAIN new /\ recordings'[i] = new[i - Len(recordings)]
        /\ Urls(recordings') = Urls(recordings) \cup Urls(new)
    BY <2>1, <2>2, TwoLists DEF RecordingTypes
  <2>5. \A r \in here : r \notin Urls(recordings)
    <3>1. \A k \in 1..(fetching - 1) : k \in DOMAIN Location /\ k # fetching
      BY <2>3, Locations
    <3>2. \A i \in DOMAIN recordings :
            \E k \in 1..(fetching - 1) : Directory[recordings[i].url] = locations[k]
      BY <2>3 DEF ListedOnce
    <3>. QED  BY <2>3, <3>1, <3>2, Locations DEF Urls
  <2>6. ASSUME NEW r \in here \ forgotten, ~InFile(r)
        PROVE  lastSet[r] = 0
    BY <2>5, <2>6 DEF PositionsKnown, FileTells, UnsavedListed
  <2>7. ListTells'
    <3> SUFFICES ASSUME NEW i \in DOMAIN recordings', recordings'[i].url \in stored \ forgotten
                 PROVE  recordings'[i].position = IF ~InFile(recordings'[i].url)
                                                  THEN lastSet[recordings'[i].url] ELSE 0
      BY <2>1, <2>3 DEF ListTells
    <3>1. CASE i \in DOMAIN recordings /\ recordings'[i] = recordings[i]
      BY <2>3, <3>1 DEF PositionsKnown, ListTells
    <3>2. CASE i - Len(recordings) \in DOMAIN new /\ recordings'[i] = new[i - Len(recordings)]
      <4>1. recordings'[i].position = 0 /\ recordings'[i].url \in here
        BY <2>2, <3>2
      <4>. QED  BY <2>6, <4>1
    <3>. QED  BY <2>4, <3>1, <3>2
  <2>8. PlayedListed'
    <3> SUFFICES ASSUME NEW r \in stored, NEW k \in 1..(fetching' - 1),
                        Directory[r] = locations[k], lastSet[r] # 0
                 PROVE  r \in Urls(recordings')
      BY <2>1, <2>3 DEF PlayedListed
    <3>1. CASE k = fetching
      BY <2>2, <2>4, <3>1
    <3>2. CASE k # fetching
      <4>1. k \in 1..(fetching - 1)
        BY <2>1, <2>3, <3>2
      <4>. QED  BY <2>3, <2>4, <4>1 DEF PositionsKnown, PlayedListed
    <3>. QED  BY <3>1, <3>2
  <2>9. FileTells' /\ UnsavedListed'
    BY <2>1, <2>3, <2>4 DEF PositionsKnown, FileTells, UnsavedListed
  <2>. QED  BY <2>7, <2>8, <2>9 DEF PositionsKnown
<1>8. CASE LocationFails
  <2>1. /\ fetching' = 0 /\ fetching # 0 /\ ~complete'
        /\ forgotten' = forgotten \cup (Played \cap Urls(recordings))
        /\ UNCHANGED <<stored, recordings, positions, lastSet, unsaved>>
    BY <1>8, FetchIs DEF LocationFails
  <2>2. ASSUME NEW i \in DOMAIN recordings, recordings[i].url \in stored \ forgotten'
        PROVE  recordings[i].position = lastSet[recordings[i].url]
    <3>1. recordings[i].url \in Urls(recordings) /\ recordings[i].url \in Recording
      BY FetchIs DEF Urls
    <3>2. lastSet[recordings[i].url] = 0
      BY <2>1, <2>2, <3>1 DEF Played
    <3>. QED  BY <2>1, <2>2, <3>2 DEF PositionsKnown, ListTells
  <2>3. ListTells'
    BY <2>1, <2>2 DEF ListTells
  <2>. QED  BY <2>1, <2>3 DEF PositionsKnown, PlayedListed, FileTells, UnsavedListed
<1>9. CASE GetRecordingsEnds
  <2>1. /\ fetching' = 0 /\ fetching = Len(locations) + 1 /\ complete' = (locations = Location)
        /\ UNCHANGED <<stored, locations, positions, lastSet, unsaved, forgotten>>
        /\ recordings' = Restored(recordings)
    BY <1>9 DEF GetRecordingsEnds
  <2>2. /\ DOMAIN recordings' = DOMAIN recordings
        /\ \A i \in DOMAIN recordings' :
             /\ recordings'[i].url = recordings[i].url
             /\ \/ /\ \A e \in positions : e.url # recordings'[i].url
                   /\ recordings'[i].position = recordings[i].position
                \/ \E e \in positions : e.url = recordings'[i].url /\ recordings'[i].position = e.position
    BY <2>1, RestoredIs
  <2>3. fetching # 0 /\ fetching \in Nat
    BY <2>1, FetchIs
  <2>4. Urls(recordings') = Urls(recordings)
    BY <2>2 DEF Urls
  <2>5. ASSUME NEW i \in DOMAIN recordings', recordings'[i].url \in stored \ forgotten
        PROVE  recordings'[i].position = lastSet[recordings'[i].url]
    <3>1. CASE InFile(recordings[i].url)
      <4>1. recordings[i].url \notin unsaved
        BY <2>2, <2>3, <2>5, <3>1 DEF PositionsKnown, UnsavedListed
      <4>. QED  BY <2>2, <2>5, <3>1, <4>1 DEF PositionsKnown, FileTells
    <3>2. CASE ~InFile(recordings[i].url)
      <4>1. recordings[i].position = lastSet[recordings[i].url]
        BY <2>2, <2>5, <3>2 DEF PositionsKnown, ListTells
      <4>. QED  BY <2>2, <2>5, <3>2, <4>1
    <3>. QED  BY <3>1, <3>2
  <2>6. ListTells'
    BY <2>1, <2>5 DEF ListTells
  <2>7. ASSUME complete', NEW r \in stored, lastSet[r] # 0
        PROVE  r \in Urls(recordings')
    <3>1. PICK k \in DOMAIN Location : Directory[r] = Location[k]
      BY Locations DEF RecordingTypes
    <3>2. locations = Location
      BY <2>1, <2>7, Zenon
    <3>3. k \in 1..(fetching - 1) /\ Directory[r] = locations[k]
      BY <2>1, <3>1, <3>2, Locations
    <3>. QED  BY <2>3, <2>4, <2>7, <3>3 DEF PositionsKnown, PlayedListed
  <2>8. PlayedListed'
    BY <2>1, <2>7 DEF PlayedListed
  <2>9. FileTells' /\ UnsavedListed'
    BY <2>1, <2>4 DEF PositionsKnown, FileTells, UnsavedListed
  <2>. QED  BY <2>6, <2>8, <2>9 DEF PositionsKnown
<1>10. CASE SetRecordingLastPlayedPosition
  <2>1. UNCHANGED <<stored, locations, positions, fetching, complete>>
    BY <1>10 DEF SetRecordingLastPlayedPosition
  <2>2. PICK i \in DOMAIN recordings, p \in Position :
           /\ recordings' \in Seq(PlayedEntry) /\ DOMAIN recordings' = DOMAIN recordings
           /\ recordings'[i].url = recordings[i].url /\ recordings'[i].position = p
           /\ \A j \in DOMAIN recordings : j # i => recordings'[j] = recordings[j]
           /\ lastSet' \in [Recording -> Position] /\ lastSet'[recordings[i].url] = p
           /\ \A r \in Recording : r # recordings[i].url => lastSet'[r] = lastSet[r]
           /\ \/ /\ storing \/ (fetching # 0 /\ InFile(recordings[i].url))
                 /\ forgotten' = forgotten \cup {recordings[i].url} /\ unsaved' = unsaved
              \/ /\ ~storing /\ (fetching # 0 => ~InFile(recordings[i].url))
                 /\ forgotten' = forgotten \ {recordings[i].url}
                 /\ unsaved' = unsaved \cup {recordings[i].url}
    BY <1>10, SetIs
  <2> DEFINE this == recordings[i].url
  <2>3. /\ this \in Recording /\ stored \subseteq Recording
        /\ \A j \in DOMAIN recordings : recordings[j].url = this => j = i
        /\ \A j \in DOMAIN recordings : recordings'[j].url = recordings[j].url
    BY <2>2, FetchIs DEF ListedOnce, RecordingTypes
  <2>4. Urls(recordings') = Urls(recordings) /\ this \in Urls(recordings)
    BY <2>2, <2>3 DEF Urls
  <2>5. \A r \in Recording : r # this =>
          /\ lastSet'[r] = lastSet[r]
          /\ r \in forgotten' <=> r \in forgotten
          /\ r \in unsaved' <=> r \in unsaved
    BY <2>2
  <2>6. this \in forgotten' \/ (this \in unsaved' /\ (fetching # 0 => ~InFile(this)))
    BY <2>2
  <2>7. PlayedListed'
    BY <2>1, <2>3, <2>4, <2>5 DEF PositionsKnown, PlayedListed
  <2>8. ListTells'
    <3> SUFFICES ASSUME NEW j \in DOMAIN recordings, recordings[j].url \in stored \ forgotten'
                 PROVE  recordings'[j].position = IF fetching = 0 \/ ~InFile(recordings[j].url)
                                                  THEN lastSet'[recordings[j].url] ELSE 0
      BY <2>1, <2>2, <2>3 DEF ListTells
    <3>1. CASE j = i
      BY <2>2, <2>6, <3>1
    <3>2. CASE j # i
      <4>1. recordings[j].url # this /\ recordings'[j] = recordings[j]
        BY <2>2, <2>3, <3>2
      <4>2. recordings[j].url \notin forgotten /\ lastSet'[recordings[j].url] = lastSet[recordings[j].url]
        BY <2>3, <2>5, <4>1
      <4>. QED  BY <4>1, <4>2 DEF PositionsKnown, ListTells
    <3>. QED  BY <3>1, <3>2
  <2>9. FileTells'
    <3> SUFFICES ASSUME NEW r \in stored \ (forgotten' \cup unsaved')
                 PROVE  /\ \A e \in positions : e.url = r => e.position = lastSet'[r]
                        /\ ~InFile(r) => lastSet'[r] = 0
      BY <2>1 DEF FileTells
    <3>1. r # this
      BY <2>6
    <3>. QED  BY <2>3, <2>5, <3>1 DEF PositionsKnown, FileTells
  <2>10. UnsavedListed'
    <3> SUFFICES ASSUME NEW r \in unsaved' \ forgotten'
                 PROVE  r \in Urls(recordings) /\ (fetching # 0 => ~InFile(r))
      BY <2>1, <2>4 DEF UnsavedListed
    <3>1. CASE r = this
      BY <2>4, <2>6, <3>1
    <3>2. CASE r # this
      <4>1. r \in unsaved \ forgotten
        BY <2>2, <3>2
      <4>. QED  BY <4>1 DEF PositionsKnown, UnsavedListed
    <3>. QED  BY <3>1, <3>2
  <2>. QED  BY <2>7, <2>8, <2>9, <2>10 DEF PositionsKnown
<1>11. CASE RecordingMade
  <2>1. PICK r \in Recording \ stored :
          /\ lastSet[r] = 0 /\ \A e \in Range(recordings) \cup positions : e.url # r
          /\ stored' = stored \cup {r}
    BY <1>11 DEF RecordingMade
  <2>2. UNCHANGED <<locations, recordings, positions, fetching, complete, lastSet, unsaved, forgotten>>
    BY <1>11 DEF RecordingMade
  <2>3. \A i \in DOMAIN recordings : recordings[i].url # r
    BY <2>1 DEF Range
  <2>4. \A e \in positions : e.url # r
    BY <2>1
  <2>. QED  BY <2>1, <2>2, <2>3, <2>4
           DEF PositionsKnown, PlayedListed, ListTells, FileTells, UnsavedListed
<1>12. CASE RecordingDeleted
  <2>1. /\ stored' \subseteq stored
        /\ UNCHANGED <<locations, recordings, positions, fetching, complete, lastSet, unsaved, forgotten>>
    BY <1>12 DEF RecordingDeleted
  <2>. QED  BY <2>1 DEF PositionsKnown, PlayedListed, ListTells, FileTells, UnsavedListed
<1>. QED  BY <1>1, <1>2, <1>3, <1>4, <1>5, <1>6, <1>7, <1>8, <1>9, <1>10, <1>11, <1>12
         DEF VuRecordingsNext

(* What is known of the positions is what a list would be told.            *)
LEMMA PlayedIsKept == PlayedInv => PositionsKept
<1>. SUFFICES ASSUME PlayedInv, NEW r \in stored \ forgotten
              PROVE  Remembered(r) = {lastSet[r]}
  BY DEF PositionsKept
<1>. RecordingTypes /\ PositionsKnown
  BY DEF PlayedInv
<1> DEFINE inList == {e \in Range(recordings) : e.url = r}
           inFile == {e \in positions : e.url = r}
           told == IF inList # {} /\ (fetching = 0 \/ inFile = {}) THEN inList ELSE inFile
<1>1. Remembered(r) = IF told = {} THEN {0} ELSE {e.position : e \in told}
  BY DEF Remembered
<1>2. InFile(r) <=> inFile # {}
  BY DEF InFile
<1>3. CASE inList # {} /\ (fetching = 0 \/ inFile = {})
  <2>1. \A e \in inList : e.position = lastSet[r]
    <3> SUFFICES ASSUME NEW e \in inList PROVE e.position = lastSet[r]
      OBVIOUS
    <3>1. PICK i \in DOMAIN recordings : recordings[i] = e
      BY DEF Range
    <3>. QED  BY <1>2, <1>3, <3>1 DEF PositionsKnown, ListTells
  <2>2. told = inList
    BY <1>3
  <2>. HIDE DEF told, inList
  <2>. QED  BY <1>1, <1>3, <2>1, <2>2
<1>4. CASE ~(inList # {} /\ (fetching = 0 \/ inFile = {}))
  <2>1. r \notin unsaved
    <3>1. CASE inList = {}
      BY <3>1 DEF PositionsKnown, UnsavedListed, Urls, Range
    <3>2. CASE fetching # 0 /\ inFile # {}
      BY <1>2, <3>2 DEF PositionsKnown, UnsavedListed
    <3>. QED  BY <1>4, <3>1, <3>2
  <2>2. /\ \A e \in inFile : e.position = lastSet[r]
        /\ inFile = {} => lastSet[r] = 0
    BY <1>2, <2>1 DEF PositionsKnown, FileTells
  <2>3. told = inFile
    BY <1>4
  <2>. HIDE DEF told, inFile
  <2>. QED  BY <1>1, <2>2, <2>3
<1>. QED  BY <1>3, <1>4

(* The position XBMC set last for a recording is kept through every fetch  *)
(* of the list, every restart and every kill, but for the cases named, and *)
(* from there on until it is set again.                                    *)
THEOREM PositionsSurvive == VuRecordingsSpec => []PositionsKept
<1>1. ASSUME PlayedInv, [VuRecordingsNext]_vuRecordingVars PROVE PlayedInv'
  <2>1. CASE VuRecordingsNext
    BY <1>1, <2>1, RecordingTypesKept, ListedOnceKept, PositionsKnownKept DEF PlayedInv
  <2>2. CASE UNCHANGED vuRecordingVars
    BY <1>1, <2>2 DEF vuRecordingVars, PlayedInv, RecordingTypes, ListedOnce, PositionsKnown,
                      PlayedListed, ListTells, FileTells, UnsavedListed, InFile
  <2>. QED  BY <1>1, <2>1, <2>2
<1>. QED  BY <1>1, PlayedInit, PlayedIsKept, PTL DEF VuRecordingsSpec

-----------------------------------------------------------------------------
(* VuChannels                                                              *)

(* A service of a group, and the entry of a channel list.                  *)
Service == [group : GroupName, ref : Reference]

(* What is written in a file may have been escaped.                        *)
ListedChannel == [id : Nat, group : GroupName, ref : Reference \cup {"with quote"}]

(* The id of a channel is its place.                                       *)
Placed(list) == \A i \in DOMAIN list : list[i].id = i

(* The types.                                                              *)
ListTypes ==
  /\ vuBox \in Box /\ offered \in Box
  /\ checks \in [groups : BOOLEAN, channels : BOOLEAN]
  /\ phase \in {"down", "groups", "channels", "store", "checked"}
  /\ groups \in Seq(GroupName) /\ channels \in Seq(ListedChannel)
  /\ file \in [groups : Seq(GroupName), channels : Seq(ListedChannel)]
  /\ numGroups \in Nat /\ triggered \in BOOLEAN /\ clean \in BOOLEAN

(* Of a list and of the file it goes to: each group is there once, the id  *)
(* of a channel is its place, and what was escaped is not escaped again.   *)
ListsFormed ==
  /\ Once(groups) /\ Once(file.groups)
  /\ Placed(channels) /\ Placed(file.channels)
  /\ \A i \in DOMAIN file.channels : Escaped(file.channels[i].ref) = file.channels[i].ref

(* The groups of the file are not counted, and those of the box are all.   *)
CountFits ==
  /\ phase = "groups" => numGroups = 0
  /\ phase = "channels" =>
       numGroups <= Len(groups) /\ (clean /\ checks.groups => numGroups = Len(groups))

(* The services offered are shown, when both checks were answered.         *)
OfferShown ==
  \A g \in Range(groups) \cap Range(offered.groups) :
    \A r \in Range(offered.services[g]) :
      \E c \in Range(channels) : c.group = g /\ c.ref = r

(* Lists fetched without a failure show what was offered.                  *)
OfferFetched ==
  phase \in {"store", "checked"} /\ clean /\ checks.groups /\ checks.channels => OfferShown

(* As long as nothing changed the lists are those of the file.             *)
FileKnown ==
  /\ phase = "groups" => ~triggered
  /\ phase \in {"groups", "channels", "store"} /\ ~triggered =>
       groups = file.groups /\ channels = file.channels
  /\ FileFollows

(* The inductive invariant.                                                *)
ListInv == ListTypes /\ ListsFormed /\ CountFits /\ OfferFetched /\ FileKnown

(* What a list without any has.                                            *)
LEMMA NothingListed ==
  /\ \A T : <<>> \in Seq(T)
  /\ DOMAIN <<>> = {} /\ Len(<<>>) = 0
<1>1. DOMAIN <<>> = {}
  OBVIOUS
<1>. QED  BY <1>1

(* What a box has.                                                         *)
LEMMA BoxIs ==
  \A b \in Box :
    /\ b.groups \in Seq(GroupName) /\ Once(b.groups)
    /\ b.services \in [GroupName -> Seq(Reference)]
BY BoxAssumption DEF Once

(* A list without repetition is not longer than one that has all of it.    *)
LEMMA NotLonger ==
  ASSUME NEW T, NEW s \in Seq(T), NEW t \in Seq(T), Once(s), Range(s) \subseteq Range(t)
  PROVE  Len(s) <= Len(t)
<1>1. /\ DOMAIN s = 1..Len(s) /\ DOMAIN t = 1..Len(t) /\ Len(s) \in Nat /\ Len(t) \in Nat
  OBVIOUS
<1>2. \A i \in 1..Len(s) : \E j \in 1..Len(t) : t[j] = s[i]
  BY <1>1 DEF Range
<1> DEFINE at == [i \in 1..Len(s) |-> CHOOSE j \in 1..Len(t) : t[j] = s[i]]
<1>3. \A i \in 1..Len(s) : at[i] \in 1..Len(t) /\ t[at[i]] = s[i]
  BY <1>2
<1>4. at \in [1..Len(s) -> 1..Len(t)]
  BY <1>3
<1>. HIDE DEF at
<1>5. \A i, j \in 1..Len(s) : at[i] = at[j] => i = j
  BY <1>1, <1>3 DEF Once
<1>6. at \in Injection(1..Len(s), 1..Len(t))
  BY <1>4, <1>5 DEF Injection, IsInjective
<1>7. IsFiniteSet(1..Len(s)) /\ IsFiniteSet(1..Len(t))
      /\ Cardinality(1..Len(s)) = Len(s) /\ Cardinality(1..Len(t)) = Len(t)
  <2>1. \A n \in Nat : IsFiniteSet(1..n) /\ Cardinality(1..n) = n
    BY FS_Interval
  <2>. QED  BY <1>1, <2>1
<1>. QED  BY <1>6, <1>7, FS_Injection

(* A list has every service of the first n groups.                         *)
Offered(gs, n, list) ==
  \A i \in 1..n : \A r \in Range(vuBox.services[gs[i]]) :
    \E s \in Range(list) : s.group = gs[i] /\ s.ref = r

(* What LoadChannels() gets: services of the groups it asks for, and if no *)
(* request fails all of them.                                              *)
LEMMA ServicesAre ==
  ASSUME vuBox \in Box, NEW gs \in Seq(GroupName), NEW n \in Nat, n <= Len(gs), NEW lost
  PROVE  /\ Services(gs, n, lost) \in Seq(Service)
         /\ lost = {} => Offered(gs, n, Services(gs, n, lost))
<1> DEFINE G(i) == IF i > n THEN Radio ELSE gs[i]
           Of(i) == IF G(i) \in lost THEN <<>>
                    ELSE [j \in DOMAIN vuBox.services[G(i)] |-> [group |-> G(i), ref |-> vuBox.services[G(i)][j]]]
           seqs == [i \in 1..(n + 1) |-> Of(i)]
<1>1. Services(gs, n, lost) = FlattenSeq(seqs)
  BY DEF Services
<1>2. \A i \in 1..(n + 1) : G(i) \in GroupName
  <2>1. Radio \in GroupName
    BY Zenon DEF GroupName
  <2>2. \A i \in 1..Len(gs) : gs[i] \in GroupName
    OBVIOUS
  <2>. QED  BY <2>1, <2>2
<1>3. ASSUME NEW i \in 1..(n + 1) PROVE Of(i) \in Seq(Service)
  <2>. HIDE DEF G
  <2>1. vuBox.services[G(i)] \in Seq(Reference)
    BY <1>2, BoxIs
  <2> DEFINE list == vuBox.services[G(i)]
  <2>2. DOMAIN list = 1..Len(list) /\ Len(list) \in Nat /\ \A j \in DOMAIN list : list[j] \in Reference
    BY <2>1
  <2>3. \A j \in DOMAIN list : [group |-> G(i), ref |-> list[j]] \in Service
    BY <1>2, <2>2 DEF Service
  <2>. HIDE DEF list
  <2>4. [j \in DOMAIN list |-> [group |-> G(i), ref |-> list[j]]] \in Seq(Service)
    BY <2>2, <2>3
  <2>5. <<>> \in Seq(Service)
    BY NothingListed
  <2>. QED  BY <2>4, <2>5 DEF list
<1>4. seqs \in Seq(Seq(Service))
  <2>. HIDE DEF Of
  <2>. QED  BY <1>3
<1>5. DOMAIN seqs = 1..(n + 1)
  OBVIOUS
<1>6. FlattenSeq(seqs) \in Seq(Service) /\ Range(FlattenSeq(seqs)) = Elements(seqs)
  <2>. HIDE DEF seqs
  <2>. QED  BY <1>4, Flattened
<1>7. ASSUME lost = {}, NEW i \in 1..n, NEW r \in Range(vuBox.services[gs[i]])
      PROVE  \E s \in Elements(seqs) : s.group = gs[i] /\ s.ref = r
  <2>1. i \in 1..(n + 1) /\ G(i) = gs[i]
    OBVIOUS
  <2>2. seqs[i] = [j \in DOMAIN vuBox.services[gs[i]] |-> [group |-> gs[i], ref |-> vuBox.services[gs[i]][j]]]
    BY <1>7, <2>1
  <2>3. PICK j \in DOMAIN vuBox.services[gs[i]] : vuBox.services[gs[i]][j] = r
    BY DEF Range
  <2>. HIDE DEF seqs
  <2>4. DOMAIN seqs[i] = DOMAIN vuBox.services[gs[i]] /\ seqs[i][j] = [group |-> gs[i], ref |-> r]
    BY <2>2, <2>3, Zenon
  <2>5. [group |-> gs[i], ref |-> r] \in Range(seqs[i])
    BY <2>3, <2>4 DEF Range
  <2>6. [group |-> gs[i], ref |-> r] \in Elements(seqs)
    BY <1>5, <2>1, <2>5 DEF Elements
  <2>. QED  BY <2>6
<1>. HIDE DEF seqs
<1>8. lost = {} => \A i \in 1..n : \A r \in Range(vuBox.services[gs[i]]) :
                     \E s \in Elements(seqs) : s.group = gs[i] /\ s.ref = r
  BY <1>7
<1>. QED  BY <1>1, <1>6, <1>8 DEF Offered

(* A channel's number is its place, and its group and reference are those  *)
(* of the service.                                                         *)
LEMMA NumberedAre ==
  ASSUME NEW list \in Seq(Service)
  PROVE  /\ WithIds(list) \in Seq(ListedChannel) /\ Placed(WithIds(list))
         /\ \A s \in Range(list) : \E c \in Range(WithIds(list)) : c.group = s.group /\ c.ref = s.ref
<1>1. DOMAIN list = 1..Len(list) /\ Len(list) \in Nat /\ \A i \in DOMAIN list : list[i] \in Service
  OBVIOUS
<1>2. \A s \in Service : s.group \in GroupName /\ s.ref \in Reference
  BY DEF Service
<1> DEFINE C(i) == [id |-> i, group |-> list[i].group, ref |-> list[i].ref]
           new == WithIds(list)
<1>3. new = [i \in DOMAIN list |-> C(i)]
  BY DEF WithIds
<1>4. \A i \in DOMAIN list : /\ C(i) \in ListedChannel /\ C(i).id = i
                             /\ C(i).group = list[i].group /\ C(i).ref = list[i].ref
  <2>1. \A i \in Nat, g \in GroupName, r \in Reference : [id |-> i, group |-> g, ref |-> r] \in ListedChannel
    BY DEF ListedChannel
  <2>2. \A i \in DOMAIN list : i \in Nat /\ list[i].group \in GroupName /\ list[i].ref \in Reference
    BY <1>1, <1>2
  <2>3. \A i \in DOMAIN list : C(i) \in ListedChannel
    BY <2>1, <2>2
  <2>. QED  BY <2>3
<1>. HIDE DEF C, new
<1>5. DOMAIN new = DOMAIN list /\ \A i \in DOMAIN list : new[i] = C(i)
  BY <1>3
<1>6. new \in Seq(ListedChannel)
  <2>1. new = [i \in 1..Len(list) |-> new[i]]
    BY <1>1, <1>3, <1>5
  <2>. QED  BY <1>1, <1>4, <1>5, <2>1
<1>7. Placed(new)
  BY <1>4, <1>5 DEF Placed
<1>8. \A s \in Range(list) : \E c \in Range(new) : c.group = s.group /\ c.ref = s.ref
  BY <1>4, <1>5 DEF Range
<1>. QED  BY <1>6, <1>7, <1>8 DEF new

(* What is written of a list in its form: it is in its form, and nothing   *)
(* is left to escape.                                                      *)
LEMMA StoredIs ==
  ASSUME ListTypes, ListsFormed
  PROVE  /\ Stored \in [groups : Seq(GroupName), channels : Seq(ListedChannel)]
         /\ Stored.groups = groups /\ Once(Stored.groups)
         /\ Placed(Stored.channels)
         /\ \A i \in DOMAIN Stored.channels : Escaped(Stored.channels[i].ref) = Stored.channels[i].ref
<1> DEFINE list == [i \in DOMAIN channels |-> [channels[i] EXCEPT !.ref = Escaped(@)]]
<1>1. DOMAIN channels = 1..Len(channels) /\ Len(channels) \in Nat
      /\ \A i \in DOMAIN channels : channels[i] \in ListedChannel
  BY DEF ListTypes
<1>2. ASSUME NEW c \in ListedChannel
      PROVE  /\ [c EXCEPT !.ref = Escaped(@)] \in ListedChannel
             /\ [c EXCEPT !.ref = Escaped(@)].id = c.id
             /\ [c EXCEPT !.ref = Escaped(@)].ref = Escaped(c.ref)
  BY DEF ListedChannel, Escaped
<1>3. \A r : Escaped(Escaped(r)) = Escaped(r)
  BY DEF Escaped
<1>4. DOMAIN list = DOMAIN channels
      /\ \A i \in DOMAIN channels : list[i] \in ListedChannel /\ list[i].id = channels[i].id
                                    /\ Escaped(list[i].ref) = list[i].ref
  BY <1>1, <1>2, <1>3
<1>5. list \in Seq(ListedChannel)
  <2>1. list = [i \in 1..Len(channels) |-> list[i]]
    BY <1>1
  <2>. HIDE DEF list
  <2>. QED  BY <1>1, <1>4, <2>1
<1>6. Stored = [groups |-> groups, channels |-> list]
  BY DEF Stored
<1>. HIDE DEF list
<1>7. groups \in Seq(GroupName) /\ Once(groups) /\ Placed(channels)
  BY DEF ListTypes, ListsFormed
<1>8. Placed(list)
  BY <1>4, <1>7 DEF Placed
<1>. QED  BY <1>4, <1>5, <1>6, <1>7, <1>8

(* A list whose references need no escaping is stored as it is.            *)
LEMMA StoredSame ==
  ASSUME ListTypes, \A i \in DOMAIN channels : Escaped(channels[i].ref) = channels[i].ref
  PROVE  Stored.channels = channels
<1>1. \A i \in DOMAIN channels : channels[i] \in ListedChannel
  BY DEF ListTypes
<1>2. \A c \in ListedChannel : [c EXCEPT !.ref = c.ref] = c
  BY DEF ListedChannel
<1>3. \A i \in DOMAIN channels : [channels[i] EXCEPT !.ref = Escaped(@)] = channels[i]
  BY <1>1, <1>2
<1>4. [i \in DOMAIN channels |-> [channels[i] EXCEPT !.ref = Escaped(@)]] = [i \in DOMAIN channels |-> channels[i]]
  BY <1>3
<1>5. channels = [i \in DOMAIN channels |-> channels[i]]
  BY DEF ListTypes
<1>. QED  BY <1>4, <1>5 DEF Stored

(* The initial states.                                                     *)
LEMMA ListsInit == VuChannelsInit => ListInv
<1>. SUFFICES ASSUME VuChannelsInit PROVE ListInv
  OBVIOUS
<1>1. /\ groups = <<>> /\ channels = <<>> /\ file.groups = <<>> /\ file.channels = <<>>
      /\ file = [groups |-> <<>>, channels |-> <<>>] /\ numGroups = 0
      /\ phase = "down" /\ triggered = FALSE
  BY DEF VuChannelsInit, NoFile
<1>2. ListTypes
  <2>1. groups \in Seq(GroupName) /\ channels \in Seq(ListedChannel)
    BY <1>1, NothingListed
  <2>2. file \in [groups : Seq(GroupName), channels : Seq(ListedChannel)]
    BY <1>1, NothingListed
  <2>. QED  BY <2>1, <2>2 DEF VuChannelsInit, ListTypes
<1>3. ListsFormed
  BY <1>1, NothingListed DEF ListsFormed, Once, Placed
<1>4. CountFits /\ OfferFetched /\ FileKnown
  BY <1>1 DEF CountFits, OfferFetched, FileKnown, FileFollows
<1>. QED  BY <1>2, <1>3, <1>4 DEF ListInv

(* The lists start from the file.                                          *)
LEMMA StartsFromFile ==
  ASSUME ListInv, OpenWithFile
  PROVE  ListInv'
<1>. USE DEF OpenWithFile, LoadChannelData
<1>1. ListTypes'
  BY DEF ListInv, ListTypes
<1>2. ListsFormed'
  BY DEF ListInv, ListsFormed
<1>3. CountFits' /\ OfferFetched' /\ FileKnown'
  BY DEF CountFits, OfferFetched, FileKnown, FileFollows
<1>. QED  BY <1>1, <1>2, <1>3 DEF ListInv

(* Or, without a file, from the box.                                       *)
LEMMA StartsFromBox ==
  ASSUME ListInv, OpenWithout
  PROVE  ListInv'
<1>. ListTypes /\ ListsFormed
  BY DEF ListInv
<1> DEFINE gs == vuBox.groups
           n == Len(vuBox.groups)
<1>1. /\ groups' = gs /\ numGroups' = n /\ phase' = "store" /\ triggered' = TRUE /\ offered' = vuBox
      /\ UNCHANGED <<vuBox, checks, file>>
  BY DEF OpenWithout
<1>2. PICK lost : channels' = WithIds(Services(gs, n, lost)) /\ clean' = (lost = {})
  BY <1>1 DEF OpenWithout, LoadChannels
<1>3. gs \in Seq(GroupName) /\ Once(gs) /\ n \in Nat /\ n <= Len(gs) /\ vuBox \in Box
  BY BoxIs DEF ListTypes
<1>4. Services(gs, n, lost) \in Seq(Service)
  BY <1>3, ServicesAre
<1>5. channels' \in Seq(ListedChannel) /\ Placed(channels')
  BY <1>2, <1>4, NumberedAre
<1>6. ListTypes'
  <2>1. clean' \in BOOLEAN
    BY <1>2, Zenon
  <2>. QED  BY <1>1, <1>3, <1>5, <2>1 DEF ListTypes
<1>7. ListsFormed'
  BY <1>1, <1>3, <1>5 DEF ListsFormed
<1>8. ASSUME clean' PROVE OfferShown'
  <2>1. lost = {}
    BY <1>2, <1>8, Zenon
  <2>2. ASSUME NEW g \in Range(gs), NEW r \in Range(vuBox.services[g])
        PROVE  \E c \in Range(channels') : c.group = g /\ c.ref = r
    <3>1. PICK i \in 1..n : gs[i] = g
      BY <1>3 DEF Range
    <3>. HIDE DEF gs, n
    <3>2. PICK s \in Range(Services(gs, n, lost)) : s.group = g /\ s.ref = r
      <4>1. Offered(gs, n, Services(gs, n, lost))
        BY <1>3, <2>1, ServicesAre
      <4>. QED  BY <3>1, <4>1 DEF Offered
    <3>. QED  BY <1>2, <1>4, <3>2, NumberedAre
  <2>. QED  BY <1>1, <2>2 DEF OfferShown
<1>9. CountFits' /\ OfferFetched' /\ FileKnown'
  BY <1>1, <1>8 DEF CountFits, OfferFetched, FileKnown, FileFollows
<1>. QED  BY <1>6, <1>7, <1>9 DEF ListInv

(* The groups are compared: what is counted was fetched.                   *)
LEMMA GroupsChecked ==
  ASSUME ListInv, CheckForGroupUpdate
  PROVE  ListInv'
<1>. ListTypes /\ ListsFormed /\ CountFits /\ FileKnown
  BY DEF ListInv
<1>1. /\ phase = "groups" /\ phase' = "channels" /\ numGroups = 0 /\ ~triggered
      /\ groups = file.groups /\ channels = file.channels
      /\ UNCHANGED <<vuBox, checks, file, channels, offered>>
  BY DEF CheckForGroupUpdate, CountFits, FileKnown
<1>2. vuBox.groups \in Seq(GroupName) /\ Once(vuBox.groups) /\ groups \in Seq(GroupName) /\ Once(groups)
  BY BoxIs DEF ListTypes, ListsFormed
<1>3. Len(vuBox.groups) \in Nat /\ Len(groups) \in Nat
  BY <1>2
<1>4. OfferFetched'
  BY <1>1 DEF OfferFetched
<1>5. CASE ~checks.groups /\ UNCHANGED <<groups, numGroups, triggered, clean>>
  <2>1. ListTypes' /\ ListsFormed'
    BY <1>1, <1>5 DEF ListTypes, ListsFormed
  <2>2. CountFits' /\ FileKnown'
    BY <1>1, <1>3, <1>5 DEF CountFits, FileKnown, FileFollows
  <2>. QED  BY <1>4, <2>1, <2>2 DEF ListInv
<1>6. CASE /\ triggered' = (Range(groups) # Range(vuBox.groups))
           /\ groups' = IF triggered' THEN vuBox.groups ELSE groups
           /\ numGroups' = Len(vuBox.groups)
           /\ UNCHANGED clean
  <2>1. triggered' \in BOOLEAN
    BY <1>6, Zenon
  <2>2. CASE triggered'
    <3>1. groups' = vuBox.groups
      BY <1>6, <2>2
    <3>2. ListTypes' /\ ListsFormed'
      BY <1>1, <1>2, <1>3, <1>6, <2>1, <3>1 DEF ListTypes, ListsFormed
    <3>3. CountFits' /\ FileKnown'
      BY <1>1, <1>3, <1>6, <2>2, <3>1 DEF CountFits, FileKnown, FileFollows
    <3>. QED  BY <1>4, <3>2, <3>3 DEF ListInv
  <2>3. CASE ~triggered'
    <3>1. groups' = groups
      BY <1>6, <2>3
    <3>2. Range(groups) = Range(vuBox.groups)
      BY <1>6, <2>3, Zenon
    <3>3. Len(vuBox.groups) = Len(groups)
      <4>1. Len(vuBox.groups) <= Len(groups)
        BY <1>2, <3>2, NotLonger
      <4>2. Len(groups) <= Len(vuBox.groups)
        BY <1>2, <3>2, NotLonger
      <4>. QED  BY <1>3, <4>1, <4>2
    <3>4. ListTypes' /\ ListsFormed'
      BY <1>1, <1>2, <1>3, <1>6, <2>1, <3>1 DEF ListTypes, ListsFormed
    <3>5. CountFits' /\ FileKnown'
      BY <1>1, <1>3, <1>6, <3>1, <3>3 DEF CountFits, FileKnown, FileFollows
    <3>. QED  BY <1>4, <3>4, <3>5 DEF ListInv
  <2>. QED  BY <2>1, <2>2, <2>3
<1>7. CASE /\ groups' = <<>> /\ UNCHANGED numGroups
           /\ triggered' = (groups # <<>>)
           /\ clean' = FALSE
  <2>1. triggered' \in BOOLEAN /\ (~triggered' => groups = <<>>)
    BY <1>7, Zenon
  <2>2. groups' \in Seq(GroupName) /\ Once(groups') /\ Len(groups') = 0
    BY <1>7, NothingListed DEF Once
  <2>3. ListTypes' /\ ListsFormed'
    BY <1>1, <1>7, <2>1, <2>2 DEF ListTypes, ListsFormed
  <2>4. CountFits' /\ FileKnown'
    BY <1>1, <1>7, <2>1, <2>2 DEF CountFits, FileKnown, FileFollows
  <2>. QED  BY <1>4, <2>3, <2>4 DEF ListInv
<1>. QED  BY <1>5, <1>6, <1>7 DEF CheckForGroupUpdate

(* The channels are compared: of the groups counted, which are there.      *)
LEMMA ChannelsChecked ==
  ASSUME ListInv, CheckForChannelUpdate
  PROVE  ListInv'
<1>. ListTypes /\ ListsFormed /\ CountFits /\ FileKnown
  BY DEF ListInv
<1>1. /\ phase = "channels" /\ phase' = "store"
      /\ UNCHANGED <<groups, numGroups, vuBox, checks, file>>
  BY DEF CheckForChannelUpdate
<1>2. numGroups <= Len(groups) /\ (clean /\ checks.groups => numGroups = Len(groups))
  BY <1>1 DEF CountFits
<1>3. ~triggered => groups = file.groups /\ channels = file.channels
  BY <1>1 DEF FileKnown
<1>4. CountFits'
  BY <1>1 DEF CountFits
<1>5. CASE ~checks.channels /\ UNCHANGED <<channels, triggered, clean, offered>>
  <2>1. ListTypes' /\ ListsFormed'
    BY <1>1, <1>5 DEF ListTypes, ListsFormed
  <2>2. OfferFetched' /\ FileKnown'
    BY <1>1, <1>3, <1>5 DEF OfferFetched, FileKnown, FileFollows
  <2>. QED  BY <1>4, <2>1, <2>2 DEF ListInv
<1>6. ASSUME checks.channels, offered' = vuBox,
             NEW lost,
             channels' = IF Range(WithIds(Services(groups, numGroups, lost))) = Range(channels)
                         THEN channels ELSE WithIds(Services(groups, numGroups, lost)),
             triggered' = (triggered \/ channels' # channels),
             clean' = (clean /\ lost = {})
      PROVE  ListInv'
  <2> DEFINE new == WithIds(Services(groups, numGroups, lost))
  <2>1. groups \in Seq(GroupName) /\ numGroups \in Nat /\ vuBox \in Box /\ channels \in Seq(ListedChannel)
    BY DEF ListTypes
  <2>2. Services(groups, numGroups, lost) \in Seq(Service)
    BY <1>2, <2>1, ServicesAre
  <2>3. new \in Seq(ListedChannel) /\ Placed(new)
    BY <2>2, NumberedAre
  <2>. HIDE DEF new
  <2>4. channels' \in Seq(ListedChannel) /\ Placed(channels') /\ Range(channels') = Range(new)
    BY <1>6, <2>1, <2>3 DEF new, ListsFormed
  <2>5. triggered' \in BOOLEAN /\ clean' \in BOOLEAN
        /\ (~triggered' => ~triggered /\ channels' = channels)
    BY <1>6, Zenon DEF ListTypes
  <2>6. ListTypes' /\ ListsFormed'
    BY <1>1, <1>6, <2>1, <2>4, <2>5 DEF ListTypes, ListsFormed
  <2>7. ASSUME clean', checks.groups, NEW g \in Range(groups), NEW r \in Range(vuBox.services[g])
        PROVE  \E c \in Range(channels') : c.group = g /\ c.ref = r
    <3>1. clean /\ lost = {}
      BY <1>6, <2>7, Zenon
    <3>2. numGroups = Len(groups)
      BY <1>2, <2>7, <3>1
    <3>3. PICK i \in 1..numGroups : groups[i] = g
      BY <2>1, <3>2 DEF Range
    <3>4. PICK s \in Range(Services(groups, numGroups, lost)) : s.group = g /\ s.ref = r
      <4>1. Offered(groups, numGroups, Services(groups, numGroups, lost))
        BY <1>2, <2>1, <3>1, ServicesAre
      <4>. QED  BY <3>3, <4>1 DEF Offered
    <3>5. \E c \in Range(new) : c.group = g /\ c.ref = r
      BY <2>2, <3>4, NumberedAre DEF new
    <3>. QED  BY <2>4, <3>5
  <2>8. OfferFetched'
    BY <1>1, <1>6, <2>7 DEF OfferFetched, OfferShown
  <2>9. FileKnown'
    BY <1>1, <1>3, <2>5 DEF FileKnown, FileFollows
  <2>. QED  BY <1>4, <2>6, <2>8, <2>9 DEF ListInv
<1>7. \A lost : LoadChannels(lost) = WithIds(Services(groups, numGroups, lost))
  BY <1>1 DEF LoadChannels
<1>. QED  BY <1>5, <1>6, <1>7 DEF CheckForChannelUpdate

(* The lists are stored if they changed, and are the file's anyway.        *)
LEMMA ListsStored ==
  ASSUME ListInv, StoreChannelData
  PROVE  ListInv'
<1>. ListTypes /\ ListsFormed
  BY DEF ListInv
<1>1. /\ phase = "store" /\ phase' = "checked"
      /\ UNCHANGED <<vuBox, checks, groups, numGroups, channels, triggered, clean, offered>>
      /\ file' = IF triggered THEN Stored ELSE file
  BY DEF StoreChannelData
<1>2. file' = Stored
  <2>1. CASE triggered
    BY <1>1, <2>1
  <2>2. CASE ~triggered
    <3>1. file' = file /\ groups = file.groups /\ channels = file.channels
      BY <1>1, <2>2 DEF ListInv, FileKnown
    <3>2. Stored.channels = channels
      BY <3>1, StoredSame DEF ListsFormed
    <3>3. Stored = [groups |-> groups, channels |-> Stored.channels]
      BY DEF Stored
    <3>4. file = [groups |-> file.groups, channels |-> file.channels]
      BY DEF ListTypes
    <3>. QED  BY <3>1, <3>2, <3>3, <3>4
  <2>. QED  BY <2>1, <2>2 DEF ListTypes
<1>3. ListTypes'
  BY <1>1, <1>2, StoredIs DEF ListTypes
<1>4. ListsFormed'
  BY <1>1, <1>2, StoredIs DEF ListsFormed
<1>5. OfferFetched'
  BY <1>1 DEF ListInv, OfferFetched, OfferShown
<1>6. Stored' = Stored
  BY <1>1 DEF Stored
<1>7. CountFits' /\ FileKnown'
  BY <1>1, <1>2, <1>6 DEF CountFits, FileKnown, FileFollows
<1>. QED  BY <1>3, <1>4, <1>5, <1>7 DEF ListInv

(* The program ends, or the box offers something else.                     *)
LEMMA ListsRest ==
  ASSUME ListInv, Ends \/ OfferChanges \/ UNCHANGED vuChannelVars
  PROVE  ListInv'
<1>. ListTypes /\ ListsFormed
  BY DEF ListInv
<1>1. CASE Ends
  <2>1. /\ phase' = "down" /\ groups' = <<>> /\ channels' = <<>> /\ numGroups' = 0
        /\ triggered' = FALSE /\ clean' = TRUE /\ UNCHANGED <<vuBox, offered>>
        /\ checks' \in [groups : BOOLEAN, channels : BOOLEAN]
        /\ file' = file \/ file' = NoFile
    BY <1>1 DEF Ends
  <2>2. /\ file' \in [groups : Seq(GroupName), channels : Seq(ListedChannel)]
        /\ Once(file'.groups) /\ Placed(file'.channels)
        /\ \A i \in DOMAIN file'.channels : Escaped(file'.channels[i].ref) = file'.channels[i].ref
    <3>1. CASE file' = file
      BY <3>1 DEF ListTypes, ListsFormed
    <3>2. CASE file' = NoFile
      <4>1. file' = [groups |-> <<>>, channels |-> <<>>]
        BY <3>2 DEF NoFile
      <4>. QED  BY <4>1, NothingListed DEF Once, Placed
    <3>. QED  BY <2>1, <3>1, <3>2
  <2>3. ListTypes' /\ ListsFormed'
    BY <2>1, <2>2, NothingListed DEF ListTypes, ListsFormed, Once, Placed
  <2>4. CountFits' /\ OfferFetched' /\ FileKnown'
    BY <2>1 DEF CountFits, OfferFetched, FileKnown, FileFollows
  <2>. QED  BY <2>3, <2>4 DEF ListInv
<1>2. CASE OfferChanges \/ UNCHANGED vuChannelVars
  <2>1. UNCHANGED <<groups, numGroups, channels, checks, file, phase, triggered, clean, offered>>
        /\ vuBox' \in Box
    BY <1>2 DEF OfferChanges, Nothing, vuChannelVars, ListTypes
  <2>2. Stored' = Stored
    BY <2>1 DEF Stored
  <2>3. ListTypes' /\ ListsFormed' /\ CountFits'
    BY <2>1 DEF ListInv, ListTypes, ListsFormed, CountFits
  <2>4. OfferFetched' /\ FileKnown'
    BY <2>1, <2>2 DEF ListInv, OfferFetched, OfferShown, FileKnown, FileFollows
  <2>. QED  BY <2>3, <2>4 DEF ListInv
<1>. QED  BY <1>1, <1>2

(* The channels of the Vu+ client: the list agrees with its groups, with   *)
(* the box and with the file.                                              *)
THEOREM ChannelsAgree == VuChannelsSpec => []ChannelsKept
<1>1. ASSUME ListInv, [VuChannelsNext]_vuChannelVars PROVE ListInv'
  BY <1>1, StartsFromFile, StartsFromBox, GroupsChecked, ChannelsChecked, ListsStored, ListsRest
     DEF VuChannelsNext
<1>2. ListInv => ChannelsKept
  <2>. SUFFICES ASSUME ListInv PROVE ChannelsKept
    OBVIOUS
  <2>1. GroupsCounted
    BY DEF ListInv, ListTypes, CountFits, GroupsCounted
  <2>2. IdsArePlaces
    BY DEF ListInv, ListsFormed, Placed, IdsArePlaces
  <2>3. ListAfterCheck
    BY DEF ListInv, OfferFetched, OfferShown, ListAfterCheck
  <2>4. FileFollows
    BY DEF ListInv, FileKnown
  <2>. QED  BY <2>1, <2>2, <2>3, <2>4 DEF ChannelsKept
<1>. QED  BY <1>1, <1>2, ListsInit, PTL DEF VuChannelsSpec

-----------------------------------------------------------------------------
(* VuTimers                                                                *)

(* A timer of the mirror, and                                              *)
Timer == [key : Key, text : Text, state : State, index : Nat]

(* what XBMC knows of one.                                                 *)
Shown == [index : Nat, key : Key]

(* A key, and an index, name one timer of a set.                           *)
OneKey(S) == \A x, y \in S : x.key = y.key => x = y

(* (As OneKey.)                                                            *)
OneIndex(S) == \A x, y \in S : x.index = y.index => x = y

(* The types; a list of the box's has each timer once.                     *)
MirrorTypes ==
  /\ box \in Seq(BoxTimer) /\ Distinct(box)
  /\ merged \in Seq(BoxTimer) /\ Distinct(merged)
  /\ fetched \in [Thread -> Seq(BoxTimer)]
  /\ \A t \in Thread : Distinct(fetched[t])
  /\ timers \in Seq(Timer)
  /\ counter \in Nat /\ shown \in SUBSET Shown

(* Keys and indexes are those of one timer; an index was counted.          *)
NamedOnce ==
  /\ Once(timers) /\ OneKey(Range(timers)) /\ OneIndex(Range(timers))
  /\ \A t \in Range(timers) : t.index < counter
  /\ \A s \in shown : s.index < counter

(* The inductive invariant.                                                *)
MirrorInv == MirrorTypes /\ NamedOnce /\ TimersTold

(* The keys of a list are distinct if its timers are, and each has its     *)
(* own.                                                                    *)
LEMMA DistinctIs ==
  ASSUME NEW T, NEW s \in Seq(T)
  PROVE  Distinct(s) <=> Once(s) /\ OneKey(Range(s))
<1>1. ASSUME Distinct(s) PROVE Once(s) /\ OneKey(Range(s))
  BY <1>1 DEF Distinct, Once, OneKey, Range
<1>2. ASSUME Once(s), OneKey(Range(s)) PROVE Distinct(s)
  <2>. SUFFICES ASSUME NEW i \in DOMAIN s, NEW j \in DOMAIN s, s[i].key = s[j].key PROVE i = j
    BY DEF Distinct
  <2>1. s[i] \in Range(s) /\ s[j] \in Range(s)
    BY DEF Range
  <2>. QED  BY <1>2, <2>1 DEF Once, OneKey
<1>. QED  BY <1>1, <1>2

(* Title and plot are taken over, key and index stay.                      *)
LEMMA RefreshedIs ==
  ASSUME NEW mine \in Seq(Timer), NEW list \in Seq(BoxTimer)
  PROVE  /\ Refreshed(mine, list) \in Seq(Timer)
         /\ DOMAIN Refreshed(mine, list) = DOMAIN mine
         /\ \A i \in DOMAIN mine :
              /\ Refreshed(mine, list)[i].key = mine[i].key
              /\ Refreshed(mine, list)[i].index = mine[i].index
              /\ mine[i].key \in Keys(list) =>
                   \E j \in DOMAIN list : /\ list[j].key = mine[i].key
                                          /\ Refreshed(mine, list)[i].text = list[j].text
<1> DEFINE r == Refreshed(mine, list)
<1>1. r = [i \in DOMAIN mine |->
     IF Like(list, mine[i]) = {} THEN mine[i]
     ELSE [mine[i] EXCEPT !.text = list[CHOOSE j \in Like(list, mine[i]) : TRUE].text]]
  BY DEF Refreshed
<1>2. \A x \in Timer, y \in Text :
        LET z == [x EXCEPT !.text = y]
        IN  z \in Timer /\ z.key = x.key /\ z.index = x.index /\ z.text = y
  BY DEF Timer
<1>3. ASSUME NEW i \in DOMAIN mine
      PROVE  /\ r[i] \in Timer /\ r[i].key = mine[i].key /\ r[i].index = mine[i].index
             /\ mine[i].key \in Keys(list) =>
                  \E j \in DOMAIN list : list[j].key = mine[i].key /\ r[i].text = list[j].text
  <2>1. mine[i] \in Timer
    OBVIOUS
  <2>2. r[i] = IF Like(list, mine[i]) = {} THEN mine[i]
               ELSE [mine[i] EXCEPT !.text = list[CHOOSE j \in Like(list, mine[i]) : TRUE].text]
    BY <1>1
  <2>. HIDE DEF r
  <2>3. CASE Like(list, mine[i]) = {}
    BY <2>1, <2>2, <2>3 DEF Like, Keys
  <2>4. CASE Like(list, mine[i]) # {}
    <3> DEFINE j == CHOOSE j \in Like(list, mine[i]) : TRUE
    <3>1. j \in Like(list, mine[i])
      BY <2>4
    <3>2. r[i] = [mine[i] EXCEPT !.text = list[j].text]
      BY <2>2, <2>4
    <3>. HIDE DEF j
    <3>3. j \in DOMAIN list /\ list[j].key = mine[i].key
      BY <3>1 DEF Like
    <3>4. list[j] \in BoxTimer
      BY <3>3
    <3>5. list[j].text \in Text
      BY <3>4 DEF BoxTimer
    <3>. QED  BY <1>2, <2>1, <3>2, <3>3, <3>5
  <2>. QED  BY <2>3, <2>4
<1>4. DOMAIN r = DOMAIN mine
  BY <1>1
<1>5. DOMAIN mine = 1..Len(mine) /\ Len(mine) \in Nat
  OBVIOUS
<1>. HIDE DEF r
<1>6. r \in [1..Len(mine) -> Timer]
  <2>1. r = [i \in DOMAIN mine |-> r[i]]
    BY <1>1, <1>4 DEF r
  <2>. QED  BY <1>3, <1>4, <1>5, <2>1
<1>7. r \in Seq(Timer)
  BY <1>5, <1>6
<1>. QED  BY <1>3, <1>4, <1>7 DEF r

(* What the sweep leaves: timers that were there, all that the list has,   *)
(* and at the first place at most one that it has not.                     *)
LEMMA SweptIs ==
  ASSUME NEW mine \in Seq(Timer), NEW list \in Seq(BoxTimer), Once(mine)
  PROVE  /\ Swept(mine, list) \in Seq(Timer)
         /\ Range(Swept(mine, list)) \subseteq Range(mine)
         /\ Once(Swept(mine, list))
         /\ \A x \in Range(mine) : x.key \in Keys(list) => x \in Range(Swept(mine, list))
         /\ \A i \in DOMAIN Swept(mine, list) : Swept(mine, list)[i].key \in Keys(list) \/ i = 1
<1> DEFINE kept == {t \in Range(mine) : t.key \in Keys(list)}
<1>1. Swept(mine, list) =
        IF mine = <<>> \/ Head(mine) \in kept THEN Only(mine, kept)
        ELSE IF Len(mine) = 1 THEN <<>>
        ELSE <<mine[2]>> \o Only(Tail(Tail(mine)), kept)
  BY DEF Swept
<1>2. kept \subseteq Range(mine) /\ (\A x \in kept : x.key \in Keys(list))
      /\ \A x \in Range(mine) : x.key \in Keys(list) => x \in kept
  OBVIOUS
<1>. HIDE DEF kept
<1>3. CASE mine = <<>> \/ Head(mine) \in kept
  <2> DEFINE s == Only(mine, kept)
  <2>1. s \in Seq(Timer) /\ Range(s) = Range(mine) \cap kept /\ Once(s)
    BY OnlyIs
  <2>2. Swept(mine, list) = s
    BY <1>1, <1>3
  <2>. HIDE DEF s
  <2>3. \A i \in DOMAIN s : s[i] \in Range(s)
    BY DEF Range
  <2>. QED  BY <1>2, <2>1, <2>2, <2>3
<1>4. CASE ~(mine = <<>> \/ Head(mine) \in kept) /\ Len(mine) = 1
  <2>1. Swept(mine, list) = <<>>
    BY <1>1, <1>4
  <2>2. Range(mine) = {Head(mine)}
    <3>1. DOMAIN mine = 1..Len(mine) /\ Head(mine) = mine[1] /\ Len(mine) = 1
      BY <1>4
    <3>2. \A i \in DOMAIN mine : i = 1
      BY <3>1
    <3>3. 1 \in DOMAIN mine
      BY <3>1
    <3>. QED  BY <3>1, <3>2, <3>3 DEF Range
  <2>3. \A x \in Range(mine) : x.key \notin Keys(list)
    BY <1>2, <1>4, <2>2
  <2>4. <<>> \in Seq(Timer) /\ Range(<<>>) = {} /\ Once(<<>>) /\ DOMAIN <<>> = {}
    BY RangeOfEmpty DEF Once
  <2>. QED  BY <2>1, <2>3, <2>4
<1>5. CASE ~(mine = <<>> \/ Head(mine) \in kept) /\ Len(mine) # 1
  <2> DEFINE rest == Tail(mine)
             most == Tail(rest)
             o == Only(most, kept)
             a == <<mine[2]>>
  <2>1. mine # <<>> /\ rest \in Seq(Timer) /\ rest # <<>> /\ Head(rest) = mine[2] /\ mine[2] \in Timer
    <3>1. mine # <<>> /\ Len(mine) # 1
      BY <1>5
    <3>2. Len(mine) \in Nat /\ Len(mine) # 0
      BY <3>1
    <3> DEFINE n == Len(mine)
    <3>3. n \in Nat /\ n >= 2
      <4>1. n \in Nat /\ n # 0 /\ n # 1
        BY <3>1, <3>2
      <4>. HIDE DEF n
      <4>. QED  BY <4>1
    <3>4. /\ rest \in Seq(Timer) /\ Len(rest) = n - 1 /\ rest[1] = mine[2]
      BY <3>1, <3>3
    <3>5. mine[2] \in Timer
      BY <3>3
    <3>6. Len(rest) # 0 /\ Head(rest) = rest[1]
      BY <3>3, <3>4
    <3>7. rest # <<>>
      <4>1. Len(<<>>) = 0
        OBVIOUS
      <4>. HIDE DEF rest
      <4>. QED  BY <3>6, <4>1
    <3>. QED  BY <3>1, <3>4, <3>5, <3>6, <3>7
  <2>2. Range(mine) = {Head(mine)} \cup Range(rest) /\ Once(rest) /\ Head(mine) \notin Range(rest)
    BY <2>1, RangeOfTail, OnceTail
  <2>. HIDE DEF rest
  <2>3. /\ most \in Seq(Timer) /\ Range(rest) = {Head(rest)} \cup Range(most)
        /\ Once(most) /\ Head(rest) \notin Range(most)
    BY <2>1, <2>2, RangeOfTail, OnceTail
  <2>4. Swept(mine, list) = a \o o
    BY <1>1, <1>5 DEF rest
  <2>. HIDE DEF most
  <2>5. o \in Seq(Timer) /\ Range(o) = Range(most) \cap kept /\ Once(o)
    BY <2>3, OnlyIs
  <2>. HIDE DEF o
  <2>6. /\ a \in Seq(Timer) /\ Len(a) = 1 /\ a[1] = mine[2] /\ DOMAIN a = {1}
    BY <2>1
  <2>7. Range(a) = {mine[2]} /\ Once(a)
    BY <2>6 DEF Range, Once
  <2>. HIDE DEF a
  <2>8. Range(a \o o) = {mine[2]} \cup (Range(most) \cap kept)
    BY <2>5, <2>6, <2>7, RangeOfConcat
  <2>9. Once(a \o o)
    BY <2>1, <2>3, <2>5, <2>6, <2>7, OnceConcat
  <2>10. a \o o \in Seq(Timer)
    BY <2>5, <2>6
  <2>11. ASSUME NEW i \in DOMAIN (a \o o), i # 1 PROVE (a \o o)[i].key \in Keys(list)
    <3>1. i - 1 \in DOMAIN o /\ (a \o o)[i] = o[i - 1]
      <4>1. /\ DOMAIN (a \o o) = 1..Len(a) + Len(o) /\ Len(o) \in Nat /\ DOMAIN o = 1..Len(o)
            /\ \A k \in 1..Len(a) + Len(o) : (a \o o)[k] = IF k <= Len(a) THEN a[k] ELSE o[k - Len(a)]
        <5>1. a \in Seq(Timer) /\ o \in Seq(Timer)
          BY <2>5, <2>6
        <5>. QED  BY <5>1
      <4>. QED  BY <2>6, <2>11, <4>1
    <3>2. o[i - 1] \in Range(o)
      BY <3>1 DEF Range
    <3>. QED  BY <1>2, <2>5, <3>1, <3>2
  <2>12. ASSUME NEW x \in Range(mine), x.key \in Keys(list) PROVE x \in Range(a \o o)
    BY <1>2, <1>5, <2>1, <2>2, <2>3, <2>8, <2>12
  <2>13. Range(a \o o) \subseteq Range(mine)
    BY <2>1, <2>2, <2>3, <2>8
  <2>. QED  BY <2>4, <2>9, <2>10, <2>11, <2>12, <2>13
<1>. QED  BY <1>3, <1>4, <1>5

(* The new timers are those of the list that the mirror has not.           *)
LEMMA NewTimersIs ==
  ASSUME NEW mine \in Seq(Timer), NEW list \in Seq(BoxTimer), Distinct(list)
  PROVE  /\ NewTimers(mine, list) \in Seq(BoxTimer)
         /\ Range(NewTimers(mine, list)) = {t \in Range(list) : t.key \notin Keys(mine)}
         /\ Once(NewTimers(mine, list)) /\ OneKey(Range(NewTimers(mine, list)))
<1> DEFINE S == {t \in Range(list) : t.key \notin Keys(mine)}
<1>1. NewTimers(mine, list) = Only(list, S)
  BY DEF NewTimers
<1>2. Once(list) /\ OneKey(Range(list))
  BY DistinctIs
<1>3. Range(list) \cap S = S
  OBVIOUS
<1>. HIDE DEF S
<1>4. /\ Only(list, S) \in Seq(BoxTimer) /\ Range(Only(list, S)) = Range(list) \cap S
      /\ Once(Only(list, S))
  BY <1>2, OnlyIs
<1>5. OneKey(Range(Only(list, S)))
  BY <1>2, <1>4 DEF OneKey
<1>. QED  BY <1>1, <1>3, <1>4, <1>5 DEF S

(* They get numbers of their own, from the counter on.                     *)
LEMMA NumberedIs ==
  ASSUME NEW list \in Seq(BoxTimer), NEW from \in Nat, Once(list), OneKey(Range(list))
  PROVE  /\ Numbered(list, from) \in Seq(Timer)
         /\ Once(Numbered(list, from))
         /\ OneKey(Range(Numbered(list, from))) /\ OneIndex(Range(Numbered(list, from)))
         /\ \A t \in Range(Numbered(list, from)) :
              /\ from <= t.index /\ t.index < from + Len(list)
              /\ \E e \in Range(list) : e.key = t.key /\ e.text = t.text
         /\ \A e \in Range(list) :
              \E t \in Range(Numbered(list, from)) : e.key = t.key /\ e.text = t.text
<1> DEFINE n == Numbered(list, from)
           N == Len(list)
<1>1. n = [i \in DOMAIN list |->
             [key |-> list[i].key, text |-> list[i].text, state |-> list[i].state,
              index |-> from + i - 1]]
  BY DEF Numbered
<1>2. DOMAIN list = 1..N /\ N \in Nat
  OBVIOUS
<1>3. ASSUME NEW i \in 1..N
      PROVE  /\ n[i] \in Timer /\ n[i].key = list[i].key /\ n[i].text = list[i].text
             /\ n[i].index = from + i - 1
  <2>1. list[i] \in BoxTimer
    BY <1>2
  <2>2. n[i] = [key |-> list[i].key, text |-> list[i].text, state |-> list[i].state,
                index |-> from + i - 1]
    BY <1>1, <1>2
  <2>3. from + i - 1 \in Nat
    BY <1>2
  <2>4. list[i].key \in Key /\ list[i].text \in Text /\ list[i].state \in State
    BY <2>1 DEF BoxTimer
  <2>. HIDE DEF n
  <2>. QED  BY <2>2, <2>3, <2>4 DEF Timer
<1>4. DOMAIN n = 1..N /\ n = [i \in 1..N |-> n[i]]
  BY <1>1, <1>2
<1>. HIDE DEF n, N
<1>5. n \in Seq(Timer)
  <2>1. n \in [1..N -> Timer]
    BY <1>3, <1>4
  <2>. QED  BY <1>2, <2>1
<1>6. /\ \A t \in Range(n) : \E i \in 1..N : t = n[i]
      /\ \A e \in Range(list) : \E i \in 1..N : e = list[i]
      /\ \A i \in 1..N : n[i] \in Range(n) /\ list[i] \in Range(list)
  BY <1>2, <1>4 DEF Range
<1>7. \A i, j \in 1..N : n[i].key = n[j].key => i = j
  <2>. SUFFICES ASSUME NEW i \in 1..N, NEW j \in 1..N, n[i].key = n[j].key PROVE i = j
    OBVIOUS
  <2>1. list[i].key = list[j].key /\ list[i] \in Range(list) /\ list[j] \in Range(list)
    BY <1>3, <1>6
  <2>2. list[i] = list[j]
    BY <2>1 DEF OneKey
  <2>. QED  BY <1>2, <2>2 DEF Once
<1>8. Once(n) /\ OneKey(Range(n))
  BY <1>4, <1>6, <1>7 DEF Once, OneKey
<1>9. OneIndex(Range(n))
  <2>1. \A i, j \in 1..N : n[i].index = n[j].index => i = j
    BY <1>2, <1>3
  <2>. QED  BY <1>6, <2>1 DEF OneIndex
<1>10. ASSUME NEW t \in Range(n)
       PROVE  /\ from <= t.index /\ t.index < from + N
              /\ \E e \in Range(list) : e.key = t.key /\ e.text = t.text
  <2>1. PICK i \in 1..N : t = n[i]
    BY <1>6
  <2>2. t.index = from + i - 1 /\ 1 <= i /\ i <= N /\ i \in Nat
    BY <1>2, <1>3, <2>1
  <2>3. from <= t.index /\ t.index < from + N
    BY <1>2, <2>2
  <2>. QED  BY <1>3, <1>6, <2>1, <2>3
<1>11. \A e \in Range(list) : \E t \in Range(n) : e.key = t.key /\ e.text = t.text
  BY <1>3, <1>6
<1>. QED  BY <1>5, <1>8, <1>9, <1>10, <1>11 DEF n, N

(* A list is merged.                                                       *)
LEMMA MergeKeeps ==
  ASSUME MirrorTypes, NamedOnce, IndexNamesOneTimer,
         NEW list \in Seq(BoxTimer), Distinct(list), MergeList(list), shown' = shown
  PROVE  /\ timers' \in Seq(Timer) /\ counter' \in Nat
         /\ merged' \in Seq(BoxTimer) /\ Distinct(merged')
         /\ NamedOnce' /\ MirrorOfMerged' /\ IndexNamesOneTimer'
<1> DEFINE r == Refreshed(timers, list)
           s == Swept(r, list)
           new == NewTimers(timers, list)
           n == Numbered(new, counter)
<1>1. timers' = s \o n /\ counter' = counter + Len(new) /\ merged' = list
  BY DEF MergeList, TimerUpdates
<1>2. timers \in Seq(Timer) /\ counter \in Nat /\ DOMAIN timers = 1..Len(timers) /\ Len(timers) \in Nat
  BY DEF MirrorTypes
<1>3. /\ r \in Seq(Timer) /\ DOMAIN r = DOMAIN timers
      /\ \A i \in DOMAIN timers :
           /\ r[i].key = timers[i].key /\ r[i].index = timers[i].index
           /\ timers[i].key \in Keys(list) =>
                \E j \in DOMAIN list : list[j].key = timers[i].key /\ r[i].text = list[j].text
  BY <1>2, RefreshedIs
<1>. HIDE DEF r
<1>4. /\ \A x \in Range(r) : \E i \in DOMAIN timers : x = r[i]
      /\ \A i \in DOMAIN timers : timers[i] \in Range(timers) /\ r[i] \in Range(r)
      /\ \A x \in Range(timers) : \E i \in DOMAIN timers : x = timers[i]
  BY <1>3 DEF Range
<1>5. \A i, j \in DOMAIN timers : r[i].key = r[j].key => i = j
  BY <1>3, <1>4 DEF NamedOnce, Once, OneKey
<1>6. \A i, j \in DOMAIN timers : r[i].index = r[j].index => i = j
  BY <1>3, <1>4 DEF NamedOnce, Once, OneIndex
<1>7. Once(r) /\ OneKey(Range(r)) /\ OneIndex(Range(r))
  BY <1>3, <1>4, <1>5, <1>6, SMTT(30) DEF Once, OneKey, OneIndex
<1>8. \A x \in Range(r) : \E t \in Range(timers) : x.key = t.key /\ x.index = t.index
  BY <1>3, <1>4
<1>9. \A x \in Range(r) : x.key \in Keys(list) =>
        \E e \in Range(list) : e.key = x.key /\ e.text = x.text
  <2>. SUFFICES ASSUME NEW x \in Range(r), x.key \in Keys(list)
                PROVE  \E e \in Range(list) : e.key = x.key /\ e.text = x.text
    OBVIOUS
  <2>1. PICK i \in DOMAIN timers : x = r[i]
    BY <1>4
  <2>2. PICK j \in DOMAIN list : list[j].key = timers[i].key /\ r[i].text = list[j].text
    BY <1>3, <2>1
  <2>3. list[j] \in Range(list)
    BY DEF Range
  <2>. QED  BY <1>3, <2>1, <2>2, <2>3
<1>10. /\ s \in Seq(Timer) /\ Range(s) \subseteq Range(r) /\ Once(s)
       /\ \A x \in Range(r) : x.key \in Keys(list) => x \in Range(s)
       /\ \A i \in DOMAIN s : s[i].key \in Keys(list) \/ i = 1
  BY <1>3, <1>7, SweptIs
<1>11. /\ new \in Seq(BoxTimer)
       /\ Range(new) = {t \in Range(list) : t.key \notin Keys(timers)}
       /\ Once(new) /\ OneKey(Range(new))
  BY <1>2, NewTimersIs
<1>. HIDE DEF s, new
<1>12. /\ n \in Seq(Timer) /\ Once(n) /\ OneKey(Range(n)) /\ OneIndex(Range(n))
       /\ \A t \in Range(n) : /\ counter <= t.index /\ t.index < counter + Len(new)
                              /\ \E e \in Range(new) : e.key = t.key /\ e.text = t.text
       /\ \A e \in Range(new) : \E t \in Range(n) : e.key = t.key /\ e.text = t.text
  BY <1>2, <1>11, NumberedIs
<1>. HIDE DEF n
<1>13. Len(new) \in Nat
  BY <1>11
<1>14. /\ timers' \in Seq(Timer) /\ counter' \in Nat
       /\ Range(timers') = Range(s) \cup Range(n)
  BY <1>1, <1>2, <1>10, <1>12, <1>13, RangeOfConcat
<1>15. Keys(timers) = {t.key : t \in Range(timers)}
  BY <1>4 DEF Keys
<1>16. \A x \in Range(r), y \in Range(n) : x.key # y.key
  <2>. SUFFICES ASSUME NEW x \in Range(r), NEW y \in Range(n), x.key = y.key PROVE FALSE
    OBVIOUS
  <2>1. PICK t \in Range(timers) : x.key = t.key
    BY <1>8
  <2>2. PICK e \in Range(new) : e.key = y.key
    BY <1>12
  <2>. QED  BY <1>11, <1>15, <2>1, <2>2
<1>17. \A x \in Range(r) : x \in Timer /\ x.index \in Nat /\ x.index < counter
  <2>. SUFFICES ASSUME NEW x \in Range(r) PROVE x \in Timer /\ x.index \in Nat /\ x.index < counter
    OBVIOUS
  <2>1. PICK t \in Range(timers) : x.index = t.index
    BY <1>8
  <2>2. x \in Timer
    BY <1>3 DEF Range
  <2>. QED  BY <2>1, <2>2 DEF NamedOnce, Timer
<1>18. \A y \in Range(n) : y.index \in Nat
  <2>1. \A y \in Range(n) : y \in Timer
    BY <1>12 DEF Range
  <2>. QED  BY <2>1 DEF Timer
<1>19. \A x \in Range(r), y \in Range(n) : x.index # y.index
  BY <1>2, <1>12, <1>17, <1>18
<1>20. Once(timers')
  <2>1. Range(s) \cap Range(n) = {}
    BY <1>10, <1>16
  <2>. QED  BY <1>1, <1>10, <1>12, <2>1, OnceConcat
<1>21. OneKey(Range(timers'))
  BY <1>7, <1>10, <1>12, <1>14, <1>16 DEF OneKey
<1>22. OneIndex(Range(timers'))
  BY <1>7, <1>10, <1>12, <1>14, <1>19 DEF OneIndex
<1>23. \A t \in Range(timers') : t.index < counter'
  <2>. SUFFICES ASSUME NEW t \in Range(timers') PROVE t.index < counter'
    OBVIOUS
  <2>1. CASE t \in Range(s)
    BY <1>1, <1>2, <1>10, <1>13, <1>17, <2>1
  <2>2. CASE t \in Range(n)
    BY <1>1, <1>12, <2>2
  <2>. QED  BY <1>14, <2>1, <2>2
<1>24. \A x \in shown' : x.index < counter'
  <2>1. \A x \in shown : x.index \in Nat /\ x.index < counter
    BY DEF NamedOnce, MirrorTypes, Shown
  <2>. QED  BY <1>1, <1>2, <1>13, <2>1
<1>25. NamedOnce'
  BY <1>20, <1>21, <1>22, <1>23, <1>24 DEF NamedOnce
<1>26. IndexNamesOneTimer'
  <2>. SUFFICES ASSUME NEW x \in shown, NEW t \in Range(timers'), x.index = t.index PROVE x.key = t.key
    BY DEF IndexNamesOneTimer
  <2>1. x.index \in Nat /\ x.index < counter
    BY DEF NamedOnce, MirrorTypes, Shown
  <2>2. CASE t \in Range(s)
    <3>1. PICK u \in Range(timers) : t.key = u.key /\ t.index = u.index
      BY <1>8, <1>10, <2>2
    <3>. QED  BY <3>1 DEF IndexNamesOneTimer
  <2>3. CASE t \in Range(n)
    BY <1>2, <1>12, <1>18, <2>1, <2>3
  <2>. QED  BY <1>14, <2>2, <2>3
<1>27. \A e \in Range(list) : \E t \in Range(timers') : t.key = e.key /\ t.text = e.text
  <2>. SUFFICES ASSUME NEW e \in Range(list)
                PROVE  \E t \in Range(timers') : t.key = e.key /\ t.text = e.text
    OBVIOUS
  <2>0. e.key \in Keys(list)
    BY DEF Keys, Range
  <2>1. CASE e.key \in Keys(timers)
    <3>1. PICK i \in DOMAIN timers : timers[i].key = e.key
      BY <2>1 DEF Keys
    <3>2. r[i] \in Range(s) /\ r[i].key = e.key
      BY <1>3, <1>4, <1>10, <2>0, <3>1
    <3>3. PICK d \in Range(list) : d.key = r[i].key /\ d.text = r[i].text
      BY <1>4, <1>9, <2>0, <3>2
    <3>4. d = e
      BY <3>2, <3>3, DistinctIs DEF OneKey
    <3>. QED  BY <1>14, <3>2, <3>3, <3>4
  <2>2. CASE e.key \notin Keys(timers)
    <3>1. e \in Range(new)
      BY <1>11, <2>2
    <3>2. PICK t \in Range(n) : e.key = t.key /\ e.text = t.text
      BY <1>12, <3>1
    <3>. QED  BY <1>14, <3>2
  <2>. QED  BY <2>1, <2>2
<1>28. \A i \in DOMAIN timers' : timers'[i].key \in Keys(list) \/ i = 1
  <2>. SUFFICES ASSUME NEW i \in DOMAIN timers' PROVE timers'[i].key \in Keys(list) \/ i = 1
    OBVIOUS
  <2>1. /\ DOMAIN s = 1..Len(s) /\ DOMAIN n = 1..Len(n) /\ Len(s) \in Nat /\ Len(n) \in Nat
        /\ DOMAIN (s \o n) = 1..Len(s) + Len(n)
        /\ \A k \in 1..Len(s) + Len(n) : (s \o n)[k] = IF k <= Len(s) THEN s[k] ELSE n[k - Len(s)]
    BY <1>10, <1>12
  <2>2. CASE i <= Len(s)
    <3>1. i \in DOMAIN s /\ timers'[i] = s[i]
      BY <1>1, <2>1, <2>2
    <3>. QED  BY <1>10, <3>1
  <2>3. CASE ~(i <= Len(s))
    <3>1. i - Len(s) \in DOMAIN n /\ timers'[i] = n[i - Len(s)]
      BY <1>1, <2>1, <2>3
    <3>2. timers'[i] \in Range(n)
      BY <3>1 DEF Range
    <3>3. PICK e \in Range(new) : e.key = timers'[i].key
      BY <1>12, <3>2
    <3>4. e \in Range(list)
      BY <1>11, <3>3
    <3>5. e.key \in Keys(list)
      BY <3>4 DEF Keys, Range
    <3>. QED  BY <3>3, <3>5
  <2>. QED  BY <2>2, <2>3
<1>29. ASSUME NEW e \in Range(list)
       PROVE  Cardinality({i \in DOMAIN timers' : timers'[i].key = e.key /\ timers'[i].text = e.text}) = 1
  <2>1. PICK t \in Range(timers') : t.key = e.key /\ t.text = e.text
    BY <1>27
  <2>2. PICK i \in DOMAIN timers' : timers'[i] = t
    BY <2>1 DEF Range
  <2>3. \A j \in DOMAIN timers' : timers'[j].key = e.key => j = i
    <3>1. \A j \in DOMAIN timers' : timers'[j] \in Range(timers')
      BY DEF Range
    <3>. QED  BY <1>20, <1>21, <2>1, <2>2, <3>1 DEF Once, OneKey
  <2>4. {j \in DOMAIN timers' : timers'[j].key = e.key /\ timers'[j].text = e.text} = {i}
    BY <2>1, <2>2, <2>3
  <2>. QED  BY <2>4, FS_Singleton
<1>30. MirrorOfMerged'
  <2>1. merged' = list
    BY <1>1
  <2>. QED  BY <1>28, <1>29, <2>1 DEF MirrorOfMerged
<1>. QED  BY <1>1, <1>14, <1>25, <1>26, <1>30

(* The box's list without a timer,                                         *)
LEMMA WithoutIs ==
  ASSUME NEW list \in Seq(BoxTimer), Distinct(list), NEW k
  PROVE  /\ Without(list, k) \in Seq(BoxTimer) /\ Distinct(Without(list, k))
         /\ \A x : x \in Keys(Without(list, k)) <=> x \in Keys(list) /\ x # k
<1> DEFINE S == {e \in Range(list) : e.key # k}
<1>1. Without(list, k) = Only(list, S) /\ Range(list) \cap S = S
  BY DEF Without
<1>2. Once(list) /\ OneKey(Range(list))
  BY DistinctIs
<1>. HIDE DEF S
<1>3. /\ Only(list, S) \in Seq(BoxTimer) /\ Range(Only(list, S)) = S /\ Once(Only(list, S))
  BY <1>1, <1>2, OnlyIs
<1>4. OneKey(S)
  BY <1>2 DEF OneKey, S
<1>5. Distinct(Only(list, S))
  BY <1>3, <1>4, DistinctIs
<1>6. \A l : Keys(l) = {e.key : e \in Range(l)}
  BY DEF Keys, Range
<1>7. \A x : x \in {e.key : e \in S} <=> x \in {e.key : e \in Range(list)} /\ x # k
  BY DEF S
<1>8. Keys(Only(list, S)) = {e.key : e \in S} /\ Keys(list) = {e.key : e \in Range(list)}
  BY <1>3, <1>6
<1>. QED  BY <1>1, <1>3, <1>5, <1>7, <1>8

(* with one more,                                                          *)
LEMMA WithEntry ==
  ASSUME NEW list \in Seq(BoxTimer), Distinct(list), NEW k \in Key, NEW text \in Text, k \notin Keys(list)
  PROVE  Append(list, Entry(k, text)) \in Seq(BoxTimer) /\ Distinct(Append(list, Entry(k, text)))
<1> DEFINE e == Entry(k, text)
           more == Append(list, e)
<1>1. e \in BoxTimer /\ e.key = k
  BY DEF Entry, BoxTimer, State
<1>. HIDE DEF e
<1>2. /\ more \in Seq(BoxTimer) /\ DOMAIN list = 1..Len(list) /\ DOMAIN more = 1..Len(list) + 1
      /\ Len(list) \in Nat /\ more[Len(list) + 1] = e /\ \A i \in 1..Len(list) : more[i] = list[i]
  BY <1>1
<1>3. \A i \in 1..Len(list) : list[i].key # k
  BY <1>2 DEF Keys
<1>. HIDE DEF more
<1>4. Distinct(more)
  BY <1>1, <1>2, <1>3 DEF Distinct
<1>. QED  BY <1>2, <1>4 DEF more, e

(* and with another state.                                                 *)
LEMMA WithState ==
  ASSUME NEW list \in Seq(BoxTimer), Distinct(list), NEW i \in DOMAIN list, NEW v \in State
  PROVE  [list EXCEPT ![i].state = v] \in Seq(BoxTimer) /\ Distinct([list EXCEPT ![i].state = v])
<1> DEFINE other == [list EXCEPT ![i].state = v]
<1>1. /\ DOMAIN list = 1..Len(list) /\ Len(list) \in Nat
      /\ \A j \in DOMAIN list : list[j] \in BoxTimer
  OBVIOUS
<1>2. \A x \in BoxTimer : LET z == [x EXCEPT !.state = v] IN z \in BoxTimer /\ z.key = x.key
  BY DEF BoxTimer
<1>3. other = [j \in DOMAIN list |-> IF j = i THEN [list[i] EXCEPT !.state = v] ELSE list[j]]
  OBVIOUS
<1>4. DOMAIN other = DOMAIN list /\ \A j \in DOMAIN list : other[j] \in BoxTimer /\ other[j].key = list[j].key
  BY <1>1, <1>2, <1>3
<1>. HIDE DEF other
<1>5. other \in [1..Len(list) -> BoxTimer]
  <2>1. other = [j \in DOMAIN list |-> other[j]]
    BY <1>3, <1>4 DEF other
  <2>. QED  BY <1>1, <1>4, <2>1
<1>6. other \in Seq(BoxTimer)
  BY <1>1, <1>5
<1>7. Distinct(other)
  BY <1>4 DEF Distinct
<1>. QED  BY <1>6, <1>7 DEF other

(* What a change of the box's list leaves alone.                           *)
LEMMA BoxKeeps ==
  ASSUME MirrorInv, NEW list \in Seq(BoxTimer), Distinct(list), box' = list,
         UNCHANGED <<timers, counter, fetched, shown, merged>>
  PROVE  MirrorInv'
BY DEF MirrorInv, MirrorTypes, NamedOnce, TimersTold, MirrorOfMerged, IndexNamesOneTimer

(* Steps that leave the lists alone.                                       *)
LEMMA SameKeeps ==
  ASSUME MirrorInv, UNCHANGED <<box, timers, counter, fetched, shown, merged>>
  PROVE  MirrorInv'
BY DEF MirrorInv, MirrorTypes, NamedOnce, TimersTold, MirrorOfMerged, IndexNamesOneTimer

(* The mirror has each timer of the list merged last, once and with its    *)
(* title, and at most one that the list does not have; an index XBMC was   *)
(* given never comes to name another timer, whatever the order of the      *)
(* merges.                                                                 *)
THEOREM TimersNamed == VuTimersSpec => []TimersTold
<1>1. VuTimersInit => MirrorInv
  <2>. SUFFICES ASSUME VuTimersInit PROVE MirrorInv
    OBVIOUS
  <2>1. \A T : <<>> \in Seq(T)
    OBVIOUS
  <2>2. Range(<<>>) = {} /\ Once(<<>>) /\ Distinct(<<>>) /\ DOMAIN <<>> = {}
    BY RangeOfEmpty DEF Once, Distinct
  <2>3. fetched \in [Thread -> Seq(BoxTimer)] /\ \A t \in Thread : fetched[t] = <<>>
    BY <2>1 DEF VuTimersInit
  <2>4. MirrorTypes
    BY <2>1, <2>2, <2>3 DEF VuTimersInit, MirrorTypes
  <2>5. NamedOnce
    BY <2>2 DEF VuTimersInit, NamedOnce, OneKey, OneIndex
  <2>6. TimersTold
    BY <2>2 DEF VuTimersInit, TimersTold, MirrorOfMerged, IndexNamesOneTimer
  <2>. QED  BY <2>4, <2>5, <2>6 DEF MirrorInv
<1>2. MirrorInv /\ [VuTimersNext]_vuTimerVars => MirrorInv'
  <2>. SUFFICES ASSUME MirrorInv, [VuTimersNext]_vuTimerVars PROVE MirrorInv'
    OBVIOUS
  <2>. USE DEF MirrorInv
  <2>1. ASSUME NEW t \in Thread, Fetch(t) PROVE MirrorInv'
    <3>1. \A x \in Seq(BoxTimer) : [fetched EXCEPT ![t] = x] \in [Thread -> Seq(BoxTimer)]
      BY DEF MirrorTypes
    <3>2. <<>> \in Seq(BoxTimer) /\ Distinct(<<>>) /\ box \in Seq(BoxTimer) /\ Distinct(box)
      BY DEF MirrorTypes, Distinct
    <3>3. PICK x \in Seq(BoxTimer) : Distinct(x) /\ fetched' = [fetched EXCEPT ![t] = x]
      BY <2>1, <3>2 DEF Fetch
    <3>4. \A u \in Thread : Distinct(fetched'[u])
      BY <3>3 DEF MirrorTypes
    <3>5. UNCHANGED <<box, timers, counter, shown, merged>>
      BY <2>1 DEF Fetch
    <3>6. MirrorTypes'
      BY <3>1, <3>3, <3>4, <3>5 DEF MirrorTypes
    <3>. QED  BY <3>5, <3>6 DEF NamedOnce, TimersTold, MirrorOfMerged, IndexNamesOneTimer
  <2>2. ASSUME NEW t \in Thread, Merge(t) PROVE MirrorInv'
    <3>1. /\ MergeList(fetched[t]) /\ fetched' = [fetched EXCEPT ![t] = <<>>]
          /\ UNCHANGED <<box, shown>>
      BY <2>2 DEF Merge
    <3>2. fetched[t] \in Seq(BoxTimer) /\ Distinct(fetched[t])
      BY DEF MirrorTypes
    <3>3. /\ timers' \in Seq(Timer) /\ counter' \in Nat
          /\ merged' \in Seq(BoxTimer) /\ Distinct(merged')
          /\ NamedOnce' /\ MirrorOfMerged' /\ IndexNamesOneTimer'
      BY <3>1, <3>2, MergeKeeps DEF TimersTold
    <3>4. <<>> \in Seq(BoxTimer) /\ Distinct(<<>>)
      BY DEF Distinct
    <3>5. fetched' \in [Thread -> Seq(BoxTimer)] /\ \A u \in Thread : Distinct(fetched'[u])
      BY <3>1, <3>4 DEF MirrorTypes
    <3>6. MirrorTypes'
      BY <3>1, <3>3, <3>5 DEF MirrorTypes
    <3>. QED  BY <3>3, <3>6 DEF TimersTold
  <2>3. CASE Open
    <3>1. PICK list \in {box, <<>>} : MergeList(list)
      BY <2>3 DEF Open
    <3>2. UNCHANGED <<box, fetched, shown>>
      BY <2>3 DEF Open
    <3>3. list \in Seq(BoxTimer) /\ Distinct(list)
      <4>1. <<>> \in Seq(BoxTimer) /\ Distinct(<<>>) /\ box \in Seq(BoxTimer) /\ Distinct(box)
        BY DEF MirrorTypes, Distinct
      <4>. QED  BY <3>1, <4>1
    <3>4. /\ timers' \in Seq(Timer) /\ counter' \in Nat
          /\ merged' \in Seq(BoxTimer) /\ Distinct(merged')
          /\ NamedOnce' /\ MirrorOfMerged' /\ IndexNamesOneTimer'
      BY <3>1, <3>2, <3>3, MergeKeeps DEF TimersTold
    <3>5. MirrorTypes'
      BY <3>2, <3>4 DEF MirrorTypes
    <3>. QED  BY <3>4, <3>5 DEF TimersTold
  <2>4. CASE UpdateDue
    BY <2>4, SameKeeps DEF UpdateDue
  <2>5. CASE GetTimers
    <3>1. /\ shown' = {[index |-> t.index, key |-> t.key] : t \in Range(timers)}
          /\ UNCHANGED <<box, timers, counter, fetched, merged>>
      BY <2>5 DEF GetTimers
    <3>2. \A t \in Range(timers) : t \in Timer
      BY DEF MirrorTypes, Range
    <3>3. shown' \in SUBSET Shown
      BY <3>1, <3>2 DEF Shown, Timer
    <3>4. MirrorTypes'
      BY <3>1, <3>3 DEF MirrorTypes
    <3>5. NamedOnce' /\ IndexNamesOneTimer'
      BY <3>1 DEF NamedOnce, IndexNamesOneTimer, OneIndex
    <3>. QED  BY <3>1, <3>4, <3>5 DEF TimersTold, MirrorOfMerged
  <2>6. CASE AddTimer
    <3>1. PICK k \in Key \ Keys(box) : box' = Append(box, Entry(k, 0))
      BY <2>6 DEF AddTimer, Change
    <3>2. box \in Seq(BoxTimer) /\ Distinct(box) /\ 0 \in Text
      BY DEF MirrorTypes, Text
    <3>3. box' \in Seq(BoxTimer) /\ Distinct(box')
      BY <3>1, <3>2, WithEntry
    <3>4. UNCHANGED <<timers, counter, fetched, shown, merged>>
      BY <2>6 DEF AddTimer
    <3>. QED  BY <3>3, <3>4, BoxKeeps
  <2>7. CASE DeleteTimer
    <3>1. PICK s \in shown : box' = Without(box, s.key)
      BY <2>7 DEF DeleteTimer, Change
    <3>2. box' \in Seq(BoxTimer) /\ Distinct(box')
      BY <3>1, WithoutIs DEF MirrorTypes
    <3>3. UNCHANGED <<timers, counter, fetched, shown, merged>>
      BY <2>7 DEF DeleteTimer
    <3>. QED  BY <3>2, <3>3, BoxKeeps
  <2>8. CASE UpdateTimer
    <3>1. UNCHANGED <<timers, counter, fetched, shown, merged>>
      BY <2>8 DEF UpdateTimer
    <3>2. PICK s \in shown :
            LET named == {t \in Range(timers) : t.index = s.index}
            IN  \/ UNCHANGED box
                \/ \E t \in named, k \in (Key \ Keys(box)) \cup {s.key} :
                     box' = Append(Without(box, t.key), Entry(k, 1))
      BY <2>8 DEF UpdateTimer, Change
    <3>3. CASE UNCHANGED box
      BY <3>1, <3>3, SameKeeps
    <3>4. CASE \E t \in {t \in Range(timers) : t.index = s.index}, k \in (Key \ Keys(box)) \cup {s.key} :
                 box' = Append(Without(box, t.key), Entry(k, 1))
      <4>1. PICK t \in {t \in Range(timers) : t.index = s.index}, k \in (Key \ Keys(box)) \cup {s.key} :
                 box' = Append(Without(box, t.key), Entry(k, 1))
        BY <3>4
      <4>2. s.key = t.key /\ s.key \in Key
        BY <4>1 DEF TimersTold, IndexNamesOneTimer, MirrorTypes, Shown
      <4>3. /\ Without(box, t.key) \in Seq(BoxTimer) /\ Distinct(Without(box, t.key))
            /\ \A x : x \in Keys(Without(box, t.key)) <=> x \in Keys(box) /\ x # t.key
        BY WithoutIs DEF MirrorTypes
      <4>4. k \in Key /\ k \notin Keys(Without(box, t.key)) /\ 1 \in Text
        BY <4>1, <4>2, <4>3 DEF Text
      <4>5. box' \in Seq(BoxTimer) /\ Distinct(box')
        BY <4>1, <4>3, <4>4, WithEntry
      <4>. QED  BY <3>1, <4>5, BoxKeeps
    <3>. QED  BY <3>2, <3>3, <3>4
  <2>9. CASE BoxChanges
    <3>0. box \in Seq(BoxTimer) /\ Distinct(box) /\ 0 \in Text
      BY DEF MirrorTypes, Text
    <3>1. UNCHANGED <<timers, counter, fetched, shown, merged>>
      BY <2>9 DEF BoxChanges
    <3>2. CASE \E k \in Key \ Keys(box) : Change(Append(box, Entry(k, 0)))
      <4>1. PICK k \in Key \ Keys(box) : box' = Append(box, Entry(k, 0))
        BY <3>2 DEF Change
      <4>2. box' \in Seq(BoxTimer) /\ Distinct(box')
        BY <3>0, <4>1, WithEntry
      <4>. QED  BY <3>1, <4>2, BoxKeeps
    <3>3. CASE \E k \in Keys(box) : Change(Without(box, k))
      <4>1. PICK k \in Keys(box) : box' = Without(box, k)
        BY <3>3 DEF Change
      <4>2. box' \in Seq(BoxTimer) /\ Distinct(box')
        BY <3>0, <4>1, WithoutIs
      <4>. QED  BY <3>1, <4>2, BoxKeeps
    <3>4. CASE \E i \in DOMAIN box : Change([box EXCEPT ![i].state = 1 - @])
      <4>1. PICK i \in DOMAIN box : box' = [box EXCEPT ![i].state = 1 - box[i].state]
        BY <3>4 DEF Change
      <4>2. box[i] \in BoxTimer
        BY <3>0
      <4>3. 1 - box[i].state \in State
        BY <4>2 DEF BoxTimer, State
      <4>4. box' \in Seq(BoxTimer) /\ Distinct(box')
        BY <3>0, <4>1, <4>3, WithState
      <4>. QED  BY <3>1, <4>4, BoxKeeps
    <3>. QED  BY <2>9, <3>2, <3>3, <3>4 DEF BoxChanges
  <2>10. CASE UNCHANGED vuTimerVars
    BY <2>10, SameKeeps DEF vuTimerVars
  <2>. QED  BY <2>1, <2>2, <2>3, <2>4, <2>5, <2>6, <2>7, <2>8, <2>9, <2>10 DEF VuTimersNext
<1>3. MirrorInv => TimersTold
  BY DEF MirrorInv
<1>. QED  BY <1>1, <1>2, <1>3, PTL DEF VuTimersSpec
=============================================================================
