--------------------------- MODULE MythRecordings ---------------------------
(***************************************************************************)
(* The list of recordings of the MythTV add-on, which follows the events   *)
(* of the backend, and the playback mode that keeps both quiet             *)
(* (addons/pvr.mythtv.cmyth/src: pvrclient-mythtv.cpp,                     *)
(* cppmyth/MythEventHandler.cpp).  Two threads of XBMC, one that plays and *)
(* one that fetches lists, and the event thread share the flag m_playback. *)
(***************************************************************************)
EXTENDS Naturals, SequencesExt

CONSTANTS
  MaxListChanges,  \* bound: changes of the list at the backend
  MaxSchedules,    \* bound: changes of the schedule
  MaxStreams,      \* bound: streams opened and channels switched
  MaxEventLosses   \* bound: times the event connection is lost

ASSUME MythRecordingsAssumption ==
  MaxListChanges \in Nat /\ MaxSchedules \in Nat /\ MaxStreams \in Nat /\ MaxEventLosses \in Nat

VARIABLES
  made,        \* the changes of the list so far: what a fetch brings
  schedules, eventLosses, streamsOpened,
  events,      \* on the event connection
  m_playback,
  stream,      \* what is open: none, live, recording; opening and switching
  listTrigger, \* XBMC was told to fetch the list
  fetchAt,     \* XBMC is between GetRecordingsAmount and GetRecordings
  listKnown,   \* the list XBMC has; NoList after a fetch that brought nothing
  unheard      \* history: a change or a fetch fell into a playback, or an event was lost

backendVars == <<made, schedules, eventLosses, streamsOpened>>
mythRecVars == <<backendVars, events, m_playback, stream, listTrigger, fetchAt, listKnown, unheard>>

NoList == MaxListChanges + 1
ListEvents == {"add", "delete", "update", "change"}

MythRecordingsInit ==
  /\ made = 0 /\ schedules = 0 /\ eventLosses = 0 /\ streamsOpened = 0
  /\ events = <<>> /\ m_playback = FALSE /\ stream = "none"
  /\ listTrigger = FALSE /\ fetchAt = "no" /\ listKnown = 0 /\ unheard = FALSE

-----------------------------------------------------------------------------
(* The backend (external)                                                  *)

ListChanges(kind) ==
  /\ made < MaxListChanges
  /\ made' = made + 1 /\ events' = Append(events, kind)
  /\ UNCHANGED <<schedules, eventLosses, streamsOpened, m_playback, stream,
                 listTrigger, fetchAt, listKnown, unheard>>

ScheduleChanges ==
  /\ schedules < MaxSchedules
  /\ schedules' = schedules + 1 /\ events' = Append(events, "schedule")
  /\ UNCHANGED <<made, eventLosses, streamsOpened, m_playback, stream, listTrigger, fetchAt,
                 listKnown, unheard>>

\* The event thread reconnects, and asks for nothing it may have missed.
EventsLost ==
  /\ eventLosses < MaxEventLosses /\ events # <<>>
  /\ eventLosses' = eventLosses + 1 /\ events' = <<>>
  /\ unheard' = TRUE
  /\ UNCHANGED <<made, schedules, streamsOpened, m_playback, stream, listTrigger, fetchAt,
                 listKnown>>

-----------------------------------------------------------------------------
(* The event thread: MythEventHandlerPrivate::Process                      *)

\* The change of one recording does not count as one of the list.
HandleWithoutUpdates ==
  /\ events # <<>> /\ events' = Tail(events)
  /\ LET kind == Head(events) IN
     /\ listTrigger' = (listTrigger \/ kind = "schedule" \/ (kind \in ListEvents \ {"update"} /\ ~m_playback))
     /\ unheard' = (unheard \/ (kind \in ListEvents /\ m_playback))
  /\ UNCHANGED <<backendVars, m_playback, stream, fetchAt, listKnown>>

HandleEvent ==
  /\ events # <<>> /\ events' = Tail(events)
  /\ LET kind == Head(events) IN
     /\ listTrigger' = (listTrigger \/ kind = "schedule" \/ (kind \in ListEvents /\ ~m_playback))
     /\ unheard' = (unheard \/ (kind \in ListEvents /\ m_playback))
  /\ UNCHANGED <<backendVars, m_playback, stream, fetchAt, listKnown>>

-----------------------------------------------------------------------------
(* XBMC fetches the list                                                   *)

GetRecordingsAmount ==
  /\ listTrigger /\ fetchAt = "no"
  /\ listTrigger' = FALSE /\ fetchAt' = "list"
  /\ UNCHANGED <<backendVars, events, m_playback, stream, listKnown, unheard>>

\* While something plays it brings nothing, and no error.
GetRecordings ==
  /\ fetchAt = "list" /\ fetchAt' = "no"
  /\ IF m_playback THEN listKnown' = NoList /\ unheard' = TRUE
     ELSE listKnown' = made /\ unheard' = FALSE
  /\ UNCHANGED <<backendVars, events, m_playback, stream, listTrigger>>

\* It changes what the list says, and the add-on itself tells XBMC of it.
SetRecordingPlayCount ==
  /\ made < MaxListChanges
  /\ made' = made + 1 /\ listTrigger' = TRUE
  /\ UNCHANGED <<schedules, eventLosses, streamsOpened, events, m_playback, stream, fetchAt,
                 listKnown, unheard>>

-----------------------------------------------------------------------------
(* XBMC plays                                                              *)

OneMore(from) == stream = from /\ streamsOpened < MaxStreams /\ streamsOpened' = streamsOpened + 1

PlayFrame == UNCHANGED <<made, schedules, eventLosses, events, listTrigger, fetchAt, listKnown, unheard>>

\* OpenLiveStream and OpenRecordedStream, up to the backend.
OpenStream(opening) ==
  /\ OneMore("none")
  /\ stream' = opening /\ m_playback' = TRUE
  /\ PlayFrame

StreamOpens ==
  /\ stream \in {"openingLive", "openingRecording"}
  /\ \/ /\ stream' = IF stream = "openingLive" THEN "live" ELSE "recording"
        /\ UNCHANGED m_playback
     \/ stream' = "none" /\ m_playback' = FALSE
  /\ UNCHANGED streamsOpened
  /\ PlayFrame

\* SwitchChannel stops the recorder and opens live TV again, in the same mode.
SwitchStream ==
  /\ OneMore("live")
  /\ stream' = "openingLive" /\ m_playback' = TRUE
  /\ PlayFrame

CloseStream ==
  /\ stream \in {"live", "recording"}
  /\ stream' = "none" /\ m_playback' = FALSE
  /\ UNCHANGED streamsOpened
  /\ PlayFrame

-----------------------------------------------------------------------------
MythRecordingsNext ==
  \/ \E kind \in ListEvents : ListChanges(kind)
  \/ ScheduleChanges \/ EventsLost \/ HandleEvent
  \/ GetRecordingsAmount \/ GetRecordings \/ SetRecordingPlayCount
  \/ OpenStream("openingLive") \/ OpenStream("openingRecording")
  \/ StreamOpens \/ SwitchStream \/ CloseStream

MythRecordingsSpec == MythRecordingsInit /\ [][MythRecordingsNext]_mythRecVars

-----------------------------------------------------------------------------
(* Properties                                                              *)

(* XBMC has the list of the backend or is about to fetch it, except for    *)
(* changes whose event, or whose fetch, fell into a playback, or was lost  *)
(* with the event connection: nothing makes up for these afterwards.       *)
ListFollowsEvents ==
  listKnown = made \/ events # <<>> \/ listTrigger \/ fetchAt = "list" \/ unheard

(* The playback mode is on exactly while a stream is open or being opened, *)
(* through failed openings and switches; with it left on the list would    *)
(* never come again.                                                       *)
PlaybackWhilePlaying == m_playback = (stream # "none")

(* The list of recordings follows the events of the backend, and the       *)
(* playback mode that holds them back ends with the playback.              *)
RecordingsKnown ==
  /\ ListFollowsEvents
  /\ PlaybackWhilePlaying
=============================================================================
