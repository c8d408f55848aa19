---------------------------- MODULE VuRecordings ----------------------------
(***************************************************************************)
(* The playback positions of the Vu+ client                                *)
(* (addons/pvr.vuplus/src/VuData.cpp).  The box does not keep them: they   *)
(* live in m_recordings, and in recordings.xml while the list is fetched   *)
(* anew, location by location, and while the program is not running.  XBMC *)
(* sets positions from another thread than the one that fetches, without a *)
(* lock.                                                                   *)
(***************************************************************************)
EXTENDS Integers, Sequences, SequencesExt, Functions

CONSTANTS
  Recording,   \* the stream URLs of recordings
  Location,    \* m_locations of a box: a sequence of directories, each once
  Directory,   \* where each recording is, which its URL tells
  Trouble      \* what may happen besides: "killed", XBMC ends without a word to the
               \* add-on; "unwritable", the file cannot be opened

ASSUME DirectoryAssumption ==
  /\ IsFiniteSet(Recording) /\ Trouble \subseteq {"killed", "unwritable"}
  /\ Location \in Seq(Range(Location)) /\ IsInjective(Location)
  /\ Directory \in [Recording -> Range(Location)]

Position == 0..1

VARIABLES
  stored,      \* the recordings on the box
  running,
  locations,   \* m_locations
  recordings,  \* m_recordings
  positions,   \* recordings.xml
  storing,     \* GetRecordings has stored the list, and not cleared it yet
  fetching,    \* GetRecordings: the location it fetches next, or 0
  complete,    \* history: m_recordings is the whole list of this run
  lastSet,     \* history: the position XBMC set last
  unsaved,     \* history: the recordings whose position was set since the last store
  forgotten    \* history: those whose position was lost, in a case named where it is,
               \* until it is set again

vuRecordingVars == <<stored, running, locations, recordings, positions, storing,
                     fetching, complete, lastSet, unsaved, forgotten>>

VuRecordingsTypeOK ==
  /\ stored \subseteq Recording
  /\ running \in BOOLEAN /\ storing \in BOOLEAN /\ complete \in BOOLEAN
  /\ locations \in {<<>>, Location}
  /\ Range(recordings) \subseteq [url : Recording, position : Position]
  /\ positions \subseteq [url : Recording, position : Position]
  /\ fetching \in 0..(Len(Location) + 1)
  /\ lastSet \in [Recording -> Position]
  /\ unsaved \subseteq Recording /\ forgotten \subseteq Recording

VuRecordingsInit ==
  /\ stored \in SUBSET Recording
  /\ running = FALSE /\ locations = <<>>
  /\ recordings = <<>> /\ positions = {}
  /\ storing = FALSE /\ fetching = 0 /\ complete = FALSE
  /\ lastSet = [r \in Recording |-> 0] /\ unsaved = {} /\ forgotten = {}

Urls(list) == {list[i].url : i \in DOMAIN list}
Played == {r \in Recording : lastSet[r] # 0}
InFile(r) == \E e \in positions : e.url = r

\* StoreLastPlayedPositions: the file holds what the list holds, no more, and a
\* list that is not whole loses the rest.  A file that cannot be opened stays as
\* it is, and what was set since the last time is lost with the list.
StoreLastPlayedPositions ==
  /\ \/ /\ positions' = Range(recordings)
        /\ forgotten' = forgotten \cup IF complete THEN {} ELSE Played \ Urls(recordings)
     \/ /\ "unwritable" \in Trouble
        /\ UNCHANGED positions /\ forgotten' = forgotten \cup unsaved
  /\ unsaved' = {}

\* RestoreLastPlayedPositions: every entry of the file is set in the list.
Restored(list) ==
  [i \in DOMAIN list |->
     LET known == {p \in positions : p.url = list[i].url}
     IN  IF known = {} THEN list[i]
         ELSE [list[i] EXCEPT !.position = (CHOOSE p \in known : TRUE).position]]

-----------------------------------------------------------------------------
\* LoadLocations() may fail and is not tried again.
OpenConnected ==
  /\ ~running
  /\ running' = TRUE /\ locations' \in {<<>>, Location}
  /\ UNCHANGED <<stored, recordings, positions, storing, fetching, complete, lastSet, unsaved,
                 forgotten>>

\* The box is not there: Open() returns false and ADDON_Create deletes the
\* client, whose destructor stores the list it does not have.
OpenUnreachable ==
  /\ ~running
  /\ StoreLastPlayedPositions
  /\ UNCHANGED <<stored, running, locations, recordings, storing, fetching, complete, lastSet>>

Ended ==
  /\ recordings' = <<>> /\ complete' = FALSE /\ storing' = FALSE /\ fetching' = 0
  /\ running' = FALSE /\ locations' = <<>>
  /\ UNCHANGED <<stored, lastSet>>

\* The destructor.
Quit ==
  /\ running /\ fetching = 0 /\ ~storing
  /\ StoreLastPlayedPositions
  /\ Ended

\* The file is emptied first: killed before it is written, XBMC leaves one that
\* does not parse, and all positions are lost; at any other time, those that
\* were not stored yet.
Killed ==
  /\ "killed" \in Trouble /\ running
  /\ \/ UNCHANGED positions /\ forgotten' = forgotten \cup unsaved
     \/ fetching = 0 /\ ~storing /\ positions' = {} /\ forgotten' = forgotten \cup Played
  /\ unsaved' = {}
  /\ Ended

\* The list is cleared before it is stored.
StartsWithClear ==
  /\ running /\ fetching = 0 /\ ~storing
  /\ positions' = IF recordings = <<>> THEN positions ELSE {}
  /\ recordings' = <<>> /\ complete' = FALSE
  /\ fetching' = 1 /\ unsaved' = {}
  /\ UNCHANGED <<stored, running, locations, storing, lastSet, forgotten>>

\* GetRecordings, up to its loop: a list that has anything is stored.
GetRecordingsStarts ==
  /\ running /\ fetching = 0 /\ ~storing
  /\ \/ /\ recordings = <<>> /\ fetching' = 1 /\ complete' = FALSE
        /\ UNCHANGED <<positions, storing, unsaved, forgotten>>
     \/ /\ recordings # <<>> /\ StoreLastPlayedPositions /\ storing' = TRUE
        /\ UNCHANGED <<fetching, complete>>
  /\ UNCHANGED <<stored, running, locations, recordings, lastSet>>

ListCleared ==
  /\ storing
  /\ recordings' = <<>> /\ complete' = FALSE
  /\ storing' = FALSE /\ fetching' = 1
  /\ UNCHANGED <<stored, running, locations, positions, lastSet, unsaved, forgotten>>

\* GetRecordingFromLocation: every recording starts with position 0.
LocationAnswers ==
  /\ fetching \in DOMAIN locations
  /\ LET here == {r \in stored : Directory[r] = locations[fetching]}
         list == SetToSeq(here)
     IN  /\ here # {}
         /\ recordings' = recordings \o
              [i \in DOMAIN list |-> [url |-> list[i], position |-> 0]]
  /\ fetching' = fetching + 1
  /\ UNCHANGED <<stored, running, locations, positions, storing, complete, lastSet, unsaved,
                 forgotten>>

\* A failed request, or a location without recordings, ends GetRecordings:
\* the positions stay in the file; those of a part of a list that is there
\* already are 0 until the next GetRecordings, which will store just that.
LocationFails ==
  /\ fetching \in DOMAIN locations
  /\ fetching' = 0
  /\ forgotten' = forgotten \cup (Played \cap Urls(recordings))
  /\ UNCHANGED <<stored, running, locations, recordings, positions, storing, complete, lastSet,
                 unsaved>>

GetRecordingsEnds ==
  /\ running /\ fetching = Len(locations) + 1
  /\ recordings' = Restored(recordings)
  /\ fetching' = 0
  /\ complete' = (locations = Location)
  /\ UNCHANGED <<stored, running, locations, positions, storing, lastSet, unsaved, forgotten>>

\* SetRecordingLastPlayedPosition, refused for a recording not in the list.  What
\* is set after the list was stored is cleared with it; what is set while it is
\* fetched is overwritten from the file, if that has the recording.
SetRecordingLastPlayedPosition ==
  /\ running
  /\ \E i \in DOMAIN recordings, p \in Position :
       LET r == recordings[i].url
           late == storing \/ (fetching # 0 /\ InFile(r))
       IN  /\ recordings' = [recordings EXCEPT ![i].position = p]
           /\ lastSet' = [lastSet EXCEPT ![r] = p]
           /\ forgotten' = IF late THEN forgotten \cup {r} ELSE forgotten \ {r}
           /\ unsaved' = IF late THEN unsaved ELSE unsaved \cup {r}
  /\ UNCHANGED <<stored, running, locations, positions, storing, fetching, complete>>

\* A recording is made, or deleted; the URL of one played is not used again.
RecordingMade ==
  /\ \E r \in Recording \ stored :
       /\ lastSet[r] = 0 /\ \A e \in Range(recordings) \cup positions : e.url # r
       /\ stored' = stored \cup {r}
  /\ UNCHANGED <<running, locations, recordings, positions, storing, fetching, complete, lastSet,
                 unsaved, forgotten>>

RecordingDeleted ==
  /\ \E r \in stored : stored' = stored \ {r}
  /\ UNCHANGED <<running, locations, recordings, positions, storing, fetching, complete, lastSet,
                 unsaved, forgotten>>

VuRecordingsNext ==
  \/ OpenConnected \/ OpenUnreachable \/ Quit \/ Killed
  \/ GetRecordingsStarts \/ ListCleared \/ LocationAnswers \/ LocationFails \/ GetRecordingsEnds
  \/ SetRecordingLastPlayedPosition
  \/ RecordingMade \/ RecordingDeleted

VuRecordingsSpec == VuRecordingsInit /\ [][VuRecordingsNext]_vuRecordingVars

-----------------------------------------------------------------------------
(* Properties                                                              *)

\* What a complete list would be told about a recording now.
Remembered(r) ==
  LET inList == {e \in Range(recordings) : e.url = r}
      inFile == {e \in positions : e.url = r}
      asked == IF inList # {} /\ (fetching = 0 \/ inFile = {}) THEN inList ELSE inFile
  IN  IF asked = {} THEN {0} ELSE {e.position : e \in asked}

(* The position XBMC set last for a recording is kept through every fetch  *)
(* of the list, every restart and every kill, unless it was lost in one of *)
(* the cases named, and then from there on until it is set again: the file *)
(* is written from a list that is not whole, among them at each start at   *)
(* which the box is not reachable; a location fails after another          *)
(* answered; it is set between the storing of the list and the restoring;  *)
(* the file cannot be written; XBMC is killed before it is stored, or      *)
(* while the file is written.                                              *)
PositionsKept ==
  \A r \in stored \ forgotten : Remembered(r) = {lastSet[r]}

(* xbmc_pvr_dll.h on the answer of SetRecordingLastPlayedPosition: no      *)
(* error if the position has been stored successfully.  Not so: it is      *)
(* stored when the client is destroyed, and the next start destroys it     *)
(* again if the box is not reachable.                                      *)
PositionsStored ==
  ~running => \A r \in stored : Remembered(r) = {lastSet[r]}
=============================================================================
