----------------------------- MODULE HTSPTables -----------------------------
(***************************************************************************)
(* The tables of CHTSPData (addons/pvr.hts/src/HTSPData.cpp): channels,    *)
(* tags and recordings, which Process() keeps up with the messages the     *)
(* server pushes, and the copies of them that XBMC fetches when the add-on *)
(* triggers it.  Requests and the connection itself are HTSPData's; here   *)
(* the link is only up or down, and what is on it is lost when it goes     *)
(* down.                                                                   *)
(*                                                                         *)
(* The walks over m_tags do not take m_mutex.  Their accesses to the map   *)
(* are taken as atomic each; two at the very same moment, whose outcome    *)
(* C++ leaves undefined, are left out.                                     *)
(***************************************************************************)
EXTENDS Naturals, FiniteSets, SequencesExt

CONSTANTS
  Channel, Entry,  \* ids, natural numbers like those of the tags
  FieldOrder,      \* the fields of a channel whose change is noticed, as they are read
  TagId,           \* ids of tags, natural numbers, the greatest of which is not small
  MaxChanges,      \* bound: changes at the server
  MaxOutages       \* bound: times the link goes down

ASSUME TablesAssumption ==
  /\ Channel \cup Entry \cup TagId \subseteq Nat /\ IsFiniteSet(Channel \cup Entry \cup TagId)
  /\ MaxChanges \in Nat /\ MaxOutages \in Nat

VARIABLES
  onServer,    \* the server's channels, tags and entries
  isUp, wire, changes, outages,
  m_channels, m_tags, m_recordings,
  applying,  \* the tag message whose trigger is still to come
  toFetch,   \* the lists XBMC was told to fetch
  copies,    \* the lists it has
  walk,      \* GetChannelGroups: the next index and what was sent
  masked,    \* history: a channel message ended with an unchanged field
  unseen,    \* history: recordings that had ended when they were first heard of
  goneUnheard \* history: what the server removed without the add-on hearing

serverSide == <<onServer, isUp, wire, changes, outages>>
htspTables == <<m_channels, m_tags, m_recordings>>
tableHistory == <<masked, unseen, goneUnheard>>
tablesVars == <<serverSide, htspTables, applying, toFetch, copies, walk, tableHistory>>

Field == ToSet(FieldOrder)
NoWalk == [at |-> 0, sent |-> {}, on |-> FALSE]
NoMessageYet == [kind |-> "none"]

\* A table with an entry set, and without one.
With(f, x, value) == [y \in DOMAIN f \cup {x} |-> IF y = x THEN value ELSE f[y]]
Without(f, x) == [y \in DOMAIN f \ {x} |-> f[y]]

\* A name for a tag that has none: the walk inserted it.
Unnamed == "unnamed"
Named(tags) == {t \in DOMAIN tags : tags[t] # Unnamed}

Recorded(recs) == {e \in DOMAIN recs : recs[e] \in {"completed", "aborted", "recording"}}
Scheduled(recs) == {e \in DOMAIN recs : recs[e] \in {"scheduled", "recording"}}

TablesInit ==
  /\ onServer = [channels |-> [c \in Channel |-> [f \in Field |-> 0]],
               tags |-> TagId, entries |-> [e \in Entry |-> "scheduled"]]
  /\ isUp = TRUE /\ wire = <<>> /\ changes = 0 /\ outages = 0
  /\ m_channels = onServer.channels
  /\ m_tags = [t \in TagId |-> "named"]
  /\ m_recordings = onServer.entries
  /\ applying = NoMessageYet /\ toFetch = {} /\ walk = NoWalk
  /\ copies = [channels |-> m_channels, groups |-> TagId,
               timers |-> Scheduled(m_recordings), recordings |-> Recorded(m_recordings)]
  /\ masked = FALSE /\ unseen = {} /\ goneUnheard = {}

-----------------------------------------------------------------------------
(* The server (external)                                                   *)

Push(m) == wire' = IF isUp THEN Append(wire, m) ELSE wire

Changes ==
  /\ changes < MaxChanges /\ changes' = changes + 1
  /\ UNCHANGED <<isUp, outages, htspTables, applying, toFetch, copies, walk, masked, unseen>>


\* A message names some fields, changed or not, and may list tags or services.
ServerSetsChannel(c, sent, changed, lists) ==
  /\ Changes
  /\ changed \subseteq sent
  /\ LET old == IF c \in DOMAIN onServer.channels THEN onServer.channels[c] ELSE [f \in Field |-> 0]
         new == [f \in Field |-> IF f \in changed THEN 1 - old[f] ELSE old[f]]
     IN /\ c \notin DOMAIN onServer.channels => sent = Field /\ lists
        /\ onServer' = [onServer EXCEPT !.channels = With(@, c, new)]
        /\ Push([kind |-> "channelUpdate", id |-> c, body |-> [f \in sent |-> new[f]], lists |-> lists])
  /\ UNCHANGED goneUnheard

ServerSetsTag(t) ==
  /\ Changes
  /\ onServer' = [onServer EXCEPT !.tags = @ \cup {t}]
  /\ Push([kind |-> "tagUpdate", id |-> t])
  /\ UNCHANGED goneUnheard

FollowsState ==
  [scheduled |-> {"recording", "aborted"}, recording |-> {"completed", "aborted", "recording"},
   completed |-> {}, aborted |-> {}]

ServerSetsEntry(e, state) ==
  /\ Changes
  /\ e \in DOMAIN onServer.entries /\ state \in FollowsState[onServer.entries[e]]
  /\ onServer' = [onServer EXCEPT !.entries[e] = state]
  /\ Push([kind |-> "dvrEntryUpdate", id |-> e, state |-> state])
  /\ UNCHANGED goneUnheard

ServerDeletes(kind, id) ==
  /\ Changes
  /\ \/ /\ kind = "channelDelete" /\ id \in DOMAIN onServer.channels
        /\ onServer' = [onServer EXCEPT !.channels = Without(@, id)]
     \/ /\ kind = "tagDelete" /\ id \in onServer.tags
        /\ onServer' = [onServer EXCEPT !.tags = @ \ {id}]
     \/ /\ kind = "dvrEntryDelete" /\ id \in DOMAIN onServer.entries
        /\ onServer' = [onServer EXCEPT !.entries = Without(@, id)]
  /\ Push([kind |-> kind, id |-> id])
  /\ goneUnheard' = IF isUp THEN goneUnheard ELSE goneUnheard \cup {<<kind, id>>}

LinkDown ==
  /\ isUp /\ outages < MaxOutages
  /\ isUp' = FALSE /\ outages' = outages + 1 /\ wire' = <<>>
  /\ goneUnheard' = goneUnheard \cup
       {<<m.kind, m.id>> : m \in {x \in ToSet(wire) :
          x.kind \in {"channelDelete", "tagDelete", "dvrEntryDelete"}}}
  /\ UNCHANGED <<onServer, changes, htspTables, applying, toFetch, copies, walk, masked, unseen>>

\* CheckConnection succeeds; enableAsyncMetadata makes the server send all it
\* has.  The tables are not cleared for it.
LinkUp ==
  /\ ~isUp
  /\ isUp' = TRUE
  /\ wire' = SetToSeq({[kind |-> "tagUpdate", id |-> t] : t \in onServer.tags})
        \o SetToSeq({[kind |-> "channelUpdate", id |-> c, body |-> onServer.channels[c], lists |-> TRUE]
                     : c \in DOMAIN onServer.channels})
        \o SetToSeq({[kind |-> "dvrEntryUpdate", id |-> e, state |-> onServer.entries[e]]
                     : e \in DOMAIN onServer.entries})
  /\ UNCHANGED <<onServer, changes, outages, htspTables, applying, toFetch, copies, walk, tableHistory>>

-----------------------------------------------------------------------------
(* Process(), with m_mutex                                                 *)

Receives(kind) ==
  /\ applying = NoMessageYet /\ wire # <<>> /\ Head(wire).kind = kind
  /\ wire' = Tail(wire)
  /\ UNCHANGED <<onServer, isUp, changes, outages, copies, walk, goneUnheard>>

\* bChanged is assigned for each field, so the last one decides; a list of
\* tags or of services always counts as a change.
LastFieldChanged(m, old) ==
  LET read == SelectSeq(FieldOrder, LAMBDA f : f \in DOMAIN m.body)
  IN read # <<>> /\ old[Last(read)] # m.body[Last(read)]

ChannelOf(id) == IF id \in DOMAIN m_channels THEN m_channels[id] ELSE [f \in Field |-> 0]

Updated(old, body) == [f \in Field |-> IF f \in DOMAIN body THEN body[f] ELSE old[f]]

\* A list of tags or services does not count.
ParseChannelUpdateFields ==
  /\ Receives("channelUpdate")
  /\ LET m == Head(wire)
         old == ChannelOf(m.id)
     IN /\ m_channels' = With(m_channels, m.id, Updated(old, m.body))
        /\ toFetch' = IF LastFieldChanged(m, old) THEN toFetch \cup {"channels"} ELSE toFetch
        /\ masked' = (masked \/ (/\ ~m.lists /\ ~LastFieldChanged(m, old)
                                 /\ \E f \in DOMAIN m.body : m.body[f] # old[f]))
  /\ UNCHANGED <<m_tags, m_recordings, applying, unseen>>

ParseChannelUpdate ==
  /\ Receives("channelUpdate")
  /\ LET m == Head(wire)
         old == ChannelOf(m.id)
     IN /\ m_channels' = With(m_channels, m.id, Updated(old, m.body))
        /\ toFetch' = IF m.lists \/ LastFieldChanged(m, old)
                        THEN toFetch \cup {"channels"} ELSE toFetch
        /\ masked' = (masked \/ (/\ ~m.lists /\ ~LastFieldChanged(m, old)
                                 /\ \E f \in DOMAIN m.body : m.body[f] # old[f]))
  /\ UNCHANGED <<m_tags, m_recordings, applying, unseen>>

ParseChannelRemove ==
  /\ Receives("channelDelete")
  /\ m_channels' = Without(m_channels, Head(wire).id)
  /\ toFetch' = toFetch \cup {"channels"}
  /\ UNCHANGED <<m_tags, m_recordings, applying, masked, unseen>>

\* ParseTagUpdate and ParseTagRemove; XBMC may be in the middle of a walk.
ParseTag(kind) ==
  /\ Receives(kind)
  /\ LET id == Head(wire).id
     IN m_tags' = IF kind = "tagUpdate" THEN With(m_tags, id, "named") ELSE Without(m_tags, id)
  /\ applying' = Head(wire)
  /\ UNCHANGED <<m_channels, m_recordings, toFetch, masked, unseen>>

TriggerGroups ==
  /\ applying # NoMessageYet
  /\ applying' = NoMessageYet
  /\ toFetch' = toFetch \cup {"groups"}
  /\ UNCHANGED <<serverSide, htspTables, copies, walk, tableHistory>>

\* Only an entry that is recording triggers the list of recordings.
ParseDVREntryUpdate ==
  /\ Receives("dvrEntryUpdate")
  /\ LET m == Head(wire)
     IN /\ m_recordings' = With(m_recordings, m.id, m.state)
        /\ toFetch' = toFetch \cup {"timers"} \cup
             (IF m.state = "recording" THEN {"recordings"} ELSE {})
        /\ unseen' = IF m.state \in {"completed", "aborted"} /\ m.id \notin Recorded(m_recordings)
                     THEN unseen \cup {m.id} ELSE unseen
  /\ UNCHANGED <<m_channels, m_tags, applying, masked>>

ParseDVREntryDelete ==
  /\ Receives("dvrEntryDelete")
  /\ m_recordings' = Without(m_recordings, Head(wire).id)
  /\ toFetch' = toFetch \cup {"timers", "recordings"}
  /\ UNCHANGED <<m_channels, m_tags, applying, masked, unseen>>

-----------------------------------------------------------------------------
(* XBMC fetches what it was told to fetch                                  *)

\* GetChannels, GetTimers and GetRecordings copy under m_mutex.
Fetch(list) ==
  /\ list \in toFetch /\ applying = NoMessageYet
  /\ toFetch' = toFetch \ {list}
  /\ \/ list = "channels" /\ copies' = [copies EXCEPT !.channels = m_channels]
     \/ list = "timers" /\ copies' = [copies EXCEPT !.timers = Scheduled(m_recordings)]
     \/ list = "recordings" /\ copies' = [copies EXCEPT !.recordings = Recorded(m_recordings)]
  /\ UNCHANGED <<serverSide, htspTables, applying, walk, tableHistory>>

\* GetChannelGroups: by index, with operator[], which inserts what is missing.
WalkBegins ==
  /\ "groups" \in toFetch /\ ~walk.on
  /\ toFetch' = toFetch \ {"groups"}
  /\ walk' = [NoWalk EXCEPT !.on = TRUE]
  /\ UNCHANGED <<serverSide, htspTables, applying, copies, tableHistory>>

WalkSends ==
  /\ walk.on /\ walk.at < Cardinality(DOMAIN m_tags)
  /\ m_tags' = IF walk.at \in DOMAIN m_tags THEN m_tags ELSE With(m_tags, walk.at, Unnamed)
  /\ walk' = [walk EXCEPT !.at = @ + 1,
                !.sent = IF walk.at \in Named(m_tags) THEN @ \cup {walk.at} ELSE @]
  /\ UNCHANGED <<serverSide, m_channels, m_recordings, applying, toFetch, copies, tableHistory>>

WalkEnds ==
  /\ walk.on /\ walk.at >= Cardinality(DOMAIN m_tags)
  /\ copies' = [copies EXCEPT !.groups = walk.sent]
  /\ walk' = NoWalk
  /\ UNCHANGED <<serverSide, htspTables, applying, toFetch, tableHistory>>

-----------------------------------------------------------------------------
TablesNext ==
  \/ \E c \in Channel, sent \in SUBSET Field, lists \in BOOLEAN :
       \E changed \in SUBSET sent : ServerSetsChannel(c, sent, changed, lists)
  \/ \E t \in TagId : ServerSetsTag(t) \/ ServerDeletes("tagDelete", t)
  \/ \E e \in Entry, s \in {"recording", "completed", "aborted"} : ServerSetsEntry(e, s)
  \/ \E c \in Channel : ServerDeletes("channelDelete", c)
  \/ \E e \in Entry : ServerDeletes("dvrEntryDelete", e)
  \/ LinkDown \/ LinkUp
  \/ ParseChannelUpdate \/ ParseChannelRemove
  \/ ParseTag("tagUpdate") \/ ParseTag("tagDelete") \/ TriggerGroups
  \/ ParseDVREntryUpdate \/ ParseDVREntryDelete
  \/ \E list \in {"channels", "timers", "recordings"} : Fetch(list)
  \/ WalkBegins \/ WalkSends \/ WalkEnds

TablesSpec == TablesInit /\ [][TablesNext]_tablesVars

-----------------------------------------------------------------------------
(* Properties                                                              *)

(* A channel list of XBMC that differs from the table is about to be       *)
(* fetched again, whatever fields a message names, unless a message named  *)
(* a changed field before an unchanged one and listed neither tags nor     *)
(* services (ParseChannelUpdate, the assignments of bChanged).             *)
ChannelsFollow ==
  applying = NoMessageYet => copies.channels = m_channels \/ "channels" \in toFetch \/ masked

(* The walk without the mutex reaches every tag, however sparse the ids    *)
(* are: the tags it inserts on its way make up for the gaps.  What it may  *)
(* miss because a tag was removed meanwhile it sends on its next round,    *)
(* which the removal triggers afterwards.                                  *)
GroupsFollow ==
  copies.groups = Named(m_tags) \/ "groups" \in toFetch \/ walk.on \/ applying # NoMessageYet

(* So with the timers, which are the entries scheduled and recording.      *)
TimersFollow == copies.timers = Scheduled(m_recordings) \/ "timers" \in toFetch

(* And the recordings, except those that had ended when the add-on first   *)
(* heard they had begun, after an outage or because they were aborted: an  *)
(* entry that ends does not trigger the list.                              *)
RecordingsFollow ==
  \/ "recordings" \in toFetch
  \/ /\ copies.recordings \subseteq Recorded(m_recordings)
     /\ Recorded(m_recordings) \ copies.recordings \subseteq unseen

(* With the link up and nothing on it, the tables hold all the server has; *)
(* what they hold besides is what it removed during an outage, for the     *)
(* tables are never cleared.                                               *)
TablesFollowServer ==
  isUp /\ wire = <<>> /\ applying = NoMessageYet =>
    /\ \A c \in DOMAIN onServer.channels :
         c \in DOMAIN m_channels /\ m_channels[c] = onServer.channels[c]
    /\ \A e \in DOMAIN onServer.entries :
         e \in DOMAIN m_recordings /\ m_recordings[e] = onServer.entries[e]
    /\ onServer.tags \subseteq Named(m_tags)
    /\ \A c \in DOMAIN m_channels \ DOMAIN onServer.channels : <<"channelDelete", c>> \in goneUnheard
    /\ \A e \in DOMAIN m_recordings \ DOMAIN onServer.entries : <<"dvrEntryDelete", e>> \in goneUnheard
    /\ \A t \in Named(m_tags) \ onServer.tags : <<"tagDelete", t>> \in goneUnheard

(* What XBMC shows follows the tables, and the tables follow the server.   *)
ListsFollow ==
  /\ ChannelsFollow
  /\ GroupsFollow
  /\ TimersFollow
  /\ RecordingsFollow
  /\ TablesFollowServer
=============================================================================
