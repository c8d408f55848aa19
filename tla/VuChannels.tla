----------------------------- MODULE VuChannels -----------------------------
(***************************************************************************)
(* Channels and channel groups of the Vu+ client                           *)
(* (addons/pvr.vuplus/src/VuData.cpp): loaded at the start from a file or, *)
(* without one, from the box; compared with the box's once, in the first   *)
(* round of Process(); and written to the file when they changed.          *)
(***************************************************************************)
EXTENDS Integers, Sequences, SequencesExt

CONSTANTS
  Box   \* what a box may offer: its groups, and the services of each of
        \* them and of the radio bouquet, each service in one of them

Radio == "radio"

\* The names of groups, and the references of services, on any box.
GroupName == {Radio} \cup (UNION {Range(b.groups) : b \in Box})
Reference == UNION {UNION {Range(b.services[g]) : g \in GroupName} : b \in Box}

ASSUME BoxAssumption ==
  \A b \in Box : /\ b.groups \in Seq(GroupName) /\ b.services \in [GroupName -> Seq(Reference)]
                 /\ Len(b.groups) > 0
                 /\ \A i, j \in DOMAIN b.groups : b.groups[i] = b.groups[j] => i = j

VARIABLES
  vuBox,      \* the box's offer now
  checks,     \* g_bCheckForGroupUpdates, g_bCheckForChannelUpdates
  file,       \* channeldata.xml, or none
  phase,      \* where the program is
  groups,     \* m_groups
  numGroups,  \* m_iNumChannelGroups
  channels,   \* m_channels: the position in it and the id are two things
  triggered,  \* bTriggerGroupsUpdate or bTriggerChannelsUpdate
  clean,      \* history: every request of this run was answered
  offered     \* history: what the box offered when the channels were loaded

vuChannelVars == <<vuBox, checks, file, phase, groups, numGroups, channels,
                   triggered, clean, offered>>

NoFile == [groups |-> <<>>, channels |-> <<>>]
Nothing == UNCHANGED <<groups, numGroups, channels>>

VuChannelsTypeOK ==
  /\ vuBox \in Box /\ offered \in Box
  /\ checks \in [groups : BOOLEAN, channels : BOOLEAN]
  /\ phase \in {"down", "groups", "channels", "store", "checked"}
  /\ numGroups \in Nat
  /\ \A i \in DOMAIN channels : channels[i].id \in Nat \ {0}
  /\ triggered \in BOOLEAN /\ clean \in BOOLEAN

VuChannelsInit ==
  /\ vuBox \in Box /\ offered = vuBox
  /\ checks \in [groups : BOOLEAN, channels : BOOLEAN]
  /\ file = NoFile /\ phase = "down"
  /\ groups = <<>> /\ numGroups = 0 /\ channels = <<>>
  /\ triggered = FALSE /\ clean = TRUE

-----------------------------------------------------------------------------
(* Loading and storing                                                     *)

\* The channels of the groups asked for, those of the groups in lost left out.
Services(gs, n, lost) ==
  FlattenSeq([i \in 1..(n + 1) |->
    LET g == IF i > n THEN Radio ELSE gs[i]
    IN  IF g \in lost THEN <<>>
        ELSE [j \in DOMAIN vuBox.services[g] |-> [group |-> g, ref |-> vuBox.services[g][j]]]])

\* iUniqueId is m_channels.size() + 1.
WithIds(list) ==
  [i \in DOMAIN list |-> [id |-> i, group |-> list[i].group, ref |-> list[i].ref]]

\* LoadChannels(): the number of groups is m_iNumChannelGroups, and at()
\* needs as many in m_groups.
LoadChannels(lost) == WithIds(Services(groups', numGroups', lost))

\* StoreChannelData writes an & of a channel's reference as &quot;.
Escaped(ref) == IF ref = "with &" THEN "with quote" ELSE ref

Stored ==
  [groups |-> groups,
   channels |-> [i \in DOMAIN channels |-> [channels[i] EXCEPT !.ref = Escaped(@)]]]

\* LoadChannelData: the groups are not counted.
LoadChannelData ==
  /\ groups' = file.groups /\ channels' = file.channels
  /\ numGroups' = 0

-----------------------------------------------------------------------------
(* Open and Process                                                        *)

\* A list was stored: it is used as it is until the first round.
OpenWithFile ==
  /\ phase = "down"
  /\ file.channels # <<>>
  /\ LoadChannelData
  /\ phase' = "groups" /\ clean' = TRUE /\ triggered' = FALSE
  /\ UNCHANGED <<vuBox, checks, file, offered>>

\* No list was stored: m_bInitial becomes TRUE and there is no check.  Open
\* gives up when no group, or no channel of one, can be had; a group without
\* a service is like one that failed.
OpenWithout ==
  /\ phase = "down"
  /\ file.channels = <<>>
  /\ groups' = vuBox.groups /\ numGroups' = Len(vuBox.groups)
  /\ \E lost \in SUBSET (Range(vuBox.groups) \cup {Radio}) :
       /\ \E g \in Range(vuBox.groups) \ lost : vuBox.services[g] # <<>>
       /\ channels' = LoadChannels(lost)
       /\ clean' = (lost = {})
  /\ phase' = "store" /\ triggered' = TRUE /\ offered' = vuBox
  /\ UNCHANGED <<vuBox, checks, file>>

\* The groups fetched are not counted.
CheckWithoutCount ==
  /\ phase = "groups"
  /\ \/ ~checks.groups /\ UNCHANGED <<groups, triggered, clean>>
     \/ /\ checks.groups
        /\ triggered' = (Range(groups) # Range(vuBox.groups))
        /\ groups' = IF triggered' THEN vuBox.groups ELSE groups
        /\ UNCHANGED clean
  /\ phase' = "channels"
  /\ UNCHANGED <<vuBox, checks, file, numGroups, channels, offered>>

\* CheckForGroupUpdate: the groups are fetched and, if they are the same,
\* put back; a failed request leaves none, and the count as it was.
CheckForGroupUpdate ==
  /\ phase = "groups"
  /\ \/ ~checks.groups /\ UNCHANGED <<groups, numGroups, triggered, clean>>
     \/ /\ checks.groups
        /\ triggered' = (Range(groups) # Range(vuBox.groups))
        /\ groups' = IF triggered' THEN vuBox.groups ELSE groups
        /\ numGroups' = Len(vuBox.groups)
        /\ UNCHANGED clean
     \/ /\ checks.groups
        /\ groups' = <<>> /\ UNCHANGED numGroups
        /\ triggered' = (groups # <<>>)
        /\ clean' = FALSE
  /\ phase' = "channels"
  /\ UNCHANGED <<vuBox, checks, file, channels, offered>>

\* CheckForChannelUpdate: what came is kept when a channel is new, gone or
\* changed, and dropped for the old list otherwise.
CheckForChannelUpdate ==
  /\ phase = "channels"
  /\ UNCHANGED <<groups, numGroups>>
  /\ \/ ~checks.channels /\ UNCHANGED <<channels, triggered, clean, offered>>
     \/ /\ checks.channels
        /\ \E lost \in SUBSET (Range(groups) \cup {Radio}) :
             /\ channels' = IF Range(LoadChannels(lost)) = Range(channels)
                            THEN channels ELSE LoadChannels(lost)
             /\ triggered' = (triggered \/ channels' # channels)
             /\ clean' = (clean /\ lost = {})
        /\ offered' = vuBox
  /\ phase' = "store"
  /\ UNCHANGED <<vuBox, checks, file>>

StoreChannelData ==
  /\ phase = "store"
  /\ file' = IF triggered THEN Stored ELSE file
  /\ phase' = "checked"
  /\ UNCHANGED <<vuBox, checks, groups, numGroups, channels, triggered, clean, offered>>

\* The program ends, at any moment; a file cut short cannot be parsed.
Ends ==
  /\ phase # "down"
  /\ \/ UNCHANGED file
     \/ phase = "store" /\ triggered /\ file' = NoFile
  /\ phase' = "down" /\ checks' \in [groups : BOOLEAN, channels : BOOLEAN]
  /\ groups' = <<>> /\ numGroups' = 0 /\ channels' = <<>>
  /\ triggered' = FALSE /\ clean' = TRUE
  /\ UNCHANGED <<vuBox, offered>>

OfferChanges ==
  /\ vuBox' \in Box \ {vuBox}
  /\ Nothing
  /\ UNCHANGED <<checks, file, phase, triggered, clean, offered>>

VuChannelsNext ==
  \/ OpenWithFile \/ OpenWithout
  \/ CheckForGroupUpdate \/ CheckForChannelUpdate \/ StoreChannelData
  \/ Ends \/ OfferChanges

VuChannelsSpec == VuChannelsInit /\ [][VuChannelsNext]_vuChannelVars

-----------------------------------------------------------------------------
(* Properties                                                              *)

(* LoadChannels() finds every group it counts: at() does not throw in the  *)
(* update thread, though a failed request clears the groups and not the    *)
(* count, because nothing has counted the groups that came from the file.  *)
GroupsCounted == phase \in {"groups", "channels"} => numGroups <= Len(groups)

(* A channel's id is its place in the list: every call of XBMC that names  *)
(* a channel reads m_channels.at(iUniqueId - 1), after a start from the    *)
(* file as well.                                                           *)
IdsArePlaces == \A i \in DOMAIN channels : channels[i].id = i

(* When both checks are on and no request failed, the first round leaves   *)
(* every service the box offers in a group XBMC is shown in the list.  With*)
(* the check of groups off the groups from the file are not counted and    *)
(* the channels of all of them are dropped.                                *)
ListAfterCheck ==
  (phase = "checked" /\ clean /\ checks.groups /\ checks.channels) =>
     \A g \in Range(groups) \cap Range(offered.groups) :
       \A r \in Range(offered.services[g]) :
         \E c \in Range(channels) : c.group = g /\ c.ref = r

(* What XBMC was shown when the program was last running is what the file  *)
(* gives the next start, but for the references the escaping changed.      *)
FileFollows == phase = "checked" => file = Stored

(* The list of channels agrees with its groups, with the box and with the  *)
(* file, through every round of the update thread and every start.         *)
ChannelsKept ==
  /\ GroupsCounted
  /\ IdsArePlaces
  /\ ListAfterCheck
  /\ FileFollows
=============================================================================
