------------------------------ MODULE VNSIDemux ------------------------------
(***************************************************************************)
(* cVNSIDemux (addons/pvr.vdr.vnsi/src/VNSIDemux.cpp) on a session of its  *)
(* own, as the player of XBMC uses it, and what the server sends it: the   *)
(* answers of cVNSIClient and the messages of cLiveStreamer.  XBMC's       *)
(* application thread calls Abort meanwhile.  The server numbers the       *)
(* streams of every channel from the first one on, so a packet of another  *)
(* channel would pass for one of this.                                     *)
(*                                                                         *)
(* Left out: the signal quality and the notices, which are only displayed. *)
(* That the server's threads make and delete the streamer in peace is the  *)
(* matter of VNSIStreamer.                                                 *)
(***************************************************************************)
EXTENDS Naturals, Sequences, SequencesExt, FiniteSetsExt

CONSTANTS
  VnsiChannel,
  StreamLists,  \* the codecs of the streams that a channel may have
  MaxEntries,   \* PVR_STREAM_MAX_STREAMS
  MaxOpenings,  \* bound: channels opened or switched to
  MaxSent       \* bound: what the streamer does

ASSUME DemuxAssumption ==
  /\ \A c \in VnsiChannel : StreamLists[c] \subseteq Seq(STRING) \ {<<>>}
  /\ MaxEntries \in Nat \ {0} /\ MaxOpenings \in Nat /\ MaxSent \in Nat

VARIABLES
  demuxLink, \* the session: "closed", "open", or m_connectionLost
  demuxAt,   \* where the player's thread is
  channel,   \* m_channelinfo
  wanted,    \* the channel that SwitchChannel asks for
  slots,     \* m_Streams.stream
  count,     \* m_Streams.iStreamCount
  rest,      \* the entries of a stream change that are not taken yet
  view,      \* the streams the player knows
  pipe,      \* what the server has sent and nobody has read
  openAsked, \* the server has a request to open a channel
  streamed,  \* the channel it streams, if any
  carried,   \* cLiveStreamer::m_Streams
  changeDue, \* m_requestStreamChange
  framed,    \* reads begin where messages begin
  openings, sent,
  aborted,   \* history: Abort was called since the streams were last known
  unknown,   \* history: a packet was dropped whose stream was not known
  misnumbered \* history: the player got a packet as something it is not

demuxClient == <<demuxLink, demuxAt, channel, wanted, openings>>
demuxTable == <<slots, count, rest, view>>
demuxServer == <<openAsked, streamed, carried, changeDue, sent>>
demuxHistory == <<aborted, unknown, misnumbered>>
vnsiDemuxVars == <<demuxClient, demuxTable, pipe, demuxServer, framed, demuxHistory>>

Untuned == "none"
NoEntry == [id |-> 0, codec |-> "none", info |-> 0]
Table == [i \in 1..count |-> slots[i]]

VNSIDemuxTypeOK ==
  /\ demuxLink \in {"closed", "open", "lost"}
  /\ demuxAt \in {"idle", "switches", "fills", "writes", "counts", "looks", "failed"}
  /\ {channel, wanted, streamed} \subseteq VnsiChannel \cup {Untuned}
  /\ count \in 0..MaxEntries /\ Len(view) <= MaxEntries
  /\ openings <= MaxOpenings /\ sent <= MaxSent

VNSIDemuxInit ==
  /\ demuxLink = "closed" /\ demuxAt = "idle" /\ channel = Untuned /\ wanted = Untuned
  /\ slots = [i \in 1..MaxEntries |-> NoEntry] /\ count = 0 /\ rest = <<>> /\ view = <<>>
  /\ pipe = <<>> /\ openAsked = FALSE /\ streamed = Untuned /\ carried = <<>>
  /\ changeDue = FALSE /\ framed = TRUE /\ openings = 0 /\ sent = 0
  /\ aborted = FALSE /\ unknown = FALSE /\ misnumbered = FALSE

-----------------------------------------------------------------------------
(* The server                                                              *)

Reply(ok) == [kind |-> "reply", ok |-> ok]
Change == [kind |-> "change",
           entries |-> [i \in DOMAIN carried |-> [id |-> i, codec |-> carried[i]]]]
Content(info) == [kind |-> "content", streams |-> carried, info |-> info]
Packet(i) == [kind |-> "packet", id |-> i, codec |-> carried[i], from |-> streamed]

\* The answer waits until the streams are known and told.
ServeOpenLate ==
  /\ demuxLink = "open" /\ openAsked
  /\ openAsked' = FALSE /\ changeDue' = FALSE
  /\ streamed' = wanted
  /\ \E list \in StreamLists[wanted] :
       /\ carried' = list
       /\ pipe' = pipe \o <<Change', Reply(TRUE)>>
  /\ UNCHANGED <<demuxClient, demuxTable, sent, framed, demuxHistory>>

\* processChannelStream_Open: the streamer of the channel before is gone when
\* the answer is written, and the new one has not begun.
ServeOpen ==
  /\ demuxLink = "open" /\ openAsked
  /\ openAsked' = FALSE
  /\ \/ /\ streamed' = wanted /\ carried' \in StreamLists[wanted] /\ changeDue' = TRUE
        /\ pipe' = Append(pipe, Reply(TRUE))
     \/ /\ streamed' = Untuned /\ carried' = <<>> /\ changeDue' = FALSE
        /\ pipe' = Append(pipe, Reply(FALSE))
  /\ UNCHANGED <<demuxClient, demuxTable, sent, framed, demuxHistory>>

Streams == demuxLink = "open" /\ streamed # Untuned /\ sent < MaxSent /\ sent' = sent + 1

\* cLivePatFilter finds other streams on the channel.
NewProgrammeMap ==
  /\ Streams
  /\ carried' \in StreamLists[streamed] \ {carried} /\ changeDue' = TRUE
  /\ UNCHANGED <<demuxClient, demuxTable, pipe, openAsked, streamed, framed, demuxHistory>>

\* sendStreamPacket, with the stream change and the content that are due.
SendPacket ==
  /\ Streams
  /\ \E i \in DOMAIN carried :
       pipe' = pipe \o IF changeDue THEN <<Change, Content(1), Packet(i)>> ELSE <<Packet(i)>>
  /\ changeDue' = FALSE
  /\ UNCHANGED <<demuxClient, demuxTable, openAsked, streamed, carried, framed, demuxHistory>>

\* Every ten seconds, whether the streams were told or not.
SendStreamInfo ==
  /\ Streams
  /\ \E info \in 1..2 : pipe' = Append(pipe, Content(info))
  /\ UNCHANGED <<demuxClient, demuxTable, openAsked, streamed, carried, changeDue, framed,
                 demuxHistory>>

-----------------------------------------------------------------------------
(* Opening, switching and closing                                          *)

Asks(c) ==
  /\ openings < MaxOpenings /\ openings' = openings + 1
  /\ wanted' = c

\* The connection is gone, and with it all that was on its way.
Gone ==
  /\ pipe' = <<>> /\ openAsked' = FALSE
  /\ streamed' = Untuned /\ carried' = <<>> /\ changeDue' = FALSE

\* OpenLiveStream with a new cVNSIDemux: connected and logged in, or not.
OpenDemuxer(c) ==
  /\ demuxAt = "idle" /\ demuxLink = "closed"
  /\ Asks(c) /\ channel' = c
  /\ \/ demuxLink' = "open" /\ openAsked' = TRUE /\ demuxAt' = "switches"
     \/ demuxLink' = "lost" /\ openAsked' = FALSE /\ demuxAt' = "failed"
  /\ framed' = TRUE /\ aborted' = FALSE
  /\ UNCHANGED <<demuxTable, pipe, streamed, carried, changeDue, sent, unknown, misnumbered>>

\* On a lost connection TransmitMessage fails.
SwitchDemuxer(c) ==
  /\ demuxAt = "idle" /\ demuxLink # "closed"
  /\ Asks(c)
  /\ IF demuxLink = "open" THEN openAsked' = TRUE /\ demuxAt' = "switches"
                           ELSE UNCHANGED openAsked /\ demuxAt' = "failed"
  /\ UNCHANGED <<demuxLink, channel, demuxTable, pipe, streamed, carried, changeDue, sent,
                 framed, demuxHistory>>

\* ReadResult: all that comes before the answer is discarded.
Discard ==
  /\ demuxAt = "switches" /\ framed /\ pipe # <<>> /\ Head(pipe).kind # "reply"
  /\ pipe' = Tail(pipe)
  /\ UNCHANGED <<demuxClient, demuxTable, demuxServer, framed, demuxHistory>>

SwitchReturns ==
  /\ demuxAt = "switches" /\ framed /\ pipe # <<>> /\ Head(pipe).kind = "reply"
  /\ pipe' = Tail(pipe)
  /\ IF Head(pipe).ok
     THEN demuxAt' = "idle" /\ channel' = wanted /\ count' = 0 /\ aborted' = FALSE
     ELSE demuxAt' = "failed" /\ UNCHANGED <<channel, count, aborted>>
  /\ UNCHANGED <<demuxLink, wanted, openings, slots, rest, view, demuxServer, framed,
                 unknown, misnumbered>>

\* Nothing comes for ten seconds, or the connection breaks: SignalConnectionLost.
ConnectionGivenUp ==
  /\ demuxAt = "switches"
  /\ demuxLink' = "lost" /\ demuxAt' = "failed" /\ Gone
  /\ UNCHANGED <<channel, wanted, openings, demuxTable, sent, framed, demuxHistory>>

\* XBMC closes what it could not open or switch, and whenever it wants to.
CloseDemuxer ==
  /\ demuxAt \in {"idle", "failed"} /\ demuxLink # "closed"
  /\ demuxLink' = "closed" /\ demuxAt' = "idle" /\ Gone
  /\ channel' = Untuned /\ wanted' = Untuned
  /\ slots' = [i \in 1..MaxEntries |-> NoEntry] /\ count' = 0 /\ rest' = <<>> /\ view' = <<>>
  /\ UNCHANGED <<openings, sent, framed, demuxHistory>>

-----------------------------------------------------------------------------
(* Read                                                                    *)

Reads(kind) ==
  /\ demuxAt = "idle" /\ demuxLink = "open" /\ framed
  /\ pipe # <<>> /\ Head(pipe).kind = kind
  /\ pipe' = Tail(pipe)

StreamFound(id) == {i \in 1..count : slots[i].id = id}

\* The player gets the place in m_Streams as the number of the stream.
ReadPacket ==
  /\ Reads("packet")
  /\ LET p == Head(pipe)
         i == Min(StreamFound(p.id))
         right == /\ i <= Len(view) /\ view[i].id = p.id
                  /\ view[i].codec = p.codec /\ p.from = channel
     IN  IF StreamFound(p.id) = {}
         THEN /\ unknown' = (unknown \/ (~aborted /\ p.id <= MaxEntries))
              /\ UNCHANGED misnumbered
         ELSE /\ misnumbered' = (misnumbered \/ (~aborted /\ ~right))
              /\ UNCHANGED unknown
  /\ UNCHANGED <<demuxClient, demuxTable, demuxServer, framed, aborted>>

\* StreamChange begins.
ReadChange ==
  /\ Reads("change")
  /\ rest' = Head(pipe).entries /\ count' = 0 /\ aborted' = FALSE
  /\ demuxAt' = "fills"
  /\ UNCHANGED <<demuxLink, channel, wanted, openings, slots, view, demuxServer, framed,
                 unknown, misnumbered>>

At(place) == demuxAt' = place /\ UNCHANGED <<demuxLink, channel, wanted, openings>>

\* Each field is written at the place the counter says at that moment.
FillEntry ==
  /\ demuxAt = "fills" /\ rest # <<>> /\ count < MaxEntries
  /\ slots' = [slots EXCEPT ![count + 1] = [NoEntry EXCEPT !.id = Head(rest).id]]
  /\ At("writes")
  /\ UNCHANGED <<count, rest, view, pipe, demuxServer, framed, demuxHistory>>

WriteCodec ==
  /\ demuxAt = "writes"
  /\ slots' = [slots EXCEPT ![count + 1].codec = Head(rest).codec]
  /\ At("counts")
  /\ UNCHANGED <<count, rest, view, pipe, demuxServer, framed, demuxHistory>>

CountEntry ==
  /\ demuxAt = "counts"
  /\ count' = count + 1 /\ rest' = Tail(rest)
  /\ At("fills")
  /\ UNCHANGED <<slots, view, pipe, demuxServer, framed, demuxHistory>>

\* No entry is left, or no place: the player is told of a change.
StreamChanged ==
  /\ demuxAt = "fills" /\ (rest = <<>> \/ count = MaxEntries)
  /\ rest' = <<>>
  /\ At("looks")
  /\ UNCHANGED <<slots, count, view, pipe, demuxServer, framed, demuxHistory>>

GetStreamProperties ==
  /\ demuxAt = "looks"
  /\ view' = Table
  /\ At("idle")
  /\ UNCHANGED <<slots, count, rest, pipe, demuxServer, framed, demuxHistory>>

\* StreamContentInfo ends at the first stream that is not known, and goes
\* astray after one that is of another kind than the table says.
Informed(streams, info) ==
  LET as(i) == \E k \in StreamFound(i) : slots[k].codec = streams[i]
      reached == {i \in DOMAIN streams : \A j \in 1..(i - 1) : as(j)}
  IN  [k \in DOMAIN slots |-> IF k <= count /\ slots[k].id \in reached
                              THEN [slots[k] EXCEPT !.info = info] ELSE slots[k]]

\* The player gets the streams when something has changed.
ReadContent ==
  /\ Reads("content")
  /\ slots' = Informed(Head(pipe).streams, Head(pipe).info)
  /\ view' = IF slots' # slots THEN [i \in 1..count |-> slots'[i]] ELSE view
  /\ UNCHANGED <<demuxClient, count, rest, demuxServer, framed, demuxHistory>>

\* The connection breaks, or the server ends it.
ReadFails ==
  /\ demuxAt = "idle" /\ demuxLink = "open"
  /\ demuxLink' = "lost" /\ Gone
  /\ UNCHANGED <<demuxAt, channel, wanted, openings, demuxTable, sent, framed, demuxHistory>>

\* A message stops for a second in the middle: its rest is read as others,
\* and what Read makes of them is nothing, or the end of the playback.
ReadStalls ==
  /\ demuxAt = "idle" /\ demuxLink = "open" /\ framed /\ pipe # <<>>
  /\ framed' = FALSE /\ pipe' = Tail(pipe)
  /\ UNCHANGED <<demuxClient, demuxTable, demuxServer, demuxHistory>>

-----------------------------------------------------------------------------
(* Another thread of XBMC                                                  *)

\* Without a lock: lost if the other thread holds the counter to add to it.
Abort ==
  /\ demuxLink # "closed"
  /\ count' = 0 \/ (demuxAt \in {"writes", "counts"} /\ count' = count)
  /\ aborted' = TRUE
  /\ UNCHANGED <<demuxClient, slots, rest, view, pipe, demuxServer, framed,
                 unknown, misnumbered>>

-----------------------------------------------------------------------------
VNSIDemuxNext ==
  \/ ServeOpen \/ NewProgrammeMap \/ SendPacket \/ SendStreamInfo
  \/ \E c \in VnsiChannel : OpenDemuxer(c) \/ SwitchDemuxer(c)
  \/ Discard \/ SwitchReturns \/ ConnectionGivenUp \/ CloseDemuxer
  \/ ReadPacket \/ ReadChange \/ FillEntry \/ WriteCodec \/ CountEntry
  \/ StreamChanged \/ GetStreamProperties \/ ReadContent \/ ReadFails \/ ReadStalls
  \/ Abort

VNSIDemuxSpec == VNSIDemuxInit /\ [][VNSIDemuxNext]_vnsiDemuxVars

-----------------------------------------------------------------------------
(* Properties                                                              *)

(* The player knows the streams by which its packets are numbered, with    *)
(* what was learned of them since: each change reaches it before the next  *)
(* packet does.                                                            *)
ViewCurrent == demuxAt = "idle" /\ demuxLink = "open" /\ count > 0 /\ ~aborted => view = Table

(* A packet is the player's under the number of its stream, with the codec *)
(* the stream has on this channel, although every channel has a stream of  *)
(* that number, and it belongs to the channel that was asked for last:     *)
(* nothing of the old one outlasts a switch.                               *)
PacketsPlaced == ~misnumbered

(* No packet is dropped because its streams were never heard of: the first *)
(* change of a channel is not among what a switch discards, and comes      *)
(* before the first packet.                                                *)
StreamsHeardOf == ~unknown

(* Read never meets the answer to a request, which would end the playback: *)
(* a switch that does not wait for its answer gives the connection up.     *)
NoLateAnswer ==
  demuxAt = "idle" /\ demuxLink = "open" => \A i \in DOMAIN pipe : pipe[i].kind # "reply"

(* The server streams the channel that CurrentChannel() names, or none:    *)
(* after a switch it refused, the channel before is not streamed any more. *)
ChannelFollowed ==
  demuxAt \in {"idle", "failed"} /\ demuxLink = "open" => streamed \in {channel, Untuned}

(* A channel is switched at once for the server, the demuxer and the       *)
(* player, whatever was on its way.                                        *)
DemuxFollows ==
  /\ ViewCurrent
  /\ PacketsPlaced
  /\ StreamsHeardOf
  /\ NoLateAnswer
  /\ ChannelFollowed
=============================================================================
