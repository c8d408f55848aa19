----------------------------- MODULE HTSPDemux ------------------------------
(***************************************************************************)
(* CHTSPDemux (addons/pvr.hts/src/HTSPDemux.cpp): live television.  One    *)
(* object has one session and one subscription at a time; the player of    *)
(* XBMC opens it, reads it, switches its channel and closes it, one call   *)
(* after the other, and only Abort() comes from another thread.  Nothing   *)
(* here is under a lock.                                                   *)
(*                                                                         *)
(* The session is the one module Session promises.  Messages that fill     *)
(* fields nobody reads (queueStatus, subscriptionStatus) are left out.     *)
(***************************************************************************)
EXTENDS Integers, Sequences, SequencesExt

CONSTANTS
  Channels,     (* records with iUniqueId and iChannelNumber               *)
  Streams,      (* numbers the server gives to elementary streams          *)
  Known,        (* those of a type the add-on knows                        *)
  StreamLists,  (* what a subscriptionStart may announce                   *)
  MaxStreams,   (* PVR_STREAM_MAX_STREAMS, 20 in the code                  *)
  MaxSeq,       (* bound: requests made                                    *)
  MaxPushes     (* bound: messages the server sends that are no replies    *)

ASSUME DemuxAssumption ==
  /\ \A c \in Channels : c.iUniqueId \in Nat \ {0} /\ c.iChannelNumber \in Nat
  /\ Streams \subseteq Nat \ {0} /\ Known \subseteq Streams
  /\ StreamLists \subseteq Seq(Streams) \ {<<>>}
  /\ MaxStreams \in Nat \ {0} /\ MaxSeq \in Nat /\ MaxPushes \in Nat

VARIABLES
  (* the session *)
  link, inbox, lastSent, lastRead,
  (* the server *)
  peer,       (* it is still at the other end                              *)
  req,        (* requests it has still to answer                           *)
  live,       (* the subscriptions it serves                               *)
  (* CHTSPDemux *)
  m_subs, m_channel,
  count,      (* m_Streams.iStreamCount                                    *)
  stream,     (* iPhysicalId of each entry of m_Streams                    *)
  source,     (* channel m_SourceInfo is about, 0 if it is empty           *)
  signal,     (* channel m_Quality is about, 0 if it is empty              *)
  (* the call under way *)
  pc, opening, target, asked, seq,
  hand,       (* what is still to be parsed of a subscriptionStart         *)
  slot,       (* the entry being filled                                    *)
  (* the player *)
  pkt,        (* what Read() returned last                                 *)
  view,       (* the streams it has been told of                           *)
  (* history *)
  selected,   (* channel of the last Open or SwitchChannel that succeeded  *)
  from,       (* subscription the last parsed start belongs to             *)
  doubtful    (* numbers of subscribe requests whose answer did not come   *)

session == <<link, inbox, lastSent, lastRead>>
server  == <<peer, req, live>>
tables  == <<count, stream, source, signal>>
current == <<m_subs, m_channel, selected, doubtful>>
call    == <<pc, opening, target, asked, seq, hand, slot>>
player  == <<pkt, view>>
vars    == <<session, server, tables, current, call, player, from>>

MaxId == MaxSeq + MaxPushes
Ids == {c.iUniqueId : c \in Channels}
Message == [id : 1..MaxId, reply : BOOLEAN, seq : 0..MaxSeq, subs : 0..MaxSeq,
            kind : {"ok", "error", "start", "malformed", "stop", "signal", "packet"},
            chan : Ids \cup {0}, list : StreamLists \cup {<<>>}, phys : Streams \cup {0}]
Subscription == [subs : 0..MaxSeq, chan : Ids, list : StreamLists \cup {<<>>}]
Request == [what : {"subscribe", "unsubscribe"}, seq : 1..MaxSeq, subs : 0..MaxSeq, chan : Ids]
NoChannel == [iUniqueId |-> 0, iChannelNumber |-> 0]
NoMessage == [id |-> 0, reply |-> FALSE, seq |-> 0, subs |-> 0, kind |-> "none",
              chan |-> 0, list |-> <<>>, phys |-> 0]
NoStart == [chan |-> 0, list |-> <<>>]
Packet(kind, m, id) == [kind |-> kind, iStreamId |-> id, phys |-> m.phys, chan |-> m.chan]
NoPacket == Packet("none", NoMessage, -1)
Empty    == Packet("empty", NoMessage, -1)   (* AllocateDemuxPacket(0)     *)
Change   == Packet("change", NoMessage, -1)  (* DMX_SPECIALID_STREAMCHANGE *)

S == INSTANCE Session

Init ==
  /\ S!Init
  /\ peer = FALSE /\ req = <<>> /\ live = {}
  /\ m_subs = 0 /\ m_channel = 0
  /\ count = 0 /\ stream = [i \in 0..MaxStreams - 1 |-> 0]
  /\ source = 0 /\ signal = 0
  /\ pc = "new" /\ opening = FALSE /\ target = NoChannel /\ asked = "none" /\ seq = 0
  /\ hand = NoStart /\ slot = 0
  /\ pkt = NoPacket /\ view = <<>>
  /\ selected = NoChannel /\ from = 0 /\ doubtful = {}

-----------------------------------------------------------------------------
(* As in the other modules, a definition nothing is said of is a variant   *)
(* of the next one with a plausible mistake.                               *)

(* m_session->Close(), also from inside a failing call of the session.     *)
CloseSession ==
  IF link
  THEN /\ \E n \in 0..Len(inbox) : S!Break(n)
       /\ link' = FALSE /\ peer' = FALSE /\ req' = <<>> /\ live' = {}
  ELSE UNCHANGED <<session, server>>

(* Open(): Connect(), greeting included, succeeds or fails.                *)
Open(c) ==
  /\ pc = "new"
  /\ m_channel' = c.iUniqueId
  /\ target' = c /\ opening' = TRUE
  /\ \/ S!Up /\ peer' = TRUE /\ pc' = "subscribe" /\ UNCHANGED <<req, live>>
     \/ pc' = "failed" /\ UNCHANGED <<session, server>>
  /\ UNCHANGED <<tables, m_subs, selected, doubtful, asked, seq, hand, slot, player, from>>

SwitchChannel(c) ==
  /\ pc = "play" /\ seq + 2 <= MaxSeq
  /\ pc' = "unsubscribe"
  /\ target' = c /\ opening' = FALSE
  /\ pkt' = NoPacket
  /\ UNCHANGED <<session, server, tables, current, asked, seq, hand, slot, view, from>>

(* The number a subscribe or unsubscribe request is about.                 *)
Subs(what) == IF what = "subscribe" /\ ~opening THEN m_subs + 1 ELSE m_subs

SubscribedKeepsStreams ==
  /\ selected' = target
  /\ m_subs' = Subs("subscribe")
  /\ m_channel' = IF opening THEN m_channel ELSE target.iChannelNumber
  /\ UNCHANGED count

Subscribed ==
  /\ selected' = target
  /\ m_subs' = Subs("subscribe")
  /\ m_channel' = IF opening THEN m_channel ELSE target.iChannelNumber
  /\ count' = 0

(* What SendSubscribe or SendUnsubscribe returned.  A failing unsubscribe  *)
(* is only logged; a failing subscribe leaves all as it was.               *)
Returns(what, done) ==
  CASE what = "unsubscribe" ->
         pc' = "subscribe" /\ UNCHANGED <<count, m_subs, m_channel, selected>>
    [] what = "subscribe" /\ done ->
         pc' = "play" /\ Subscribed
    [] what = "subscribe" /\ ~done ->
         /\ pc' = IF opening THEN "failed" ELSE "play"
         /\ UNCHANGED <<count, m_subs, m_channel, selected>>

(* ReadSuccess transmits the request.  One sent to a server that has gone  *)
(* may still seem to have been sent.                                       *)
Transmit(what) ==
  /\ pc = what /\ seq < MaxSeq
  /\ seq' = seq + 1 /\ asked' = what
  /\ \/ /\ link
        /\ req' = IF peer
                  THEN Append(req, [what |-> what, seq |-> seq + 1, subs |-> Subs(what),
                                    chan |-> target.iUniqueId])
                  ELSE req
        /\ pc' = "await"
        /\ UNCHANGED <<session, peer, live, count, m_subs, m_channel, selected>>
     \/ ~peer /\ CloseSession /\ Returns(what, FALSE)
  /\ UNCHANGED <<stream, source, signal, doubtful, opening, target, hand, slot, player, from>>

Answered ==
  /\ pc = "await"
  /\ \E i \in 1..Len(inbox) :
       /\ S!TakeReply(i) /\ inbox[i].seq = seq
       /\ Returns(asked, inbox[i].kind = "ok")
  /\ UNCHANGED <<server, stream, source, signal, doubtful, opening, target, asked, seq,
                 hand, slot, player, from>>

(* The queue of ReadResult is full, or the session breaks.                 *)
GivesUp ==
  /\ pc = "await"
  /\ CloseSession \/ UNCHANGED <<session, server>>
  /\ Returns(asked, FALSE)
  /\ doubtful' = IF asked = "subscribe" THEN doubtful \cup {Subs(asked)} ELSE doubtful
  /\ UNCHANGED <<stream, source, signal, opening, target, asked, seq, hand, slot, player, from>>

-----------------------------------------------------------------------------
(* Read().  ReadMessage returns NULL or finds nothing in time: the player  *)
(* gets the empty packet in both cases.                                    *)
ReadNothing ==
  /\ pc = "play"
  /\ CloseSession \/ UNCHANGED <<session, server>>
  /\ pkt' = Empty
  /\ UNCHANGED <<tables, current, call, view, from>>

(* It returns a message, m.                                                *)
Reads(m) ==
  /\ pc = "play"
  /\ S!Deliver /\ m = Head(inbox)
  /\ UNCHANGED <<server, current, opening, target, asked, seq, slot, view>>

ForeignAccepted(m) == m.reply

(* A reply has no method; other messages may be about a subscription that  *)
(* is no longer the current one.                                           *)
Foreign(m) == m.reply \/ m.subs # m_subs

Mine(m, kind) == ~Foreign(m) /\ m.kind = kind

ReadForeign(m) ==
  /\ Reads(m) /\ Foreign(m)
  /\ pkt' = Empty
  /\ UNCHANGED <<tables, pc, hand, from>>

ReadStop(m) ==
  /\ Reads(m) /\ Mine(m, "stop")
  /\ count' = 0 /\ signal' = 0 /\ source' = 0
  /\ pkt' = Empty
  /\ UNCHANGED <<stream, pc, hand, from>>

ReadSignal(m) ==
  /\ Reads(m) /\ Mine(m, "signal")
  /\ signal' = m.chan
  /\ pkt' = Empty
  /\ UNCHANGED <<count, stream, source, pc, hand, from>>

(* The first entry with the number of the packet's stream, or -1.          *)
StreamOf(phys) ==
  LET found == {i \in 0..count - 1 : stream[i] = phys}
  IN  IF found = {} THEN -1 ELSE Min(found)

ReadPacket(m) ==
  /\ Reads(m) /\ Mine(m, "packet")
  /\ pkt' = Packet("data", m, StreamOf(m.phys))
  /\ UNCHANGED <<tables, pc, hand, from>>

(* A start without a list of streams changes nothing, but is reported.     *)
ReadMalformed(m) ==
  /\ Reads(m) /\ Mine(m, "malformed")
  /\ pkt' = Change /\ pc' = "changed"
  /\ UNCHANGED <<tables, hand, from>>

ReadStart(m) ==
  /\ Reads(m) /\ Mine(m, "start")
  /\ count' = 0
  /\ hand' = [chan |-> m.chan, list |-> m.list] /\ from' = m.subs
  /\ pc' = "parse"
  /\ UNCHANGED <<stream, source, signal, pkt>>

(* ParseSubscriptionStart, an entry of the list at a time, in two steps:   *)
(* Abort() may reset the counter in between.                               *)
NextEntry == hand' = [hand EXCEPT !.list = Tail(@)]

SkipEntry ==
  /\ pc = "parse" /\ hand.list # <<>> /\ count < MaxStreams
  /\ Head(hand.list) \notin Known
  /\ NextEntry
  /\ UNCHANGED <<session, server, tables, current, pc, opening, target, asked, seq, slot,
                 player, from>>

FillEntry ==
  /\ pc = "parse" /\ hand.list # <<>> /\ count < MaxStreams
  /\ Head(hand.list) \in Known
  /\ stream' = [stream EXCEPT ![count] = Head(hand.list)]
  /\ slot' = count
  /\ pc' = "count"
  /\ UNCHANGED <<session, server, count, source, signal, current, opening, target, asked,
                 seq, hand, player, from>>

(* ++iStreamCount, read before or after an Abort().                        *)
CountEntry ==
  /\ pc = "count"
  /\ count' \in {count + 1, slot + 1}
  /\ NextEntry
  /\ pc' = "parse"
  /\ UNCHANGED <<session, server, stream, source, signal, current, opening, target, asked,
                 seq, slot, player, from>>

StartUnreported ==
  /\ pc = "parse" /\ (hand.list = <<>> \/ count >= MaxStreams)
  /\ source' \in {source, hand.chan, 0}
  /\ hand' = NoStart
  /\ pkt' = Empty /\ pc' = "play"
  /\ UNCHANGED <<session, server, count, stream, signal, current, opening, target, asked,
                 seq, slot, view, from>>

(* ParseSourceInfo finds a map or not, an adapter in it or not, and Read() *)
(* returns the packet that tells the player to look at the streams again.  *)
StartParsed ==
  /\ pc = "parse" /\ (hand.list = <<>> \/ count >= MaxStreams)
  /\ source' \in {source, hand.chan, 0}
  /\ hand' = NoStart
  /\ pkt' = Change /\ pc' = "changed"
  /\ UNCHANGED <<session, server, count, stream, signal, current, opening, target, asked,
                 seq, slot, view, from>>

(* The player looks: GetStreamProperties, which an Abort() may cut short.  *)
GetStreamProperties ==
  /\ pc = "changed"
  /\ \E n \in 0..count :
       /\ view' = [i \in 1..n |-> stream[i - 1]]
       /\ count' = IF n < count THEN 0 ELSE count
  /\ pkt' = NoPacket /\ pc' = "play"
  /\ UNCHANGED <<session, server, stream, source, signal, current, opening, target, asked,
                 seq, hand, slot, from>>

-----------------------------------------------------------------------------
(* Abort(), from another thread and at any time.                           *)
Abort ==
  /\ pc \notin {"new", "deleted"} /\ count > 0
  /\ count' = 0
  /\ UNCHANGED <<session, server, stream, source, signal, current, call, player, from>>

(* CloseLiveStream: Close() and delete.                                    *)
Close ==
  /\ pc \in {"play", "changed", "failed"}
  /\ CloseSession
  /\ pc' = "deleted"
  /\ UNCHANGED <<tables, current, opening, target, asked, seq, hand, slot, player, from>>

Deleted == pc = "deleted" /\ UNCHANGED vars

-----------------------------------------------------------------------------
(* The server.  It may serve two subscriptions of the same number.         *)
Arrive(m) ==
  /\ peer /\ m \in Message
  /\ S!Arrive(m)
  /\ UNCHANGED <<peer, tables, current, call, player, from>>

Reply(kind) ==
  /\ Arrive([NoMessage EXCEPT !.id = lastSent + 1, !.reply = TRUE,
                              !.seq = Head(req).seq, !.kind = kind])
  /\ req' = Tail(req)

ServerSubscribes ==
  /\ req # <<>> /\ Head(req).what = "subscribe"
  /\ \/ /\ Reply("ok")
        /\ live' = live \cup {[subs |-> Head(req).subs, chan |-> Head(req).chan, list |-> <<>>]}
     \/ Reply("error") /\ UNCHANGED live

ServerUnsubscribes ==
  /\ req # <<>> /\ Head(req).what = "unsubscribe"
  /\ LET found == {s \in live : s.subs = Head(req).subs}
     IN  IF found = {}
         THEN Reply("error") /\ UNCHANGED live
         ELSE Reply("ok") /\ \E s \in found : live' = live \ {s}

(* As long as the server is there it has got all requests.                 *)
Pushes == lastSent - (seq - Len(req))

Push(s, kind, list, phys) ==
  /\ Pushes < MaxPushes
  /\ Arrive([NoMessage EXCEPT !.id = lastSent + 1, !.kind = kind, !.subs = s.subs,
                              !.chan = s.chan, !.list = list, !.phys = phys])
  /\ UNCHANGED req

Becomes(s, list) == live' = (live \ {s}) \cup {[s EXCEPT !.list = list]}

ServerStarts(s) ==
  \/ \E list \in StreamLists : Push(s, "start", list, 0) /\ Becomes(s, list)
  \/ Push(s, "malformed", <<>>, 0) /\ UNCHANGED live

ServerStops(s) ==
  /\ s.list # <<>>
  /\ Push(s, "stop", <<>>, 0)
  /\ Becomes(s, <<>>)

ServerStreams(s) ==
  /\ s.list # <<>>
  /\ \/ Push(s, "signal", <<>>, 0)
     \/ \E phys \in Range(s.list) : Push(s, "packet", <<>>, phys)
  /\ UNCHANGED live

ServerDies ==
  /\ peer
  /\ \E n \in 0..Len(inbox) : S!Break(n)
  /\ link' = link
  /\ peer' = FALSE /\ req' = <<>> /\ live' = {}
  /\ UNCHANGED <<tables, current, call, player, from>>

-----------------------------------------------------------------------------
Read(m) ==
  \/ ReadForeign(m) \/ ReadStop(m) \/ ReadSignal(m) \/ ReadPacket(m)
  \/ ReadMalformed(m) \/ ReadStart(m)

Parse == SkipEntry \/ FillEntry \/ CountEntry \/ StartParsed

Next ==
  \/ \E c \in Channels : Open(c) \/ SwitchChannel(c)
  \/ \E what \in {"subscribe", "unsubscribe"} : Transmit(what)
  \/ Answered \/ GivesUp
  \/ ReadNothing \/ \E m \in Range(inbox) : Read(m)
  \/ Parse \/ GetStreamProperties
  \/ Abort \/ Close \/ Deleted
  \/ ServerSubscribes \/ ServerUnsubscribes \/ ServerDies
  \/ \E s \in live : ServerStarts(s) \/ ServerStops(s) \/ ServerStreams(s)

Spec == Init /\ [][Next]_vars

-----------------------------------------------------------------------------
TypeOK ==
  /\ link \in BOOLEAN /\ inbox \in Seq(Message)
  /\ lastSent \in 0..MaxId /\ lastRead \in 0..MaxId
  /\ peer \in BOOLEAN /\ req \in Seq(Request) /\ live \subseteq Subscription
  /\ m_subs \in 0..MaxSeq /\ m_channel \in Nat
  /\ count \in 0..MaxStreams /\ stream \in [0..MaxStreams - 1 -> Known \cup {0}]
  /\ source \in Ids \cup {0} /\ signal \in Ids \cup {0}
  /\ pc \in {"new", "unsubscribe", "subscribe", "await", "play", "parse", "count",
             "changed", "failed", "deleted"}
  /\ opening \in BOOLEAN /\ target \in Channels \cup {NoChannel}
  /\ asked \in {"none", "subscribe", "unsubscribe"} /\ seq \in 0..MaxSeq
  /\ hand \in [chan : Ids \cup {0}, list : Seq(Streams)] /\ slot \in 0..MaxStreams - 1
  /\ view \in Seq(Known \cup {0})
  /\ selected \in Channels \cup {NoChannel}
  /\ from \in 0..MaxSeq /\ doubtful \subseteq 0..MaxSeq

(***************************************************************************)
(* What the player shows is the channel it asked for: a packet handed out  *)
(* after a switch is one of the new channel, although packets of the old   *)
(* one may be on their way, also when the old subscription could not be    *)
(* cancelled and stays.  The one exception is a number that a subscribe    *)
(* request of unknown fate has used before.                                *)
(***************************************************************************)
PacketsOfChannel ==
  pkt.kind = "data" /\ m_subs \notin doubtful => pkt.chan = selected.iUniqueId

(***************************************************************************)
(* The streams are those of the current subscription: none is left from    *)
(* the channel before, although Abort() may interfere with the parsing.    *)
(***************************************************************************)
StreamsOfSubscription == count > 0 => from = m_subs

(***************************************************************************)
(* The player knows the streams of what it gets: if a packet is given the  *)
(* number of a stream, then that number stands for the very stream in what *)
(* the player was told last, across restarted subscriptions and Abort().   *)
(***************************************************************************)
PacketsInView ==
  pkt.kind = "data" /\ pkt.iStreamId >= 0 =>
    pkt.iStreamId < Len(view) /\ view[pkt.iStreamId + 1] = pkt.phys

(***************************************************************************)
(* What xbmc/xbmc_pvr_dll.h says of SignalStatus: it is that of the stream *)
(* which is open.  GetSignalStatus reports it if both parts are there.     *)
(***************************************************************************)
SignalOfStream ==
  pc = "play" /\ source # 0 /\ signal # 0 => signal = selected.iUniqueId
=============================================================================
