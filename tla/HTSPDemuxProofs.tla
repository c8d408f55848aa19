-------------------------- MODULE HTSPDemuxProofs ---------------------------
(***************************************************************************)
(* CHTSPDemux for every set of channels and streams and every value of the *)
(* bounds.                                                                 *)
(***************************************************************************)
EXTENDS HTSPDemux, SequenceLemmas, WellFoundedInduction

(* TypeOK in parts, with what is needed to carry it from step to step.     *)
Wire ==
  /\ link \in BOOLEAN /\ inbox \in Seq(Message)
  /\ lastSent \in 0..MaxId /\ lastRead \in 0..MaxId
  /\ peer \in BOOLEAN /\ req \in Seq(Request) /\ live \subseteq Subscription

Numbers ==
  /\ m_subs \in 0..MaxSeq /\ seq \in 0..MaxSeq
  /\ from \in 0..MaxSeq /\ doubtful \subseteq 0..MaxSeq
  /\ opening \in BOOLEAN
  /\ asked \in {"none", "subscribe", "unsubscribe"}
  /\ pc \in {"new", "unsubscribe", "subscribe", "await", "play", "parse", "count",
             "changed", "failed", "deleted"}
  /\ m_subs <= seq
  /\ pc = "await" => asked # "none"
  /\ pc = "await" /\ asked = "subscribe" /\ ~opening => m_subs < seq

Chosen ==
  /\ m_channel \in Nat
  /\ target \in Channels \cup {NoChannel}
  /\ selected \in Channels \cup {NoChannel}
  /\ pc \in {"unsubscribe", "subscribe", "await"} => target \in Channels

Table ==
  /\ count \in 0..MaxStreams /\ stream \in [0..MaxStreams - 1 -> Known \cup {0}]
  /\ slot \in 0..MaxStreams - 1
  /\ source \in Ids \cup {0} /\ signal \in Ids \cup {0}
  /\ hand \in [chan : Ids \cup {0}, list : Seq(Streams)]
  /\ view \in Seq(Known \cup {0})
  /\ pc = "count" => count <= slot /\ hand.list # <<>>

Types == Wire /\ Numbers /\ Chosen /\ Table

(* What StreamsOfSubscription needs: a start being parsed is a current one. *)
Own == count > 0 \/ pc \in {"parse", "count"} => from = m_subs

(***************************************************************************)
(* What PacketsOfChannel needs.  A number is bound to a channel by a       *)
(* subscribe request on its way, by a subscription the server serves and   *)
(* by each message of one that is still to be read.                        *)
(***************************************************************************)
Requested(n, c) ==
  \E k \in 1..Len(req) : req[k].what = "subscribe" /\ req[k].subs = n /\ req[k].chan = c

Served(n, c) ==
  \/ \E s \in live : s.subs = n /\ s.chan = c
  \/ \E k \in 1..Len(inbox) : ~inbox[k].reply /\ inbox[k].subs = n /\ inbox[k].chan = c

Bound(n, c) == Requested(n, c) \/ Served(n, c)

Pending == \E k \in 1..Len(req) : req[k].seq = seq
Came(kinds) == \E k \in 1..Len(inbox) :
                 inbox[k].reply /\ inbox[k].seq = seq /\ inbox[k].kind \in kinds
Answers == {"ok", "error"}

(* Requests are answered in turn, and the current one is the latest.       *)
InTurn ==
  /\ \A k \in 1..Len(req) : req[k].seq <= seq
  /\ \A k, l \in 1..Len(req) : k < l => req[k].seq < req[l].seq
  /\ \A k \in 1..Len(inbox) :
       inbox[k].reply => inbox[k].seq <= seq /\ inbox[k].kind \in Answers

(* A second or later subscription is being asked for, with a number of its *)
(* own, and the answer is still to come.                                   *)
Asking == pc = "await" /\ asked = "subscribe" /\ ~opening /\ m_subs + 1 \notin doubtful

(* Until it comes, and if it says no, the number is not served.            *)
Fate ==
  Asking =>
    /\ \A k \in 1..Len(req) :
         /\ req[k].what = "subscribe" /\ req[k].subs = m_subs + 1 => req[k].seq = seq
         /\ req[k].seq = seq => req[k].what = "subscribe"
    /\ Came(Answers) => ~Pending
    /\ Pending \/ Came({"error"}) =>
         \A n \in 0..MaxSeq, c \in Ids \cup {0} : n = m_subs + 1 => ~Served(n, c)

Subject == IF opening THEN target ELSE selected

(* Which channels numbers are bound to.                                    *)
Claim(n, c) ==
  /\ ~(pc = "new" \/ (pc = "subscribe" /\ opening))
  /\ n <= m_subs + 1
  /\ n = m_subs /\ m_subs \notin doubtful => c = Subject.iUniqueId
  /\ n = m_subs + 1 /\ n \notin doubtful => Asking /\ c = target.iUniqueId

Bindings == \A n \in 0..MaxSeq, c \in Ids \cup {0} : Bound(n, c) => Claim(n, c)

(* The channel being watched is that of the last call that succeeded.      *)
Watched ==
  /\ opening /\ pc \in {"play", "parse", "count", "changed"} => selected = target
  /\ pc \in {"new", "unsubscribe"} => ~opening
  /\ pc = "await" /\ asked = "unsubscribe" => ~opening
  /\ pc \in {"new", "unsubscribe", "subscribe", "await"} => pkt.kind # "data"
  /\ PacketsOfChannel

(* The parts make up TypeOK.                                               *)
LEMMA TypesSuffice == Types => TypeOK
BY DEF Types, Wire, Numbers, Chosen, Table, TypeOK

-----------------------------------------------------------------------------
(* What a step that takes from the inbox leaves in it.                     *)
Shrinks == inbox' \in Seq(Message) /\ Within(inbox', inbox)

(* A session that is closed, or not, keeps a prefix of its inbox.          *)
LEMMA CloseShrinks ==
  Wire /\ (CloseSession \/ UNCHANGED <<session, server>>) => Shrinks
<1>1. ASSUME inbox \in Seq(Message), NEW n \in 0..Len(inbox), inbox' = SubSeq(inbox, 1, n)
      PROVE  Shrinks
  <2>1. SubSeq(inbox, 1, n) \in Seq(Message) /\ Within(SubSeq(inbox, 1, n), inbox)
    BY <1>1, PrefixProperties, PrefixWithin, Zenon
  <2>. QED  BY <1>1, <2>1, Zenon DEF Shrinks
<1>2. ASSUME inbox \in Seq(Message), inbox' = inbox
      PROVE  Shrinks
  <2>1. Within(inbox, inbox)
    BY DEF Within
  <2>. QED  BY <1>2, <2>1, Zenon DEF Shrinks
<1>3. CloseSession =>
        inbox' = inbox \/ \E n \in 0..Len(inbox) : inbox' = SubSeq(inbox, 1, n)
  BY Zenon DEF CloseSession, S!Break, session
<1>4. UNCHANGED <<session, server>> => inbox' = inbox
  BY Zenon DEF session
<1>. QED  BY <1>1, <1>2, <1>3, <1>4, Zenon DEF Wire

(* So does one whose peer dies.                                            *)
LEMMA DeathShrinks == Wire /\ ServerDies => Shrinks
<1>. SUFFICES ASSUME Wire, NEW n \in 0..Len(inbox), inbox' = SubSeq(inbox, 1, n)
              PROVE  Shrinks
  BY Zenon DEF ServerDies, S!Break
<1>1. SubSeq(inbox, 1, n) \in Seq(Message) /\ Within(SubSeq(inbox, 1, n), inbox)
  BY PrefixProperties, PrefixWithin, Zenon DEF Wire
<1>. QED  BY <1>1, Zenon DEF Shrinks

(* An answer is taken out of the inbox.                                    *)
LEMMA AnswerShrinks ==
  ASSUME Wire, NEW i \in 1..Len(inbox), S!TakeReply(i)
  PROVE  Shrinks
<1>1. RemoveAt(inbox, i) \in Seq(Message) /\ Within(RemoveAt(inbox, i), inbox)
  BY RemoveAtProperties, RemoveAtWithin, Zenon DEF Wire
<1>2. inbox' = RemoveAt(inbox, i)
  BY Zenon DEF S!TakeReply, S!RemoveAt, RemoveAt
<1>. QED  BY <1>1, <1>2, Zenon DEF Shrinks

(* The message read is the first.                                          *)
LEMMA ReadShrinks ==
  ASSUME Wire, NEW m, Reads(m)
  PROVE  Shrinks /\ m \in Message /\ m = inbox[1] /\ 1 \in 1..Len(inbox)
<1>1. inbox \in Seq(Message) /\ inbox # <<>> /\ inbox' = Tail(inbox) /\ m = Head(inbox)
  BY Zenon DEF Wire, Reads, S!Deliver
<1>2. /\ Tail(inbox) \in Seq(Message)
      /\ Head(inbox) = inbox[1] /\ 1 \in 1..Len(inbox) /\ Head(inbox) \in Message
  BY <1>1
<1>. QED  BY <1>1, <1>2, TailWithin, Zenon DEF Shrinks

(* What the server sends comes last.                                       *)
LEMMA ArriveAppends ==
  ASSUME Wire, NEW m, Arrive(m)
  PROVE  /\ m \in Message
         /\ inbox' \in Seq(Message)
         /\ Len(inbox') = Len(inbox) + 1
         /\ inbox'[Len(inbox) + 1] = m
         /\ \A k \in 1..Len(inbox) : inbox'[k] = inbox[k]
<1>1. inbox \in Seq(Message) /\ inbox' = Append(inbox, m) /\ m \in Message
  BY Zenon DEF Wire, S!Arrive, Arrive
<1>. QED  BY <1>1

-----------------------------------------------------------------------------
(* The session keeps its types when it is closed, or is left alone.        *)
LEMMA CloseWire ==
  Wire /\ (CloseSession \/ UNCHANGED <<session, server>>) => Wire'
<1>. SUFFICES ASSUME Wire, CloseSession \/ UNCHANGED <<session, server>>
              PROVE  Wire'
  OBVIOUS
<1>1. CASE CloseSession /\ link
  <2>1. inbox' \in Seq(Message)
    BY <1>1, CloseShrinks, Zenon DEF Shrinks
  <2>2. /\ link' = FALSE /\ peer' = FALSE /\ req' = <<>> /\ live' = {}
        /\ lastSent' = lastSent /\ lastRead' = lastRead
    BY <1>1, Zenon DEF CloseSession, S!Break
  <2>3. <<>> \in Seq(Request) /\ {} \subseteq Subscription
    OBVIOUS
  <2>. QED  BY <2>1, <2>2, <2>3, Zenon DEF Wire
<1>2. CASE UNCHANGED <<session, server>>
  BY <1>2, Zenon DEF session, server, Wire
<1>. QED  BY <1>1, <1>2, Zenon DEF CloseSession

(* What a request carries.                                                 *)
LEMMA TransmitRequest ==
  ASSUME Types, NEW what \in {"subscribe", "unsubscribe"}, Transmit(what)
  PROVE  /\ seq \in Nat /\ seq + 1 \in 1..MaxSeq
         /\ Subs(what) \in 0..seq + 1
         /\ [what |-> what, seq |-> seq + 1, subs |-> Subs(what),
             chan |-> target.iUniqueId] \in Request
<1>1. MaxSeq \in Nat /\ seq \in 0..MaxSeq /\ seq < MaxSeq /\ m_subs \in 0..MaxSeq /\ m_subs <= seq
  BY DemuxAssumption, Zenon DEF Types, Numbers, Transmit
<1>2. seq \in Nat /\ seq + 1 \in 1..MaxSeq /\ m_subs \in 0..seq + 1 /\ m_subs + 1 \in 0..seq + 1
  BY <1>1
<1>3. Subs(what) \in 0..seq + 1 /\ Subs(what) \in 0..MaxSeq
  <2>1. Subs(what) \in {m_subs, m_subs + 1}
    BY Zenon DEF Subs
  <2>. QED  BY <1>1, <1>2, <2>1
<1>4. target.iUniqueId \in Ids
  BY Zenon DEF Types, Chosen, Transmit, Ids
<1>. QED  BY <1>2, <1>3, <1>4 DEF Request

(* What the server sends fits the session.                                 *)
LEMMA ArriveWire ==
  ASSUME Wire, NEW m, Arrive(m)
  PROVE  /\ link' \in BOOLEAN /\ inbox' \in Seq(Message)
         /\ lastSent' \in 0..MaxId /\ lastRead' \in 0..MaxId /\ peer' \in BOOLEAN
<1>1. inbox' \in Seq(Message) /\ m \in Message
  BY ArriveAppends, Zenon
<1>2. link' = link /\ lastSent' = m.id /\ lastRead' = lastRead /\ peer' = peer
  BY Zenon DEF Arrive, S!Arrive
<1>3. m.id \in 0..MaxId
  <2>1. m.id \in 1..MaxId
    BY <1>1 DEF Message
  <2>2. MaxId \in Nat
    BY DemuxAssumption DEF MaxId
  <2>. QED  BY <2>1, <2>2
<1>. QED  BY <1>1, <1>2, <1>3, Zenon DEF Wire

(* The session and the server keep their types.                            *)
LEMMA WireKept == Types /\ [Next]_vars => Wire'
<1>. SUFFICES ASSUME Types, [Next]_vars
              PROVE  Wire'
  OBVIOUS
<1>. USE DEF Types
<1>1. ASSUME NEW c \in Channels, Open(c)
      PROVE  Wire'
  BY <1>1, Zenon DEF Open, S!Up, session, server, Wire
<1>2. ASSUME UNCHANGED <<session, server>>
      PROVE  Wire'
  BY <1>2, CloseWire, Zenon
<1>3. ASSUME CloseSession
      PROVE  Wire'
  BY <1>3, CloseWire, Zenon
<1>4. ASSUME NEW what \in {"subscribe", "unsubscribe"}, Transmit(what)
      PROVE  Wire'
  <2>1. CASE link /\ UNCHANGED <<session, peer, live>>
             /\ req' = IF peer
                       THEN Append(req, [what |-> what, seq |-> seq + 1, subs |-> Subs(what),
                                         chan |-> target.iUniqueId])
                       ELSE req
    <3>1. req' \in Seq(Request)
      <4>1. [what |-> what, seq |-> seq + 1, subs |-> Subs(what),
             chan |-> target.iUniqueId] \in Request
        BY <1>4, TransmitRequest, Zenon
      <4>2. req \in Seq(Request)
        BY Zenon DEF Wire
      <4>. QED  BY <2>1, <4>1, <4>2, AppendProperties, Zenon
    <3>. QED  BY <2>1, <3>1, Zenon DEF Wire, session
  <2>. QED  BY <1>3, <1>4, <2>1, Zenon DEF Transmit
<1>5. CASE Answered
  <2>1. PICK i \in 1..Len(inbox) : S!TakeReply(i)
    BY <1>5, Zenon DEF Answered
  <2>2. inbox' \in Seq(Message)
    BY <2>1, AnswerShrinks, Zenon DEF Shrinks
  <2>. QED  BY <1>5, <2>1, <2>2, Zenon DEF S!TakeReply, Answered, server, Wire
<1>6. ASSUME NEW m, Reads(m)
      PROVE  Wire'
  <2>1. inbox' \in Seq(Message) /\ m \in Message
    BY <1>6, ReadShrinks, Zenon DEF Shrinks
  <2>2. /\ lastRead' = m.id /\ link' = link /\ lastSent' = lastSent
        /\ peer' = peer /\ req' = req /\ live' = live
    BY <1>6, Zenon DEF Reads, S!Deliver, server
  <2>3. m.id \in 0..MaxId
    <3>1. m.id \in 1..MaxId
      BY <2>1 DEF Message
    <3>2. MaxId \in Nat
      BY DemuxAssumption DEF MaxId
    <3>. QED  BY <3>1, <3>2
  <2>. QED  BY <2>1, <2>2, <2>3, Zenon DEF Wire
<1>7. ASSUME NEW m, Arrive(m), req' \in Seq(Request), live' \subseteq Subscription
      PROVE  Wire'
  BY <1>7, ArriveWire, Zenon DEF Wire
<1>8. CASE ServerSubscribes
  <2>1. /\ req \in Seq(Request) /\ req # <<>>
        /\ live \subseteq Subscription
    BY <1>8, Zenon DEF ServerSubscribes, Wire
  <2>2. /\ Tail(req) \in Seq(Request) /\ Head(req) \in Request
    BY <2>1
  <2>3. [subs |-> Head(req).subs, chan |-> Head(req).chan, list |-> <<>>] \in Subscription
    BY <2>2 DEF Request, Subscription
  <2>. QED  BY <1>7, <1>8, <2>1, <2>2, <2>3, Zenon DEF ServerSubscribes, Reply
<1>9. CASE ServerUnsubscribes
  <2>1. /\ req \in Seq(Request) /\ req # <<>>
        /\ live \subseteq Subscription
    BY <1>9, Zenon DEF ServerUnsubscribes, Wire
  <2>2. Tail(req) \in Seq(Request)
    BY <2>1
  <2>3. live' \subseteq live
    BY <1>9, Zenon DEF ServerUnsubscribes
  <2>. QED  BY <1>7, <1>9, <2>1, <2>2, <2>3, Zenon DEF ServerUnsubscribes, Reply
<1>10. CASE ServerDies
  <2>1. inbox' \in Seq(Message)
    BY <1>10, DeathShrinks, Zenon DEF Shrinks
  <2>2. <<>> \in Seq(Request)
    OBVIOUS
  <2>. QED  BY <1>10, <2>1, <2>2, Zenon DEF ServerDies, S!Break, Wire
<1>11. ASSUME NEW s \in live, ServerStarts(s) \/ ServerStops(s) \/ ServerStreams(s)
       PROVE  Wire'
  <2>1. s \in Subscription /\ live \subseteq Subscription /\ req \in Seq(Request)
    BY Zenon DEF Wire
  <2>2. ASSUME NEW list \in StreamLists \cup {<<>>}
        PROVE  [s EXCEPT !.list = list] \in Subscription
    BY <2>1 DEF Subscription
  <2>3. live' = live \/ \E list \in StreamLists \cup {<<>>} : Becomes(s, list)
    BY <1>11, Zenon DEF ServerStarts, ServerStops, ServerStreams
  <2>4. live' \subseteq Subscription
    BY <2>1, <2>2, <2>3, Zenon DEF Becomes
  <2>5. \E m : Arrive(m) /\ UNCHANGED req
    BY <1>11, Zenon DEF ServerStarts, ServerStops, ServerStreams, Push
  <2>. QED  BY <1>7, <2>1, <2>4, <2>5, Zenon
<1>12. ASSUME NEW c \in Channels, SwitchChannel(c)
       PROVE  Wire'
  BY <1>2, <1>12, Zenon DEF SwitchChannel
<1>13. CASE GivesUp \/ ReadNothing \/ Close
  BY <1>2, <1>3, <1>13, Zenon DEF GivesUp, ReadNothing, Close
<1>14. CASE Parse \/ GetStreamProperties \/ Abort
  BY <1>2, <1>14, Zenon DEF Parse, SkipEntry, FillEntry, CountEntry, StartParsed,
       GetStreamProperties, Abort
<1>15. CASE Deleted \/ UNCHANGED vars
  BY <1>2, <1>15, Zenon DEF Deleted, vars
<1>16. ASSUME NEW m \in Range(inbox), Read(m)
       PROVE  Wire'
  BY <1>6, <1>16, Zenon DEF Read, ReadForeign, ReadStop, ReadSignal, ReadPacket,
       ReadMalformed, ReadStart
<1>. QED  BY <1>1, <1>4, <1>5, <1>8, <1>9, <1>10, <1>11, <1>12, <1>13, <1>14, <1>15, <1>16,
            Zenon DEF Next

-----------------------------------------------------------------------------
(* The steps of the server change nothing of CHTSPDemux.                   *)
ServerStep ==
  \/ ServerSubscribes \/ ServerUnsubscribes \/ ServerDies
  \/ \E s \in live : ServerStarts(s) \/ ServerStops(s) \/ ServerStreams(s)

LEMMA ServerFrame == ServerStep => UNCHANGED <<tables, current, call, player, from>>
BY Zenon DEF ServerStep, ServerSubscribes, ServerUnsubscribes, Reply, ServerDies, ServerStarts,
     ServerStops, ServerStreams, Push, Arrive

(* What a call changes when SendSubscribe or SendUnsubscribe returns.      *)
LEMMA ReturnsChanges ==
  ASSUME NEW what \in {"subscribe", "unsubscribe"}, NEW done, Returns(what, done)
  PROVE  /\ pc' \in {"subscribe", "play", "failed"}
         /\ pc' = "subscribe" => what = "unsubscribe"
         /\ \/ what = "subscribe" /\ done /\ pc' = "play" /\ Subscribed
            \/ UNCHANGED <<count, m_subs, m_channel, selected>>
         /\ pc' = "play" => (done \/ ~opening)
         /\ done => pc' # "failed"
BY Zenon DEF Returns

(* The numbers keep their ranges: a new one is never above the requests.   *)
LEMMA NumbersKept == Types /\ [Next]_vars => Numbers'
<1>. SUFFICES ASSUME Types, [Next]_vars
              PROVE  Numbers'
  OBVIOUS
<1>. USE DEF Types
<1>0. /\ MaxSeq \in Nat /\ m_subs \in Nat /\ seq \in Nat /\ seq <= MaxSeq
      /\ m_subs + 1 \in Nat /\ m_subs <= MaxSeq
  BY DemuxAssumption DEF Numbers
<1>1. ASSUME UNCHANGED <<m_subs, seq, from, doubtful, opening, asked>>,
             pc' \in {"unsubscribe", "subscribe", "play", "parse", "count",
                      "changed", "failed", "deleted"} \/ pc' = pc
      PROVE  Numbers'
  BY <1>1, Zenon DEF Numbers
<1>2. ASSUME NEW c \in Channels, Open(c) \/ SwitchChannel(c)
      PROVE  Numbers'
  BY <1>2, Zenon DEF Open, SwitchChannel, Numbers, current, call
<1>3. ASSUME NEW what \in {"subscribe", "unsubscribe"}, Transmit(what)
      PROVE  Numbers'
  <2>1. /\ seq' = seq + 1 /\ asked' = what /\ m_subs <= seq /\ seq < MaxSeq
        /\ UNCHANGED <<doubtful, opening, from>>
    BY <1>3, Zenon DEF Transmit, Numbers
  <2>2. /\ pc' \in {"await", "subscribe", "play", "failed"}
        /\ m_subs' = m_subs
    BY <1>3, ReturnsChanges, Zenon DEF Transmit
  <2>3. m_subs' <= seq' /\ m_subs' < seq' /\ seq' \in 0..MaxSeq
    BY <1>0, <2>1, <2>2
  <2>. QED  BY <2>1, <2>2, <2>3, Zenon DEF Numbers
<1>4. ASSUME pc = "await", Returns(asked, TRUE) \/ Returns(asked, FALSE),
             UNCHANGED <<seq, from, opening, asked>>,
             doubtful' = doubtful \/ doubtful' = doubtful \cup {Subs(asked)}
      PROVE  Numbers'
  <2>1. asked \in {"subscribe", "unsubscribe"}
    BY <1>4, Zenon DEF Numbers
  <2>2. /\ pc' \in {"subscribe", "play", "failed"}
        /\ m_subs' = m_subs \/ m_subs' = Subs(asked)
    BY <1>4, <2>1, ReturnsChanges, Zenon DEF Subscribed
  <2>3. Subs(asked) \in 0..MaxSeq /\ Subs(asked) <= seq
    <3>1. CASE Subs(asked) = m_subs
      BY <1>0, <3>1, Zenon DEF Numbers
    <3>2. CASE asked = "subscribe" /\ ~opening /\ Subs(asked) = m_subs + 1
      <4>1. m_subs < seq
        BY <1>4, <3>2, Zenon DEF Numbers
      <4>. QED  BY <1>0, <3>2, <4>1
    <3>. QED  BY <3>1, <3>2, Zenon DEF Subs
  <2>4. m_subs' \in 0..MaxSeq /\ m_subs' <= seq
    BY <2>2, <2>3, Zenon DEF Numbers
  <2>5. doubtful' \subseteq 0..MaxSeq
    BY <1>4, <2>3, Zenon DEF Numbers
  <2>. QED  BY <1>4, <2>2, <2>4, <2>5, Zenon DEF Numbers
<1>5. CASE Answered
  BY <1>4, <1>5, Zenon DEF Answered
<1>6. CASE GivesUp
  BY <1>4, <1>6, Zenon DEF GivesUp
<1>7. ASSUME NEW m, ReadStart(m)
      PROVE  Numbers'
  <2>1. m \in Message
    BY <1>7, ReadShrinks, Zenon DEF ReadStart
  <2>2. m.subs \in 0..MaxSeq
    BY <2>1 DEF Message
  <2>. QED  BY <1>7, <2>2, Zenon DEF ReadStart, Reads, current, Numbers
<1>8. ASSUME NEW m \in Range(inbox), Read(m)
      PROVE  Numbers'
  BY <1>1, <1>7, <1>8, Zenon DEF Read, ReadForeign, ReadStop, ReadSignal, ReadPacket,
       ReadMalformed, Reads, current
<1>9. CASE ReadNothing \/ Parse \/ GetStreamProperties \/ Close
  BY <1>1, <1>9, Zenon DEF ReadNothing, Parse, SkipEntry, FillEntry, CountEntry, StartParsed,
       GetStreamProperties, Close, current, call
<1>10. CASE Abort \/ Deleted \/ UNCHANGED vars
  BY <1>1, <1>10, Zenon DEF Abort, Deleted, vars, current, call
<1>11. CASE ServerStep
  BY <1>1, <1>11, ServerFrame, Zenon DEF current, call
<1>. QED  BY <1>2, <1>3, <1>5, <1>6, <1>8, <1>9, <1>10, <1>11, Zenon DEF Next, ServerStep

(* The channels keep their types: what a call asks for is a channel.       *)
LEMMA ChosenKept == Types /\ [Next]_vars => Chosen'
<1>. SUFFICES ASSUME Types, [Next]_vars
              PROVE  Chosen'
  OBVIOUS
<1>. USE DEF Types
<1>1. ASSUME UNCHANGED <<m_channel, target, selected>>,
             pc' \in {"play", "parse", "count", "changed", "failed", "deleted"} \/ pc' = pc
      PROVE  Chosen'
  BY <1>1, Zenon DEF Chosen
<1>2. ASSUME NEW c \in Channels, Open(c) \/ SwitchChannel(c)
      PROVE  Chosen'
  <2>1. c.iUniqueId \in Nat
    BY DemuxAssumption
  <2>. QED  BY <1>2, <2>1, Zenon DEF Open, SwitchChannel, Chosen, current
<1>3. ASSUME NEW what \in {"subscribe", "unsubscribe"}, NEW done, Returns(what, done),
             target' = target, target \in Channels
      PROVE  Chosen'
  <2>1. target.iChannelNumber \in Nat
    BY <1>3, DemuxAssumption
  <2>. QED  BY <1>3, <2>1, ReturnsChanges, Zenon DEF Subscribed, Chosen
<1>4. ASSUME NEW what \in {"subscribe", "unsubscribe"}, Transmit(what)
      PROVE  Chosen'
  <2>1. target' = target /\ target \in Channels
    BY <1>4, Zenon DEF Transmit, Chosen
  <2>. QED  BY <1>3, <1>4, <2>1, Zenon DEF Transmit, Chosen
<1>5. CASE Answered \/ GivesUp
  <2>1. target' = target /\ target \in Channels /\ asked \in {"subscribe", "unsubscribe"}
    BY <1>5, Zenon DEF Answered, GivesUp, Chosen, Numbers
  <2>. QED  BY <1>3, <1>5, <2>1, Zenon DEF Answered, GivesUp
<1>6. ASSUME NEW m \in Range(inbox), Read(m)
      PROVE  Chosen'
  BY <1>1, <1>6, Zenon DEF Read, ReadForeign, ReadStop, ReadSignal, ReadPacket,
       ReadMalformed, ReadStart, Reads, current
<1>7. CASE ReadNothing \/ Parse \/ GetStreamProperties \/ Close
  BY <1>1, <1>7, Zenon DEF ReadNothing, Parse, SkipEntry, FillEntry, CountEntry, StartParsed,
       GetStreamProperties, Close, current, call
<1>8. CASE Abort \/ Deleted \/ UNCHANGED vars
  BY <1>1, <1>8, Zenon DEF Abort, Deleted, vars, current, call
<1>9. CASE ServerStep
  BY <1>1, <1>9, ServerFrame, Zenon DEF current, call
<1>. QED  BY <1>2, <1>4, <1>5, <1>6, <1>7, <1>8, <1>9, Zenon DEF Next, ServerStep

(* The table keeps its bounds: an entry is filled only if there is room,   *)
(* whatever Abort() does between the two steps.                            *)
LEMMA TableKept == Types /\ [Next]_vars => Table'
<1>. SUFFICES ASSUME Types, [Next]_vars
              PROVE  Table'
  OBVIOUS
<1>. USE DEF Types
<1>0. /\ MaxStreams \in Nat \ {0} /\ count \in Nat /\ count <= MaxStreams
      /\ 0 \in 0..MaxStreams /\ 0 \in Nat
      /\ pc = "count" => count <= slot /\ hand.list # <<>>
      /\ slot \in 0..MaxStreams - 1
  BY DemuxAssumption DEF Table
<1>1. ASSUME UNCHANGED <<stream, slot>>, count' = count \/ count' = 0,
             source' \in Ids \cup {0}, signal' \in Ids \cup {0},
             hand' \in [chan : Ids \cup {0}, list : Seq(Streams)],
             view' \in Seq(Known \cup {0}), pc' # "count" \/ UNCHANGED <<pc, hand>>
      PROVE  Table'
  <2>1. pc' = "count" => count' <= slot' /\ hand'.list # <<>>
    BY <1>0, <1>1
  <2>. QED  BY <1>0, <1>1, <2>1, Zenon DEF Table
<1>2. ASSUME UNCHANGED <<stream, slot, source, signal, hand, view>>,
             count' = count \/ count' = 0, pc' # "count" \/ pc' = pc
      PROVE  Table'
  BY <1>1, <1>2, Zenon DEF Table
<1>3. ASSUME NEW c \in Channels, Open(c) \/ SwitchChannel(c)
      PROVE  Table'
  BY <1>2, <1>3, Zenon DEF Open, SwitchChannel, tables, player
<1>4. ASSUME NEW what \in {"subscribe", "unsubscribe"}, Transmit(what)
      PROVE  Table'
  <2>1. count' = count \/ count' = 0
    BY <1>4, ReturnsChanges, Zenon DEF Transmit, Subscribed
  <2>2. pc' # "count"
    BY <1>4, ReturnsChanges, Zenon DEF Transmit
  <2>. QED  BY <1>2, <1>4, <2>1, <2>2, Zenon DEF Transmit, player
<1>5. CASE Answered \/ GivesUp
  <2>1. asked \in {"subscribe", "unsubscribe"}
    BY <1>5, Zenon DEF Answered, GivesUp, Numbers
  <2>2. (count' = count \/ count' = 0) /\ pc' # "count"
    BY <1>5, <2>1, ReturnsChanges, Zenon DEF Answered, GivesUp, Subscribed
  <2>. QED  BY <1>2, <1>5, <2>2, Zenon DEF Answered, GivesUp, player
<1>6. ASSUME NEW m \in Range(inbox), Read(m)
      PROVE  Table'
  <2>1. m \in Message
    BY <1>6, ReadShrinks, Zenon DEF Read, ReadForeign, ReadStop, ReadSignal, ReadPacket,
         ReadMalformed, ReadStart
  <2>2. /\ m.chan \in Ids \cup {0}
        /\ [chan |-> m.chan, list |-> m.list] \in [chan : Ids \cup {0}, list : Seq(Streams)]
    <3>1. m.chan \in Ids \cup {0} /\ m.list \in StreamLists \cup {<<>>}
      BY <2>1 DEF Message
    <3>2. m.list \in Seq(Streams)
      <4>1. StreamLists \subseteq Seq(Streams)
        BY DemuxAssumption, Zenon
      <4>2. <<>> \in Seq(Streams)
        OBVIOUS
      <4>. QED  BY <3>1, <4>1, <4>2, Zenon
    <3>. QED  BY <3>1, <3>2
  <2>3. CASE ReadForeign(m) \/ ReadPacket(m) \/ ReadMalformed(m)
    BY <1>2, <2>3, Zenon DEF ReadForeign, ReadPacket, ReadMalformed, Reads, tables
  <2>4. CASE ReadStop(m) \/ ReadSignal(m) \/ ReadStart(m)
    BY <1>1, <2>2, <2>4, Zenon DEF ReadStop, ReadSignal, ReadStart, Reads, Table
  <2>. QED  BY <1>6, <2>3, <2>4, Zenon DEF Read
<1>7. ASSUME hand.list # <<>>, NextEntry
      PROVE  hand' \in [chan : Ids \cup {0}, list : Seq(Streams)]
  <2>1. hand \in [chan : Ids \cup {0}, list : Seq(Streams)]
    BY Zenon DEF Table
  <2>2. hand.list \in Seq(Streams) /\ hand' = [hand EXCEPT !.list = Tail(hand.list)]
    BY <1>7, <2>1, Zenon DEF NextEntry
  <2>3. Tail(hand.list) \in Seq(Streams)
    BY <1>7, <2>2
  <2>4. ASSUME NEW list \in Seq(Streams), hand' = [hand EXCEPT !.list = list]
        PROVE  hand' \in [chan : Ids \cup {0}, list : Seq(Streams)]
    BY <2>1, <2>4
  <2>. QED  BY <2>2, <2>3, <2>4, Zenon
<1>8. CASE SkipEntry
  <2>1. /\ hand' \in [chan : Ids \cup {0}, list : Seq(Streams)] /\ pc' # "count"
        /\ UNCHANGED <<count, stream, slot, source, signal, view>>
    BY <1>7, <1>8, Zenon DEF SkipEntry, tables, player
  <2>. QED  BY <1>1, <2>1, Zenon DEF Table
<1>9. CASE FillEntry
  <2>1. /\ count \in 0..MaxStreams - 1 /\ count < MaxStreams
    BY <1>0, <1>9 DEF FillEntry
  <2>2. stream' \in [0..MaxStreams - 1 -> Known \cup {0}]
    <3>1. stream \in [0..MaxStreams - 1 -> Known \cup {0}] /\ Head(hand.list) \in Known
          /\ stream' = [stream EXCEPT ![count] = Head(hand.list)]
      BY <1>9, Zenon DEF FillEntry, Table
    <3>. QED  BY <3>1
  <2>3. slot' = count /\ count' = count /\ count' <= slot'
    BY <1>0, <1>9 DEF FillEntry
  <2>. QED  BY <1>9, <2>1, <2>2, <2>3, Zenon DEF FillEntry, player, Table
<1>10. CASE CountEntry
  <2>1. count' \in 0..MaxStreams
    <3>1. count + 1 \in 0..MaxStreams /\ slot + 1 \in 0..MaxStreams
      BY <1>0, <1>10 DEF CountEntry
    <3>. QED  BY <1>10, <3>1, Zenon DEF CountEntry
  <2>2. hand.list # <<>> => hand' \in [chan : Ids \cup {0}, list : Seq(Streams)]
    BY <1>7, <1>10, Zenon DEF CountEntry
  <2>. QED  BY <1>10, <2>1, <2>2, Zenon DEF CountEntry, player, Table
<1>11. CASE StartParsed
  <2>1. NoStart \in [chan : Ids \cup {0}, list : Seq(Streams)]
    BY DEF NoStart
  <2>2. source' \in Ids \cup {0}
    <3>1. hand.chan \in Ids \cup {0} /\ source \in Ids \cup {0}
      BY DEF Table
    <3>. QED  BY <1>11, <3>1, Zenon DEF StartParsed
  <2>. QED  BY <1>1, <1>11, <2>1, <2>2, Zenon DEF StartParsed, Table
<1>12. CASE GetStreamProperties
  <2>1. PICK n \in 0..count : view' = [i \in 1..n |-> stream[i - 1]]
    BY <1>12, Zenon DEF GetStreamProperties
  <2>2. \A i \in 1..n : stream[i - 1] \in Known \cup {0}
    <3>1. stream \in [0..MaxStreams - 1 -> Known \cup {0}]
      BY Zenon DEF Table
    <3>2. ASSUME NEW i \in 1..n
          PROVE  i - 1 \in 0..MaxStreams - 1
      BY <1>0
    <3>. QED  BY <3>1, <3>2
  <2>3. n \in Nat
    BY <1>0
  <2>4. view' \in Seq(Known \cup {0})
    BY <2>1, <2>2, <2>3
  <2>5. (count' = count \/ count' = 0) /\ pc' = "play"
    BY <1>12, Zenon DEF GetStreamProperties
  <2>. QED  BY <1>1, <1>12, <2>4, <2>5, Zenon DEF GetStreamProperties, Table
<1>13. CASE ReadNothing \/ Close
  BY <1>2, <1>13, Zenon DEF ReadNothing, Close, tables, call, player
<1>14. CASE Abort \/ Deleted \/ UNCHANGED vars
  BY <1>2, <1>14, Zenon DEF Abort, Deleted, vars, tables, call, player
<1>15. CASE ServerStep
  BY <1>2, <1>15, ServerFrame, Zenon DEF tables, call, player
<1>. QED  BY <1>3, <1>4, <1>5, <1>6, <1>8, <1>9, <1>10, <1>11, <1>12, <1>13, <1>14, <1>15,
            Zenon DEF Next, ServerStep, Parse

(* The types hold at the start.                                            *)
LEMMA InitTypes == Init => Types
<1>. SUFFICES ASSUME Init
              PROVE  Types
  OBVIOUS
<1>1. Wire
  <2>1. <<>> \in Seq(Message) /\ <<>> \in Seq(Request) /\ {} \subseteq Subscription
    OBVIOUS
  <2>2. 0 \in 0..MaxId
    BY DemuxAssumption DEF MaxId
  <2>. QED  BY <2>1, <2>2, Zenon DEF Init, S!Init, Wire
<1>2. Numbers
  BY DemuxAssumption DEF Init, Numbers
<1>3. Chosen
  BY DEF Init, Chosen
<1>4. Table
  <2>1. /\ stream \in [0..MaxStreams - 1 -> Known \cup {0}]
        /\ count \in 0..MaxStreams /\ slot \in 0..MaxStreams - 1
    BY DemuxAssumption DEF Init
  <2>2. NoStart \in [chan : Ids \cup {0}, list : Seq(Streams)] /\ <<>> \in Seq(Known \cup {0})
    BY DEF NoStart
  <2>3. pc # "count"
    BY DEF Init
  <2>. QED  BY <2>1, <2>2, <2>3 DEF Init, Table
<1>. QED  BY <1>1, <1>2, <1>3, <1>4, Zenon DEF Types

(* They hold for ever.                                                     *)
LEMMA TypesInvariant == Spec => []Types
<1>1. Types /\ [Next]_vars => Types'
  BY WireKept, NumbersKept, ChosenKept, TableKept, Zenon DEF Types
<1>. QED  BY <1>1, InitTypes, PTL DEF Spec

(***************************************************************************)
(* All variables keep their types: in particular Read() and Abort(), which *)
(* run side by side, never fill an entry m_Streams does not have.          *)
(***************************************************************************)
THEOREM TypeCorrect == Spec => []TypeOK
BY TypesInvariant, TypesSuffice, PTL

-----------------------------------------------------------------------------
(* A new subscription starts with no streams, and only a start of its own  *)
(* brings some.                                                            *)
LEMMA OwnKept == Types /\ Own /\ [Next]_vars => Own'
<1>. SUFFICES ASSUME Types, Own, [Next]_vars
              PROVE  Own'
  OBVIOUS
<1>. USE DEF Types
<1>1. ASSUME UNCHANGED <<m_subs, from>>, count' = count \/ count' = 0,
             pc' \notin {"parse", "count"} \/ pc' = pc \/ pc \in {"parse", "count"}
      PROVE  Own'
  <2>1. ~(0 > 0)
    OBVIOUS
  <2>. QED  BY <1>1, <2>1, Zenon DEF Own
<1>2. ASSUME NEW c \in Channels, Open(c) \/ SwitchChannel(c)
      PROVE  Own'
  BY <1>1, <1>2, Zenon DEF Open, SwitchChannel, tables, current
<1>3. ASSUME NEW what \in {"subscribe", "unsubscribe"}, NEW done, Returns(what, done),
             from' = from
      PROVE  Own'
  <2>1. ~(0 > 0)
    OBVIOUS
  <2>. QED  BY <1>3, <2>1, ReturnsChanges, Zenon DEF Subscribed, Own
<1>4. ASSUME NEW what \in {"subscribe", "unsubscribe"}, Transmit(what)
      PROVE  Own'
  BY <1>1, <1>3, <1>4, Zenon DEF Transmit
<1>5. CASE Answered \/ GivesUp
  <2>1. asked \in {"subscribe", "unsubscribe"}
    BY <1>5, Zenon DEF Answered, GivesUp, Numbers
  <2>. QED  BY <1>3, <1>5, <2>1, Zenon DEF Answered, GivesUp
<1>6. ASSUME NEW m, ReadStart(m)
      PROVE  Own'
  BY <1>6, Zenon DEF ReadStart, Reads, Mine, Foreign, current, Own
<1>7. ASSUME NEW m \in Range(inbox), Read(m)
      PROVE  Own'
  BY <1>1, <1>6, <1>7, Zenon DEF Read, ReadForeign, ReadStop, ReadSignal, ReadPacket,
       ReadMalformed, Reads, tables, current
<1>8. CASE Parse
  BY <1>8, Zenon DEF Parse, SkipEntry, FillEntry, CountEntry, StartParsed, tables, current, Own
<1>9. CASE ReadNothing \/ GetStreamProperties \/ Close
  BY <1>1, <1>9, Zenon DEF ReadNothing, GetStreamProperties, Close, tables, current, call
<1>10. CASE Abort \/ Deleted \/ UNCHANGED vars
  BY <1>1, <1>10, Zenon DEF Abort, Deleted, vars, tables, current, call
<1>11. CASE ServerStep
  BY <1>1, <1>11, ServerFrame, Zenon DEF tables, current, call
<1>. QED  BY <1>2, <1>4, <1>5, <1>7, <1>8, <1>9, <1>10, <1>11, Zenon DEF Next, ServerStep

(***************************************************************************)
(* Whatever Abort() does and whatever was left from the channel before, if *)
(* m_Streams is not empty it is filled from a start of the subscription    *)
(* that is current.                                                        *)
(***************************************************************************)
THEOREM OwnStreams == Spec => []StreamsOfSubscription
<1>1. Init => Own
  BY DEF Init, Own
<1>2. Own => StreamsOfSubscription
  BY DEF Own, StreamsOfSubscription
<1>. QED  BY <1>1, <1>2, OwnKept, TypesInvariant, PTL DEF Spec

-----------------------------------------------------------------------------
(* A set of numbers that is not empty has a least one, the one Min finds.  *)
LEMMA MinIsIn ==
  ASSUME NEW T, T \subseteq Nat, T # {}
  PROVE  Min(T) \in T
<1>1. PICK x \in T : \A y \in T : ~ (<<y, x>> \in OpToRel(<, Nat))
  BY NatLessThanWellFounded, WFMin, Zenon
<1>2. ASSUME NEW y \in T
      PROVE  x <= y
  <2>1. x \in Nat /\ y \in Nat
    OBVIOUS
  <2>2. ~(y < x)
    BY <1>1, <2>1, Zenon DEF OpToRel
  <2>. QED  BY <2>1, <2>2
<1>. QED  BY <1>2, Zenon DEF Min

(* What PacketsInView needs: unless a start is being parsed or the player  *)
(* has still to look, it knows what is in m_Streams.                       *)
Settled == {"new", "unsubscribe", "subscribe", "await", "play"}

InView ==
  /\ pc \in Settled => \A i \in 0..count - 1 : i < Len(view) /\ view[i + 1] = stream[i]
  /\ PacketsInView

(* The number of a packet's stream is one of the player's.                 *)
LEMMA ReadInView ==
  ASSUME Types, InView, NEW m, ReadPacket(m)
  PROVE  PacketsInView'
<1>1. pc = "play" /\ view' = view /\ pkt' = Packet("data", m, StreamOf(m.phys))
  BY Zenon DEF ReadPacket, Reads
<1>2. pkt'.iStreamId = StreamOf(m.phys) /\ pkt'.phys = m.phys
  BY <1>1 DEF Packet
<1>. DEFINE found == {i \in 0..count - 1 : stream[i] = m.phys}
<1>3. CASE found = {}
  <2>1. StreamOf(m.phys) = -1
    BY <1>3, Zenon DEF StreamOf
  <2>. QED  BY <1>2, <2>1 DEF PacketsInView
<1>4. CASE found # {}
  <2>1. found \subseteq Nat
    BY DEF Types, Table
  <2>2. StreamOf(m.phys) \in found
    <3>1. StreamOf(m.phys) = Min(found)
      BY <1>4, Zenon DEF StreamOf
    <3>. HIDE DEF found
    <3>. QED  BY <1>4, <2>1, <3>1, MinIsIn, Zenon
  <2>3. \A i \in 0..count - 1 : i < Len(view) /\ view[i + 1] = stream[i]
    BY <1>1 DEF InView, Settled
  <2>. QED  BY <1>1, <1>2, <2>2, <2>3, Zenon DEF PacketsInView
<1>. QED  BY <1>3, <1>4, Zenon

(* The player keeps up.                                                    *)
LEMMA InViewKept == Types /\ InView /\ [Next]_vars => InView'
<1>. SUFFICES ASSUME Types, InView, [Next]_vars
              PROVE  InView'
  OBVIOUS
<1>. USE DEF Types
<1>0. NoPacket.kind # "data" /\ Empty.kind # "data" /\ Change.kind # "data"
  BY DEF NoPacket, Empty, Change, Packet
<1>1. ASSUME pkt' = pkt \/ pkt'.kind # "data", view' = view
      PROVE  PacketsInView'
  BY <1>1, Zenon DEF InView, PacketsInView
<1>2. ASSUME UNCHANGED <<stream, view>>, count' = count \/ count' = 0,
             pc' \in Settled => pc \in Settled, PacketsInView'
      PROVE  InView'
  <2>1. 0..0 - 1 = {}
    OBVIOUS
  <2>. QED  BY <1>2, <2>1, Zenon DEF InView
<1>3. ASSUME NEW c \in Channels, Open(c) \/ SwitchChannel(c)
      PROVE  InView'
  <2>1. pc \in Settled
    BY <1>3, Zenon DEF Open, SwitchChannel, Settled
  <2>. QED  BY <1>0, <1>1, <1>2, <1>3, <2>1, Zenon DEF Open, SwitchChannel, tables, player
<1>4. ASSUME NEW what \in {"subscribe", "unsubscribe"}, NEW done, Returns(what, done),
             pc \in Settled, UNCHANGED <<stream, player>>
      PROVE  InView'
  BY <1>1, <1>2, <1>4, ReturnsChanges, Zenon DEF Subscribed, player
<1>5. ASSUME NEW what \in {"subscribe", "unsubscribe"}, Transmit(what)
      PROVE  InView'
  <2>1. pc \in Settled /\ UNCHANGED <<stream, player>>
    BY <1>5, Zenon DEF Transmit, Settled
  <2>2. Returns(what, FALSE) \/ count' = count
    BY <1>5, Zenon DEF Transmit
  <2>. QED  BY <1>1, <1>2, <1>4, <2>1, <2>2, Zenon DEF player
<1>6. CASE Answered \/ GivesUp
  <2>1. /\ pc \in Settled /\ UNCHANGED <<stream, player>>
        /\ asked \in {"subscribe", "unsubscribe"}
    BY <1>6, Zenon DEF Answered, GivesUp, Settled, Numbers
  <2>. QED  BY <1>4, <1>6, <2>1, Zenon DEF Answered, GivesUp
<1>7. ASSUME NEW m \in Range(inbox), Read(m)
      PROVE  InView'
  <2>1. pc \in Settled /\ view' = view
    BY <1>7, Zenon DEF Read, ReadForeign, ReadStop, ReadSignal, ReadPacket, ReadMalformed,
         ReadStart, Reads, Settled
  <2>2. (count' = count \/ count' = 0) /\ stream' = stream
    BY <1>7, Zenon DEF Read, ReadForeign, ReadStop, ReadSignal, ReadPacket, ReadMalformed,
         ReadStart, tables
  <2>3. pkt' = pkt \/ pkt' = Empty \/ pkt' = Change \/ PacketsInView'
    BY <1>7, ReadInView, Zenon DEF Read, ReadForeign, ReadStop, ReadSignal, ReadMalformed,
         ReadStart
  <2>4. PacketsInView'
    BY <1>0, <1>1, <2>1, <2>3, Zenon
  <2>. QED  BY <1>2, <2>1, <2>2, <2>4, Zenon
<1>8. CASE Parse
  <2>1. view' = view /\ (pkt' = pkt \/ pkt' = Change)
    BY <1>8, Zenon DEF Parse, SkipEntry, FillEntry, CountEntry, StartParsed, player
  <2>2. pc' \notin Settled
    BY <1>8 DEF Parse, SkipEntry, FillEntry, CountEntry, StartParsed, Settled
  <2>. QED  BY <1>0, <1>1, <2>1, <2>2, Zenon DEF InView
<1>9. CASE GetStreamProperties
  <2>1. PICK n \in 0..count : /\ view' = [i \in 1..n |-> stream[i - 1]]
                              /\ count' = IF n < count THEN 0 ELSE count
    BY <1>9, Zenon DEF GetStreamProperties
  <2>2. stream' = stream /\ pkt' = NoPacket
    BY <1>9, Zenon DEF GetStreamProperties
  <2>3. \A i \in 0..count' - 1 : i < Len(view') /\ view'[i + 1] = stream'[i]
    BY <2>1, <2>2 DEF Table
  <2>4. PacketsInView'
    BY <1>0, <2>2, Zenon DEF PacketsInView
  <2>. QED  BY <2>3, <2>4, Zenon DEF InView
<1>10. CASE ReadNothing \/ Close
  <2>1. /\ UNCHANGED <<stream, view, count>> /\ (pkt' = pkt \/ pkt' = Empty)
        /\ pc' = pc \/ pc' = "deleted"
    BY <1>10, Zenon DEF ReadNothing, Close, tables, call, player
  <2>2. "deleted" \notin Settled
    BY DEF Settled
  <2>. QED  BY <1>0, <1>1, <1>2, <2>1, <2>2, Zenon
<1>11. CASE Abort \/ Deleted \/ UNCHANGED vars
  BY <1>1, <1>2, <1>11, Zenon DEF Abort, Deleted, vars, tables, call, player
<1>12. CASE ServerStep
  BY <1>1, <1>2, <1>12, ServerFrame, Zenon DEF tables, call, player
<1>. QED  BY <1>3, <1>5, <1>6, <1>7, <1>8, <1>9, <1>10, <1>11, <1>12, Zenon DEF Next, ServerStep

(***************************************************************************)
(* A packet with the number of a stream is of the very stream the player   *)
(* was told of under this number.                                          *)
(***************************************************************************)
THEOREM StreamsKnown == Spec => []PacketsInView
<1>1. Init => InView
  <2>. SUFFICES ASSUME Init
                PROVE  InView
    OBVIOUS
  <2>1. count = 0 /\ pkt.kind # "data"
    BY DEF Init, NoPacket, Packet
  <2>. QED  BY <2>1 DEF InView, PacketsInView
<1>2. InView => PacketsInView
  BY DEF InView
<1>. QED  BY <1>1, <1>2, InViewKept, TypesInvariant, PTL DEF Spec

-----------------------------------------------------------------------------
(* What becomes of the bindings.  Most steps only lose messages, requests  *)
(* and subscriptions.                                                      *)
Calm ==
  /\ Within(inbox', inbox)
  /\ req' = req \/ req' = <<>>
  /\ live' = live \/ live' = {}

LEMMA CalmClose == Types /\ (CloseSession \/ UNCHANGED <<session, server>>) => Calm
BY CloseShrinks, Zenon DEF Types, Shrinks, Calm, CloseSession, server

(* Transmit() either sends the request or only loses.                      *)
NewRequest(what) ==
  [what |-> what, seq |-> seq + 1, subs |-> Subs(what), chan |-> target.iUniqueId]

Sends(what) ==
  /\ pc = what /\ pc' = "await" /\ asked' = what /\ seq' = seq + 1
  /\ inbox' = inbox /\ live' = live
  /\ req' = req \/ (NewRequest(what) \in Request /\ req' = Append(req, NewRequest(what)))
  /\ UNCHANGED <<m_subs, selected, opening, target, doubtful, pkt>>

LEMMA TransmitCases ==
  ASSUME Types, NEW what \in {"subscribe", "unsubscribe"}, Transmit(what)
  PROVE  \/ Sends(what)
         \/ Calm /\ Returns(what, FALSE) /\ seq' = seq + 1
<1>1. ASSUME link, req' = IF peer
                          THEN Append(req, [what |-> what, seq |-> seq + 1, subs |-> Subs(what),
                                            chan |-> target.iUniqueId])
                          ELSE req,
             pc' = "await",
             UNCHANGED <<session, peer, live, count, m_subs, m_channel, selected>>
      PROVE  Sends(what)
  BY <1>1, TransmitRequest, Zenon DEF Transmit, Sends, NewRequest, session, player
<1>2. CASE CloseSession /\ Returns(what, FALSE)
  BY <1>2, CalmClose, Zenon DEF Transmit
<1>. QED  BY <1>1, <1>2, Zenon DEF Transmit

(* All that calm steps are.                                                *)
LEMMA CalmSteps ==
  ASSUME Types, [Next]_vars
  PROVE  \/ Calm
         \/ \E what \in {"subscribe", "unsubscribe"} : Sends(what)
         \/ ServerSubscribes \/ ServerUnsubscribes
         \/ \E s \in live : ServerStarts(s) \/ ServerStops(s) \/ ServerStreams(s)
<1>. USE DEF Types
<1>1. UNCHANGED <<session, server>> => Calm
  BY CalmClose, Zenon
<1>2. CloseSession => Calm
  BY CalmClose, Zenon
<1>3. ASSUME NEW c \in Channels, Open(c)
      PROVE  Calm
  <2>1. Within(inbox, inbox)
    BY DEF Within
  <2>. QED  BY <1>1, <1>3, <2>1, Zenon DEF Open, S!Up, Calm
<1>4. ASSUME NEW c \in Channels, SwitchChannel(c)
      PROVE  Calm
  BY <1>1, <1>4, Zenon DEF SwitchChannel
<1>5. CASE Answered
  BY <1>5, AnswerShrinks, Zenon DEF Answered, Shrinks, Calm, server
<1>6. ASSUME NEW m \in Range(inbox), Read(m)
      PROVE  Calm
  <2>1. Reads(m)
    BY <1>6, Zenon DEF Read, ReadForeign, ReadStop, ReadSignal, ReadPacket,
         ReadMalformed, ReadStart
  <2>2. Within(inbox', inbox)
    BY <2>1, ReadShrinks, Zenon DEF Shrinks
  <2>. QED  BY <2>1, <2>2, Zenon DEF Reads, Calm, server
<1>7. CASE ServerDies
  BY <1>7, DeathShrinks, Zenon DEF ServerDies, Shrinks, Calm
<1>8. CASE GivesUp \/ ReadNothing \/ Close
  BY <1>1, <1>2, <1>8, Zenon DEF GivesUp, ReadNothing, Close
<1>9. CASE Parse \/ GetStreamProperties \/ Abort \/ Deleted \/ UNCHANGED vars
  BY <1>1, <1>9, Zenon DEF Parse, SkipEntry, FillEntry, CountEntry, StartParsed,
       GetStreamProperties, Abort, Deleted, vars
<1>. QED  BY <1>3, <1>4, <1>5, <1>6, <1>7, <1>8, <1>9, TransmitCases, Zenon DEF Next

(* A reply comes last, and the request is off the queue.                   *)
LEMMA ReplyEffect ==
  ASSUME Types, req # <<>>, NEW kind, Reply(kind)
  PROVE  /\ req[1] = Head(req) /\ 1 \in 1..Len(req) /\ Head(req) \in Request
         /\ Len(req') = Len(req) - 1
         /\ \A k \in 1..Len(req) - 1 : k + 1 \in 1..Len(req) /\ req'[k] = req[k + 1]
         /\ Len(inbox') = Len(inbox) + 1
         /\ \A k \in 1..Len(inbox) : inbox'[k] = inbox[k]
         /\ inbox'[Len(inbox) + 1].reply
         /\ inbox'[Len(inbox) + 1].seq = Head(req).seq
         /\ inbox'[Len(inbox) + 1].kind = kind
<1>1. req \in Seq(Request) /\ req' = Tail(req)
  BY Zenon DEF Types, Wire, Reply
<1>2. /\ req[1] = Head(req) /\ 1 \in 1..Len(req) /\ Head(req) \in Request
      /\ Len(req') = Len(req) - 1
      /\ \A k \in 1..Len(req) - 1 : k + 1 \in 1..Len(req) /\ req'[k] = req[k + 1]
  BY <1>1
<1>. DEFINE m == [NoMessage EXCEPT !.id = lastSent + 1, !.reply = TRUE,
                                   !.seq = Head(req).seq, !.kind = kind]
<1>3. m.reply /\ m.seq = Head(req).seq /\ m.kind = kind
  BY DEF NoMessage
<1>4. Arrive(m)
  BY Zenon DEF Reply
<1>. HIDE DEF m
<1>5. /\ Len(inbox') = Len(inbox) + 1 /\ inbox'[Len(inbox) + 1] = m
      /\ \A k \in 1..Len(inbox) : inbox'[k] = inbox[k]
  BY <1>4, ArriveAppends, Zenon DEF Types
<1>. QED  BY <1>2, <1>3, <1>5, Zenon

(* A message about a subscription comes last, and no subscription is of    *)
(* another number or channel than before.                                  *)
LEMMA PushEffect ==
  ASSUME Types, NEW s \in live, ServerStarts(s) \/ ServerStops(s) \/ ServerStreams(s)
  PROVE  /\ req' = req
         /\ \A t \in live' : \E u \in live : t.subs = u.subs /\ t.chan = u.chan
         /\ Len(inbox') = Len(inbox) + 1
         /\ \A k \in 1..Len(inbox) : inbox'[k] = inbox[k]
         /\ ~inbox'[Len(inbox) + 1].reply
         /\ inbox'[Len(inbox) + 1].subs = s.subs
         /\ inbox'[Len(inbox) + 1].chan = s.chan
<1>1. ASSUME NEW kind, NEW list, NEW phys, Push(s, kind, list, phys)
      PROVE  \E m : Arrive(m) /\ ~m.reply /\ m.subs = s.subs /\ m.chan = s.chan
  <2>. DEFINE m == [NoMessage EXCEPT !.id = lastSent + 1, !.kind = kind, !.subs = s.subs,
                                     !.chan = s.chan, !.list = list, !.phys = phys]
  <2>1. ~m.reply /\ m.subs = s.subs /\ m.chan = s.chan
    BY DEF NoMessage
  <2>2. Arrive(m)
    BY <1>1, Zenon DEF Push
  <2>. HIDE DEF m
  <2>. QED  BY <2>1, <2>2, Zenon
<1>2. \E kind, list, phys : Push(s, kind, list, phys)
  BY Zenon DEF ServerStarts, ServerStops, ServerStreams
<1>3. PICK m : Arrive(m) /\ ~m.reply /\ m.subs = s.subs /\ m.chan = s.chan
  BY <1>1, <1>2, Zenon
<1>4. req' = req
  BY Zenon DEF ServerStarts, ServerStops, ServerStreams, Push
<1>5. live' = live \/ \E list : Becomes(s, list)
  BY Zenon DEF ServerStarts, ServerStops, ServerStreams
<1>6. \A t \in live' : \E u \in live : t.subs = u.subs /\ t.chan = u.chan
  <2>1. ASSUME NEW list, Becomes(s, list), NEW t \in live'
        PROVE  \E u \in live : t.subs = u.subs /\ t.chan = u.chan
    <3>1. s \in Subscription
      BY Zenon DEF Types, Wire
    <3>2. [s EXCEPT !.list = list].subs = s.subs /\ [s EXCEPT !.list = list].chan = s.chan
      BY <3>1 DEF Subscription
    <3>. QED  BY <2>1, <3>2, Zenon DEF Becomes
  <2>. QED  BY <1>5, <2>1, Zenon
<1>. QED  BY <1>3, <1>4, <1>6, ArriveAppends, Zenon DEF Types

(* A subscription or message of a number and a channel was there before,   *)
(* or the first request asked for it and the answer is yes.                *)
LEMMA ServedOrigin ==
  ASSUME Types, [Next]_vars, NEW n, NEW c, Served(n, c)'
  PROVE  Served(n, c) \/ (/\ ServerSubscribes /\ Reply("ok") /\ req # <<>>
                          /\ Head(req).what = "subscribe"
                          /\ Head(req).subs = n /\ Head(req).chan = c)
<1>0. \/ \E s \in live' : s.subs = n /\ s.chan = c
      \/ \E k \in 1..Len(inbox') : ~inbox'[k].reply /\ inbox'[k].subs = n /\ inbox'[k].chan = c
  BY Zenon DEF Served
<1>1. CASE Calm
  BY <1>0, <1>1, Zenon DEF Calm, Within, Served
<1>2. ASSUME NEW what, Sends(what)
      PROVE  Served(n, c)
  BY <1>0, <1>2, Zenon DEF Sends, Served
<1>3. ASSUME Len(inbox') = Len(inbox) + 1, \A k \in 1..Len(inbox) : inbox'[k] = inbox[k],
             NEW k \in 1..Len(inbox'), k # Len(inbox) + 1
      PROVE  k \in 1..Len(inbox) /\ inbox'[k] = inbox[k]
  <2>1. inbox \in Seq(Message)
    BY Zenon DEF Types, Wire
  <2>2. k \in 1..Len(inbox)
    BY <1>3, <2>1
  <2>. QED  BY <1>3, <2>2, Zenon
<1>4. ASSUME req # <<>>, NEW kind, Reply(kind),
             \A s \in live' : s \in live \/ (s.subs = n /\ s.chan = c => Head(req).subs = n /\ Head(req).chan = c)
      PROVE  Served(n, c) \/ (Head(req).subs = n /\ Head(req).chan = c)
  BY <1>0, <1>3, <1>4, ReplyEffect, Zenon DEF Served
<1>5. CASE ServerSubscribes
  <2>1. ASSUME Reply("error"), live' = live
        PROVE  Served(n, c)
    BY <1>0, <1>3, <1>5, <2>1, ReplyEffect, Zenon DEF Served, ServerSubscribes
  <2>2. ASSUME Reply("ok"),
               live' = live \cup {[subs |-> Head(req).subs, chan |-> Head(req).chan, list |-> <<>>]}
        PROVE  Served(n, c) \/ (Head(req).subs = n /\ Head(req).chan = c)
    <3>1. /\ [subs |-> Head(req).subs, chan |-> Head(req).chan, list |-> <<>>].subs = Head(req).subs
          /\ [subs |-> Head(req).subs, chan |-> Head(req).chan, list |-> <<>>].chan = Head(req).chan
      OBVIOUS
    <3>2. \A s \in live' : s \in live \/ (s.subs = n /\ s.chan = c => Head(req).subs = n /\ Head(req).chan = c)
      BY <2>2, <3>1, Zenon
    <3>. QED  BY <1>4, <1>5, <2>2, <3>2, Zenon DEF ServerSubscribes
  <2>. QED  BY <1>5, <2>1, <2>2, Zenon DEF ServerSubscribes
<1>6. CASE ServerUnsubscribes
  <2>1. live' \subseteq live /\ req # <<>> /\ \E kind : Reply(kind)
    BY <1>6, Zenon DEF ServerUnsubscribes
  <2>. QED  BY <1>0, <1>3, <2>1, ReplyEffect, Zenon DEF Served
<1>7. ASSUME NEW s \in live, ServerStarts(s) \/ ServerStops(s) \/ ServerStreams(s)
      PROVE  Served(n, c)
  BY <1>0, <1>3, <1>7, PushEffect, Zenon DEF Served
<1>. QED  BY <1>1, <1>2, <1>5, <1>6, <1>7, CalmSteps, Zenon

(* So was a request, unless it is the one just sent.                       *)
LEMMA RequestedOrigin ==
  ASSUME Types, [Next]_vars, NEW n, NEW c, Requested(n, c)'
  PROVE  \/ Requested(n, c)
         \/ /\ Sends("subscribe") /\ n = Subs("subscribe") /\ c = target.iUniqueId
<1>0. PICK k \in 1..Len(req') : req'[k].what = "subscribe" /\ req'[k].subs = n /\ req'[k].chan = c
  BY Zenon DEF Requested
<1>1. req \in Seq(Request)
  BY Zenon DEF Types, Wire
<1>2. ASSUME req' = req \/ req' = <<>>
      PROVE  Requested(n, c)
  <2>1. Len(<<>>) = 0 /\ 1..0 = {}
    OBVIOUS
  <2>. QED  BY <1>0, <1>2, <2>1, Zenon DEF Requested
<1>3. ASSUME NEW what \in {"subscribe", "unsubscribe"}, Sends(what), req' # req
      PROVE  \/ Requested(n, c)
             \/ what = "subscribe" /\ n = Subs("subscribe") /\ c = target.iUniqueId
  <2>. DEFINE r == NewRequest(what)
  <2>1. r.what = what /\ r.subs = Subs(what) /\ r.chan = target.iUniqueId
    BY DEF NewRequest
  <2>2. r \in Request /\ req' = Append(req, r)
    BY <1>3, Zenon DEF Sends
  <2>. HIDE DEF r
  <2>3. (k = Len(req) + 1 /\ req'[k] = r) \/ (k \in 1..Len(req) /\ req'[k] = req[k])
    BY <1>0, <1>1, <2>2
  <2>. QED  BY <1>0, <1>3, <2>1, <2>3, Zenon DEF Requested
<1>4. ASSUME req # <<>>, NEW kind, Reply(kind)
      PROVE  Requested(n, c)
  <2>1. k \in 1..Len(req) - 1
    BY <1>0, <1>1, <1>4, ReplyEffect
  <2>. QED  BY <1>0, <1>4, <2>1, ReplyEffect, Zenon DEF Requested
<1>5. CASE ServerSubscribes \/ ServerUnsubscribes
  BY <1>4, <1>5, Zenon DEF ServerSubscribes, ServerUnsubscribes
<1>6. ASSUME NEW s \in live, ServerStarts(s) \/ ServerStops(s) \/ ServerStreams(s)
      PROVE  Requested(n, c)
  <2>1. req' = req
    BY <1>6, PushEffect, Zenon
  <2>. QED  BY <1>2, <2>1, Zenon
<1>7. Calm => Requested(n, c)
  BY <1>2, Zenon DEF Calm
<1>8. ASSUME NEW what \in {"subscribe", "unsubscribe"}, Sends(what)
      PROVE  \/ Requested(n, c)
             \/ /\ Sends("subscribe") /\ n = Subs("subscribe") /\ c = target.iUniqueId
  BY <1>2, <1>3, <1>8, Zenon
<1>. QED  BY <1>5, <1>6, <1>7, <1>8, CalmSteps, Zenon

(* No step but the sending of a request binds a number.                    *)
LEMMA BoundOrigin ==
  ASSUME Types, [Next]_vars, NEW n, NEW c, Bound(n, c)'
  PROVE  \/ Bound(n, c)
         \/ /\ Sends("subscribe") /\ n = Subs("subscribe") /\ c = target.iUniqueId
<1>1. ASSUME req # <<>>, Head(req).what = "subscribe", Head(req).subs = n, Head(req).chan = c
      PROVE  Requested(n, c)
  <2>1. req \in Seq(Request)
    BY Zenon DEF Types, Wire
  <2>2. req[1] = Head(req) /\ 1 \in 1..Len(req)
    BY <1>1, <2>1
  <2>. QED  BY <1>1, <2>2, Zenon DEF Requested
<1>2. Served(n, c)' => Bound(n, c)
  BY <1>1, ServedOrigin, Zenon DEF Bound
<1>3. Requested(n, c)' => \/ Bound(n, c)
                          \/ /\ Sends("subscribe") /\ n = Subs("subscribe")
                             /\ c = target.iUniqueId
  BY RequestedOrigin, Zenon DEF Bound
<1>4. Requested(n, c)' \/ Served(n, c)'
  BY Zenon DEF Bound
<1>. QED  BY <1>2, <1>3, <1>4, Zenon

-----------------------------------------------------------------------------
(* Requests are only ever added.                                           *)
LEMMA SeqGrows ==
  ASSUME Types, [Next]_vars
  PROVE  seq \in Nat /\ seq' \in Nat /\ seq <= seq'
<1>1. seq' = seq \/ seq' = seq + 1
  <2>1. CASE ServerStep
    BY <2>1, ServerFrame, Zenon DEF call
  <2>2. CASE ~ServerStep
    BY <2>2, Zenon DEF Next, ServerStep, vars, call, Open, SwitchChannel, Transmit, Answered,
         GivesUp, ReadNothing, Read, ReadForeign, ReadStop, ReadSignal, ReadPacket,
         ReadMalformed, ReadStart, Reads, Parse, SkipEntry, FillEntry, CountEntry, StartParsed,
         GetStreamProperties, Abort, Close, Deleted
  <2>. QED  BY <2>1, <2>2, Zenon
<1>2. seq \in 0..MaxSeq /\ MaxSeq \in Nat
  BY DemuxAssumption, Zenon DEF Types, Numbers
<1>. QED  BY <1>1, <1>2

(* The requests stay in order, and so do the answers.                      *)
LEMMA InTurnKept == Types /\ InTurn /\ [Next]_vars => InTurn'
<1>. SUFFICES ASSUME Types, InTurn, [Next]_vars
              PROVE  InTurn'
  OBVIOUS
<1>0. /\ seq \in Nat /\ seq' \in Nat /\ seq <= seq'
      /\ req \in Seq(Request) /\ inbox \in Seq(Message)
      /\ req' \in Seq(Request) /\ inbox' \in Seq(Message)
  BY SeqGrows, WireKept, Zenon DEF Types, Wire
<1>1. \A m \in Message : m.seq \in Nat
  BY DemuxAssumption DEF Message
<1>2. \A r \in Request : r.seq \in Nat
  BY DemuxAssumption DEF Request
<1>3. ASSUME Within(inbox', inbox)
      PROVE  \A k \in 1..Len(inbox') :
               inbox'[k].reply => inbox'[k].seq <= seq' /\ inbox'[k].kind \in Answers
  <2>1. ASSUME NEW k \in 1..Len(inbox'), inbox'[k].reply
        PROVE  inbox'[k].seq <= seq' /\ inbox'[k].kind \in Answers
    <3>1. PICK l \in 1..Len(inbox) : inbox'[k] = inbox[l]
      BY <1>3, Zenon DEF Within
    <3>2. inbox[l].seq <= seq /\ inbox[l].kind \in Answers
      BY <2>1, <3>1, Zenon DEF InTurn
    <3>3. inbox[l] \in Message
      BY <1>0
    <3>4. inbox[l].seq \in Nat
      BY <1>1, <3>3, Zenon
    <3>5. inbox[l].seq <= seq'
      BY <1>0, <3>2, <3>4
    <3>. QED  BY <3>1, <3>2, <3>5, Zenon
  <2>. QED  BY <2>1, Zenon
<1>4. ASSUME req' = req
      PROVE  /\ \A k \in 1..Len(req') : req'[k].seq <= seq'
             /\ \A k, l \in 1..Len(req') : k < l => req'[k].seq < req'[l].seq
  <2>1. \A k \in 1..Len(req) : req[k].seq <= seq'
    <3>1. \A k \in 1..Len(req) : req[k].seq <= seq /\ req[k] \in Request
      BY <1>0 DEF InTurn
    <3>2. \A k \in 1..Len(req) : req[k].seq \in Nat
      BY <1>2, <3>1, Zenon
    <3>. QED  BY <1>0, <3>1, <3>2
  <2>. QED  BY <1>4, <2>1, Zenon DEF InTurn
<1>5. CASE Calm
  <2>1. CASE req' = req
    BY <1>3, <1>4, <1>5, <2>1, Zenon DEF Calm, InTurn
  <2>2. CASE req' = <<>>
    <3>1. Len(<<>>) = 0 /\ 1..0 = {}
      OBVIOUS
    <3>. QED  BY <1>3, <1>5, <2>2, <3>1, Zenon DEF Calm, InTurn
  <2>. QED  BY <1>5, <2>1, <2>2, Zenon DEF Calm
<1>6. ASSUME NEW what \in {"subscribe", "unsubscribe"}, Sends(what)
      PROVE  InTurn'
  <2>1. \A k \in 1..Len(inbox') :
          inbox'[k].reply => inbox'[k].seq <= seq' /\ inbox'[k].kind \in Answers
    <3>1. Within(inbox', inbox)
      BY <1>6, Zenon DEF Sends, Within
    <3>. QED  BY <1>3, <3>1, Zenon
  <2>2. CASE req' = req
    BY <1>4, <2>1, <2>2, Zenon DEF InTurn
  <2>3. CASE req' # req
    <3>. DEFINE r == NewRequest(what)
    <3>1. r.seq = seq + 1
      BY DEF NewRequest
    <3>2. r \in Request /\ req' = Append(req, r) /\ seq' = seq + 1
      BY <1>6, <2>3, Zenon DEF Sends
    <3>. HIDE DEF r
    <3>3. \A k \in 1..Len(req) : req[k].seq <= seq /\ req[k].seq \in Nat
      <4>1. \A k \in 1..Len(req) : req[k].seq <= seq /\ req[k] \in Request
        BY <1>0 DEF InTurn
      <4>. QED  BY <1>2, <4>1, Zenon
    <3>4. \A k, l \in 1..Len(req) : k < l => req[k].seq < req[l].seq
      BY Zenon DEF InTurn
    <3>5. \A k \in 1..Len(req') :
            (k = Len(req) + 1 /\ req'[k] = r) \/ (k \in 1..Len(req) /\ req'[k] = req[k])
      BY <1>0, <3>2
    <3>6. \A k \in 1..Len(req') : req'[k].seq <= seq'
      BY <1>0, <3>1, <3>2, <3>3, <3>5
    <3>7. \A k, l \in 1..Len(req') : k < l => req'[k].seq < req'[l].seq
      <4>. TAKE k, l \in 1..Len(req')
      <4>. HAVE k < l
      <4>1. k \in 1..Len(req) /\ req'[k] = req[k]
        BY <1>0, <3>5, <3>2
      <4>2. CASE l = Len(req) + 1
        BY <1>0, <3>1, <3>3, <3>5, <4>1, <4>2
      <4>3. CASE l \in 1..Len(req)
        <5>1. req'[l] = req[l]
          BY <1>0, <3>5, <4>3
        <5>. QED  BY <3>4, <4>1, <4>3, <5>1, Zenon
      <4>. QED  BY <3>5, <4>2, <4>3, Zenon
    <3>. QED  BY <2>1, <3>6, <3>7, Zenon DEF InTurn
  <2>. QED  BY <2>2, <2>3, Zenon
<1>7. ASSUME ServerStep
      PROVE  seq' = seq
  BY <1>7, ServerFrame, Zenon DEF call
<1>8. ASSUME req # <<>>, NEW kind \in Answers, Reply(kind), ServerStep
      PROVE  InTurn'
  <2>1. \A k \in 1..Len(req') : k \in 1..Len(req) - 1 /\ k + 1 \in 1..Len(req)
                                /\ req'[k] = req[k + 1]
    BY <1>0, <1>8, ReplyEffect
  <2>2. \A k \in 1..Len(req') : req'[k].seq <= seq'
    BY <1>7, <1>8, <2>1, Zenon DEF InTurn
  <2>3. \A k, l \in 1..Len(req') : k < l => req'[k].seq < req'[l].seq
    <3>. TAKE k, l \in 1..Len(req')
    <3>. HAVE k < l
    <3>1. k + 1 < l + 1 /\ k + 1 \in 1..Len(req) /\ l + 1 \in 1..Len(req)
      BY <1>0, <2>1
    <3>. QED  BY <2>1, <3>1, Zenon DEF InTurn
  <2>4. \A k \in 1..Len(inbox') :
          inbox'[k].reply => inbox'[k].seq <= seq' /\ inbox'[k].kind \in Answers
    <3>. TAKE k \in 1..Len(inbox')
    <3>1. k = Len(inbox) + 1 \/ k \in 1..Len(inbox)
      BY <1>0, <1>8, ReplyEffect
    <3>2. CASE k = Len(inbox) + 1
      BY <1>7, <1>8, <3>2, ReplyEffect, Zenon DEF InTurn
    <3>3. CASE k \in 1..Len(inbox)
      BY <1>7, <1>8, <3>3, ReplyEffect, Zenon DEF InTurn
    <3>. QED  BY <3>1, <3>2, <3>3, Zenon
  <2>. QED  BY <2>2, <2>3, <2>4, Zenon DEF InTurn
<1>9. CASE ServerSubscribes \/ ServerUnsubscribes
  <2>1. "ok" \in Answers /\ "error" \in Answers
    BY DEF Answers
  <2>. QED  BY <1>8, <1>9, <2>1, Zenon DEF ServerSubscribes, ServerUnsubscribes, ServerStep
<1>10. ASSUME NEW s \in live, ServerStarts(s) \/ ServerStops(s) \/ ServerStreams(s)
       PROVE  InTurn'
  <2>1. seq' = seq /\ req' = req
    BY <1>7, <1>10, PushEffect, Zenon DEF ServerStep
  <2>2. \A k \in 1..Len(inbox') :
          inbox'[k].reply => inbox'[k].seq <= seq' /\ inbox'[k].kind \in Answers
    <3>. TAKE k \in 1..Len(inbox')
    <3>1. k = Len(inbox) + 1 \/ k \in 1..Len(inbox)
      BY <1>0, <1>10, PushEffect
    <3>. QED  BY <1>10, <2>1, <3>1, PushEffect, Zenon DEF InTurn
  <2>. QED  BY <1>4, <2>1, <2>2, Zenon DEF InTurn
<1>. QED  BY <1>5, <1>6, <1>9, <1>10, CalmSteps, Zenon

(* A call that awaits an answer has just sent its request, or it is not    *)
(* its turn.                                                               *)
LEMMA AwaitSteps ==
  ASSUME Types, [Next]_vars, pc' = "await"
  PROVE  \/ \E what \in {"subscribe", "unsubscribe"} : Sends(what)
         \/ UNCHANGED <<current, call>>
<1>1. ASSUME NEW what \in {"subscribe", "unsubscribe"}, Transmit(what)
      PROVE  Sends(what)
  BY <1>1, TransmitCases, ReturnsChanges, Zenon
<1>2. CASE Answered \/ GivesUp
  <2>1. asked \in {"subscribe", "unsubscribe"}
    BY <1>2, Zenon DEF Answered, GivesUp, Types, Numbers
  <2>. QED  BY <1>2, <2>1, ReturnsChanges, Zenon DEF Answered, GivesUp
<1>3. ASSUME NEW m \in Range(inbox), Read(m)
      PROVE  FALSE
  BY <1>3, Zenon DEF Read, ReadForeign, ReadStop, ReadSignal, ReadPacket, ReadMalformed,
       ReadStart, Reads
<1>4. ASSUME NEW c \in Channels, Open(c) \/ SwitchChannel(c)
      PROVE  FALSE
  BY <1>4, Zenon DEF Open, SwitchChannel
<1>5. CASE ReadNothing \/ Parse \/ GetStreamProperties \/ Close
  BY <1>5, Zenon DEF ReadNothing, Parse, SkipEntry, FillEntry, CountEntry, StartParsed,
       GetStreamProperties, Close, call
<1>6. CASE Abort \/ Deleted \/ UNCHANGED vars
  BY <1>6, Zenon DEF Abort, Deleted, vars
<1>7. CASE ServerStep
  BY <1>7, ServerFrame, Zenon
<1>. QED  BY <1>1, <1>2, <1>3, <1>4, <1>5, <1>6, <1>7, Zenon DEF Next, ServerStep

(* What only loses leaves the fate of a request as it was.                 *)
LEMMA FateLess ==
  ASSUME Fate, UNCHANGED <<current, call>>,
         \A k \in 1..Len(req') : \E l \in 1..Len(req) : req'[k] = req[l],
         Came(Answers)' => Came(Answers),
         Came({"error"})' => Came({"error"}),
         \A n, c : Served(n, c)' => Served(n, c)
  PROVE  Fate'
<1>1. UNCHANGED <<m_subs, doubtful, pc, opening, asked, seq>>
  BY Zenon DEF current, call
<1>2. Asking' => Asking
  BY <1>1, Zenon DEF Asking
<1>3. Pending' => Pending
  BY <1>1, Zenon DEF Pending
<1>. QED  BY <1>1, <1>2, <1>3, Zenon DEF Fate

(* A number is not served while, and after, its request is turned down.    *)
LEMMA FateKept == Types /\ InTurn /\ Fate /\ Bindings /\ [Next]_vars => Fate'
<1>. SUFFICES ASSUME Types, InTurn, Fate, Bindings, [Next]_vars
              PROVE  Fate'
  OBVIOUS
<1>0. /\ req \in Seq(Request) /\ inbox \in Seq(Message)
      /\ req' \in Seq(Request) /\ inbox' \in Seq(Message)
      /\ m_subs \in 0..MaxSeq /\ seq \in 0..MaxSeq /\ MaxSeq \in Nat /\ m_subs <= seq
  BY DemuxAssumption, WireKept, Zenon DEF Types, Wire, Numbers
<1>1. CASE Calm /\ UNCHANGED <<current, call>>
  <2>1. \A k \in 1..Len(req') : \E l \in 1..Len(req) : req'[k] = req[l]
    <3>1. Len(<<>>) = 0 /\ 1..0 = {}
      OBVIOUS
    <3>. QED  BY <1>1, <3>1, Zenon DEF Calm
  <2>2. seq' = seq /\ m_subs' = m_subs
    BY <1>1, Zenon DEF current, call
  <2>3. ASSUME NEW kinds, Came(kinds)'
        PROVE  Came(kinds)
    BY <1>1, <2>2, <2>3, Zenon DEF Calm, Within, Came
  <2>4. ASSUME NEW n, NEW c, Served(n, c)'
        PROVE  Served(n, c)
    BY <1>1, <2>4, Zenon DEF Calm, Within, Served
  <2>. QED  BY <1>1, <2>1, <2>3, <2>4, FateLess, Zenon
<1>2. ASSUME Sends("subscribe"), Asking'
      PROVE  Fate'
  <2>1. /\ pc = "subscribe" /\ ~opening /\ m_subs + 1 \notin doubtful
        /\ seq' = seq + 1 /\ UNCHANGED <<m_subs, inbox, live>>
    BY <1>2, Zenon DEF Sends, Asking
  <2>2. m_subs + 1 \in 0..MaxSeq
    <3>1. seq' \in 0..MaxSeq
      BY NumbersKept, Zenon DEF Numbers
    <3>. QED  BY <1>0, <2>1, <3>1
  <2>3. \A c \in Ids \cup {0} : ~Bound(m_subs + 1, c)
    <3>1. ~Asking
      BY <2>1, Zenon DEF Asking
    <3>. QED  BY <2>1, <2>2, <3>1, Zenon DEF Bindings, Claim
  <2>4. \A k \in 1..Len(req) : /\ ~(req[k].what = "subscribe" /\ req[k].subs = m_subs + 1)
                               /\ req[k].seq # seq'
    <3>. TAKE k \in 1..Len(req)
    <3>1. req[k] \in Request /\ req[k].seq <= seq
      BY <1>0 DEF InTurn
    <3>2. req[k].chan \in Ids /\ req[k].seq \in Nat
      BY <1>0, <3>1 DEF Request
    <3>3. req[k].seq # seq'
      BY <1>0, <2>1, <3>1, <3>2
    <3>. QED  BY <2>3, <3>2, <3>3, Zenon DEF Bound, Requested
  <2>5. \A k \in 1..Len(req') : \/ k \in 1..Len(req) /\ req'[k] = req[k]
                                \/ req'[k].what = "subscribe" /\ req'[k].seq = seq'
    <3>1. CASE req' = req
      BY <3>1
    <3>2. CASE req' # req
      <4>. DEFINE r == NewRequest("subscribe")
      <4>1. r \in Request /\ req' = Append(req, r)
        BY <1>2, <3>2, Zenon DEF Sends
      <4>2. r.what = "subscribe" /\ r.seq = seq'
        BY <2>1 DEF NewRequest
      <4>. HIDE DEF r
      <4>3. \A k \in 1..Len(req') :
              (k = Len(req) + 1 /\ req'[k] = r) \/ (k \in 1..Len(req) /\ req'[k] = req[k])
        BY <1>0, <4>1
      <4>. QED  BY <4>2, <4>3, Zenon
    <3>. QED  BY <3>1, <3>2, Zenon
  <2>6. ~Came(Answers)'
    <3>1. ASSUME NEW k \in 1..Len(inbox), inbox[k].reply
          PROVE  inbox[k].seq # seq'
      <4>1. inbox[k] \in Message /\ inbox[k].seq <= seq
        BY <1>0, <3>1 DEF InTurn
      <4>2. inbox[k].seq \in Nat
        BY <1>0, <4>1 DEF Message
      <4>. QED  BY <1>0, <2>1, <4>1, <4>2
    <3>. QED  BY <2>1, <3>1, Zenon DEF Came
  <2>7. \A n \in 0..MaxSeq, c \in Ids \cup {0} : n = m_subs' + 1 => ~Served(n, c)'
    BY <2>1, <2>3, Zenon DEF Bound, Served
  <2>. QED  BY <2>1, <2>4, <2>5, <2>6, <2>7, Zenon DEF Fate
<1>3. ASSUME Sends("unsubscribe")
      PROVE  ~Asking'
  <2>1. asked' = "unsubscribe" /\ "unsubscribe" # "subscribe"
    BY <1>3, Zenon DEF Sends
  <2>. QED  BY <2>1, Zenon DEF Asking
<1>4. CASE ServerSubscribes /\ Asking /\ UNCHANGED <<current, call>>
  <2>0. UNCHANGED <<m_subs, seq>>
    BY <1>4, Zenon DEF current, call
  <2>1. PICK kind \in Answers : Reply(kind)
    BY <1>4, Zenon DEF ServerSubscribes, Answers
  <2>2. /\ req # <<>> /\ Head(req).what = "subscribe"
        /\ req[1] = Head(req) /\ 1 \in 1..Len(req)
    BY <1>4, <2>1, ReplyEffect, Zenon DEF ServerSubscribes
  <2>3. \A k \in 1..Len(req') : k + 1 \in 1..Len(req) /\ 1 < k + 1 /\ req'[k] = req[k + 1]
    BY <1>0, <2>1, <2>2, ReplyEffect
  <2>4. Pending' => Pending /\ Head(req).seq # seq
    <3>1. ASSUME NEW k \in 1..Len(req'), req'[k].seq = seq
          PROVE  Pending /\ Head(req).seq # seq
      <4>1. req[1].seq < req[k + 1].seq /\ req[1] \in Request
        BY <1>0, <2>2, <2>3 DEF InTurn
      <4>2. req[1].seq \in Nat
        BY <1>0, <4>1 DEF Request
      <4>3. req[1].seq # req[k + 1].seq
        BY <4>1, <4>2
      <4>. QED  BY <2>2, <2>3, <3>1, <4>3, Zenon DEF Pending
    <3>. QED  BY <2>0, <3>1, Zenon DEF Pending
  <2>5. Head(req).seq = seq => Pending
    BY <2>2, Zenon DEF Pending
  <2>6. ASSUME NEW kinds, Came(kinds)'
        PROVE  Came(kinds) \/ (Head(req).seq = seq /\ kind \in kinds)
    <3>1. PICK k \in 1..Len(inbox') : inbox'[k].reply /\ inbox'[k].seq = seq /\ inbox'[k].kind \in kinds
      BY <2>0, <2>6, Zenon DEF Came
    <3>2. k = Len(inbox) + 1 \/ k \in 1..Len(inbox)
      BY <1>0, <2>1, <2>2, ReplyEffect
    <3>3. CASE k = Len(inbox) + 1
      BY <2>1, <2>2, <3>1, <3>3, ReplyEffect, Zenon
    <3>4. CASE k \in 1..Len(inbox)
      BY <2>1, <2>2, <3>1, <3>4, ReplyEffect, Zenon DEF Came
    <3>. QED  BY <3>2, <3>3, <3>4, Zenon
  <2>7. ASSUME NEW n, n = m_subs + 1, NEW c, Served(n, c)'
        PROVE  Served(n, c) \/ (kind # "error" /\ Head(req).seq = seq)
    <3>1. Head(req).subs = m_subs + 1 => Head(req).seq = seq
      BY <1>4, <2>2, Zenon DEF Fate
    <3>2. Reply("ok") => kind # "error"
      <4>1. inbox'[Len(inbox) + 1].kind = kind
        BY <2>1, <2>2, ReplyEffect, Zenon
      <4>2. Reply("ok") => inbox'[Len(inbox) + 1].kind = "ok"
        BY <2>2, ReplyEffect, Zenon
      <4>. QED  BY <4>1, <4>2
    <3>. QED  BY <2>7, <3>1, <3>2, ServedOrigin, Zenon
  <2>8. \A k \in 1..Len(req') :
          /\ req'[k].what = "subscribe" /\ req'[k].subs = m_subs' + 1 => req'[k].seq = seq'
          /\ req'[k].seq = seq' => req'[k].what = "subscribe"
    BY <1>4, <2>0, <2>3, Zenon DEF Fate
  <2>9. Came({"error"}) => Came(Answers)
    BY Zenon DEF Came, Answers
  <2>10. Came(Answers)' => ~Pending'
    BY <1>4, <2>4, <2>6, Zenon DEF Fate
  <2>11. ASSUME Pending' \/ Came({"error"})', NEW n \in 0..MaxSeq, NEW c \in Ids \cup {0},
                n = m_subs + 1
         PROVE  ~Served(n, c)'
    <3>1. CASE Pending'
      BY <1>4, <2>4, <2>7, <2>11, <3>1, Zenon DEF Fate
    <3>2. CASE Came({"error"})
      BY <1>4, <2>5, <2>7, <2>9, <2>11, <3>2, Zenon DEF Fate
    <3>3. CASE Head(req).seq = seq /\ kind \in {"error"}
      BY <1>4, <2>5, <2>7, <2>11, <3>3, Zenon DEF Fate
    <3>. QED  BY <2>6, <2>11, <3>1, <3>2, <3>3, Zenon
  <2>. QED  BY <2>0, <2>8, <2>10, <2>11, Zenon DEF Fate
<1>5. CASE ServerUnsubscribes /\ Asking /\ UNCHANGED <<current, call>>
  <2>0. UNCHANGED <<m_subs, seq>>
    BY <1>5, Zenon DEF current, call
  <2>1. PICK kind : Reply(kind)
    BY <1>5, Zenon DEF ServerUnsubscribes
  <2>2. /\ req # <<>> /\ Head(req).what # "subscribe"
        /\ req[1] = Head(req) /\ 1 \in 1..Len(req)
    <3>1. "unsubscribe" # "subscribe"
      OBVIOUS
    <3>. QED  BY <1>5, <2>1, <3>1, ReplyEffect, Zenon DEF ServerUnsubscribes
  <2>3. Head(req).seq # seq
    BY <1>5, <2>2, Zenon DEF Fate
  <2>4. \A k \in 1..Len(req') : \E l \in 1..Len(req) : req'[k] = req[l]
    <3>1. \A k \in 1..Len(req') : k + 1 \in 1..Len(req) /\ req'[k] = req[k + 1]
      BY <1>0, <2>1, <2>2, ReplyEffect
    <3>. QED  BY <3>1, Zenon
  <2>5. ASSUME NEW kinds, Came(kinds)'
        PROVE  Came(kinds)
    <3>1. PICK k \in 1..Len(inbox') : inbox'[k].reply /\ inbox'[k].seq = seq /\ inbox'[k].kind \in kinds
      BY <2>0, <2>5, Zenon DEF Came
    <3>2. k = Len(inbox) + 1 \/ k \in 1..Len(inbox)
      BY <1>0, <2>1, <2>2, ReplyEffect
    <3>. QED  BY <2>1, <2>2, <2>3, <3>1, <3>2, ReplyEffect, Zenon DEF Came
  <2>6. ASSUME NEW n, NEW c, Served(n, c)'
        PROVE  Served(n, c)
    BY <2>2, <2>6, ServedOrigin, Zenon
  <2>. QED  BY <1>5, <2>4, <2>5, <2>6, FateLess, Zenon
<1>6. ASSUME NEW s \in live, ServerStarts(s) \/ ServerStops(s) \/ ServerStreams(s),
             UNCHANGED <<current, call>>
      PROVE  Fate'
  <2>0. UNCHANGED <<m_subs, seq>>
    BY <1>6, Zenon DEF current, call
  <2>1. \A k \in 1..Len(req') : \E l \in 1..Len(req) : req'[k] = req[l]
    BY <1>6, PushEffect, Zenon
  <2>2. ASSUME NEW kinds, Came(kinds)'
        PROVE  Came(kinds)
    <3>1. PICK k \in 1..Len(inbox') : inbox'[k].reply /\ inbox'[k].seq = seq /\ inbox'[k].kind \in kinds
      BY <2>0, <2>2, Zenon DEF Came
    <3>2. k = Len(inbox) + 1 \/ k \in 1..Len(inbox)
      BY <1>0, <1>6, PushEffect
    <3>. QED  BY <1>6, <3>1, <3>2, PushEffect, Zenon DEF Came
  <2>3. ASSUME NEW n, NEW c, Served(n, c)'
        PROVE  Served(n, c)
    <3>1. ~inbox'[Len(inbox) + 1].reply
      BY <1>6, PushEffect, Zenon
    <3>2. ~(req # <<>> /\ Reply("ok"))
      BY <3>1, ReplyEffect, Zenon
    <3>. QED  BY <2>3, <3>2, ServedOrigin, Zenon
  <2>. QED  BY <1>6, <2>1, <2>2, <2>3, FateLess, Zenon
<1>7. CASE ~Asking'
  BY <1>7, Zenon DEF Fate
<1>8. CASE Asking'
  <2>1. pc' = "await"
    BY <1>8, Zenon DEF Asking
  <2>2. UNCHANGED <<current, call>> => Asking
    <3>1. UNCHANGED <<current, call>> => UNCHANGED <<m_subs, doubtful, pc, opening, asked>>
      BY Zenon DEF current, call
    <3>. QED  BY <1>8, <3>1 DEF Asking
  <2>3. \/ \E what \in {"subscribe", "unsubscribe"} : Sends(what)
        \/ UNCHANGED <<current, call>>
    BY <2>1, AwaitSteps, Zenon
  <2>4. (\E what \in {"subscribe", "unsubscribe"} : Sends(what)) => Fate'
    BY <1>2, <1>3, <1>8, Zenon
  <2>. QED  BY <1>1, <1>4, <1>5, <1>6, <2>2, <2>3, <2>4, CalmSteps, Zenon
<1>. QED  BY <1>7, <1>8, Zenon

-----------------------------------------------------------------------------
(* A packet handed out while its number is not in doubt is of the channel  *)
(* the number is bound to.                                                 *)
LEMMA ReadWatched ==
  ASSUME Types, Bindings, Watched, NEW m, ReadPacket(m)
  PROVE  PacketsOfChannel'
<1>0. /\ Reads(m) /\ pc = "play" /\ ~m.reply /\ m.subs = m_subs
      /\ UNCHANGED <<m_subs, doubtful, selected>>
  BY Zenon DEF ReadPacket, Reads, Mine, Foreign, current
<1>1. /\ m \in Message /\ m = inbox[1] /\ 1 \in 1..Len(inbox)
      /\ pc = "play" /\ ~m.reply /\ m.subs = m_subs
      /\ UNCHANGED <<m_subs, doubtful, selected>>
  BY <1>0, ReadShrinks, Zenon DEF Types
<1>2. pkt'.chan = m.chan
  BY DEF ReadPacket, Packet
<1>3. m.chan \in Ids \cup {0} /\ m_subs \in 0..MaxSeq
  BY <1>1 DEF Message, Types, Numbers
<1>4. Bound(m_subs, m.chan)
  BY <1>1, Zenon DEF Bound, Served
<1>5. m_subs \notin doubtful => m.chan = Subject.iUniqueId
  BY <1>3, <1>4, Zenon DEF Bindings, Claim
<1>6. Subject = selected
  BY <1>1, Zenon DEF Subject, Watched
<1>. QED  BY <1>1, <1>2, <1>5, <1>6, Zenon DEF PacketsOfChannel

(* The channel being watched stays that of the last call that succeeded.   *)
LEMMA WatchedKept == Types /\ Bindings /\ Watched /\ [Next]_vars => Watched'
<1>. SUFFICES ASSUME Types, Bindings, Watched, [Next]_vars
              PROVE  Watched'
  OBVIOUS
<1>. USE DEF Types
<1>. DEFINE On   == {"play", "parse", "count", "changed"}
            Busy == {"new", "unsubscribe", "subscribe", "await"}
<1>0. /\ NoPacket.kind # "data" /\ Empty.kind # "data" /\ Change.kind # "data"
      /\ On \cap Busy = {}
  BY DEF NoPacket, Empty, Change, Packet
<1>1. ASSUME UNCHANGED <<current, call, pkt>>
      PROVE  Watched'
  BY <1>1, Zenon DEF Watched, PacketsOfChannel, current, call
<1>2. ASSUME UNCHANGED <<m_subs, doubtful, selected, opening, target>>, pc \in On,
             pc' \in On \cup {"deleted"},
             pkt' = pkt \/ pkt'.kind # "data" \/ PacketsOfChannel'
      PROVE  Watched'
  BY <1>0, <1>2 DEF Watched, PacketsOfChannel
<1>3. ASSUME NEW c \in Channels, Open(c)
      PROVE  Watched'
  BY <1>3 DEF Open, Watched, PacketsOfChannel, player
<1>4. ASSUME NEW c \in Channels, SwitchChannel(c)
      PROVE  Watched'
  BY <1>0, <1>4 DEF SwitchChannel, Watched, PacketsOfChannel
<1>5. ASSUME NEW what \in {"subscribe", "unsubscribe"}, NEW done, Returns(what, done),
             pc \in Busy, what = "unsubscribe" => ~opening,
             UNCHANGED <<opening, target, pkt>>
      PROVE  Watched'
  <2>1. pkt'.kind # "data"
    BY <1>5, Zenon DEF Watched
  <2>2. pc' = "play" /\ opening => selected' = target
    BY <1>5, ReturnsChanges, Zenon DEF Returns, Subscribed
  <2>3. pc' \in {"subscribe", "play", "failed"}
    BY <1>5, ReturnsChanges, Zenon
  <2>4. (opening /\ pc' \in On => selected' = target) /\ pc' \notin {"new", "unsubscribe", "await"}
    BY <2>2, <2>3
  <2>. QED  BY <1>5, <2>1, <2>4, Zenon DEF Watched, PacketsOfChannel
<1>6. ASSUME NEW what \in {"subscribe", "unsubscribe"}, Transmit(what)
      PROVE  Watched'
  <2>1. /\ pc = what /\ pc \in Busy
        /\ what = "unsubscribe" => ~opening
        /\ UNCHANGED <<opening, target, pkt>>
    BY <1>6 DEF Transmit, Watched, player
  <2>2. CASE Sends(what)
    BY <2>1, <2>2 DEF Sends, Watched, PacketsOfChannel
  <2>3. CASE Returns(what, FALSE)
    BY <1>5, <2>1, <2>3, Zenon
  <2>4. Sends(what) \/ Returns(what, FALSE)
    BY <1>6, TransmitCases, Zenon
  <2>. QED  BY <2>2, <2>3, <2>4, Zenon
<1>7. CASE Answered \/ GivesUp
  <2>1. /\ asked \in {"subscribe", "unsubscribe"} /\ pc = "await" /\ pc \in Busy
        /\ UNCHANGED <<opening, target, pkt>>
    BY <1>7, Zenon DEF Answered, GivesUp, Numbers, player
  <2>2. asked = "unsubscribe" => ~opening
    BY <2>1, Zenon DEF Watched
  <2>. QED  BY <1>5, <1>7, <2>1, <2>2, Zenon DEF Answered, GivesUp
<1>8. ASSUME NEW m \in Range(inbox), Read(m)
      PROVE  Watched'
  <2>1. pc \in On /\ UNCHANGED <<m_subs, doubtful, selected, opening, target>>
    BY <1>8, Zenon DEF Read, ReadForeign, ReadStop, ReadSignal, ReadPacket, ReadMalformed,
         ReadStart, Reads, current
  <2>2. pc' \in On
    BY <1>8, Zenon DEF Read, ReadForeign, ReadStop, ReadSignal, ReadPacket, ReadMalformed,
         ReadStart, Reads
  <2>3. pkt' = pkt \/ pkt' = Empty \/ pkt' = Change \/ PacketsOfChannel'
    BY <1>8, ReadWatched, Zenon DEF Read, ReadForeign, ReadStop, ReadSignal, ReadMalformed,
         ReadStart
  <2>. QED  BY <1>0, <1>2, <2>1, <2>2, <2>3, Zenon
<1>9. CASE ReadNothing \/ Parse \/ GetStreamProperties
  <2>1. pc \in On /\ UNCHANGED <<m_subs, doubtful, selected, opening, target>>
    BY <1>9, Zenon DEF ReadNothing, Parse, SkipEntry, FillEntry, CountEntry, StartParsed,
         GetStreamProperties, current, call
  <2>2. pc' \in On
    BY <1>9, Zenon DEF ReadNothing, Parse, SkipEntry, FillEntry, CountEntry, StartParsed,
         GetStreamProperties, call
  <2>3. pkt' = pkt \/ pkt' = Empty \/ pkt' = Change \/ pkt' = NoPacket
    BY <1>9, Zenon DEF ReadNothing, Parse, SkipEntry, FillEntry, CountEntry, StartParsed,
         GetStreamProperties, player
  <2>. QED  BY <1>0, <1>2, <2>1, <2>2, <2>3, Zenon
<1>10. CASE Close
  <2>1. /\ pc' = "deleted" /\ UNCHANGED <<m_subs, doubtful, selected, opening, target, pkt>>
    BY <1>10, Zenon DEF Close, current, player
  <2>. QED  BY <2>1 DEF Watched, PacketsOfChannel
<1>11. CASE Abort \/ Deleted \/ UNCHANGED vars
  BY <1>1, <1>11, Zenon DEF Abort, Deleted, vars, player
<1>12. CASE ServerStep
  BY <1>1, <1>12, ServerFrame, Zenon DEF player
<1>. QED  BY <1>3, <1>4, <1>6, <1>7, <1>8, <1>9, <1>10, <1>11, <1>12, Zenon DEF Next, ServerStep

(* Every number is bound to one channel at most, that of its subscription. *)
LEMMA BindingsKept ==
  Types /\ InTurn /\ Fate /\ Bindings /\ Watched /\ [Next]_vars => Bindings'
<1>. SUFFICES ASSUME Types, InTurn, Fate, Bindings, Watched, [Next]_vars,
                     NEW n \in 0..MaxSeq, NEW c \in Ids \cup {0}, Bound(n, c)'
              PROVE  Claim(n, c)'
  BY Zenon DEF Bindings
<1>. USE DEF Types
<1>0. m_subs \in Nat /\ n \in Nat /\ m_subs + 1 # m_subs /\ m_subs <= m_subs + 1
  BY DemuxAssumption DEF Numbers
<1>1. ASSUME NEW what \in {"subscribe", "unsubscribe"}, Sends(what)
      PROVE  Claim(n, c)'
  <2>0. /\ pc = what /\ pc' = "await" /\ asked' = what
        /\ UNCHANGED <<m_subs, selected, opening, target, doubtful>>
    BY <1>1, Zenon DEF Sends
  <2>1. CASE Bound(n, c)
    <3>1. Claim(n, c)
      BY <2>1, Zenon DEF Bindings
    <3>2. pc # "await" /\ pc' # "new" /\ pc' # "subscribe"
      BY <2>0
    <3>. QED  BY <2>0, <3>1, <3>2, Zenon DEF Claim, Asking, Subject
  <2>2. CASE Sends("subscribe") /\ n = Subs("subscribe") /\ c = target.iUniqueId
    <3>1. asked' = "subscribe" /\ pc' # "new" /\ pc' # "subscribe"
      BY <2>0, <2>2, Zenon DEF Sends
    <3>2. CASE opening
      <4>1. n = m_subs
        BY <2>2, <3>2, Zenon DEF Subs
      <4>. QED  BY <1>0, <2>0, <2>2, <3>1, <3>2, <4>1 DEF Claim, Subject
    <3>3. CASE ~opening
      <4>1. n = m_subs + 1
        BY <2>2, <3>3, Zenon DEF Subs
      <4>. QED  BY <1>0, <2>0, <2>2, <3>1, <3>3, <4>1 DEF Claim, Asking
    <3>. QED  BY <3>2, <3>3, Zenon
  <2>. QED  BY <2>1, <2>2, BoundOrigin, Zenon
<1>2. ASSUME pc' # "await" \/ pc' = pc
      PROVE  Bound(n, c) /\ Claim(n, c)
  <2>1. ~Sends("subscribe")
    BY <1>2 DEF Sends
  <2>2. Bound(n, c)
    BY <2>1, BoundOrigin, Zenon
  <2>. QED  BY <2>2, Zenon DEF Bindings
<1>3. ASSUME UNCHANGED <<current, call>>
      PROVE  Claim(n, c)'
  <2>1. UNCHANGED <<m_subs, selected, opening, target, doubtful, pc, asked>>
    BY <1>3, Zenon DEF current, call
  <2>. QED  BY <1>2, <2>1 DEF Claim, Subject, Asking
<1>4. ASSUME UNCHANGED <<m_subs, selected, opening, target, doubtful>>,
             pc # "await", pc' \notin {"new", "subscribe", "await"}
      PROVE  Claim(n, c)'
  <2>1. pc' # "await" /\ pc' # "new" /\ pc' # "subscribe"
    BY <1>4
  <2>. QED  BY <1>2, <1>4, <2>1, Zenon DEF Claim, Subject, Asking
<1>5. ASSUME NEW d \in Channels, Open(d)
      PROVE  FALSE
  <2>1. pc = "new" /\ pc' # "await"
    BY <1>5 DEF Open
  <2>. QED  BY <1>2, <2>1, Zenon DEF Claim
<1>6. ASSUME NEW d \in Channels, SwitchChannel(d)
      PROVE  Claim(n, c)'
  <2>1. /\ pc = "play" /\ pc # "await" /\ ~opening'
        /\ pc' # "await" /\ pc' # "new" /\ pc' # "subscribe"
        /\ UNCHANGED <<m_subs, selected, doubtful>>
    BY <1>6 DEF SwitchChannel, current
  <2>2. Subject = selected /\ Subject' = selected
    BY <2>1, Zenon DEF Subject, Watched
  <2>. QED  BY <1>2, <2>1, <2>2, Zenon DEF Claim, Asking
<1>7. ASSUME pc \in {"unsubscribe", "await"}, pc' = "subscribe", ~opening,
             pc = "await" => asked = "unsubscribe",
             UNCHANGED <<m_subs, selected, opening, target, doubtful>>
      PROVE  Claim(n, c)'
  <2>1. pc' # "await" /\ pc' # "new" /\ ~Asking
    BY <1>7 DEF Asking
  <2>. QED  BY <1>2, <1>7, <2>1, Zenon DEF Claim, Subject
<1>8. ASSUME NEW what \in {"subscribe", "unsubscribe"}, Transmit(what), ~Sends(what)
      PROVE  Claim(n, c)'
  <2>1. /\ pc = what /\ pc # "await"
        /\ Returns(what, FALSE)
        /\ UNCHANGED <<opening, target, doubtful>>
    BY <1>8, TransmitCases, Zenon DEF Transmit
  <2>2. UNCHANGED <<m_subs, selected>>
    BY <2>1, ReturnsChanges, Zenon
  <2>3. CASE what = "unsubscribe"
    <3>1. pc' = "subscribe" /\ ~opening
      BY <2>1, <2>3, Zenon DEF Returns, Watched
    <3>. QED  BY <1>7, <2>1, <2>2, <2>3, <3>1, Zenon
  <2>4. CASE what = "subscribe"
    <3>1. pc' \notin {"new", "subscribe", "await"}
      BY <2>1, <2>4 DEF Returns
    <3>. QED  BY <1>4, <2>1, <2>2, <3>1, Zenon
  <2>. QED  BY <2>3, <2>4, Zenon
<1>9. ASSUME pc = "await", asked = "unsubscribe", NEW done, Returns(asked, done),
             UNCHANGED <<opening, target, doubtful>>
      PROVE  Claim(n, c)'
  <2>1. pc' = "subscribe" /\ ~opening /\ UNCHANGED <<m_subs, selected>>
    <3>1. "unsubscribe" # "subscribe"
      OBVIOUS
    <3>. QED  BY <1>9, <3>1, Zenon DEF Returns, Watched
  <2>. QED  BY <1>7, <1>9, <2>1, Zenon
<1>10. CASE Answered
  <2>1. PICK i \in 1..Len(inbox) : /\ S!TakeReply(i) /\ inbox[i].seq = seq
                                   /\ Returns(asked, inbox[i].kind = "ok")
    BY <1>10, Zenon DEF Answered
  <2>2. pc = "await" /\ UNCHANGED <<opening, target, doubtful>>
    BY <1>10, Zenon DEF Answered
  <2>3. CASE asked = "unsubscribe"
    BY <1>9, <2>1, <2>2, <2>3, Zenon
  <2>4. CASE asked = "subscribe" /\ inbox[i].kind = "ok"
    <3>1. pc' = "play" /\ selected' = target /\ m_subs' = Subs("subscribe")
      BY <2>1, <2>4, Zenon DEF Returns, Subscribed
    <3>2. pc' # "await" /\ pc' # "new" /\ pc' # "subscribe" /\ ~Asking'
      BY <3>1 DEF Asking
    <3>3. Subject' = target
      BY <2>2, <3>1, Zenon DEF Subject
    <3>4. Claim(n, c)
      BY <1>2, <3>2, Zenon
    <3>5. CASE opening
      <4>1. m_subs' = m_subs /\ Subject = target /\ ~Asking
        BY <3>1, <3>5, Zenon DEF Subs, Subject, Asking
      <4>. QED  BY <2>2, <3>2, <3>3, <3>4, <4>1, Zenon DEF Claim
    <3>6. CASE ~opening
      <4>1. m_subs' = m_subs + 1
        BY <3>1, <3>6, Zenon DEF Subs
      <4>2. n <= m_subs' + 1 /\ n # m_subs' + 1
        BY <1>0, <3>4, <4>1 DEF Claim
      <4>. QED  BY <2>2, <3>2, <3>3, <3>4, <4>1, <4>2, Zenon DEF Claim
    <3>. QED  BY <3>5, <3>6, Zenon
  <2>5. CASE asked = "subscribe" /\ inbox[i].kind # "ok"
    <3>1. UNCHANGED <<m_subs, selected>> /\ pc' \in {"play", "failed"}
      BY <2>1, <2>5, Zenon DEF Returns
    <3>2. pc' # "await" /\ pc' # "new" /\ pc' # "subscribe"
      BY <3>1
    <3>3. Bound(n, c) /\ Claim(n, c)
      BY <1>2, <3>2, Zenon
    <3>4. ASSUME n = m_subs + 1, n \notin doubtful
          PROVE  FALSE
      <4>1. Asking
        BY <3>3, <3>4, Zenon DEF Claim
      <4>2. inbox[i].reply /\ inbox[i].kind \in Answers /\ inbox[i].kind \in {"error"}
        <5>1. inbox[i].reply /\ inbox[i].kind \in Answers
          BY <2>1, Zenon DEF S!TakeReply, InTurn
        <5>. QED  BY <2>5, <5>1 DEF Answers
      <4>3. Came(Answers) /\ Came({"error"})
        BY <2>1, <4>2, Zenon DEF Came
      <4>4. ~Served(n, c) /\ ~Pending
        BY <3>4, <4>1, <4>3, Zenon DEF Fate
      <4>5. Requested(n, c)
        BY <3>3, <4>4, Zenon DEF Bound
      <4>. QED  BY <3>4, <4>1, <4>4, <4>5, Zenon DEF Requested, Pending, Fate
    <3>. QED  BY <2>2, <3>1, <3>2, <3>3, <3>4, Zenon DEF Claim, Subject
  <2>. QED  BY <2>2, <2>3, <2>4, <2>5, Zenon DEF Numbers
<1>11. CASE GivesUp
  <2>1. /\ pc = "await" /\ Returns(asked, FALSE) /\ UNCHANGED <<opening, target>>
        /\ doubtful' = IF asked = "subscribe" THEN doubtful \cup {Subs(asked)} ELSE doubtful
    BY <1>11, Zenon DEF GivesUp
  <2>2. CASE asked = "unsubscribe"
    <3>1. doubtful' = doubtful
      BY <2>1, <2>2
    <3>. QED  BY <1>9, <2>1, <2>2, <3>1, Zenon
  <2>3. CASE asked = "subscribe"
    <3>1. UNCHANGED <<m_subs, selected>> /\ pc' \in {"play", "failed"}
      BY <2>1, <2>3 DEF Returns
    <3>2. pc' # "await" /\ pc' # "new" /\ pc' # "subscribe"
      BY <3>1
    <3>3. Claim(n, c)
      BY <1>2, <3>2, Zenon
    <3>4. doubtful' = doubtful \cup {Subs("subscribe")}
      BY <2>1, <2>3, Zenon
    <3>5. CASE opening
      <4>1. ~Asking
        BY <3>5, Zenon DEF Asking
      <4>. QED  BY <2>1, <3>1, <3>2, <3>3, <3>4, <4>1, Zenon DEF Claim, Subject
    <3>6. CASE ~opening
      <4>1. m_subs + 1 \in doubtful'
        BY <3>4, <3>6, Zenon DEF Subs
      <4>. QED  BY <2>1, <3>1, <3>2, <3>3, <3>4, <4>1, Zenon DEF Claim, Subject
    <3>. QED  BY <3>5, <3>6, Zenon
  <2>. QED  BY <2>1, <2>2, <2>3, Zenon DEF Numbers
<1>12. ASSUME NEW m \in Range(inbox), Read(m)
       PROVE  Claim(n, c)'
  <2>1. pc = "play" /\ UNCHANGED <<m_subs, doubtful, selected, opening, target>>
    BY <1>12, Zenon DEF Read, ReadForeign, ReadStop, ReadSignal, ReadPacket, ReadMalformed,
         ReadStart, Reads, current
  <2>2. pc' \in {"play", "parse", "changed"}
    BY <1>12, <2>1, Zenon DEF Read, ReadForeign, ReadStop, ReadSignal, ReadPacket,
         ReadMalformed, ReadStart
  <2>3. pc # "await" /\ pc' \notin {"new", "subscribe", "await"}
    BY <2>1, <2>2
  <2>. QED  BY <1>4, <2>1, <2>3, Zenon
<1>13. CASE ReadNothing \/ Parse \/ GetStreamProperties \/ Close
  <2>1. /\ pc \in {"play", "parse", "count", "changed", "failed"}
        /\ UNCHANGED <<m_subs, doubtful, selected, opening, target>>
    BY <1>13, Zenon DEF ReadNothing, Parse, SkipEntry, FillEntry, CountEntry, StartParsed,
         GetStreamProperties, Close, current, call
  <2>2. pc' \in {"play", "parse", "count", "changed", "failed", "deleted"}
    BY <1>13, <2>1, Zenon DEF ReadNothing, Parse, SkipEntry, FillEntry, CountEntry, StartParsed,
         GetStreamProperties, Close, call
  <2>3. pc # "await" /\ pc' \notin {"new", "subscribe", "await"}
    BY <2>1, <2>2
  <2>. QED  BY <1>4, <2>1, <2>3, Zenon
<1>14. CASE Abort \/ Deleted \/ UNCHANGED vars
  BY <1>3, <1>14, Zenon DEF Abort, Deleted, vars
<1>15. CASE ServerStep
  BY <1>3, <1>15, ServerFrame, Zenon
<1>. QED  BY <1>1, <1>5, <1>6, <1>8, <1>10, <1>11, <1>12, <1>13, <1>14, <1>15, Zenon
            DEF Next, ServerStep

(***************************************************************************)
(* What the player shows is the channel it asked for, however many         *)
(* subscriptions of earlier channels the server still serves, unless the   *)
(* number was used before in a request whose answer never came.            *)
(***************************************************************************)
THEOREM RightChannel == Spec => []PacketsOfChannel
<1>1. Init => InTurn /\ Fate /\ Bindings /\ Watched
  <2>. SUFFICES ASSUME Init
                PROVE  InTurn /\ Fate /\ Bindings /\ Watched
    OBVIOUS
  <2>1. inbox = <<>> /\ req = <<>> /\ live = {} /\ pc = "new" /\ ~opening
    BY DEF Init, S!Init
  <2>2. Len(<<>>) = 0 /\ 1..0 = {}
    OBVIOUS
  <2>3. InTurn
    BY <2>1, <2>2, Zenon DEF InTurn
  <2>4. Fate
    BY <2>1 DEF Fate, Asking
  <2>5. Bindings
    BY <2>1, <2>2, Zenon DEF Bindings, Bound, Requested, Served
  <2>6. Watched
    BY <2>1 DEF Init, Watched, PacketsOfChannel, NoPacket, Packet
  <2>. QED  BY <2>3, <2>4, <2>5, <2>6, Zenon
<1>2. /\ Types /\ InTurn /\ Fate /\ Bindings /\ Watched /\ [Next]_vars
      => (InTurn /\ Fate /\ Bindings /\ Watched)'
  BY InTurnKept, FateKept, BindingsKept, WatchedKept, Zenon
<1>3. Watched => PacketsOfChannel
  BY DEF Watched
<1>. QED  BY <1>1, <1>2, <1>3, TypesInvariant, PTL DEF Spec
=============================================================================
