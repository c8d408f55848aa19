--------------------------- MODULE HTSPDataProofs ---------------------------
(***************************************************************************)
(* CHTSPData for every set of API threads and every value of the bounds    *)
(* (HTSPData), and its tables for every set of channels, tags and          *)
(* recordings (HTSPTables). Each part of an invariant has a lemma saying   *)
(* that a step keeps it: one step of its proof for every action that can   *)
(* disturb the part, one for those that cannot.                            *)
(***************************************************************************)
EXTENDS HTSPData, HTSPTables, SequenceLemmas

(* Message is a set of messages as Session expects them.                   *)
LEMMA MessageIds == \A m \in Message : m.id \in 1..MaxId /\ m.reply \in BOOLEAN
BY DEF Message

-----------------------------------------------------------------------------
(* The session: what a step of it leaves in the inbox was there before.    *)
InboxShrinks == inbox' \in Seq(Message) /\ Within(inbox', inbox)

(* A connection that is lost leaves a prefix of the inbox.                 *)
LEMMA DisconnectShrinks == Wire /\ Disconnect => InboxShrinks
<1>. SUFFICES ASSUME Wire, NEW n \in 0..Len(inbox), inbox' = SubSeq(inbox, 1, n)
              PROVE  InboxShrinks
  BY Zenon DEF Disconnect
<1>1. inbox \in Seq(Message)
  BY DEF Wire
<1>. QED  BY <1>1, PrefixProperties, PrefixWithin DEF InboxShrinks

(* The handshake takes at most one message out of the inbox.               *)
LEMMA HandshakeShrinks ==
  Wire /\ HandshakeSucceeds => InboxShrinks \/ UNCHANGED session
<1>1. ASSUME inbox \in Seq(Message), NEW i \in 1..Len(inbox), inbox' = RemoveAt(inbox, i)
      PROVE  InboxShrinks
  <2>1. RemoveAt(inbox, i) \in Seq(Message) /\ Within(RemoveAt(inbox, i), inbox)
    BY <1>1, RemoveAtProperties, RemoveAtWithin, Zenon
  <2>. QED  BY <1>1, <2>1, Zenon DEF InboxShrinks
<1>2. Wire => inbox \in Seq(Message)
  BY DEF Wire
<1>3. HandshakeSucceeds =>
        UNCHANGED session \/ \E i \in 1..Len(inbox) : inbox' = RemoveAt(inbox, i)
  BY Zenon DEF HandshakeSucceeds, S!TakeReply, S!RemoveAt, RemoveAt
<1>. QED  BY <1>1, <1>2, <1>3, Zenon

(* Reading takes the first message.                                        *)
LEMMA DeliverShrinks ==
  Wire /\ S!Deliver => InboxShrinks /\ Head(inbox) = inbox[1] /\ 1 \in 1..Len(inbox)
<1>. SUFFICES ASSUME Wire, inbox # <<>>, inbox' = Tail(inbox)
              PROVE  InboxShrinks /\ Head(inbox) = inbox[1] /\ 1 \in 1..Len(inbox)
  BY Zenon DEF S!Deliver
<1>1. inbox \in Seq(Message)
  BY DEF Wire
<1>2. Tail(inbox) \in Seq(Message) /\ Head(inbox) = inbox[1] /\ 1 \in 1..Len(inbox)
  BY <1>1
<1>. QED  BY <1>1, <1>2, TailWithin DEF InboxShrinks

(* What the server sends comes last.                                       *)
LEMMA ArriveAppends ==
  ASSUME Wire, NEW m \in Message, S!Arrive(m)
  PROVE  /\ inbox' \in Seq(Message)
         /\ Len(inbox') = Len(inbox) + 1
         /\ inbox'[Len(inbox) + 1] = m
         /\ \A k \in 1..Len(inbox) : inbox'[k] = inbox[k]
<1>1. inbox \in Seq(Message) /\ inbox' = Append(inbox, m)
  BY DEF Wire, S!Arrive
<1>. QED  BY <1>1

-----------------------------------------------------------------------------
(* Each flag is TRUE or FALSE.                                             *)
LEMMA FlagsKept == Flags /\ [Next]_vars => Flags'
<1>. SUFFICES ASSUME Flags, [Next]_vars
              PROVE  Flags'
  OBVIOUS
<1>. USE DEF Flags, session, server, api, process, owner, shared
<1>1. CASE Reconnect
  BY <1>1, Zenon DEF Reconnect, SocketOpens, S!Up
<1>2. CASE Handshake
  BY <1>2, Zenon DEF Handshake, HandshakeSucceeds, CloseSocket, Disconnect,
     S!TakeReply
<1>3. CASE Enable
  BY <1>3, Zenon DEF Enable, EnableAsync
<1>4. CASE OpenConnects
  BY <1>4, Zenon DEF OpenConnects, SocketOpens, S!Up
<1>5. CASE OpenHandshakes
  BY <1>5, Zenon DEF OpenHandshakes, HandshakeSucceeds, CloseSocket,
     Disconnect, S!TakeReply
<1>6. CASE OpenEnables
  BY <1>6, Zenon DEF OpenEnables, EnableAsync
<1>7. CASE CloseSession
  BY <1>7, Zenon DEF CloseSession, CloseSocket, Disconnect
<1>8. CASE ReadBreaks
  BY <1>8, Zenon DEF ReadBreaks, Disconnect
<1>9. ASSUME NEW a \in Api, Send(a) PROVE Flags'
  BY <1>9, Zenon DEF Send, CloseSocket, Disconnect
<1>10. CASE Apply
  BY <1>10, Zenon DEF Apply
<1>11. CASE ThreadStarts
  BY <1>11, Zenon DEF ThreadStarts
<1>12. CASE Exit
  BY <1>12, Zenon DEF Exit
<1>13. CASE OpenReturns
  BY <1>13, Zenon DEF OpenReturns
<1>14. CASE StopThread
  BY <1>14, Zenon DEF StopThread
<1>15. CASE StopReturns
  BY <1>15, Zenon DEF StopReturns
<1>16. CASE ServerReplies
  BY <1>16, Zenon DEF ServerReplies, Arrive, S!Arrive
<1>17. CASE ServerPushes
  BY <1>17, Zenon DEF ServerPushes, Arrive, S!Arrive
<1>18. CASE ServerDies
  BY <1>18, Zenon DEF ServerDies
<1>19. ASSUME NEW a \in Api, Refused(a) \/ Begin(a) \/ Insert(a) \/
              WaitEnds(a) \/ Lock(a) \/ Erase(a)
      PROVE  Flags'
  BY <1>19, ZenonT(30) DEF Refused, Begin, NextSequenceNumber, Insert, WaitEnds,
     Lock, Erase, Inserting
<1>20. CASE LoopEnds \/ Read \/ Notify \/ Dispatch \/ ThreadCreated \/ Destroy
  BY <1>20, ZenonT(30) DEF LoopEnds, Read, S!Deliver, Notify, Dispatch, Inserting,
     ThreadCreated, Destroy
<1>21. CASE UNCHANGED vars
  BY <1>21, Zenon DEF vars
<1>. QED
  BY <1>1, <1>2, <1>3, <1>4, <1>5, <1>6, <1>7, <1>8, <1>9, <1>10, <1>11,
     <1>12, <1>13, <1>14, <1>15, <1>16, <1>17, <1>18, <1>19, <1>20, <1>21, Zenon
     DEF Next, Call, Loop, Locked, Owner, Deleted

(* The session and the server.                                             *)
LEMMA WireKept == TypeOK /\ [Next]_vars => Wire'
<1>. SUFFICES ASSUME TypeOK, [Next]_vars
              PROVE  Wire'
  OBVIOUS
<1>. USE DataAssumption DEF TypeOK, Wire, session, server, api, process,
         owner, shared
<1>1. ASSUME NEW a \in Api, Send(a) PROVE Wire'
  <2>1. lastSent' = lastSent /\ lastRead' = lastRead /\ deaths' = deaths
    BY <1>1, Zenon DEF Send, CloseSocket, Disconnect, session, server
  <2>2. pend' \subseteq pend \cup {[seq |-> mySeq[a], by |-> a, n |-> calls[a]]} /\ Busy(a)
    BY <1>1 DEF Send, CloseSocket, Disconnect, session, server, Busy
  <2>3. [seq |-> mySeq[a], by |-> a, n |-> calls[a]] \in Request
    BY <2>2 DEF Calls, Request
  <2>4. InboxShrinks \/ inbox' = inbox
    BY <1>1, DisconnectShrinks, Zenon DEF Send, CloseSocket, session
  <2>. QED  BY <2>1, <2>2, <2>3, <2>4 DEF InboxShrinks
<1>2. CASE Reconnect
  BY <1>2 DEF Reconnect, SocketOpens, S!Up
<1>3. CASE Handshake
  <2>1. lastSent' = lastSent /\ lastRead' = lastRead /\ deaths' = deaths
    BY <1>3, Zenon DEF Handshake, HandshakeSucceeds, CloseSocket, Disconnect,
       S!TakeReply, session, server
  <2>2. pend' = pend \/ pend' = {}
    BY <1>3, Zenon DEF Handshake, HandshakeSucceeds, CloseSocket, Disconnect,
       S!TakeReply, session, server
  <2>3. InboxShrinks \/ inbox' = inbox
    BY <1>3, DisconnectShrinks, HandshakeShrinks, Zenon DEF Handshake,
       CloseSocket, session
  <2>. QED  BY <2>1, <2>2, <2>3 DEF InboxShrinks
<1>4. CASE Read
  <2>1. InboxShrinks /\ Head(inbox) = inbox[1] /\ 1 \in 1..Len(inbox)
    BY <1>4, DeliverShrinks DEF Read
  <2>2. Head(inbox).id \in 0..MaxId
    BY <2>1, MessageIds
  <2>. QED  BY <1>4, <2>1, <2>2 DEF Read, S!Deliver, InboxShrinks
<1>5. CASE ReadBreaks
  <2>1. lastSent' = lastSent /\ lastRead' = lastRead /\ deaths' = deaths
    BY <1>5, Zenon DEF ReadBreaks, Disconnect, session, server
  <2>2. pend' = pend \/ pend' = {}
    BY <1>5, Zenon DEF ReadBreaks, Disconnect, session, server
  <2>3. InboxShrinks \/ inbox' = inbox
    BY <1>5, DisconnectShrinks, HandshakeShrinks, Zenon DEF ReadBreaks, session
  <2>. QED  BY <2>1, <2>2, <2>3 DEF InboxShrinks
<1>6. CASE OpenConnects
  BY <1>6 DEF OpenConnects, SocketOpens, S!Up
<1>7. CASE OpenHandshakes
  <2>1. lastSent' = lastSent /\ lastRead' = lastRead /\ deaths' = deaths
    BY <1>7, Zenon DEF OpenHandshakes, HandshakeSucceeds, CloseSocket,
       Disconnect, S!TakeReply, session, server
  <2>2. pend' = pend \/ pend' = {}
    BY <1>7, Zenon DEF OpenHandshakes, HandshakeSucceeds, CloseSocket,
       Disconnect, S!TakeReply, session, server
  <2>3. InboxShrinks \/ inbox' = inbox
    BY <1>7, DisconnectShrinks, HandshakeShrinks, Zenon DEF OpenHandshakes,
       CloseSocket, session
  <2>. QED  BY <2>1, <2>2, <2>3 DEF InboxShrinks
<1>8. CASE CloseSession
  <2>1. lastSent' = lastSent /\ lastRead' = lastRead /\ deaths' = deaths
    BY <1>8, Zenon DEF CloseSession, CloseSocket, Disconnect, session, server
  <2>2. pend' = pend \/ pend' = {}
    BY <1>8, Zenon DEF CloseSession, CloseSocket, Disconnect, session, server
  <2>3. InboxShrinks \/ inbox' = inbox
    BY <1>8, DisconnectShrinks, HandshakeShrinks, Zenon DEF CloseSession,
       CloseSocket, session
  <2>. QED  BY <2>1, <2>2, <2>3 DEF InboxShrinks
<1>9. CASE ServerReplies
  <2>1. PICK m \in Message : /\ S!Arrive(m)
                            /\ pend' \subseteq pend /\ deaths' = deaths
    BY <1>9 DEF ServerReplies, Arrive
  <2>2. inbox' \in Seq(Message) /\ m.id \in 1..MaxId
    BY <2>1, ArriveAppends, MessageIds
  <2>. QED  BY <2>1, <2>2 DEF S!Arrive
<1>10. CASE ServerPushes
  <2>1. PICK m \in Message : /\ S!Arrive(m)
                            /\ pend' \subseteq pend /\ deaths' = deaths
    BY <1>10 DEF ServerPushes, Arrive
  <2>2. inbox' \in Seq(Message) /\ m.id \in 1..MaxId
    BY <2>1, ArriveAppends, MessageIds
  <2>. QED  BY <2>1, <2>2 DEF S!Arrive
<1>11. CASE ServerDies
  BY <1>11 DEF ServerDies
<1>12. ASSUME NEW a \in Api, Refused(a) \/ Begin(a) \/ Insert(a) \/
              WaitEnds(a) \/ Lock(a) \/ Erase(a)
      PROVE  Wire'
  BY <1>12 DEF Refused, Begin, NextSequenceNumber, Insert, WaitEnds, Lock,
     Erase, Inserting
<1>13. CASE ThreadStarts \/ LoopEnds \/ Enable \/ Notify \/ Dispatch \/ Apply
          \/ Exit \/ OpenEnables \/ ThreadCreated \/ OpenReturns \/ Destroy
          \/ StopThread \/ StopReturns
  BY <1>13 DEF ThreadStarts, LoopEnds, Enable, EnableAsync, Notify, Dispatch,
     Inserting, Apply, Exit, OpenEnables, ThreadCreated, OpenReturns, Destroy,
     StopThread, StopReturns
<1>14. CASE UNCHANGED vars
  BY <1>14 DEF vars
<1>. QED
  BY <1>1, <1>2, <1>3, <1>4, <1>5, <1>6, <1>7, <1>8, <1>9, <1>10, <1>11,
     <1>12, <1>13, <1>14, Zenon DEF Next, Call, Loop, Locked, Owner, Deleted

(* The table of requests, the mutex and the sequence number.               *)
LEMMA TableKept == TypeOK /\ [Next]_vars => Table'
<1>. SUFFICES ASSUME TypeOK, [Next]_vars
              PROVE  Table'
  OBVIOUS
<1>. USE DataAssumption DEF TypeOK, Table, session, server, api, process,
         owner, shared
<1>1. ASSUME NEW a \in Api, Begin(a) PROVE Table'
  BY <1>1 DEF Begin, NextSequenceNumber
<1>2. ASSUME NEW a \in Api, Insert(a) PROVE Table'
  <2>1. mySeq[a] \in 1..MaxSeq
    BY <1>2 DEF Insert, Calls, Busy
  <2>. QED  BY <1>2, <2>1 DEF Insert
<1>3. ASSUME NEW a \in Api, Lock(a) PROVE Table'
  BY <1>3 DEF Lock
<1>4. ASSUME NEW a \in Api, Erase(a) PROVE Table'
  BY <1>4 DEF Erase, Inserting
<1>5. CASE Notify
  BY <1>5 DEF Notify
<1>6. CASE Dispatch
  BY <1>6 DEF Dispatch, Inserting
<1>7. CASE OpenConnects
  BY <1>7 DEF OpenConnects
<1>8. CASE OpenHandshakes
  BY <1>8 DEF OpenHandshakes
<1>9. CASE OpenEnables
  BY <1>9 DEF OpenEnables
<1>10. CASE ThreadCreated
  BY <1>10 DEF ThreadCreated
<1>11. ASSUME NEW a \in Api, Refused(a) \/ Send(a) \/ WaitEnds(a)
      PROVE  Table'
  BY <1>11 DEF Refused, Send, WaitEnds
<1>12. CASE ThreadStarts \/ LoopEnds \/ Reconnect \/ Handshake \/ Enable \/
          Read \/ ReadBreaks \/ Apply \/ Exit \/ OpenReturns \/ Destroy \/
          CloseSession \/ StopThread \/ StopReturns \/ ServerReplies \/
          ServerPushes \/ ServerDies
  BY <1>12 DEF ThreadStarts, LoopEnds, Reconnect, Handshake, Enable, Read,
     ReadBreaks, Apply, Exit, OpenReturns, Destroy, CloseSession, StopThread,
     StopReturns, ServerReplies, Arrive, ServerPushes, ServerDies
<1>13. CASE UNCHANGED vars
  BY <1>13 DEF vars
<1>. QED
  BY <1>1, <1>2, <1>3, <1>4, <1>5, <1>6, <1>7, <1>8, <1>9, <1>10, <1>11,
     <1>12, <1>13, Zenon DEF Next, Call, Loop, Locked, Owner, Deleted

(* What the API threads and their nodes hold.                              *)
LEMMA CallsKept == TypeOK /\ [Next]_vars => Calls'
<1>. SUFFICES ASSUME TypeOK, [Next]_vars
              PROVE  Calls'
  OBVIOUS
<1>. USE DataAssumption DEF TypeOK, Calls, Busy, session, server, api,
         process, owner, shared
<1>1. ASSUME NEW a \in Api, Refused(a) PROVE Calls'
  BY <1>1 DEF Refused
<1>2. ASSUME NEW a \in Api, Begin(a) PROVE Calls'
  BY <1>2 DEF Begin, NextSequenceNumber, Table
<1>3. ASSUME NEW a \in Api, Insert(a) PROVE Calls'
  BY <1>3 DEF Insert
<1>4. ASSUME NEW a \in Api, Send(a) PROVE Calls'
  BY <1>4 DEF Send
<1>5. ASSUME NEW a \in Api, WaitEnds(a) PROVE Calls'
  BY <1>5 DEF WaitEnds
<1>6. ASSUME NEW a \in Api, Lock(a) PROVE Calls'
  BY <1>6 DEF Lock
<1>7. ASSUME NEW a \in Api, Erase(a) PROVE Calls'
  BY <1>7 DEF Erase, Inserting
<1>8. CASE Dispatch
  BY <1>8 DEF Dispatch, Inserting, Control
<1>9. CASE ThreadStarts \/ LoopEnds \/ Reconnect \/ Handshake \/ Enable \/
          Read \/ ReadBreaks \/ Notify \/ Apply \/ Exit \/ OpenConnects \/
          OpenHandshakes \/ OpenEnables \/ ThreadCreated \/ OpenReturns \/
          Destroy \/ CloseSession \/ StopThread \/ StopReturns \/
          ServerReplies \/ ServerPushes \/ ServerDies
  BY <1>9 DEF ThreadStarts, LoopEnds, Reconnect, Handshake, Enable, Read,
     ReadBreaks, Notify, Apply, Exit, OpenConnects, OpenHandshakes, OpenEnables,
     ThreadCreated, OpenReturns, Destroy, CloseSession, StopThread, StopReturns,
     ServerReplies, Arrive, ServerPushes, ServerDies
<1>10. CASE UNCHANGED vars
  BY <1>10 DEF vars
<1>. QED
  BY <1>1, <1>2, <1>3, <1>4, <1>5, <1>6, <1>7, <1>8, <1>9, <1>10, Zenon DEF
     Next, Call, Loop, Locked, Owner, Deleted

(* Where Process() and the owner are.                                      *)
LEMMA ControlKept == TypeOK /\ [Next]_vars => Control'
<1>. SUFFICES ASSUME TypeOK, [Next]_vars
              PROVE  Control'
  OBVIOUS
<1>. USE DEF TypeOK, Control, session, server, api, process, owner, shared
<1>1. CASE Read
  <2>1. Head(inbox) \in Message
    BY <1>1, DeliverShrinks DEF Read, Wire
  <2>. QED  BY <1>1, <2>1 DEF Read
<1>2. CASE Notify
  BY <1>2 DEF Notify
<1>3. CASE Dispatch
  BY <1>3 DEF Dispatch, Inserting
<1>4. CASE Apply
  BY <1>4 DEF Apply
<1>5. ASSUME NEW a \in Api, Refused(a) \/ Begin(a) \/ Insert(a) \/ Send(a) \/
              WaitEnds(a) \/ Lock(a) \/ Erase(a)
      PROVE  Control'
  BY <1>5 DEF Refused, Begin, NextSequenceNumber, Insert, Send, WaitEnds,
     Lock, Erase, Inserting
<1>6. CASE ThreadStarts \/ LoopEnds \/ Reconnect \/ Handshake \/ Enable \/
          ReadBreaks \/ Exit \/ OpenConnects \/ OpenHandshakes \/
          OpenEnables \/ ThreadCreated \/ OpenReturns \/ Destroy \/
          CloseSession \/ StopThread \/ StopReturns \/ ServerReplies \/
          ServerPushes \/ ServerDies
  BY <1>6 DEF ThreadStarts, LoopEnds, Reconnect, Handshake, Enable,
     ReadBreaks, Exit, OpenConnects, OpenHandshakes, OpenEnables, ThreadCreated,
     OpenReturns, Destroy, CloseSession, StopThread, StopReturns, ServerReplies,
     Arrive, ServerPushes, ServerDies
<1>7. CASE UNCHANGED vars
  BY <1>7 DEF vars
<1>. QED
  BY <1>1, <1>2, <1>3, <1>4, <1>5, <1>6, <1>7, Zenon DEF Next, Call, Loop,
     Locked, Owner, Deleted

(* Every step of CHTSPData leaves its variables in their types.            *)
THEOREM TypeCorrect == Spec => []TypeOK
<1>1. Init => Flags
  BY Zenon DEF Init, S!Init, Flags
<1>2. Init => Wire /\ Table /\ Calls /\ Control
  BY DataAssumption DEF Init, S!Init, Wire, Table, Calls, Control, Busy
<1>3. TypeOK /\ [Next]_vars => TypeOK'
  BY FlagsKept, WireKept, TableKept, CallsKept, ControlKept DEF TypeOK
<1>. QED  BY <1>1, <1>2, <1>3, PTL DEF Spec, TypeOK

-----------------------------------------------------------------------------
(* A number belongs to one thread.                                         *)
Unique == \A a, b \in Api : mySeq[a] = mySeq[b] /\ mySeq[a] # 0 => a = b

(* A reply, or a request, that bears the number of a thread is about the   *)
(* call this thread made last.                                             *)
Genuine(m) ==
  /\ m.seq <= seq
  /\ m.seq # 0 => \A a \in Api : mySeq[a] = m.seq => m.by = a /\ m.n = calls[a]

(* So it is with everything on the way, and with what calls have got.      *)
Answers ==
  /\ \A r \in pend : Genuine(r)
  /\ \A i \in 1..Len(inbox) : Genuine(inbox[i])
  /\ Genuine(hand)

Delivered ==
  /\ \A a \in Api : event[a] = "set" => msg[a].by = a /\ msg[a].n = calls[a]
  /\ OwnReply

(* A new number is greater than all those given out before.                *)
LEMMA UniqueKept == TypeOK /\ Unique /\ [Next]_vars => Unique'
<1>. SUFFICES ASSUME TypeOK /\ Unique, [Next]_vars
              PROVE  Unique'
  OBVIOUS
<1>. USE DEF TypeOK, Unique, Calls, Table, session, server, api, process,
         owner, shared
<1>1. ASSUME NEW a \in Api, Begin(a) PROVE Unique'
  BY <1>1 DEF Begin, NextSequenceNumber
<1>2. ASSUME NEW a \in Api, Refused(a) \/ Insert(a) \/ Send(a) \/ WaitEnds(a)
              \/ Lock(a) \/ Erase(a)
      PROVE  Unique'
  BY <1>2 DEF Refused, Insert, Send, WaitEnds, Lock, Erase, Inserting
<1>3. CASE ThreadStarts \/ LoopEnds \/ Reconnect \/ Handshake \/ Enable \/
          Read \/ ReadBreaks \/ Notify \/ Dispatch \/ Apply \/ Exit \/
          OpenConnects \/ OpenHandshakes \/ OpenEnables \/ ThreadCreated \/
          OpenReturns \/ Destroy \/ CloseSession \/ StopThread \/
          StopReturns \/ ServerReplies \/ ServerPushes \/ ServerDies
  BY <1>3 DEF ThreadStarts, LoopEnds, Reconnect, Handshake, Enable, Read,
     ReadBreaks, Notify, Dispatch, Inserting, Apply, Exit, OpenConnects,
     OpenHandshakes, OpenEnables, ThreadCreated, OpenReturns, Destroy,
     CloseSession, StopThread, StopReturns, ServerReplies, Arrive, ServerPushes,
     ServerDies
<1>4. CASE UNCHANGED vars
  BY <1>4 DEF vars
<1>. QED
  BY <1>1, <1>2, <1>3, <1>4, Zenon DEF Next, Call, Loop, Locked, Owner,
     Deleted

(* A step does not change what a message already on the way is about.      *)
Sent == Message \cup Request \cup {NoMessage}

(* All sequence numbers are within the bound.                              *)
LEMMA SentNumbers == \A m \in Sent : m.seq \in 0..MaxSeq
<1>1. NoMessage.seq = 0
  BY DEF NoMessage
<1>. QED  BY <1>1, DataAssumption DEF Sent, Message, Request

(* What a message says of its request stays true.                          *)
LEMMA GenuineKept == TypeOK /\ [Next]_vars => (\A m \in Sent : Genuine(m) => Genuine(m)')
<1>. SUFFICES ASSUME TypeOK, [Next]_vars
              PROVE  (\A m \in Sent : Genuine(m) => Genuine(m)')
  OBVIOUS
<1>. USE SentNumbers DEF TypeOK, Genuine, Calls, Table, session, server, api,
         process, owner, shared
<1>1. ASSUME NEW a \in Api, Begin(a) PROVE (\A m \in Sent : Genuine(m) => Genuine(m)')
  BY <1>1 DEF Begin, NextSequenceNumber
<1>2. ASSUME NEW a \in Api, Refused(a) \/ Insert(a) \/ Send(a) \/ WaitEnds(a)
              \/ Lock(a) \/ Erase(a)
      PROVE  (\A m \in Sent : Genuine(m) => Genuine(m)')
  BY <1>2 DEF Refused, Insert, Send, WaitEnds, Lock, Erase, Inserting
<1>3. CASE ThreadStarts \/ LoopEnds \/ Reconnect \/ Handshake \/ Enable \/
          Read \/ ReadBreaks \/ Notify \/ Dispatch \/ Apply \/ Exit \/
          OpenConnects \/ OpenHandshakes \/ OpenEnables \/ ThreadCreated \/
          OpenReturns \/ Destroy \/ CloseSession \/ StopThread \/
          StopReturns \/ ServerReplies \/ ServerPushes \/ ServerDies
  BY <1>3 DEF ThreadStarts, LoopEnds, Reconnect, Handshake, Enable, Read,
     ReadBreaks, Notify, Dispatch, Inserting, Apply, Exit, OpenConnects,
     OpenHandshakes, OpenEnables, ThreadCreated, OpenReturns, Destroy,
     CloseSession, StopThread, StopReturns, ServerReplies, Arrive, ServerPushes,
     ServerDies
<1>4. CASE UNCHANGED vars
  BY <1>4 DEF vars
<1>. QED
  BY <1>1, <1>2, <1>3, <1>4, Zenon DEF Next, Call, Loop, Locked, Owner,
     Deleted

(* The rest of the work is to see where a step gets its messages from.     *)
LEMMA AnswersFrom ==
  ASSUME TypeOK, Answers, [Next]_vars,
         \A r \in pend' \ pend : r \in Request /\ Genuine(r)',
         InboxShrinks \/ inbox' = inbox,
         hand' \in {hand, NoMessage} \/ \E i \in 1..Len(inbox) : hand' = inbox[i]
  PROVE  Answers'
<1>1. \A m \in Sent : Genuine(m) => Genuine(m)'
  BY GenuineKept
<1>2. \A r \in pend' : Genuine(r)'
  BY <1>1 DEF Answers, Sent, TypeOK, Wire
<1>3. ASSUME NEW m \in Message, NEW i \in 1..Len(inbox), m = inbox[i] PROVE Genuine(m)'
  BY <1>1, <1>3, Zenon DEF Answers, Sent
<1>4. \A i \in 1..Len(inbox') : \E j \in 1..Len(inbox) : inbox'[i] = inbox[j]
  BY Zenon DEF InboxShrinks, Within
<1>5. ASSUME NEW i \in 1..Len(inbox') PROVE Genuine(inbox[i])'
  <2>1. PICK j \in 1..Len(inbox) : inbox'[i] = inbox[j]
    BY <1>4
  <2>2. PICK m \in Message : m = inbox[j]
    BY DEF TypeOK, Wire
  <2>3. Genuine(m)'
    BY <1>3, <2>2
  <2>. QED  BY <2>1, <2>2, <2>3 DEF Genuine
<1>6. Genuine(NoMessage)'
  <2>1. seq' \in Nat
    BY TableKept DEF Table
  <2>. QED  BY <2>1 DEF Genuine, NoMessage
<1>7. Genuine(hand)'
  <2>1. Genuine(hand) /\ hand \in Sent
    BY DEF Answers, TypeOK, Control, Sent
  <2>2. CASE hand' = hand
    BY <1>1, <2>1, <2>2 DEF Genuine
  <2>3. CASE hand' = NoMessage
    BY <1>6, <2>3 DEF Genuine
  <2>4. CASE \E i \in 1..Len(inbox) : hand' = inbox[i]
    <3>1. PICK i \in 1..Len(inbox) : hand' = inbox[i]
      BY <2>4
    <3>2. PICK m \in Message : m = inbox[i]
      BY DEF TypeOK, Wire
    <3>3. Genuine(m)'
      BY <1>3, <3>2
    <3>. QED  BY <3>1, <3>2, <3>3 DEF Genuine
  <2>. QED  BY <2>2, <2>3, <2>4
<1>. QED  BY <1>2, <1>5, <1>7 DEF Answers

(* All messages on the way stay genuine, and so does the one in hand.      *)
LEMMA AnswersKept ==
  TypeOK /\ Unique /\ Answers /\ [Next]_vars => Answers'
<1>. SUFFICES ASSUME TypeOK /\ Unique /\ Answers, [Next]_vars
              PROVE  Answers'
  OBVIOUS
<1>. USE AnswersFrom DEF session, server, api, process, owner, shared
<1>1. ASSUME NEW a \in Api, Send(a) PROVE Answers'
  <2>1. hand' = hand /\ UNCHANGED <<seq, mySeq, calls>>
    BY <1>1, Zenon DEF Send, process, shared
  <2>2. pend' \subseteq pend \cup {[seq |-> mySeq[a], by |-> a, n |-> calls[a]]} /\ Busy(a)
    BY <1>1 DEF Send, CloseSocket, Disconnect, session, server, Busy
  <2>3. [seq |-> mySeq[a], by |-> a, n |-> calls[a]] \in Request
    BY <2>2 DEF TypeOK, Calls, Request
  <2>4. Genuine([seq |-> mySeq[a], by |-> a, n |-> calls[a]])'
    BY <2>1, <2>2 DEF TypeOK, Calls, Unique, Genuine
  <2>5. InboxShrinks \/ inbox' = inbox
    BY <1>1, DisconnectShrinks, Zenon DEF TypeOK, Send, CloseSocket, session
  <2>. QED  BY <2>1, <2>2, <2>3, <2>4, <2>5, AnswersFrom
<1>2. CASE Handshake
  <2>1. pend' \subseteq pend /\ hand' = hand
    BY <1>2, Zenon DEF Handshake, HandshakeSucceeds, CloseSocket, Disconnect,
       S!TakeReply, session, server, process
  <2>2. InboxShrinks \/ inbox' = inbox
    BY <1>2, DisconnectShrinks, HandshakeShrinks, Zenon DEF TypeOK, Handshake,
       CloseSocket, session
  <2>. QED  BY <2>1, <2>2, AnswersFrom
<1>3. CASE Read
  <2>1. InboxShrinks /\ Head(inbox) = inbox[1] /\ 1 \in 1..Len(inbox)
    BY <1>3, DeliverShrinks DEF TypeOK, Read
  <2>2. pend' = pend /\ hand' = Head(inbox)
    BY <1>3, Zenon DEF Read, server
  <2>. QED  BY <2>1, <2>2, AnswersFrom
<1>4. CASE ReadBreaks
  <2>1. pend' \subseteq pend /\ hand' = hand
    BY <1>4, Zenon DEF ReadBreaks, Disconnect, session, server, process
  <2>2. InboxShrinks \/ inbox' = inbox
    BY <1>4, DisconnectShrinks, HandshakeShrinks, Zenon DEF TypeOK, ReadBreaks,
       session
  <2>. QED  BY <2>1, <2>2, AnswersFrom
<1>5. CASE Notify
  BY <1>5 DEF Notify
<1>6. CASE Dispatch
  BY <1>6 DEF Dispatch, Inserting
<1>7. CASE Apply
  BY <1>7 DEF Apply
<1>8. CASE OpenHandshakes
  <2>1. pend' \subseteq pend /\ hand' = hand
    BY <1>8, Zenon DEF OpenHandshakes, HandshakeSucceeds, CloseSocket,
       Disconnect, S!TakeReply, session, server, process
  <2>2. InboxShrinks \/ inbox' = inbox
    BY <1>8, DisconnectShrinks, HandshakeShrinks, Zenon DEF TypeOK,
       OpenHandshakes, CloseSocket, session
  <2>. QED  BY <2>1, <2>2, AnswersFrom
<1>9. CASE CloseSession
  <2>1. pend' \subseteq pend /\ hand' = hand
    BY <1>9, Zenon DEF CloseSession, CloseSocket, Disconnect, session, server,
       process
  <2>2. InboxShrinks \/ inbox' = inbox
    BY <1>9, DisconnectShrinks, HandshakeShrinks, Zenon DEF TypeOK,
       CloseSession, CloseSocket, session
  <2>. QED  BY <2>1, <2>2, AnswersFrom
<1>10. CASE ServerReplies
  <2>1. PICK m \in Message : /\ S!Arrive(m)
                            /\ Genuine(m)
    BY <1>10 DEF ServerReplies, Arrive, Answers, Genuine
  <2>2. UNCHANGED <<hand, seq, mySeq, calls>> /\ pend' \subseteq pend
    BY <1>10 DEF ServerReplies, Arrive, process, shared, api
  <2>3. /\ Len(inbox') = Len(inbox) + 1 /\ Len(inbox) \in Nat
        /\ inbox'[Len(inbox) + 1] = m
        /\ \A k \in 1..Len(inbox) : inbox'[k] = inbox[k]
    BY <2>1, ArriveAppends DEF TypeOK, Wire
  <2>4. \A i \in 1..Len(inbox') : i = Len(inbox) + 1 \/ i \in 1..Len(inbox)
    BY <2>3
  <2>5. \A i \in 1..Len(inbox') : Genuine(inbox'[i])
    BY <2>1, <2>3, <2>4 DEF Answers
  <2>. QED  BY <2>2, <2>5 DEF Answers, Genuine
<1>11. CASE ServerPushes
  <2>1. PICK m \in Message : /\ S!Arrive(m)
                            /\ Genuine(m)
    BY <1>11 DEF ServerPushes, Arrive, Genuine, TypeOK, Table
  <2>2. UNCHANGED <<hand, seq, mySeq, calls>> /\ pend' \subseteq pend
    BY <1>11 DEF ServerPushes, Arrive, process, shared, api
  <2>3. /\ Len(inbox') = Len(inbox) + 1 /\ Len(inbox) \in Nat
        /\ inbox'[Len(inbox) + 1] = m
        /\ \A k \in 1..Len(inbox) : inbox'[k] = inbox[k]
    BY <2>1, ArriveAppends DEF TypeOK, Wire
  <2>4. \A i \in 1..Len(inbox') : i = Len(inbox) + 1 \/ i \in 1..Len(inbox)
    BY <2>3
  <2>5. \A i \in 1..Len(inbox') : Genuine(inbox'[i])
    BY <2>1, <2>3, <2>4 DEF Answers
  <2>. QED  BY <2>2, <2>5 DEF Answers, Genuine
<1>12. CASE ServerDies
  BY <1>12 DEF ServerDies
<1>13. ASSUME NEW a \in Api, Refused(a) \/ Begin(a) \/ Insert(a) \/
              WaitEnds(a) \/ Lock(a) \/ Erase(a)
      PROVE  Answers'
  BY <1>13 DEF Refused, Begin, NextSequenceNumber, Insert, WaitEnds, Lock,
     Erase, Inserting
<1>14. CASE ThreadStarts \/ LoopEnds \/ Reconnect \/ Enable \/ Exit \/
          OpenConnects \/ OpenEnables \/ ThreadCreated \/ OpenReturns \/
          Destroy \/ StopThread \/ StopReturns
  BY <1>14 DEF ThreadStarts, LoopEnds, Reconnect, SocketOpens, S!Up, Enable,
     EnableAsync, Exit, OpenConnects, OpenEnables, ThreadCreated, OpenReturns,
     Destroy, StopThread, StopReturns
<1>15. CASE UNCHANGED vars
  BY <1>15 DEF vars
<1>. QED
  BY <1>1, <1>2, <1>3, <1>4, <1>5, <1>6, <1>7, <1>8, <1>9, <1>10, <1>11,
     <1>12, <1>13, <1>14, <1>15, Zenon DEF Next, Call, Loop, Locked, Owner,
     Deleted

(* Only Process() gives out a reply, to the thread whose number it bears.  *)
LEMMA DeliveredKept ==
  TypeOK /\ Answers /\ Delivered /\ [Next]_vars => Delivered'
<1>. SUFFICES ASSUME TypeOK /\ Answers /\ Delivered, [Next]_vars
              PROVE  Delivered'
  OBVIOUS
<1>. USE DEF TypeOK, Calls, Delivered, OwnReply, session, server, api,
         process, owner, shared
<1>1. ASSUME NEW a \in Api, Refused(a) PROVE Delivered'
  BY <1>1 DEF Refused
<1>2. ASSUME NEW a \in Api, Begin(a) PROVE Delivered'
  BY <1>2 DEF Begin, NextSequenceNumber
<1>3. ASSUME NEW a \in Api, WaitEnds(a) PROVE Delivered'
  BY <1>3 DEF WaitEnds
<1>4. ASSUME NEW a \in Api, Send(a) PROVE Delivered'
  BY <1>4 DEF Send
<1>5. ASSUME NEW a \in Api, Erase(a) PROVE Delivered'
  BY <1>5 DEF Erase, Inserting
<1>6. CASE Dispatch
  BY <1>6 DEF Dispatch, Inserting, Answers, Genuine, Table
<1>7. ASSUME NEW a \in Api, Insert(a) \/ Lock(a)
      PROVE  Delivered'
  BY <1>7 DEF Insert, Lock
<1>8. CASE ThreadStarts \/ LoopEnds \/ Reconnect \/ Handshake \/ Enable \/
          Read \/ ReadBreaks \/ Notify \/ Apply \/ Exit \/ OpenConnects \/
          OpenHandshakes \/ OpenEnables \/ ThreadCreated \/ OpenReturns \/
          Destroy \/ CloseSession \/ StopThread \/ StopReturns \/
          ServerReplies \/ ServerPushes \/ ServerDies
  BY <1>8 DEF ThreadStarts, LoopEnds, Reconnect, Handshake, Enable, Read,
     ReadBreaks, Notify, Apply, Exit, OpenConnects, OpenHandshakes, OpenEnables,
     ThreadCreated, OpenReturns, Destroy, CloseSession, StopThread, StopReturns,
     ServerReplies, Arrive, ServerPushes, ServerDies
<1>9. CASE UNCHANGED vars
  BY <1>9 DEF vars
<1>. QED
  BY <1>1, <1>2, <1>3, <1>4, <1>5, <1>6, <1>7, <1>8, <1>9, Zenon DEF Next,
     Call, Loop, Locked, Owner, Deleted

(***************************************************************************)
(* A call returns the reply to its own request, whatever was lost, late or *)
(* taken by the handshake, and however often the server was changed.       *)
(***************************************************************************)
THEOREM RepliesMatch == Spec => []OwnReply
<1>1. Init => Unique /\ Answers /\ Delivered
  BY DEF Init, S!Init, Unique, Answers, Genuine, NoMessage, Delivered, OwnReply
<1>2. /\ TypeOK /\ Unique /\ Answers /\ Delivered
      /\ [Next]_vars
      => (Unique /\ Answers /\ Delivered)'
  BY UniqueKept, AnswersKept, DeliveredKept
<1>3. Delivered => OwnReply
  BY DEF Delivered
<1>. QED  BY <1>1, <1>2, <1>3, TypeCorrect, PTL DEF Spec

-----------------------------------------------------------------------------
(* Whoever is in a section under m_mutex holds it.                         *)
Exclusion ==
  /\ \A a \in Api : pc[a] = "erase" => mutex = a
  /\ ppc = "notify" => mutex = "process"
  /\ opc \in {"handshake", "enable", "createWait"} => mutex = "owner"

(* The mutex is taken when it is free and given up by its holder.          *)
LEMMA ExclusionKept == TypeOK /\ Exclusion /\ [Next]_vars => Exclusion'
<1>. SUFFICES ASSUME TypeOK /\ Exclusion, [Next]_vars
              PROVE  Exclusion'
  OBVIOUS
<1>. USE DataAssumption DEF TypeOK, Calls, Exclusion, session, server, api,
         process, owner, shared
<1>1. ASSUME NEW a \in Api, Lock(a) PROVE Exclusion'
  BY <1>1 DEF Lock
<1>2. ASSUME NEW a \in Api, Erase(a) PROVE Exclusion'
  BY <1>2 DEF Erase, Inserting
<1>3. CASE Dispatch
  BY <1>3 DEF Dispatch, Inserting
<1>4. CASE Notify
  BY <1>4 DEF Notify
<1>5. CASE OpenConnects
  BY <1>5 DEF OpenConnects
<1>6. CASE OpenHandshakes
  BY <1>6 DEF OpenHandshakes
<1>7. CASE OpenEnables
  BY <1>7 DEF OpenEnables
<1>8. CASE ThreadCreated
  BY <1>8 DEF ThreadCreated
<1>9. CASE Read
  BY <1>9 DEF Read
<1>10. CASE Handshake
  BY <1>10 DEF Handshake
<1>11. ASSUME NEW a \in Api, Refused(a) \/ Begin(a) \/ Insert(a) \/ Send(a) \/
              WaitEnds(a)
      PROVE  Exclusion'
  BY <1>11 DEF Refused, Begin, NextSequenceNumber, Insert, Send, WaitEnds
<1>12. CASE ThreadStarts \/ LoopEnds \/ Reconnect \/ Enable \/ ReadBreaks \/
          Apply \/ Exit \/ OpenReturns \/ Destroy \/ CloseSession \/
          StopThread \/ StopReturns \/ ServerReplies \/ ServerPushes \/
          ServerDies
  BY <1>12 DEF ThreadStarts, LoopEnds, Reconnect, Enable, ReadBreaks, Apply,
     Exit, OpenReturns, Destroy, CloseSession, StopThread, StopReturns,
     ServerReplies, Arrive, ServerPushes, ServerDies
<1>13. CASE UNCHANGED vars
  BY <1>13 DEF vars
<1>. QED
  BY <1>1, <1>2, <1>3, <1>4, <1>5, <1>6, <1>7, <1>8, <1>9, <1>10, <1>11,
     <1>12, <1>13, Zenon DEF Next, Call, Loop, Locked, Owner, Deleted

(* A node comes with its call and goes with it.                            *)
LEMMA TableCleanKept ==
  TypeOK /\ TableClean /\ [Next]_vars => TableClean'
<1>. SUFFICES ASSUME TypeOK /\ TableClean, [Next]_vars
              PROVE  TableClean'
  OBVIOUS
<1>. USE DEF TypeOK, Calls, TableClean, Busy, session, server, api, process,
         owner, shared
<1>1. ASSUME NEW a \in Api, Begin(a) PROVE TableClean'
  BY <1>1 DEF Begin, NextSequenceNumber
<1>2. ASSUME NEW a \in Api, Insert(a) PROVE TableClean'
  BY <1>2 DEF Insert
<1>3. ASSUME NEW a \in Api, Send(a) PROVE TableClean'
  BY <1>3 DEF Send
<1>4. ASSUME NEW a \in Api, WaitEnds(a) PROVE TableClean'
  BY <1>4 DEF WaitEnds
<1>5. ASSUME NEW a \in Api, Lock(a) PROVE TableClean'
  BY <1>5 DEF Lock
<1>6. ASSUME NEW a \in Api, Erase(a) PROVE TableClean'
  BY <1>6 DEF Erase, Inserting
<1>7. ASSUME NEW a \in Api, Refused(a)
      PROVE  TableClean'
  <2>1. UNCHANGED <<m_queue, lost, mySeq, pc>>
    BY <1>7, Zenon DEF Refused
  <2>. QED  BY <2>1
<1>8. CASE ThreadStarts \/ LoopEnds \/ Reconnect \/ Handshake \/ Enable \/
          Read \/ ReadBreaks \/ Notify \/ Dispatch \/ Apply \/ Exit \/
          OpenConnects \/ OpenHandshakes \/ OpenEnables \/ ThreadCreated \/
          OpenReturns \/ Destroy \/ CloseSession \/ StopThread \/
          StopReturns \/ ServerReplies \/ ServerPushes \/ ServerDies
  <2>1. UNCHANGED <<m_queue, lost, mySeq, pc>>
    BY <1>8, Zenon DEF ThreadStarts, LoopEnds, Reconnect, Handshake, Enable,
       Read, ReadBreaks, Notify, Dispatch, Inserting, Apply, Exit, OpenConnects,
       OpenHandshakes, OpenEnables, ThreadCreated, OpenReturns, Destroy,
       CloseSession, StopThread, StopReturns, ServerReplies, Arrive,
       ServerPushes, ServerDies
  <2>. QED  BY <2>1
<1>9. CASE UNCHANGED vars
  BY <1>9 DEF vars
<1>. QED
  BY <1>1, <1>2, <1>3, <1>4, <1>5, <1>6, <1>7, <1>8, <1>9, Zenon DEF Next,
     Call, Loop, Locked, Owner, Deleted

(* Erase needs the mutex Process() holds inside Broadcast().               *)
LEMMA EventAliveKept ==
  TypeOK /\ Exclusion /\ TableClean /\ EventAlive /\ [Next]_vars => EventAlive'
<1>. SUFFICES ASSUME TypeOK /\ Exclusion /\ TableClean /\ EventAlive, [Next]_vars
              PROVE  EventAlive'
  OBVIOUS
<1>. USE DataAssumption DEF TypeOK, Calls, EventAlive, session, server, api,
         process, owner, shared
<1>1. ASSUME NEW a \in Api, Refused(a) PROVE EventAlive'
  BY <1>1 DEF Refused
<1>2. ASSUME NEW a \in Api, Begin(a) PROVE EventAlive'
  BY <1>2 DEF Begin, NextSequenceNumber, Busy
<1>3. ASSUME NEW a \in Api, Erase(a) PROVE EventAlive'
  BY <1>3 DEF Erase, Inserting, Exclusion
<1>4. CASE Dispatch
  BY <1>4 DEF Dispatch, Inserting, TableClean, Busy
<1>5. CASE Notify
  BY <1>5 DEF Notify
<1>6. CASE Read
  BY <1>6 DEF Read
<1>7. CASE Apply
  BY <1>7 DEF Apply
<1>8. CASE Reconnect
  BY <1>8 DEF Reconnect
<1>9. CASE Handshake
  BY <1>9 DEF Handshake
<1>10. CASE Enable
  BY <1>10 DEF Enable
<1>11. CASE Exit
  BY <1>11 DEF Exit
<1>12. CASE OpenEnables
  BY <1>12 DEF OpenEnables
<1>13. CASE LoopEnds
  BY <1>13 DEF LoopEnds
<1>14. CASE ThreadStarts
  BY <1>14 DEF ThreadStarts
<1>15. ASSUME NEW a \in Api, Insert(a) \/ Send(a) \/ WaitEnds(a) \/ Lock(a)
      PROVE  EventAlive'
  BY <1>15 DEF Insert, Send, WaitEnds, Lock
<1>16. CASE ReadBreaks \/ OpenConnects \/ OpenHandshakes \/ ThreadCreated \/
          OpenReturns \/ Destroy \/ CloseSession \/ StopThread \/
          StopReturns \/ ServerReplies \/ ServerPushes \/ ServerDies
  BY <1>16 DEF ReadBreaks, OpenConnects, OpenHandshakes, ThreadCreated,
     OpenReturns, Destroy, CloseSession, StopThread, StopReturns, ServerReplies,
     Arrive, ServerPushes, ServerDies
<1>17. CASE UNCHANGED vars
  BY <1>17 DEF vars
<1>. QED
  BY <1>1, <1>2, <1>3, <1>4, <1>5, <1>6, <1>7, <1>8, <1>9, <1>10, <1>11,
     <1>12, <1>13, <1>14, <1>15, <1>16, <1>17, Zenon DEF Next, Call, Loop,
     Locked, Owner, Deleted

(* The table is clean of finished calls.                                   *)
THEOREM TableStaysClean == Spec => []TableClean
<1>1. Init => TableClean
  BY DEF Init, TableClean
<1>. QED  BY <1>1, TableCleanKept, TypeCorrect, PTL DEF Spec

(* Process() never signals a deleted event.                                *)
THEOREM EventsAlive == Spec => []EventAlive
<1>1. Init => Exclusion /\ EventAlive
  BY DEF Init, Exclusion, EventAlive
<1>. QED  BY <1>1, ExclusionKept, EventAliveKept, TypeCorrect, TableStaysClean, PTL DEF Spec

-----------------------------------------------------------------------------
(* m_bRunning, the owner and Process() agree.                              *)
Life ==
  /\ m_bRunning <=> ppc \notin {"none", "starting", "done"}
  /\ ppc = "starting" => opc = "createWait"
  /\ opc \in {"new", "handshake", "enable"} => ppc = "none"
  /\ SessionOutlivesThread

(* Process() runs while the object exists, and StopThread looks first.     *)
LEMMA LifeKept == Flags /\ Life /\ [Next]_vars => Life'
<1>. SUFFICES ASSUME Flags /\ Life, [Next]_vars
              PROVE  Life'
  OBVIOUS
<1>. USE DEF Flags, Life, SessionOutlivesThread, session, server, api,
         process, owner, shared
<1>1. CASE ThreadStarts
  BY <1>1 DEF ThreadStarts
<1>2. CASE LoopEnds
  BY <1>2 DEF LoopEnds, Exists
<1>3. CASE Reconnect
  BY <1>3 DEF Reconnect
<1>4. CASE Handshake
  BY <1>4 DEF Handshake
<1>5. CASE Enable
  BY <1>5 DEF Enable
<1>6. CASE Read
  BY <1>6 DEF Read
<1>7. CASE ReadBreaks
  BY <1>7 DEF ReadBreaks
<1>8. CASE Notify
  BY <1>8 DEF Notify
<1>9. CASE Dispatch
  BY <1>9 DEF Dispatch, Inserting
<1>10. CASE Apply
  BY <1>10 DEF Apply
<1>11. CASE Exit
  BY <1>11 DEF Exit
<1>12. CASE OpenConnects
  BY <1>12 DEF OpenConnects
<1>13. CASE OpenHandshakes
  BY <1>13 DEF OpenHandshakes
<1>14. CASE OpenEnables
  BY <1>14 DEF OpenEnables
<1>15. CASE ThreadCreated
  BY <1>15 DEF ThreadCreated
<1>16. CASE OpenReturns
  BY <1>16 DEF OpenReturns
<1>17. CASE Destroy
  BY <1>17 DEF Destroy
<1>18. CASE CloseSession
  BY <1>18 DEF CloseSession
<1>19. CASE StopThread
  BY <1>19 DEF StopThread
<1>20. CASE StopReturns
  BY <1>20 DEF StopReturns
<1>21. ASSUME NEW a \in Api, Refused(a) \/ Begin(a) \/ Insert(a) \/ Send(a) \/
              WaitEnds(a) \/ Lock(a) \/ Erase(a)
      PROVE  Life'
  <2>1. UNCHANGED <<m_bRunning, ppc, opc, expired>>
    BY <1>21, Zenon DEF Refused, Begin, NextSequenceNumber, Insert, Send,
       WaitEnds, Lock, Erase, Inserting
  <2>. QED  BY <2>1
<1>22. CASE ServerReplies \/ ServerPushes \/ ServerDies
  <2>1. UNCHANGED <<m_bRunning, ppc, opc, expired>>
    BY <1>22, Zenon DEF ServerReplies, Arrive, ServerPushes, ServerDies
  <2>. QED  BY <2>1
<1>23. CASE UNCHANGED vars
  BY <1>23 DEF vars
<1>. QED
  BY <1>1, <1>2, <1>3, <1>4, <1>5, <1>6, <1>7, <1>8, <1>9, <1>10, <1>11,
     <1>12, <1>13, <1>14, <1>15, <1>16, <1>17, <1>18, <1>19, <1>20, <1>21, <1>22,
     <1>23, Zenon DEF Next, Call, Loop, Locked, Owner, Deleted

(* The session outlives the thread unless StopThread gave up waiting.      *)
THEOREM ThreadGoneFirst == Spec => []SessionOutlivesThread
<1>1. Init => Flags
  BY Zenon DEF Init, S!Init, Flags
<1>2. Init => Life
  BY DEF Init, Life, SessionOutlivesThread
<1>3. Life => SessionOutlivesThread
  BY DEF Life
<1>. QED  BY <1>1, <1>2, <1>3, FlagsKept, LifeKept, PTL DEF Spec

-----------------------------------------------------------------------------
(* Each step that touches the session is one of Session's.                 *)
LEMMA SessionStep == [Next]_vars => [S!Next]_(S!vars)
<1>. SUFFICES ASSUME [Next]_vars
              PROVE  [S!Next]_(S!vars)
  OBVIOUS
<1>. USE DEF S!vars, session, server, api, process, owner, shared
<1>1. ASSUME NEW a \in Api, Send(a) PROVE [S!Next]_(S!vars)
  BY <1>1, Zenon DEF Send, CloseSocket, Disconnect, S!Next, S!Break
<1>2. CASE Reconnect
  BY <1>2, Zenon DEF Reconnect, SocketOpens, S!Up, S!Next, S!Break
<1>3. CASE Handshake
  BY <1>3, Zenon DEF Handshake, HandshakeSucceeds, CloseSocket, Disconnect,
     S!TakeReply, S!Next, S!Break
<1>4. CASE Enable
  BY <1>4, Zenon DEF Enable, EnableAsync, S!Next, S!Break
<1>5. CASE Read
  BY <1>5, Zenon DEF Read, S!Deliver, S!Next, S!Break
<1>6. CASE ReadBreaks
  BY <1>6, Zenon DEF ReadBreaks, Disconnect, S!Next, S!Break
<1>7. CASE OpenConnects
  BY <1>7, Zenon DEF OpenConnects, SocketOpens, S!Up, S!Next, S!Break
<1>8. CASE OpenHandshakes
  BY <1>8, Zenon DEF OpenHandshakes, HandshakeSucceeds, CloseSocket,
     Disconnect, S!TakeReply, S!Next, S!Break
<1>9. CASE OpenEnables
  BY <1>9, Zenon DEF OpenEnables, EnableAsync, S!Next, S!Break
<1>10. CASE CloseSession
  BY <1>10, Zenon DEF CloseSession, CloseSocket, Disconnect, S!Next, S!Break
<1>11. CASE ServerReplies
  BY <1>11, Zenon DEF ServerReplies, Arrive, S!Arrive, S!Next, S!Break
<1>12. CASE ServerPushes
  BY <1>12, Zenon DEF ServerPushes, Arrive, S!Arrive, S!Next, S!Break
<1>13. CASE ServerDies
  BY <1>13, Zenon DEF ServerDies
<1>14. ASSUME NEW a \in Api, Refused(a) \/ Begin(a) \/ Insert(a) \/
              WaitEnds(a) \/ Lock(a) \/ Erase(a)
      PROVE  [S!Next]_(S!vars)
  BY <1>14, Zenon DEF Refused, Begin, NextSequenceNumber, Insert, WaitEnds,
     Lock, Erase, Inserting
<1>15. CASE ThreadStarts \/ LoopEnds \/ Notify \/ Dispatch \/ Apply \/ Exit \/
          ThreadCreated \/ OpenReturns \/ Destroy \/ StopThread \/
          StopReturns
  BY <1>15, Zenon DEF ThreadStarts, LoopEnds, Notify, Dispatch, Inserting,
     Apply, Exit, ThreadCreated, OpenReturns, Destroy, StopThread, StopReturns
<1>16. CASE UNCHANGED vars
  BY <1>16, Zenon DEF vars
<1>. QED
  BY <1>1, <1>2, <1>3, <1>4, <1>5, <1>6, <1>7, <1>8, <1>9, <1>10, <1>11,
     <1>12, <1>13, <1>14, <1>15, <1>16, Zenon DEF Next, Call, Loop, Locked,
     Owner, Deleted

(* The steps on the session are written as steps of Session, so what holds *)
(* of that module holds here.                                              *)
LEMMA SessionUsed == Spec => S!Spec
<1>1. Init => S!Init
  BY DEF Init
<1>. QED  BY <1>1, SessionStep, PTL DEF Spec, S!Spec

(* What SessionProofs proves of every session holds of this one.           *)
P == INSTANCE SessionProofs

(***************************************************************************)
(* Process() gets the messages of the server in the order they were sent.  *)
(***************************************************************************)
THEOREM MessagesInOrder == Spec => []S!InOrder
<1>1. P!MessageAssumption
  BY DataAssumption, MessageIds DEF P!MessageAssumption
<1>2. P!Spec => []P!InOrder
  BY <1>1, P!Ordered
<1>3. Spec => P!Spec
  BY SessionUsed DEF S!Spec, S!Init, S!Next, S!vars, S!Arrive,
     S!Deliver, S!TakeReply, S!RemoveAt, S!Up, S!Break, P!Spec, P!Init, P!Next,
     P!vars, P!Arrive, P!Deliver, P!TakeReply, P!RemoveAt, P!Up, P!Break
<1>4. P!InOrder => S!InOrder
  BY DEF P!InOrder, S!InOrder
<1>. QED  BY <1>2, <1>3, <1>4, PTL

-----------------------------------------------------------------------------
(* The tables: what the messages on the link make of them is what the server has *)

(* What a message does to one entry of a table: nothing, or it sets it to  *)
(* a value, or takes it out.  A value is {v}, or {} where there is none.   *)
(* Carries says that the messages of w turn t into s.                      *)
Carries(w, effect, t, s) ==
  \/ /\ t = s
     /\ \A j \in DOMAIN w : effect[w[j]] \in {<<>>, <<s>>}
  \/ \E i \in DOMAIN w :
       /\ effect[w[i]] = <<s>>
       /\ \A j \in DOMAIN w : j > i => effect[w[j]] \in {<<>>, <<s>>}

(* The fields a channel message may name, with their values.               *)
Bodies == UNION {[s -> {0, 1}] : s \in SUBSET Field}
EntryState == {"scheduled", "recording", "completed", "aborted"}
TableMessage ==
  [kind : {"channelUpdate"}, id : Channel, body : Bodies, lists : BOOLEAN]
  \cup [kind : {"channelDelete"}, id : Channel]
  \cup [kind : {"tagUpdate", "tagDelete"}, id : TagId]
  \cup [kind : {"dvrEntryUpdate"}, id : Entry, state : EntryState]
  \cup [kind : {"dvrEntryDelete"}, id : Entry]

(* The message is of a kind and about an entry.                            *)
About(m, id, kind) == m.kind = kind /\ m.id = id

(* The effect on a channel being there, on a field of it, on a tag being   *)
(* there, and on the state of a recording.                                 *)
ChannelEffect(c) == [m \in TableMessage |->
  IF About(m, c, "channelUpdate") THEN <<{"here"}>>
  ELSE IF About(m, c, "channelDelete") THEN <<{}>> ELSE <<>>]
FieldEffect(c, f) == [m \in TableMessage |->
  IF About(m, c, "channelUpdate") THEN IF f \in DOMAIN m.body THEN <<{m.body[f]}>> ELSE <<>>
  ELSE IF About(m, c, "channelDelete") THEN <<{}>> ELSE <<>>]
TagEffect(t) == [m \in TableMessage |->
  IF About(m, t, "tagUpdate") THEN <<{"here"}>>
  ELSE IF About(m, t, "tagDelete") THEN <<{}>> ELSE <<>>]
EntryEffect(e) == [m \in TableMessage |->
  IF About(m, e, "dvrEntryUpdate") THEN <<{m.state}>>
  ELSE IF About(m, e, "dvrEntryDelete") THEN <<{}>> ELSE <<>>]

(* What an entry is in a table.                                            *)
Here(K, x) == IF x \in K THEN {"here"} ELSE {}
ValueOf(table, x) == IF x \in DOMAIN table THEN {table[x]} ELSE {}
FieldOf(table, c, f) == IF c \in DOMAIN table THEN {table[c][f]} ELSE {}

(* The tables that know some of K.                                         *)
Tables(K, V) == UNION {[D -> V] : D \in SUBSET K}

TableTypes ==
  /\ onServer \in [channels : Tables(Channel, [Field -> {0, 1}]), tags : SUBSET TagId,
                   entries : Tables(Entry, EntryState)]
  /\ isUp \in BOOLEAN /\ wire \in Seq(TableMessage)
  /\ m_channels \in Tables(Channel, [Field -> {0, 1}])
  /\ m_tags \in Tables(Nat, {"named", Unnamed}) /\ IsFiniteSet(DOMAIN m_tags)
  /\ Named(m_tags) \subseteq TagId
  /\ m_recordings \in Tables(Entry, EntryState)
  /\ walk \in [at : Nat, sent : SUBSET Nat, on : BOOLEAN]

(* With the link up, the messages on it turn each table into the server's, *)
(* but for what was removed when the link was down.                        *)
ChannelsCarried ==
  \A c \in Channel :
    \/ c \notin DOMAIN onServer.channels /\ <<"channelDelete", c>> \in goneUnheard
    \/ /\ Carries(wire, ChannelEffect(c), Here(DOMAIN m_channels, c), Here(DOMAIN onServer.channels, c))
       /\ \A f \in Field :
            Carries(wire, FieldEffect(c, f), FieldOf(m_channels, c, f), FieldOf(onServer.channels, c, f))
TagsCarried ==
  \A t \in TagId :
    \/ t \notin onServer.tags /\ <<"tagDelete", t>> \in goneUnheard
    \/ Carries(wire, TagEffect(t), Here(Named(m_tags), t), Here(onServer.tags, t))
EntriesCarried ==
  \A e \in Entry :
    \/ e \notin DOMAIN onServer.entries /\ <<"dvrEntryDelete", e>> \in goneUnheard
    \/ Carries(wire, EntryEffect(e), ValueOf(m_recordings, e), ValueOf(onServer.entries, e))

(* With the link down the tables hold nothing else than what the server    *)
(* has or removed unheard.                                                 *)
LeftBehind ==
  /\ wire = <<>>
  /\ \A c \in DOMAIN m_channels \ DOMAIN onServer.channels : <<"channelDelete", c>> \in goneUnheard
  /\ \A e \in DOMAIN m_recordings \ DOMAIN onServer.entries : <<"dvrEntryDelete", e>> \in goneUnheard
  /\ \A t \in Named(m_tags) \ onServer.tags : <<"tagDelete", t>> \in goneUnheard

LinkHolds ==
  IF isUp THEN ChannelsCarried /\ TagsCarried /\ EntriesCarried ELSE LeftBehind

(* A message that names a part of a channel, or lists nothing, comes when   *)
(* the channel is known.                                                    *)
Partial(m) == m.kind = "channelUpdate" /\ (~m.lists \/ DOMAIN m.body # Field)
KnownFirst ==
  \A i \in DOMAIN wire :
    Partial(wire[i]) =>
      Carries(SubSeq(wire, 1, i - 1), ChannelEffect(wire[i].id), Here(DOMAIN m_channels, wire[i].id), {"here"})

(* A recording is heard of as scheduled before anything else of it, so     *)
(* that the list of recordings loses none by that message.                 *)
Starts(m) == m.kind = "dvrEntryUpdate" /\ m.state = "scheduled"
Moves(m, e) == m.kind = "dvrEntryUpdate" /\ m.id = e /\ m.state # "scheduled"
ScheduledFirst ==
  /\ \A e \in DOMAIN onServer.entries :
       onServer.entries[e] = "scheduled" =>
         e \notin Recorded(m_recordings) /\ \A j \in DOMAIN wire : ~Moves(wire[j], e)
  /\ \A i \in DOMAIN wire :
       Starts(wire[i]) =>
         /\ wire[i].id \notin Recorded(m_recordings)
         /\ \A j \in 1..(i - 1) : ~Moves(wire[j], wire[i].id)

(* The walk has made room for every index behind it, and sent every tag    *)
(* there.                                                                  *)
WalkHolds ==
  walk.on =>
    \/ "groups" \in toFetch \/ applying # NoMessageYet
    \/ /\ 0..(walk.at - 1) \subseteq DOMAIN m_tags
       /\ walk.sent = {t \in Named(m_tags) : t < walk.at}

(* (ChannelsFollow, also in the middle of a tag message.)                  *)
ChannelsKnown == copies.channels = m_channels \/ "channels" \in toFetch \/ masked

(* e is what a message does to a value that was t and is u.                 *)
Told(e, t, u) == /\ e = <<>> => u = t
                 /\ e # <<>> => e = <<u>>

(* Nothing turns t into t,                                                 *)
LEMMA CarriesEmpty ==
  ASSUME NEW effect, NEW t, NEW s
  PROVE  Carries(<<>>, effect, t, s) <=> t = s
<1>1. DOMAIN <<>> = {}
  OBVIOUS
<1>. QED  BY <1>1 DEF Carries

(* a message more turns it into what the message says,                     *)
LEMMA CarriesArrive ==
  ASSUME NEW T, NEW w \in Seq(T), NEW m \in T, NEW effect, NEW t, NEW s, NEW u,
         Told(effect[m], s, u), effect[m] = <<>> => Carries(w, effect, t, s)
  PROVE  Carries(Append(w, m), effect, t, u)
<1>1. /\ DOMAIN w = 1..Len(w) /\ DOMAIN Append(w, m) = 1..(Len(w) + 1) /\ Len(w) \in Nat
      /\ \A j \in 1..Len(w) : Append(w, m)[j] = w[j]
      /\ Append(w, m)[Len(w) + 1] = m
  BY AppendProperties
<1>. DEFINE a == Append(w, m)
<1>. HIDE DEF a
<1>2. CASE effect[m] = <<>>
  <2>1. u = s /\ Carries(w, effect, t, s)
    BY <1>2 DEF Told
  <2>2. CASE t = s /\ \A j \in DOMAIN w : effect[w[j]] \in {<<>>, <<s>>}
    <3>1. \A j \in DOMAIN a : effect[a[j]] \in {<<>>, <<s>>}
      BY <1>1, <1>2, <2>2 DEF a
    <3>. QED  BY <2>1, <2>2, <3>1 DEF Carries, a
  <2>3. ASSUME NEW i \in DOMAIN w, effect[w[i]] = <<s>>,
               \A j \in DOMAIN w : j > i => effect[w[j]] \in {<<>>, <<s>>}
        PROVE  Carries(a, effect, t, u)
    <3>1. i \in DOMAIN a /\ effect[a[i]] = <<s>>
      BY <1>1, <2>3 DEF a
    <3>2. \A j \in DOMAIN a : j > i => effect[a[j]] \in {<<>>, <<s>>}
      BY <1>1, <1>2, <2>3 DEF a
    <3>. QED  BY <2>1, <3>1, <3>2 DEF Carries
  <2>. QED  BY <2>1, <2>2, <2>3 DEF Carries, a
<1>3. CASE effect[m] # <<>>
  <2>1. effect[m] = <<u>>
    BY <1>3 DEF Told
  <2>2. Len(w) + 1 \in DOMAIN a /\ effect[a[Len(w) + 1]] = <<u>>
    BY <1>1, <2>1 DEF a
  <2>3. \A j \in DOMAIN a : ~(j > Len(w) + 1)
    BY <1>1 DEF a
  <2>. QED  BY <2>2, <2>3 DEF Carries, a
<1>. QED  BY <1>2, <1>3

(* and the first message taken out has been told to t.                     *)
LEMMA CarriesTail ==
  ASSUME NEW T, NEW w \in Seq(T), w # <<>>, NEW effect, NEW t, NEW s, NEW u,
         Told(effect[Head(w)], t, u), Carries(w, effect, t, s)
  PROVE  Carries(Tail(w), effect, u, s)
<1>1. /\ DOMAIN w = 1..Len(w) /\ DOMAIN Tail(w) = 1..(Len(w) - 1) /\ Len(w) \in Nat \ {0}
      /\ \A j \in 1..(Len(w) - 1) : Tail(w)[j] = w[j + 1]
      /\ Head(w) = w[1]
  BY HeadTailProperties, EmptySeq
<1>. DEFINE r == Tail(w)
<1>. HIDE DEF r
<1>2. \A j \in DOMAIN r : j + 1 \in DOMAIN w /\ r[j] = w[j + 1]
  BY <1>1 DEF r
<1>3. CASE t = s /\ \A j \in DOMAIN w : effect[w[j]] \in {<<>>, <<s>>}
  <2>1. effect[Head(w)] \in {<<>>, <<s>>}
    BY <1>1, <1>3
  <2>2. u = s
    BY <1>3, <2>1 DEF Told
  <2>3. \A j \in DOMAIN r : effect[r[j]] \in {<<>>, <<s>>}
    BY <1>2, <1>3
  <2>. QED  BY <2>2, <2>3 DEF Carries, r
<1>4. ASSUME NEW i \in DOMAIN w, effect[w[i]] = <<s>>,
             \A j \in DOMAIN w : j > i => effect[w[j]] \in {<<>>, <<s>>}
      PROVE  Carries(r, effect, u, s)
  <2>1. CASE i = 1
    <3>1. u = s
      <4>1. effect[Head(w)] = <<s>> /\ <<s>> # <<>>
        BY <1>1, <1>4, <2>1
      <4>2. <<s>> = <<u>>
        BY <4>1, Zenon DEF Told
      <4>. QED  BY <4>2
    <3>2. \A j \in DOMAIN r : j + 1 > i
      BY <1>1, <2>1 DEF r
    <3>3. \A j \in DOMAIN r : effect[r[j]] \in {<<>>, <<s>>}
      BY <1>2, <1>4, <3>2
    <3>. QED  BY <3>1, <3>3 DEF Carries
  <2>2. CASE i # 1
    <3>1. i - 1 \in DOMAIN r /\ r[i - 1] = w[i]
      BY <1>1, <2>2 DEF r
    <3>2. \A j \in DOMAIN r : j > i - 1 => j + 1 > i
      BY <1>1 DEF r
    <3>3. \A j \in DOMAIN r : j > i - 1 => effect[r[j]] \in {<<>>, <<s>>}
      BY <1>2, <1>4, <3>2
    <3>. QED  BY <1>4, <3>1, <3>3 DEF Carries
  <2>. QED  BY <2>1, <2>2
<1>. QED  BY <1>3, <1>4 DEF Carries, r

(* Messages of which one sets it to s, and the others nothing else,        *)
LEMMA CarriesAll ==
  ASSUME NEW w, NEW m \in Range(w), NEW effect, NEW t, NEW s, effect[m] = <<s>>,
         \A x \in Range(w) : effect[x] \in {<<>>, <<s>>}
  PROVE  Carries(w, effect, t, s)
BY DEF Carries, Range

(* messages that are about something else,                                 *)
LEMMA CarriesNothing ==
  ASSUME NEW w, NEW effect, NEW t, \A x \in Range(w) : effect[x] = <<>>
  PROVE  Carries(w, effect, t, t)
BY DEF Carries, Range

(* and messages without which t would stay.                                *)
LEMMA CarriesAway ==
  ASSUME NEW w, NEW effect, NEW t, NEW s, Carries(w, effect, t, s), t # s
  PROVE  \E i \in DOMAIN w : effect[w[i]] = <<s>>
BY DEF Carries

(* A table with an entry set,                                              *)
LEMMA WithIs ==
  ASSUME NEW f, NEW x, NEW v
  PROVE  /\ DOMAIN With(f, x, v) = DOMAIN f \cup {x}
         /\ With(f, x, v)[x] = v
         /\ \A y \in DOMAIN f : y # x => With(f, x, v)[y] = f[y]
BY DEF With

(* (of what it is made)                                                    *)
LEMMA WithTyped ==
  ASSUME NEW K, NEW V, NEW f \in Tables(K, V), NEW x \in K, NEW v \in V
  PROVE  With(f, x, v) \in Tables(K, V)
<1>1. PICK D \in SUBSET K : f \in [D -> V]
  BY DEF Tables
<1>2. With(f, x, v) \in [D \cup {x} -> V]
  BY <1>1 DEF With
<1>3. D \cup {x} \in SUBSET K
  BY <1>1
<1>. QED  BY <1>2, <1>3 DEF Tables

(* and without one.                                                        *)
LEMMA WithoutIs ==
  ASSUME NEW f, NEW x
  PROVE  /\ DOMAIN Without(f, x) = DOMAIN f \ {x}
         /\ \A y \in DOMAIN f : y # x => Without(f, x)[y] = f[y]
BY DEF Without

(* (As WithTyped.)                                                         *)
LEMMA WithoutTyped ==
  ASSUME NEW K, NEW V, NEW f \in Tables(K, V), NEW x
  PROVE  Without(f, x) \in Tables(K, V)
<1>1. PICK D \in SUBSET K : f \in [D -> V]
  BY DEF Tables
<1>2. Without(f, x) \in [D \ {x} -> V]
  BY <1>1 DEF Without
<1>3. D \ {x} \in SUBSET K
  BY <1>1
<1>. QED  BY <1>2, <1>3 DEF Tables

(* What is in a table, and                                                 *)
LEMMA TableIs ==
  ASSUME NEW K, NEW V, NEW f \in Tables(K, V)
  PROVE  DOMAIN f \subseteq K /\ \A x \in DOMAIN f : f[x] \in V
BY DEF Tables

(* the table of all there is.                                              *)
LEMMA AllIs ==
  ASSUME NEW K, NEW V, NEW f \in [K -> V]
  PROVE  f \in Tables(K, V)
BY DEF Tables

(* What a function makes of a finite set.                                  *)
LEMMA FiniteImage ==
  ASSUME NEW K, IsFiniteSet(K), NEW f, DOMAIN f = K, f = [x \in K |-> f[x]]
  PROVE  IsFiniteSet({f[x] : x \in K})
<1>. DEFINE T == {f[x] : x \in K}
<1>1. f \in [K -> T]
  OBVIOUS
<1>2. f \in Surjection(K, T)
  BY <1>1 DEF Surjection
<1>. QED  BY <1>2, FS_Surjection

(* What the messages are.                                                  *)
LEMMA MessageIs ==
  ASSUME NEW m \in TableMessage
  PROVE  /\ m.kind \in {"channelUpdate", "channelDelete", "tagUpdate", "tagDelete", "dvrEntryUpdate", "dvrEntryDelete"}
         /\ m.kind \in {"channelUpdate", "channelDelete"} => m.id \in Channel
         /\ m.kind = "channelUpdate" => /\ m.lists \in BOOLEAN /\ DOMAIN m.body \subseteq Field
                                       /\ \A f \in DOMAIN m.body : m.body[f] \in {0, 1}
         /\ m.kind \in {"tagUpdate", "tagDelete"} => m.id \in TagId
         /\ m.kind \in {"dvrEntryUpdate", "dvrEntryDelete"} => m.id \in Entry
         /\ m.kind = "dvrEntryUpdate" => m.state \in EntryState
<1>1. CASE m \in [kind : {"channelUpdate"}, id : Channel, body : Bodies, lists : BOOLEAN]
  <2>1. m.body \in Bodies
    BY <1>1
  <2>2. DOMAIN m.body \subseteq Field /\ \A f \in DOMAIN m.body : m.body[f] \in {0, 1}
    BY <2>1 DEF Bodies
  <2>. QED  BY <1>1, <2>2
<1>. QED  BY <1>1 DEF TableMessage

(* The names of a table of tags.                                           *)
LEMMA NamedWith ==
  ASSUME NEW tags, NEW t
  PROVE  /\ Named(With(tags, t, "named")) = Named(tags) \cup {t}
         /\ t \notin DOMAIN tags => Named(With(tags, t, Unnamed)) = Named(tags)
         /\ Named(Without(tags, t)) = Named(tags) \ {t}
BY DEF Named, With, Without, Unnamed

(* The tables as they are at the beginning.                                *)
LEMMA TypesBegin == TablesInit => TableTypes
<1>. SUFFICES ASSUME TablesInit PROVE TableTypes
  OBVIOUS
<1>1. [c \in Channel |-> [f \in Field |-> 0]] \in Tables(Channel, [Field -> {0, 1}])
  BY AllIs
<1>2. [e \in Entry |-> "scheduled"] \in Tables(Entry, EntryState)
  BY AllIs DEF EntryState
<1>3. /\ [t \in TagId |-> "named"] \in Tables(Nat, {"named", Unnamed})
      /\ Named([t \in TagId |-> "named"]) \subseteq TagId
  BY TablesAssumption DEF Tables, Named
<1>4. IsFiniteSet(TagId)
  BY TablesAssumption, FS_Subset
<1>5. <<>> \in Seq(TableMessage)
  OBVIOUS
<1>. QED  BY <1>1, <1>2, <1>3, <1>4, <1>5 DEF TablesInit, TableTypes, NoWalk

(* What m says of the tables is what happened to them: channels, tags and  *)
(* entries.                                                                *)
ChannelsTold(m, old, new) ==
  \A c \in Channel :
    /\ Told(ChannelEffect(c)[m], Here(DOMAIN old, c), Here(DOMAIN new, c))
    /\ \A f \in Field : Told(FieldEffect(c, f)[m], FieldOf(old, c, f), FieldOf(new, c, f))
TagsTold(m, old, new) == \A t \in TagId : Told(TagEffect(t)[m], Here(old, t), Here(new, t))
EntriesTold(m, old, new) ==
  \A e \in Entry : Told(EntryEffect(e)[m], ValueOf(old, e), ValueOf(new, e))

(* So it is when a channel is updated, at the server or here,              *)
LEMMA UpdateTold ==
  ASSUME NEW m \in TableMessage, m.kind = "channelUpdate",
         NEW old \in Tables(Channel, [Field -> {0, 1}]), NEW v \in [Field -> {0, 1}],
         \A f \in DOMAIN m.body : v[f] = m.body[f],
         DOMAIN m.body # Field =>
           m.id \in DOMAIN old /\ \A f \in Field \ DOMAIN m.body : v[f] = old[m.id][f]
  PROVE  ChannelsTold(m, old, With(old, m.id, v))
<1>. DEFINE new == With(old, m.id, v)
<1>1. m.id \in Channel /\ DOMAIN m.body \subseteq Field
  BY MessageIs
<1>2. /\ DOMAIN new = DOMAIN old \cup {m.id} /\ new[m.id] = v
      /\ \A y \in DOMAIN old : y # m.id => new[y] = old[y]
  BY DEF With
<1>. HIDE DEF new
<1>3. ASSUME NEW c \in Channel
      PROVE  /\ Told(ChannelEffect(c)[m], Here(DOMAIN old, c), Here(DOMAIN new, c))
             /\ \A f \in Field : Told(FieldEffect(c, f)[m], FieldOf(old, c, f), FieldOf(new, c, f))
  <2>1. CASE c = m.id
    <3>1. ChannelEffect(c)[m] = <<{"here"}>> /\ Here(DOMAIN new, c) = {"here"}
      BY <1>2, <2>1 DEF ChannelEffect, About, Here
    <3>2. ASSUME NEW f \in Field
          PROVE  Told(FieldEffect(c, f)[m], FieldOf(old, c, f), FieldOf(new, c, f))
      <4>1. FieldOf(new, c, f) = {v[f]}
        BY <1>2, <2>1 DEF FieldOf
      <4>2. CASE f \in DOMAIN m.body
        BY <2>1, <4>1, <4>2 DEF FieldEffect, About, Told
      <4>3. CASE f \notin DOMAIN m.body
        <5>1. FieldOf(old, c, f) = {v[f]}
          BY <2>1, <4>3 DEF FieldOf
        <5>2. FieldEffect(c, f)[m] = <<>>
          BY <2>1, <4>3 DEF FieldEffect, About
        <5>. QED  BY <4>1, <5>1, <5>2 DEF Told
      <4>. QED  BY <4>2, <4>3
    <3>. QED  BY <3>1, <3>2 DEF Told
  <2>2. CASE c # m.id
    <3>1. ChannelEffect(c)[m] = <<>> /\ \A f \in Field : FieldEffect(c, f)[m] = <<>>
      BY <2>2 DEF ChannelEffect, FieldEffect, About
    <3>2. /\ Here(DOMAIN new, c) = Here(DOMAIN old, c)
          /\ \A f \in Field : FieldOf(new, c, f) = FieldOf(old, c, f)
      BY <1>2, <2>2 DEF Here, FieldOf
    <3>. QED  BY <3>1, <3>2 DEF Told
  <2>. QED  BY <2>1, <2>2
<1>. QED  BY <1>3 DEF ChannelsTold, new

(* when it is deleted,                                                     *)
LEMMA DeleteTold ==
  ASSUME NEW m \in TableMessage, m.kind = "channelDelete",
         NEW old \in Tables(Channel, [Field -> {0, 1}])
  PROVE  ChannelsTold(m, old, Without(old, m.id))
<1>. DEFINE new == Without(old, m.id)
<1>1. /\ DOMAIN new = DOMAIN old \ {m.id}
      /\ \A y \in DOMAIN old : y # m.id => new[y] = old[y]
  BY WithoutIs
<1>. HIDE DEF new
<1>2. ASSUME NEW c \in Channel
      PROVE  /\ Told(ChannelEffect(c)[m], Here(DOMAIN old, c), Here(DOMAIN new, c))
             /\ \A f \in Field : Told(FieldEffect(c, f)[m], FieldOf(old, c, f), FieldOf(new, c, f))
  <2>1. CASE c = m.id
    BY <1>1, <2>1 DEF ChannelEffect, FieldEffect, About, Here, FieldOf, Told
  <2>2. CASE c # m.id
    <3>1. ChannelEffect(c)[m] = <<>> /\ \A f \in Field : FieldEffect(c, f)[m] = <<>>
      BY <2>2 DEF ChannelEffect, FieldEffect, About
    <3>2. /\ Here(DOMAIN new, c) = Here(DOMAIN old, c)
          /\ \A f \in Field : FieldOf(new, c, f) = FieldOf(old, c, f)
      BY <1>1, <2>2 DEF Here, FieldOf
    <3>. QED  BY <3>1, <3>2 DEF Told
  <2>. QED  BY <2>1, <2>2
<1>. QED  BY <1>2 DEF ChannelsTold, new

(* and with other messages.                                                *)
LEMMA NoChannelTold ==
  ASSUME NEW m \in TableMessage, m.kind \notin {"channelUpdate", "channelDelete"}, NEW old
  PROVE  ChannelsTold(m, old, old)
BY DEF ChannelsTold, ChannelEffect, FieldEffect, About, Told

(* The same for tags                                                       *)
LEMMA TagTold ==
  ASSUME NEW m \in TableMessage, NEW old
  PROVE  /\ m.kind = "tagUpdate" => TagsTold(m, old, old \cup {m.id})
         /\ m.kind = "tagDelete" => TagsTold(m, old, old \ {m.id})
         /\ m.kind \notin {"tagUpdate", "tagDelete"} => TagsTold(m, old, old)
<1>1. ASSUME m.kind = "tagUpdate" PROVE TagsTold(m, old, old \cup {m.id})
  BY <1>1 DEF TagsTold, TagEffect, About, Told, Here
<1>2. ASSUME m.kind = "tagDelete" PROVE TagsTold(m, old, old \ {m.id})
  BY <1>2 DEF TagsTold, TagEffect, About, Told, Here
<1>3. ASSUME m.kind \notin {"tagUpdate", "tagDelete"} PROVE TagsTold(m, old, old)
  BY <1>3 DEF TagsTold, TagEffect, About, Told
<1>. QED  BY <1>1, <1>2, <1>3

(* and entries.                                                            *)
LEMMA EntryTold ==
  ASSUME NEW m \in TableMessage, NEW old \in Tables(Entry, EntryState)
  PROVE  /\ m.kind = "dvrEntryUpdate" => EntriesTold(m, old, With(old, m.id, m.state))
         /\ m.kind = "dvrEntryDelete" => EntriesTold(m, old, Without(old, m.id))
         /\ m.kind \notin {"dvrEntryUpdate", "dvrEntryDelete"} => EntriesTold(m, old, old)
<1>1. ASSUME m.kind = "dvrEntryUpdate" PROVE EntriesTold(m, old, With(old, m.id, m.state))
  <2>1. m.id \in Entry /\ m.state \in EntryState
    BY <1>1, MessageIs
  <2>. DEFINE new == With(old, m.id, m.state)
  <2>2. /\ DOMAIN new = DOMAIN old \cup {m.id} /\ new[m.id] = m.state
        /\ \A y \in DOMAIN old : y # m.id => new[y] = old[y]
    BY DEF With
  <2>. HIDE DEF new
  <2>3. ASSUME NEW e \in Entry PROVE Told(EntryEffect(e)[m], ValueOf(old, e), ValueOf(new, e))
    <3>1. CASE e = m.id
      <4>1. EntryEffect(e)[m] = <<{m.state}>> /\ ValueOf(new, e) = {m.state}
        BY <1>1, <2>2, <3>1 DEF EntryEffect, About, ValueOf
      <4>. QED  BY <4>1 DEF Told
    <3>2. CASE e # m.id
      <4>1. EntryEffect(e)[m] = <<>> /\ ValueOf(new, e) = ValueOf(old, e)
        BY <1>1, <2>2, <3>2 DEF EntryEffect, About, ValueOf
      <4>. QED  BY <4>1 DEF Told
    <3>. QED  BY <3>1, <3>2
  <2>. QED  BY <2>3 DEF EntriesTold, new
<1>2. ASSUME m.kind = "dvrEntryDelete" PROVE EntriesTold(m, old, Without(old, m.id))
  <2>. DEFINE new == Without(old, m.id)
  <2>1. /\ DOMAIN new = DOMAIN old \ {m.id}
        /\ \A y \in DOMAIN old : y # m.id => new[y] = old[y]
    BY WithoutIs
  <2>. HIDE DEF new
  <2>2. ASSUME NEW e \in Entry PROVE Told(EntryEffect(e)[m], ValueOf(old, e), ValueOf(new, e))
    <3>1. CASE e = m.id
      BY <1>2, <2>1, <3>1 DEF EntryEffect, About, ValueOf, Told
    <3>2. CASE e # m.id
      <4>1. EntryEffect(e)[m] = <<>> /\ ValueOf(new, e) = ValueOf(old, e)
        BY <1>2, <2>1, <3>2 DEF EntryEffect, About, ValueOf
      <4>. QED  BY <4>1 DEF Told
    <3>. QED  BY <3>1, <3>2
  <2>. QED  BY <2>2 DEF EntriesTold, new
<1>3. ASSUME m.kind \notin {"dvrEntryUpdate", "dvrEntryDelete"} PROVE EntriesTold(m, old, old)
  BY <1>3 DEF EntriesTold, EntryEffect, About, Told
<1>. QED  BY <1>1, <1>2, <1>3

(* A message of the server to an add-on it is connected to.                *)
LEMMA Sending ==
  ASSUME TableTypes, LinkHolds, isUp, isUp' = isUp, NEW m \in TableMessage,
         wire' = Append(wire, m), UNCHANGED <<htspTables, goneUnheard>>,
         ChannelsTold(m, onServer.channels, onServer'.channels),
         TagsTold(m, onServer.tags, onServer'.tags),
         EntriesTold(m, onServer.entries, onServer'.entries)
  PROVE  LinkHolds'
<1>1. /\ wire \in Seq(TableMessage) /\ ChannelsCarried /\ TagsCarried /\ EntriesCarried
      /\ UNCHANGED <<m_channels, m_tags, m_recordings>>
  BY DEF TableTypes, LinkHolds, htspTables
<1>2. ChannelsCarried'
  <2>1. SUFFICES ASSUME NEW c \in Channel,
                        ~(c \notin DOMAIN onServer'.channels /\ <<"channelDelete", c>> \in goneUnheard')
                 PROVE  /\ Carries(wire', ChannelEffect(c), Here(DOMAIN m_channels', c), Here(DOMAIN onServer'.channels, c))
                        /\ \A f \in Field : Carries(wire', FieldEffect(c, f), FieldOf(m_channels', c, f), FieldOf(onServer'.channels, c, f))
    BY DEF ChannelsCarried
  <2>2. /\ Told(ChannelEffect(c)[m], Here(DOMAIN onServer.channels, c), Here(DOMAIN onServer'.channels, c))
        /\ \A f \in Field : Told(FieldEffect(c, f)[m], FieldOf(onServer.channels, c, f), FieldOf(onServer'.channels, c, f))
    BY DEF ChannelsTold
  <2>3. CASE c \notin DOMAIN onServer.channels /\ <<"channelDelete", c>> \in goneUnheard
    <3>1. c \in DOMAIN onServer'.channels
      BY <2>1, <2>3
    <3>2. ChannelEffect(c)[m] # <<>> /\ \A f \in Field : FieldEffect(c, f)[m] # <<>>
      BY <2>2, <2>3, <3>1 DEF Told, Here, FieldOf
    <3>. QED  BY <1>1, <2>2, <3>2, CarriesArrive
  <2>4. CASE /\ Carries(wire, ChannelEffect(c), Here(DOMAIN m_channels, c), Here(DOMAIN onServer.channels, c))
             /\ \A f \in Field : Carries(wire, FieldEffect(c, f), FieldOf(m_channels, c, f), FieldOf(onServer.channels, c, f))
    BY <1>1, <2>2, <2>4, CarriesArrive
  <2>. QED  BY <1>1, <2>3, <2>4 DEF ChannelsCarried
<1>3. TagsCarried'
  <2>1. SUFFICES ASSUME NEW t \in TagId,
                        ~(t \notin onServer'.tags /\ <<"tagDelete", t>> \in goneUnheard')
                 PROVE  Carries(wire', TagEffect(t), Here(Named(m_tags'), t), Here(onServer'.tags, t))
    BY DEF TagsCarried
  <2>2. Told(TagEffect(t)[m], Here(onServer.tags, t), Here(onServer'.tags, t))
    BY DEF TagsTold
  <2>3. CASE t \notin onServer.tags /\ <<"tagDelete", t>> \in goneUnheard
    <3>1. TagEffect(t)[m] # <<>>
      BY <2>1, <2>2, <2>3 DEF Told, Here
    <3>. QED  BY <1>1, <2>2, <3>1, CarriesArrive
  <2>4. CASE Carries(wire, TagEffect(t), Here(Named(m_tags), t), Here(onServer.tags, t))
    BY <1>1, <2>2, <2>4, CarriesArrive
  <2>. QED  BY <1>1, <2>3, <2>4 DEF TagsCarried
<1>4. EntriesCarried'
  <2>1. SUFFICES ASSUME NEW e \in Entry,
                        ~(e \notin DOMAIN onServer'.entries /\ <<"dvrEntryDelete", e>> \in goneUnheard')
                 PROVE  Carries(wire', EntryEffect(e), ValueOf(m_recordings', e), ValueOf(onServer'.entries, e))
    BY DEF EntriesCarried
  <2>2. Told(EntryEffect(e)[m], ValueOf(onServer.entries, e), ValueOf(onServer'.entries, e))
    BY DEF EntriesTold
  <2>3. CASE e \notin DOMAIN onServer.entries /\ <<"dvrEntryDelete", e>> \in goneUnheard
    <3>1. EntryEffect(e)[m] # <<>>
      BY <2>1, <2>2, <2>3 DEF Told, ValueOf
    <3>. QED  BY <1>1, <2>2, <3>1, CarriesArrive
  <2>4. CASE Carries(wire, EntryEffect(e), ValueOf(m_recordings, e), ValueOf(onServer.entries, e))
    BY <1>1, <2>2, <2>4, CarriesArrive
  <2>. QED  BY <1>1, <2>3, <2>4 DEF EntriesCarried
<1>. QED  BY <1>2, <1>3, <1>4 DEF LinkHolds

(* A message that Process() takes from the connection.                     *)
LEMMA Receiving ==
  ASSUME TableTypes, LinkHolds, wire # <<>>, wire' = Tail(wire), UNCHANGED <<onServer, isUp, goneUnheard>>,
         ChannelsTold(Head(wire), m_channels, m_channels'),
         TagsTold(Head(wire), Named(m_tags), Named(m_tags)'),
         EntriesTold(Head(wire), m_recordings, m_recordings')
  PROVE  LinkHolds'
<1>1. /\ wire \in Seq(TableMessage) /\ isUp /\ ChannelsCarried /\ TagsCarried /\ EntriesCarried
  BY DEF TableTypes, LinkHolds, LeftBehind
<1>2. ChannelsCarried'
  <2>1. SUFFICES ASSUME NEW c \in Channel,
                        ~(c \notin DOMAIN onServer.channels /\ <<"channelDelete", c>> \in goneUnheard)
                 PROVE  /\ Carries(wire', ChannelEffect(c), Here(DOMAIN m_channels', c), Here(DOMAIN onServer.channels, c))
                        /\ \A f \in Field : Carries(wire', FieldEffect(c, f), FieldOf(m_channels', c, f), FieldOf(onServer.channels, c, f))
    BY DEF ChannelsCarried
  <2>2. /\ Told(ChannelEffect(c)[Head(wire)], Here(DOMAIN m_channels, c), Here(DOMAIN m_channels', c))
        /\ \A f \in Field : Told(FieldEffect(c, f)[Head(wire)], FieldOf(m_channels, c, f), FieldOf(m_channels', c, f))
    BY DEF ChannelsTold
  <2>3. /\ Carries(wire, ChannelEffect(c), Here(DOMAIN m_channels, c), Here(DOMAIN onServer.channels, c))
        /\ \A f \in Field : Carries(wire, FieldEffect(c, f), FieldOf(m_channels, c, f), FieldOf(onServer.channels, c, f))
    BY <1>1, <2>1 DEF ChannelsCarried
  <2>. QED  BY <1>1, <2>2, <2>3, CarriesTail
<1>3. TagsCarried'
  <2>1. SUFFICES ASSUME NEW t \in TagId,
                        ~(t \notin onServer.tags /\ <<"tagDelete", t>> \in goneUnheard)
                 PROVE  Carries(wire', TagEffect(t), Here(Named(m_tags)', t), Here(onServer.tags, t))
    BY DEF TagsCarried
  <2>2. Told(TagEffect(t)[Head(wire)], Here(Named(m_tags), t), Here(Named(m_tags)', t))
    BY DEF TagsTold
  <2>3. Carries(wire, TagEffect(t), Here(Named(m_tags), t), Here(onServer.tags, t))
    BY <1>1, <2>1 DEF TagsCarried
  <2>. QED  BY <1>1, <2>2, <2>3, CarriesTail
<1>4. EntriesCarried'
  <2>1. SUFFICES ASSUME NEW e \in Entry,
                        ~(e \notin DOMAIN onServer.entries /\ <<"dvrEntryDelete", e>> \in goneUnheard)
                 PROVE  Carries(wire', EntryEffect(e), ValueOf(m_recordings', e), ValueOf(onServer.entries, e))
    BY DEF EntriesCarried
  <2>2. Told(EntryEffect(e)[Head(wire)], ValueOf(m_recordings, e), ValueOf(m_recordings', e))
    BY DEF EntriesTold
  <2>3. Carries(wire, EntryEffect(e), ValueOf(m_recordings, e), ValueOf(onServer.entries, e))
    BY <1>1, <2>1 DEF EntriesCarried
  <2>. QED  BY <1>1, <2>2, <2>3, CarriesTail
<1>. QED  BY <1>1, <1>2, <1>3, <1>4 DEF LinkHolds

(* The tables of the server.                                               *)
ServerTables ==
  [channels : Tables(Channel, [Field -> {0, 1}]), tags : SUBSET TagId,
   entries : Tables(Entry, EntryState)]

(* A change at the server, and m says what it is.                          *)
ServerMoves(m) ==
  /\ wire' = IF isUp THEN Append(wire, m) ELSE wire
  /\ onServer' \in ServerTables
  /\ UNCHANGED <<isUp, htspTables, applying, toFetch, copies, walk, masked, unseen>>
  /\ goneUnheard \subseteq goneUnheard' /\ (isUp => goneUnheard' = goneUnheard)
  /\ ChannelsTold(m, onServer.channels, onServer'.channels)
  /\ TagsTold(m, onServer.tags, onServer'.tags)
  /\ EntriesTold(m, onServer.entries, onServer'.entries)
  /\ Partial(m) => m.id \in DOMAIN onServer.channels
  /\ ~Starts(m)
  /\ \A e \in DOMAIN onServer'.entries :
       /\ e \in DOMAIN onServer.entries
       /\ onServer'.entries[e] = "scheduled" => onServer.entries[e] = "scheduled" /\ ~Moves(m, e)
  /\ ~isUp =>
       /\ \A c \in DOMAIN onServer.channels \ DOMAIN onServer'.channels : <<"channelDelete", c>> \in goneUnheard'
       /\ \A e \in DOMAIN onServer.entries \ DOMAIN onServer'.entries : <<"dvrEntryDelete", e>> \in goneUnheard'
       /\ \A t \in onServer.tags \ onServer'.tags : <<"tagDelete", t>> \in goneUnheard'

(* Each change at the server is one.                                       *)
LEMMA SetsChannelMoves ==
  ASSUME TableTypes, NEW c \in Channel, NEW sent \in SUBSET Field, NEW lists \in BOOLEAN,
         NEW changed \in SUBSET sent, ServerSetsChannel(c, sent, changed, lists)
  PROVE  \E m \in TableMessage : ServerMoves(m)
<1>. DEFINE table == onServer.channels
            old == IF c \in DOMAIN table THEN table[c] ELSE [f \in Field |-> 0]
            new == [f \in Field |-> IF f \in changed THEN 1 - old[f] ELSE old[f]]
            m == [kind |-> "channelUpdate", id |-> c, body |-> [f \in sent |-> new[f]], lists |-> lists]
<1>1. /\ onServer \in ServerTables /\ table \in Tables(Channel, [Field -> {0, 1}])
      /\ onServer.entries \in Tables(Entry, EntryState)
  BY DEF TableTypes, ServerTables
<1>2. old \in [Field -> {0, 1}]
  BY <1>1, TableIs
<1>3. new \in [Field -> {0, 1}] /\ \A f \in Field \ sent : new[f] = old[f]
  BY <1>2
<1>4. /\ onServer' = [onServer EXCEPT !.channels = With(table, c, new)]
      /\ wire' = IF isUp THEN Append(wire, m) ELSE wire
      /\ UNCHANGED <<isUp, htspTables, applying, toFetch, copies, walk, masked, unseen, goneUnheard>>
      /\ c \notin DOMAIN table => sent = Field /\ lists
  BY DEF ServerSetsChannel, Changes, Push
<1>5. m.body \in [sent -> {0, 1}] /\ DOMAIN m.body = sent /\ \A f \in sent : m.body[f] = new[f]
  BY <1>3
<1>6. /\ m.kind = "channelUpdate" /\ m.id = c /\ m.lists = lists
  OBVIOUS
<1>7. m \in TableMessage
  <2>1. m.body \in Bodies
    BY <1>5 DEF Bodies
  <2>2. m = [kind |-> "channelUpdate", id |-> c, body |-> m.body, lists |-> lists]
    OBVIOUS
  <2>. HIDE DEF m
  <2>. QED  BY <2>1, <2>2 DEF TableMessage
<1>8. c \in DOMAIN table => old = table[c]
  OBVIOUS
<1>. HIDE DEF m, new, old
<1>9. ChannelsTold(m, table, With(table, m.id, new))
  BY <1>1, <1>3, <1>4, <1>5, <1>6, <1>7, <1>8, UpdateTold
<1>10. With(table, c, new) \in Tables(Channel, [Field -> {0, 1}]) /\ DOMAIN With(table, c, new) = DOMAIN table \cup {c}
  BY <1>1, <1>3, WithTyped, WithIs
<1>11. /\ onServer'.channels = With(table, c, new) /\ onServer'.tags = onServer.tags
       /\ onServer'.entries = onServer.entries /\ onServer' \in ServerTables
  BY <1>1, <1>4, <1>10 DEF ServerTables
<1>12. TagsTold(m, onServer.tags, onServer.tags)
  BY <1>6, <1>7, TagTold
<1>13. EntriesTold(m, onServer.entries, onServer.entries)
  BY <1>1, <1>6, <1>7, EntryTold
<1>14. ~Starts(m) /\ \A e : ~Moves(m, e)
  BY <1>6 DEF Starts, Moves
<1>15. Partial(m) => m.id \in DOMAIN onServer.channels
  BY <1>4, <1>5, <1>6 DEF Partial
<1>. QED  BY <1>4, <1>6, <1>7, <1>9, <1>10, <1>11, <1>12, <1>13, <1>14, <1>15 DEF ServerMoves

(* (As SetsChannelMoves.)                                                  *)
LEMMA SetsTagMoves ==
  ASSUME TableTypes, NEW t \in TagId, ServerSetsTag(t)
  PROVE  \E m \in TableMessage : ServerMoves(m)
<1>. DEFINE m == [kind |-> "tagUpdate", id |-> t]
<1>1. m \in TableMessage /\ m.kind = "tagUpdate" /\ m.id = t
  BY DEF TableMessage
<1>2. /\ onServer' = [onServer EXCEPT !.tags = @ \cup {t}]
      /\ wire' = IF isUp THEN Append(wire, m) ELSE wire
      /\ UNCHANGED <<isUp, htspTables, applying, toFetch, copies, walk, masked, unseen, goneUnheard>>
  BY DEF ServerSetsTag, Changes, Push
<1>. HIDE DEF m
<1>3. onServer \in ServerTables /\ onServer.entries \in Tables(Entry, EntryState)
  BY DEF TableTypes, ServerTables
<1>4. /\ onServer'.channels = onServer.channels /\ onServer'.tags = onServer.tags \cup {t}
      /\ onServer'.entries = onServer.entries /\ onServer' \in ServerTables
  BY <1>2, <1>3 DEF ServerTables
<1>5. TagsTold(m, onServer.tags, onServer'.tags)
  BY <1>1, <1>4, TagTold
<1>6. ChannelsTold(m, onServer.channels, onServer.channels)
  BY <1>1, NoChannelTold
<1>7. EntriesTold(m, onServer.entries, onServer.entries)
  BY <1>1, <1>3, EntryTold
<1>8. ~Partial(m) /\ ~Starts(m) /\ \A e : ~Moves(m, e)
  BY <1>1 DEF Partial, Starts, Moves
<1>. QED  BY <1>1, <1>2, <1>4, <1>5, <1>6, <1>7, <1>8 DEF ServerMoves

(* (As SetsChannelMoves.)                                                  *)
LEMMA SetsEntryMoves ==
  ASSUME TableTypes, NEW e \in Entry, NEW state \in {"recording", "completed", "aborted"},
         ServerSetsEntry(e, state)
  PROVE  \E m \in TableMessage : ServerMoves(m)
<1>. DEFINE m == [kind |-> "dvrEntryUpdate", id |-> e, state |-> state]
            table == onServer.entries
<1>1. m \in TableMessage /\ m.kind = "dvrEntryUpdate" /\ m.id = e /\ m.state = state
  BY DEF TableMessage, EntryState
<1>2. /\ onServer' = [onServer EXCEPT !.entries[e] = state] /\ e \in DOMAIN table
      /\ wire' = IF isUp THEN Append(wire, m) ELSE wire
      /\ UNCHANGED <<isUp, htspTables, applying, toFetch, copies, walk, masked, unseen, goneUnheard>>
  BY DEF ServerSetsEntry, Changes, Push
<1>. HIDE DEF m
<1>3. onServer \in ServerTables /\ table \in Tables(Entry, EntryState)
  BY DEF TableTypes, ServerTables
<1>4. [table EXCEPT ![e] = state] = With(table, e, state)
  BY <1>2, <1>3 DEF With, Tables
<1>5. With(table, e, state) \in Tables(Entry, EntryState)
  BY <1>3, WithTyped DEF EntryState
<1>6. /\ onServer'.channels = onServer.channels /\ onServer'.tags = onServer.tags
      /\ onServer'.entries = With(table, e, state) /\ onServer' \in ServerTables
  BY <1>2, <1>3, <1>4, <1>5 DEF ServerTables
<1>7. TagsTold(m, onServer.tags, onServer.tags)
  BY <1>1, TagTold
<1>8. ChannelsTold(m, onServer.channels, onServer.channels)
  BY <1>1, NoChannelTold
<1>9. EntriesTold(m, table, With(table, e, state))
  BY <1>1, <1>3, EntryTold
<1>10. ~Partial(m) /\ ~Starts(m)
  BY <1>1 DEF Partial, Starts
<1>11. ASSUME NEW x \in DOMAIN onServer'.entries
       PROVE  /\ x \in DOMAIN table
              /\ onServer'.entries[x] = "scheduled" => table[x] = "scheduled" /\ ~Moves(m, x)
  BY <1>1, <1>2, <1>6, <1>11 DEF With, Moves
<1>12. DOMAIN onServer'.entries = DOMAIN table
  BY <1>2, <1>6, WithIs
<1>. QED  BY <1>1, <1>2, <1>6, <1>7, <1>8, <1>9, <1>10, <1>11, <1>12 DEF ServerMoves

(* (As SetsChannelMoves.)                                                  *)
LEMMA DeletesMoves ==
  ASSUME TableTypes, NEW kind, NEW id, ServerDeletes(kind, id)
  PROVE  \E m \in TableMessage : ServerMoves(m)
<1>. DEFINE m == [kind |-> kind, id |-> id]
<1>1. m.kind = kind /\ m.id = id
  OBVIOUS
<1>2. /\ wire' = IF isUp THEN Append(wire, m) ELSE wire
      /\ UNCHANGED <<isUp, htspTables, applying, toFetch, copies, walk, masked, unseen>>
      /\ goneUnheard' = IF isUp THEN goneUnheard ELSE goneUnheard \cup {<<kind, id>>}
  BY DEF ServerDeletes, Changes, Push
<1>3. /\ onServer \in ServerTables /\ onServer.channels \in Tables(Channel, [Field -> {0, 1}])
      /\ onServer.entries \in Tables(Entry, EntryState) /\ onServer.tags \subseteq TagId
  BY DEF TableTypes, ServerTables
<1>4. CASE kind = "channelDelete" /\ id \in DOMAIN onServer.channels
           /\ onServer' = [onServer EXCEPT !.channels = Without(@, id)]
  <2>1. id \in Channel
    BY <1>3, <1>4, TableIs
  <2>2. m \in TableMessage
    BY <1>4, <2>1 DEF TableMessage
  <2>. HIDE DEF m
  <2>3. Without(onServer.channels, id) \in Tables(Channel, [Field -> {0, 1}])
    BY <1>3, WithoutTyped
  <2>4. /\ onServer'.channels = Without(onServer.channels, id) /\ onServer'.tags = onServer.tags
        /\ onServer'.entries = onServer.entries /\ onServer' \in ServerTables
    BY <1>3, <1>4, <2>3 DEF ServerTables
  <2>5. ChannelsTold(m, onServer.channels, onServer'.channels)
    BY <1>1, <1>3, <1>4, <2>2, <2>4, DeleteTold
  <2>6. TagsTold(m, onServer.tags, onServer.tags)
    BY <1>1, <1>4, <2>2, TagTold
  <2>7. EntriesTold(m, onServer.entries, onServer.entries)
    BY <1>1, <1>3, <1>4, <2>2, EntryTold
  <2>8. ~Partial(m) /\ ~Starts(m) /\ \A e : ~Moves(m, e)
    BY <1>1, <1>4 DEF Partial, Starts, Moves
  <2>9. DOMAIN onServer.channels \ DOMAIN onServer'.channels \subseteq {id}
    BY <2>4 DEF Without
  <2>. QED  BY <1>2, <1>4, <2>2, <2>4, <2>5, <2>6, <2>7, <2>8, <2>9 DEF ServerMoves
<1>5. CASE kind = "tagDelete" /\ id \in onServer.tags /\ onServer' = [onServer EXCEPT !.tags = @ \ {id}]
  <2>1. m \in TableMessage
    BY <1>3, <1>5 DEF TableMessage
  <2>. HIDE DEF m
  <2>2. /\ onServer'.channels = onServer.channels /\ onServer'.tags = onServer.tags \ {id}
        /\ onServer'.entries = onServer.entries /\ onServer' \in ServerTables
    BY <1>3, <1>5 DEF ServerTables
  <2>3. ChannelsTold(m, onServer.channels, onServer.channels)
    BY <1>1, <1>5, <2>1, NoChannelTold
  <2>4. TagsTold(m, onServer.tags, onServer'.tags)
    BY <1>1, <1>5, <2>1, <2>2, TagTold
  <2>5. EntriesTold(m, onServer.entries, onServer.entries)
    BY <1>1, <1>3, <1>5, <2>1, EntryTold
  <2>6. ~Partial(m) /\ ~Starts(m) /\ \A e : ~Moves(m, e)
    BY <1>1, <1>5 DEF Partial, Starts, Moves
  <2>. QED  BY <1>2, <1>5, <2>1, <2>2, <2>3, <2>4, <2>5, <2>6 DEF ServerMoves
<1>6. CASE kind = "dvrEntryDelete" /\ id \in DOMAIN onServer.entries
           /\ onServer' = [onServer EXCEPT !.entries = Without(@, id)]
  <2>1. id \in Entry
    BY <1>3, <1>6, TableIs
  <2>2. m \in TableMessage
    BY <1>6, <2>1 DEF TableMessage
  <2>. HIDE DEF m
  <2>3. Without(onServer.entries, id) \in Tables(Entry, EntryState)
    BY <1>3, WithoutTyped
  <2>4. /\ onServer'.channels = onServer.channels /\ onServer'.tags = onServer.tags
        /\ onServer'.entries = Without(onServer.entries, id) /\ onServer' \in ServerTables
    BY <1>3, <1>6, <2>3 DEF ServerTables
  <2>5. ChannelsTold(m, onServer.channels, onServer.channels)
    BY <1>1, <1>6, <2>2, NoChannelTold
  <2>6. TagsTold(m, onServer.tags, onServer.tags)
    BY <1>1, <1>6, <2>2, TagTold
  <2>7. EntriesTold(m, onServer.entries, onServer'.entries)
    BY <1>1, <1>3, <1>6, <2>2, <2>4, EntryTold
  <2>8. ~Partial(m) /\ ~Starts(m) /\ \A e : ~Moves(m, e)
    BY <1>1, <1>6 DEF Partial, Starts, Moves
  <2>9. /\ DOMAIN onServer'.entries = DOMAIN onServer.entries \ {id}
        /\ \A e \in DOMAIN onServer'.entries : onServer'.entries[e] = onServer.entries[e]
    BY <2>4 DEF Without
  <2>. QED  BY <1>2, <1>6, <2>2, <2>4, <2>5, <2>6, <2>7, <2>8, <2>9 DEF ServerMoves
<1>. QED  BY <1>4, <1>5, <1>6 DEF ServerDeletes

(* The parts of the invariant that are about the server and the wire.      *)
Together == TableTypes /\ LinkHolds /\ KnownFirst /\ ScheduledFirst

(* KnownFirst with a message more, and                                     *)
LEMMA KnownOn ==
  ASSUME wire \in Seq(TableMessage), KnownFirst, NEW m \in TableMessage, wire' = Append(wire, m),
         UNCHANGED m_channels,
         Partial(m) => Carries(wire, ChannelEffect(m.id), Here(DOMAIN m_channels, m.id), {"here"})
  PROVE  KnownFirst'
<1>1. /\ DOMAIN wire = 1..Len(wire) /\ DOMAIN wire' = 1..(Len(wire) + 1) /\ Len(wire) \in Nat
      /\ \A i \in DOMAIN wire : wire'[i] = wire[i]
      /\ wire'[Len(wire) + 1] = m
  BY AppendProperties
<1>2. ASSUME NEW i \in DOMAIN wire', Partial(wire'[i])
      PROVE  Carries(SubSeq(wire', 1, i - 1), ChannelEffect(wire'[i].id),
                     Here(DOMAIN m_channels', wire'[i].id), {"here"})
  <2>1. i - 1 \in 0..Len(wire) /\ wire' \in Seq(TableMessage) /\ Len(wire') = Len(wire) + 1
    BY <1>1, AppendProperties
  <2>2. /\ SubSeq(wire', 1, i - 1) \in Seq(TableMessage) /\ Len(SubSeq(wire', 1, i - 1)) = i - 1
        /\ \A k \in 1..(i - 1) : SubSeq(wire', 1, i - 1)[k] = wire'[k]
    <3>1. i - 1 \in 0..Len(wire')
      BY <2>1
    <3>. QED  BY <2>1, <3>1, PrefixProperties
  <2>3. /\ SubSeq(wire, 1, i - 1) \in Seq(TableMessage) /\ Len(SubSeq(wire, 1, i - 1)) = i - 1
        /\ \A k \in 1..(i - 1) : SubSeq(wire, 1, i - 1)[k] = wire[k]
    BY <2>1, PrefixProperties
  <2>4. \A k \in 1..(i - 1) : SubSeq(wire', 1, i - 1)[k] = SubSeq(wire, 1, i - 1)[k]
    BY <1>1, <2>1, <2>2, <2>3
  <2>5. SubSeq(wire', 1, i - 1) = SubSeq(wire, 1, i - 1)
    BY <2>2, <2>3, <2>4, SeqEqual, Zenon
  <2>6. CASE i \in DOMAIN wire
    BY <1>1, <1>2, <2>5, <2>6 DEF KnownFirst
  <2>7. CASE i = Len(wire) + 1
    <3>1. SubSeq(wire, 1, i - 1) = wire
      BY <2>7, SubSeqFull
    <3>. QED  BY <1>1, <1>2, <2>5, <2>7, <3>1
  <2>. QED  BY <1>1, <2>6, <2>7
<1>. QED  BY <1>2 DEF KnownFirst

(* with one less.                                                          *)
LEMMA KnownTail ==
  ASSUME wire \in Seq(TableMessage), wire # <<>>, KnownFirst, wire' = Tail(wire),
         ChannelsTold(Head(wire), m_channels, m_channels')
  PROVE  KnownFirst'
<1>1. /\ DOMAIN wire = 1..Len(wire) /\ DOMAIN wire' = 1..(Len(wire) - 1) /\ Len(wire) \in Nat \ {0}
      /\ \A i \in DOMAIN wire' : i + 1 \in DOMAIN wire /\ wire'[i] = wire[i + 1]
      /\ Head(wire) = wire[1] /\ Len(wire') = Len(wire) - 1 /\ wire' \in Seq(TableMessage)
  BY HeadTailProperties, EmptySeq
<1>2. ASSUME NEW i \in DOMAIN wire', Partial(wire'[i])
      PROVE  Carries(SubSeq(wire', 1, i - 1), ChannelEffect(wire'[i].id),
                     Here(DOMAIN m_channels', wire'[i].id), {"here"})
  <2>. DEFINE p == SubSeq(wire, 1, i)
              c == wire'[i].id
  <2>1. Carries(SubSeq(wire, 1, (i + 1) - 1), ChannelEffect(wire[i + 1].id),
                Here(DOMAIN m_channels, wire[i + 1].id), {"here"})
    BY <1>1, <1>2 DEF KnownFirst
  <2>2. Carries(p, ChannelEffect(c), Here(DOMAIN m_channels, c), {"here"})
    <3>1. (i + 1) - 1 = i
      BY <1>1
    <3>. QED  BY <1>1, <2>1, <3>1
  <2>3. i \in 0..Len(wire) /\ i - 1 \in 0..Len(wire') /\ i \in Nat \ {0}
    BY <1>1
  <2>4. /\ p \in Seq(TableMessage) /\ Len(p) = i /\ \A k \in 1..i : p[k] = wire[k]
    BY <2>3, PrefixProperties
  <2>5. /\ SubSeq(wire', 1, i - 1) \in Seq(TableMessage) /\ Len(SubSeq(wire', 1, i - 1)) = i - 1
        /\ \A k \in 1..(i - 1) : SubSeq(wire', 1, i - 1)[k] = wire'[k]
    BY <1>1, <2>3, PrefixProperties
  <2>. HIDE DEF p
  <2>6. p # <<>> /\ Head(p) = Head(wire)
    BY <1>1, <2>3, <2>4
  <2>7. /\ Tail(p) \in Seq(TableMessage) /\ Len(Tail(p)) = i - 1
        /\ \A k \in 1..(i - 1) : Tail(p)[k] = p[k + 1]
    BY <2>3, <2>4, <2>6
  <2>8. \A k \in 1..(i - 1) : Tail(p)[k] = SubSeq(wire', 1, i - 1)[k]
    <3>1. \A k \in 1..(i - 1) : k \in DOMAIN wire' /\ k + 1 \in 1..i
      BY <1>1, <2>3
    <3>. QED  BY <1>1, <2>4, <2>5, <2>7, <3>1
  <2>9. Tail(p) = SubSeq(wire', 1, i - 1)
    BY <2>5, <2>7, <2>8, SeqEqual, Zenon
  <2>10. c \in Channel
    <3>1. wire'[i] \in TableMessage /\ wire'[i].kind = "channelUpdate"
      BY <1>1, <1>2 DEF Partial
    <3>. QED  BY <3>1, MessageIs
  <2>11. Told(ChannelEffect(c)[Head(p)], Here(DOMAIN m_channels, c), Here(DOMAIN m_channels', c))
    BY <2>6, <2>10 DEF ChannelsTold
  <2>. HIDE DEF c
  <2>12. Carries(Tail(p), ChannelEffect(c), Here(DOMAIN m_channels', c), {"here"})
    BY <2>2, <2>4, <2>6, <2>11, CarriesTail
  <2>. QED  BY <2>9, <2>12 DEF c
<1>. QED  BY <1>2 DEF KnownFirst

(* A change at the server keeps them.                                      *)
LEMMA ServerStep ==
  ASSUME Together, NEW m \in TableMessage, ServerMoves(m)
  PROVE  Together'
<1>1. /\ TableTypes /\ LinkHolds /\ KnownFirst /\ ScheduledFirst /\ wire \in Seq(TableMessage)
      /\ isUp \in BOOLEAN /\ UNCHANGED <<isUp, htspTables, walk>>
      /\ wire' = IF isUp THEN Append(wire, m) ELSE wire
  BY DEF Together, TableTypes, ServerMoves
<1>2. UNCHANGED <<m_channels, m_tags, m_recordings>>
  BY <1>1 DEF htspTables
<1>3. TableTypes'
  <2>1. wire' \in Seq(TableMessage)
    BY <1>1
  <2>2. onServer' \in ServerTables
    BY DEF ServerMoves
  <2>. QED  BY <1>1, <1>2, <2>1, <2>2 DEF TableTypes, ServerTables
<1>4. LinkHolds'
  <2>1. CASE isUp
    <3>1. /\ wire' = Append(wire, m) /\ isUp' = isUp /\ goneUnheard' = goneUnheard
          /\ ChannelsTold(m, onServer.channels, onServer'.channels)
          /\ TagsTold(m, onServer.tags, onServer'.tags)
          /\ EntriesTold(m, onServer.entries, onServer'.entries)
      BY <1>1, <2>1 DEF ServerMoves
    <3>. QED  BY <1>1, <2>1, <3>1, Sending
  <2>2. CASE ~isUp
    <3>1. /\ goneUnheard \subseteq goneUnheard' /\ wire' = wire /\ ~isUp'
          /\ \A c \in DOMAIN onServer.channels \ DOMAIN onServer'.channels : <<"channelDelete", c>> \in goneUnheard'
          /\ \A e \in DOMAIN onServer.entries \ DOMAIN onServer'.entries : <<"dvrEntryDelete", e>> \in goneUnheard'
          /\ \A t \in onServer.tags \ onServer'.tags : <<"tagDelete", t>> \in goneUnheard'
      BY <1>1, <2>2 DEF ServerMoves
    <3>2. LeftBehind
      BY <1>1, <2>2 DEF LinkHolds
    <3>3. LeftBehind'
      BY <1>2, <3>1, <3>2 DEF LeftBehind
    <3>. QED  BY <3>1, <3>3 DEF LinkHolds
  <2>. QED  BY <1>1, <2>1, <2>2
<1>5. KnownFirst'
  <2>1. CASE isUp
    <3>1. ASSUME Partial(m)
          PROVE  Carries(wire, ChannelEffect(m.id), Here(DOMAIN m_channels, m.id), {"here"})
      <4>1. m.id \in DOMAIN onServer.channels /\ m.id \in Channel
        BY <3>1, MessageIs DEF ServerMoves, Partial
      <4>2. Here(DOMAIN onServer.channels, m.id) = {"here"}
        BY <4>1 DEF Here
      <4>. QED  BY <1>1, <2>1, <4>1, <4>2 DEF LinkHolds, ChannelsCarried
    <3>. QED  BY <1>1, <1>2, <2>1, <3>1, KnownOn
  <2>2. CASE ~isUp
    BY <1>1, <1>2, <2>2 DEF KnownFirst
  <2>. QED  BY <1>1, <2>1, <2>2
<1>6. ScheduledFirst'
  <2>1. /\ ~Starts(m)
        /\ \A e \in DOMAIN onServer'.entries :
             /\ e \in DOMAIN onServer.entries
             /\ onServer'.entries[e] = "scheduled" => onServer.entries[e] = "scheduled" /\ ~Moves(m, e)
    BY DEF ServerMoves
  <2>2. /\ DOMAIN wire = 1..Len(wire) /\ Len(wire) \in Nat
        /\ \A i \in DOMAIN wire' : (i \in DOMAIN wire /\ wire'[i] = wire[i]) \/ wire'[i] = m
        /\ \A i \in DOMAIN wire' : i \in DOMAIN wire \/ wire'[i] = m
        /\ \A i \in DOMAIN wire : wire'[i] = wire[i]
    BY <1>1, AppendProperties
  <2>3. ASSUME NEW e \in DOMAIN onServer'.entries, onServer'.entries[e] = "scheduled"
        PROVE  e \notin Recorded(m_recordings') /\ \A j \in DOMAIN wire' : ~Moves(wire'[j], e)
    BY <1>1, <1>2, <2>1, <2>2, <2>3 DEF ScheduledFirst
  <2>4. ASSUME NEW i \in DOMAIN wire', Starts(wire'[i])
        PROVE  /\ wire'[i].id \notin Recorded(m_recordings')
               /\ \A j \in 1..(i - 1) : ~Moves(wire'[j], wire'[i].id)
    <3>1. i \in DOMAIN wire /\ wire'[i] = wire[i] /\ \A j \in 1..(i - 1) : j \in DOMAIN wire /\ wire'[j] = wire[j]
      BY <2>1, <2>2, <2>4
    <3>. QED  BY <1>1, <1>2, <2>4, <3>1 DEF ScheduledFirst
  <2>. QED  BY <2>3, <2>4 DEF ScheduledFirst
<1>. QED  BY <1>3, <1>4, <1>5, <1>6 DEF Together

(* So they begin.                                                          *)
LEMMA TogetherBegins == TablesInit => Together
<1>. SUFFICES ASSUME TablesInit PROVE Together
  OBVIOUS
<1>1. TableTypes
  BY TypesBegin
<1>2. /\ isUp /\ wire = <<>> /\ DOMAIN wire = {}
      /\ m_channels = onServer.channels /\ m_recordings = onServer.entries
      /\ Named(m_tags) = onServer.tags /\ onServer.entries = [e \in Entry |-> "scheduled"]
  BY DEF TablesInit, Named, Unnamed
<1>3. LinkHolds
  BY <1>2, CarriesEmpty DEF LinkHolds, ChannelsCarried, TagsCarried, EntriesCarried
<1>4. KnownFirst
  BY <1>2 DEF KnownFirst
<1>5. ScheduledFirst
  <2>1. Recorded(m_recordings) = {}
    BY <1>2 DEF Recorded
  <2>. QED  BY <1>2, <2>1 DEF ScheduledFirst
<1>. QED  BY <1>1, <1>3, <1>4, <1>5 DEF Together

(* What the server removed is on the connection while the table has it.    *)
LEMMA Going ==
  ASSUME TableTypes, LinkHolds, isUp, LinkDown
  PROVE  LeftBehind'
<1>1. /\ wire \in Seq(TableMessage) /\ wire' = <<>> /\ UNCHANGED <<onServer, m_channels, m_tags, m_recordings>>
      /\ goneUnheard' = goneUnheard \cup
           {<<m.kind, m.id>> : m \in {x \in ToSet(wire) :
              x.kind \in {"channelDelete", "tagDelete", "dvrEntryDelete"}}}
      /\ ChannelsCarried /\ TagsCarried /\ EntriesCarried
  BY DEF LinkDown, TableTypes, LinkHolds, htspTables
<1>2. \A i \in DOMAIN wire : wire[i] \in TableMessage /\ wire[i] \in ToSet(wire)
  BY <1>1 DEF ToSet
<1>3. ASSUME NEW i \in DOMAIN wire, wire[i].kind \in {"channelDelete", "tagDelete", "dvrEntryDelete"}
      PROVE  <<wire[i].kind, wire[i].id>> \in goneUnheard'
  BY <1>1, <1>2, <1>3
<1>4. ASSUME NEW c \in DOMAIN m_channels \ DOMAIN onServer.channels, <<"channelDelete", c>> \notin goneUnheard
      PROVE  <<"channelDelete", c>> \in goneUnheard'
  <2>1. c \in Channel
    BY <1>4, TableIs DEF TableTypes
  <2>2. Carries(wire, ChannelEffect(c), {"here"}, {})
    BY <1>1, <1>4, <2>1 DEF ChannelsCarried, Here
  <2>3. PICK i \in DOMAIN wire : ChannelEffect(c)[wire[i]] = <<{}>>
    BY <2>2, CarriesAway
  <2>4. About(wire[i], c, "channelDelete")
    BY <1>2, <2>3 DEF ChannelEffect
  <2>. QED  BY <1>3, <2>4 DEF About
<1>5. ASSUME NEW e \in DOMAIN m_recordings \ DOMAIN onServer.entries, <<"dvrEntryDelete", e>> \notin goneUnheard
      PROVE  <<"dvrEntryDelete", e>> \in goneUnheard'
  <2>1. e \in Entry
    BY <1>5, TableIs DEF TableTypes
  <2>2. Carries(wire, EntryEffect(e), {m_recordings[e]}, {})
    BY <1>1, <1>5, <2>1 DEF EntriesCarried, ValueOf
  <2>3. PICK i \in DOMAIN wire : EntryEffect(e)[wire[i]] = <<{}>>
    BY <2>2, CarriesAway
  <2>4. About(wire[i], e, "dvrEntryDelete")
    BY <1>2, <2>3 DEF EntryEffect
  <2>. QED  BY <1>3, <2>4 DEF About
<1>6. ASSUME NEW t \in Named(m_tags) \ onServer.tags, <<"tagDelete", t>> \notin goneUnheard
      PROVE  <<"tagDelete", t>> \in goneUnheard'
  <2>1. t \in TagId
    BY <1>6 DEF TableTypes
  <2>2. Carries(wire, TagEffect(t), {"here"}, {})
    BY <1>1, <1>6, <2>1 DEF TagsCarried, Here
  <2>3. PICK i \in DOMAIN wire : TagEffect(t)[wire[i]] = <<{}>>
    BY <2>2, CarriesAway
  <2>4. About(wire[i], t, "tagDelete")
    BY <1>2, <2>3 DEF TagEffect
  <2>. QED  BY <1>3, <2>4 DEF About
<1>7. Named(m_tags)' = Named(m_tags)
  BY <1>1 DEF Named
<1>. QED  BY <1>1, <1>4, <1>5, <1>6, <1>7 DEF LeftBehind

(* An outage keeps them.                                                   *)
LEMMA DownKeeps ==
  ASSUME Together, LinkDown
  PROVE  Together'
<1>1. /\ TableTypes /\ LinkHolds /\ ScheduledFirst /\ isUp /\ ~isUp' /\ wire' = <<>>
      /\ UNCHANGED <<onServer, m_channels, m_tags, m_recordings, walk>>
  BY DEF Together, LinkDown, htspTables
<1>2. DOMAIN wire' = {} /\ wire' \in Seq(TableMessage)
  BY <1>1
<1>3. TableTypes'
  <2>1. Named(m_tags)' = Named(m_tags)
    BY <1>1 DEF Named
  <2>2. isUp' \in BOOLEAN
    BY DEF LinkDown
  <2>. QED  BY <1>1, <1>2, <2>1, <2>2 DEF TableTypes
<1>4. LinkHolds'
  BY <1>1, Going DEF LinkHolds
<1>5. KnownFirst'
  BY <1>2 DEF KnownFirst
<1>6. ScheduledFirst'
  BY <1>1, <1>2 DEF ScheduledFirst, Recorded
<1>. QED  BY <1>3, <1>4, <1>5, <1>6 DEF Together

(* What the server lists when the link is up again,                        *)
TagsListed == {[kind |-> "tagUpdate", id |-> t] : t \in onServer.tags}
ChannelsListed ==
  {[kind |-> "channelUpdate", id |-> c, body |-> onServer.channels[c], lists |-> TRUE] : c \in DOMAIN onServer.channels}
EntriesListed ==
  {[kind |-> "dvrEntryUpdate", id |-> e, state |-> onServer.entries[e]] : e \in DOMAIN onServer.entries}
AllListed == TagsListed \cup ChannelsListed \cup EntriesListed

(* which are messages, and finitely many,                                  *)
LEMMA ListedMessages ==
  ASSUME TableTypes
  PROVE  /\ AllListed \subseteq TableMessage
         /\ IsFiniteSet(TagsListed) /\ IsFiniteSet(ChannelsListed) /\ IsFiniteSet(EntriesListed)
<1>1. /\ DOMAIN onServer.channels \subseteq Channel /\ DOMAIN onServer.entries \subseteq Entry
      /\ onServer.tags \subseteq TagId
      /\ \A c \in DOMAIN onServer.channels : onServer.channels[c] \in [Field -> {0, 1}]
      /\ \A e \in DOMAIN onServer.entries : onServer.entries[e] \in EntryState
  BY TableIs DEF TableTypes
<1>2. IsFiniteSet(onServer.tags) /\ IsFiniteSet(DOMAIN onServer.channels) /\ IsFiniteSet(DOMAIN onServer.entries)
  BY <1>1, TablesAssumption, FS_Subset
<1>. DEFINE tf == [t \in onServer.tags |-> [kind |-> "tagUpdate", id |-> t]]
            cf == [c \in DOMAIN onServer.channels |->
                     [kind |-> "channelUpdate", id |-> c, body |-> onServer.channels[c], lists |-> TRUE]]
            ef == [e \in DOMAIN onServer.entries |->
                     [kind |-> "dvrEntryUpdate", id |-> e, state |-> onServer.entries[e]]]
<1>3. IsFiniteSet(TagsListed)
  <2>1. TagsListed = {tf[t] : t \in onServer.tags}
    BY DEF TagsListed
  <2>2. DOMAIN tf = onServer.tags /\ tf = [t \in onServer.tags |-> tf[t]]
    OBVIOUS
  <2>. HIDE DEF tf
  <2>. QED  BY <1>2, <2>1, <2>2, FiniteImage
<1>4. IsFiniteSet(ChannelsListed)
  <2>1. ChannelsListed = {cf[c] : c \in DOMAIN onServer.channels}
    BY DEF ChannelsListed
  <2>2. DOMAIN cf = DOMAIN onServer.channels /\ cf = [c \in DOMAIN onServer.channels |-> cf[c]]
    OBVIOUS
  <2>. HIDE DEF cf
  <2>. QED  BY <1>2, <2>1, <2>2, FiniteImage
<1>5. IsFiniteSet(EntriesListed)
  <2>1. EntriesListed = {ef[e] : e \in DOMAIN onServer.entries}
    BY DEF EntriesListed
  <2>2. DOMAIN ef = DOMAIN onServer.entries /\ ef = [e \in DOMAIN onServer.entries |-> ef[e]]
    OBVIOUS
  <2>. HIDE DEF ef
  <2>. QED  BY <1>2, <2>1, <2>2, FiniteImage
<1>6. TagsListed \subseteq TableMessage
  BY <1>1 DEF TagsListed, TableMessage
<1>7. ChannelsListed \subseteq TableMessage
  <2>1. ASSUME NEW c \in DOMAIN onServer.channels
        PROVE  [kind |-> "channelUpdate", id |-> c, body |-> onServer.channels[c], lists |-> TRUE] \in TableMessage
    <3>1. onServer.channels[c] \in Bodies /\ c \in Channel
      BY <1>1 DEF Bodies
    <3>. QED  BY <3>1 DEF TableMessage
  <2>. QED  BY <2>1 DEF ChannelsListed
<1>8. EntriesListed \subseteq TableMessage
  BY <1>1 DEF EntriesListed, TableMessage
<1>. QED  BY <1>3, <1>4, <1>5, <1>6, <1>7, <1>8 DEF AllListed

(* all of them on the link,                                                *)
LEMMA UpLists ==
  ASSUME TableTypes, LinkUp
  PROVE  wire' \in Seq(TableMessage) /\ Range(wire') = AllListed
<1>. DEFINE A == SetToSeq(TagsListed)
            B == SetToSeq(ChannelsListed)
            C == SetToSeq(EntriesListed)
<1>1. wire' = A \o B \o C
  BY DEF LinkUp, TagsListed, ChannelsListed, EntriesListed
<1>2. /\ A \in Seq(TagsListed) /\ B \in Seq(ChannelsListed) /\ C \in Seq(EntriesListed)
      /\ Range(A) = TagsListed /\ Range(B) = ChannelsListed /\ Range(C) = EntriesListed
  BY ListedMessages, Listed
<1>. HIDE DEF A, B, C
<1>3. A \in Seq(TableMessage) /\ B \in Seq(TableMessage) /\ C \in Seq(TableMessage)
  BY <1>2, ListedMessages DEF AllListed
<1>4. A \o B \in Seq(TableMessage) /\ Range(A \o B) = TagsListed \cup ChannelsListed
  BY <1>2, <1>3, RangeOfConcat
<1>. DEFINE D == A \o B
<1>5. D \in Seq(TableMessage) /\ Range(D) = TagsListed \cup ChannelsListed /\ wire' = D \o C
  BY <1>1, <1>4
<1>. HIDE DEF D
<1>6. D \o C \in Seq(TableMessage)
  BY <1>3, <1>5, ConcatProperties
<1>7. Range(D \o C) = Range(D) \cup Range(C)
  BY <1>3, <1>5, RangeOfConcat
<1>. QED  BY <1>2, <1>5, <1>6, <1>7 DEF AllListed

(* and turn any tables into its own.                                       *)
LEMMA UpKeeps ==
  ASSUME Together, LinkUp
  PROVE  Together'
<1>1. /\ TableTypes /\ LeftBehind /\ ScheduledFirst /\ isUp' = TRUE
      /\ UNCHANGED <<onServer, m_channels, m_tags, m_recordings, walk, goneUnheard>>
  BY DEF Together, LinkUp, LinkHolds, htspTables, tableHistory
<1>2. wire' \in Seq(TableMessage) /\ Range(wire') = AllListed /\ AllListed \subseteq TableMessage
  BY <1>1, UpLists, ListedMessages
<1>3. \A i \in DOMAIN wire' : wire'[i] \in AllListed
  BY <1>2 DEF Range
<1>4. TableTypes'
  <2>1. Named(m_tags)' = Named(m_tags) /\ isUp' \in BOOLEAN
    BY <1>1 DEF Named
  <2>. QED  BY <1>1, <1>2, <2>1 DEF TableTypes
<1>5. /\ DOMAIN m_channels \subseteq Channel /\ DOMAIN m_recordings \subseteq Entry
      /\ \A c \in DOMAIN onServer.channels : DOMAIN onServer.channels[c] = Field
  BY <1>1, TableIs DEF TableTypes
<1>6. ASSUME NEW m \in AllListed
      PROVE  /\ m \in TableMessage
             /\ m.kind \in {"tagUpdate", "channelUpdate", "dvrEntryUpdate"}
             /\ m.kind = "tagUpdate" => m.id \in onServer.tags
             /\ m.kind = "channelUpdate" => /\ m.id \in DOMAIN onServer.channels
                                            /\ m.body = onServer.channels[m.id] /\ m.lists
             /\ m.kind = "dvrEntryUpdate" => /\ m.id \in DOMAIN onServer.entries
                                             /\ m.state = onServer.entries[m.id]
  BY <1>2, <1>6 DEF AllListed, TagsListed, ChannelsListed, EntriesListed
<1>7. ChannelsCarried'
  <2>1. SUFFICES ASSUME NEW c \in Channel,
                        ~(c \notin DOMAIN onServer.channels /\ <<"channelDelete", c>> \in goneUnheard)
                 PROVE  /\ Carries(wire', ChannelEffect(c), Here(DOMAIN m_channels, c), Here(DOMAIN onServer.channels, c))
                        /\ \A f \in Field : Carries(wire', FieldEffect(c, f), FieldOf(m_channels, c, f), FieldOf(onServer.channels, c, f))
    BY <1>1 DEF ChannelsCarried
  <2>2. CASE c \in DOMAIN onServer.channels
    <3>. DEFINE m == [kind |-> "channelUpdate", id |-> c, body |-> onServer.channels[c], lists |-> TRUE]
    <3>1. m \in AllListed /\ About(m, c, "channelUpdate") /\ m.body = onServer.channels[c]
      BY <2>2 DEF AllListed, ChannelsListed, About
    <3>. HIDE DEF m
    <3>2. ASSUME NEW x \in AllListed
          PROVE  /\ ChannelEffect(c)[x] \in {<<>>, <<{"here"}>>}
                 /\ \A f \in Field : FieldEffect(c, f)[x] \in {<<>>, <<{onServer.channels[c][f]}>>}
      BY <1>5, <1>6 DEF ChannelEffect, FieldEffect, About
    <3>3. ChannelEffect(c)[m] = <<{"here"}>>
      BY <1>2, <3>1 DEF ChannelEffect
    <3>4. \A f \in Field : FieldEffect(c, f)[m] = <<{onServer.channels[c][f]}>>
      BY <1>2, <1>5, <2>2, <3>1 DEF FieldEffect
    <3>5. /\ Here(DOMAIN onServer.channels, c) = {"here"}
          /\ \A f \in Field : FieldOf(onServer.channels, c, f) = {onServer.channels[c][f]}
      BY <2>2 DEF Here, FieldOf
    <3>6. Carries(wire', ChannelEffect(c), Here(DOMAIN m_channels, c), {"here"})
      BY <1>2, <3>1, <3>2, <3>3, CarriesAll
    <3>7. ASSUME NEW f \in Field
          PROVE  Carries(wire', FieldEffect(c, f), FieldOf(m_channels, c, f), {onServer.channels[c][f]})
      BY <1>2, <3>1, <3>2, <3>4, CarriesAll
    <3>. QED  BY <3>5, <3>6, <3>7
  <2>3. CASE c \notin DOMAIN onServer.channels
    <3>1. c \notin DOMAIN m_channels
      BY <1>1, <2>1, <2>3 DEF LeftBehind
    <3>2. /\ Here(DOMAIN onServer.channels, c) = Here(DOMAIN m_channels, c)
          /\ \A f \in Field : FieldOf(onServer.channels, c, f) = FieldOf(m_channels, c, f)
      BY <2>3, <3>1 DEF Here, FieldOf
    <3>3. ASSUME NEW x \in AllListed
          PROVE  ChannelEffect(c)[x] = <<>> /\ \A f \in Field : FieldEffect(c, f)[x] = <<>>
      BY <1>6, <2>3 DEF ChannelEffect, FieldEffect, About
    <3>. QED  BY <1>2, <3>2, <3>3, CarriesNothing
  <2>. QED  BY <2>2, <2>3
<1>8. TagsCarried'
  <2>0. Named(m_tags)' = Named(m_tags)
    BY <1>1 DEF Named
  <2>1. SUFFICES ASSUME NEW t \in TagId, ~(t \notin onServer.tags /\ <<"tagDelete", t>> \in goneUnheard)
                 PROVE  Carries(wire', TagEffect(t), Here(Named(m_tags), t), Here(onServer.tags, t))
    BY <1>1, <2>0 DEF TagsCarried
  <2>2. CASE t \in onServer.tags
    <3>. DEFINE m == [kind |-> "tagUpdate", id |-> t]
    <3>1. m \in AllListed /\ About(m, t, "tagUpdate")
      BY <2>2 DEF AllListed, TagsListed, About
    <3>. HIDE DEF m
    <3>2. ASSUME NEW x \in AllListed PROVE TagEffect(t)[x] \in {<<>>, <<{"here"}>>}
      BY <1>6 DEF TagEffect, About
    <3>3. TagEffect(t)[m] = <<{"here"}>>
      BY <1>2, <3>1 DEF TagEffect
    <3>4. Here(onServer.tags, t) = {"here"}
      BY <2>2 DEF Here
    <3>5. Carries(wire', TagEffect(t), Here(Named(m_tags), t), {"here"})
      BY <1>2, <3>1, <3>2, <3>3, CarriesAll
    <3>. QED  BY <3>4, <3>5
  <2>3. CASE t \notin onServer.tags
    <3>1. Here(onServer.tags, t) = Here(Named(m_tags), t)
      BY <1>1, <2>1, <2>3 DEF LeftBehind, Here
    <3>2. ASSUME NEW x \in AllListed PROVE TagEffect(t)[x] = <<>>
      BY <1>6, <2>3 DEF TagEffect, About
    <3>. QED  BY <1>2, <3>1, <3>2, CarriesNothing
  <2>. QED  BY <2>2, <2>3
<1>9. EntriesCarried'
  <2>1. SUFFICES ASSUME NEW e \in Entry,
                        ~(e \notin DOMAIN onServer.entries /\ <<"dvrEntryDelete", e>> \in goneUnheard)
                 PROVE  Carries(wire', EntryEffect(e), ValueOf(m_recordings, e), ValueOf(onServer.entries, e))
    BY <1>1 DEF EntriesCarried
  <2>2. CASE e \in DOMAIN onServer.entries
    <3>. DEFINE m == [kind |-> "dvrEntryUpdate", id |-> e, state |-> onServer.entries[e]]
    <3>1. m \in AllListed /\ About(m, e, "dvrEntryUpdate") /\ m.state = onServer.entries[e]
      BY <2>2 DEF AllListed, EntriesListed, About
    <3>. HIDE DEF m
    <3>2. ASSUME NEW x \in AllListed PROVE EntryEffect(e)[x] \in {<<>>, <<{onServer.entries[e]}>>}
      BY <1>6 DEF EntryEffect, About
    <3>3. EntryEffect(e)[m] = <<{onServer.entries[e]}>>
      BY <1>2, <3>1 DEF EntryEffect
    <3>4. ValueOf(onServer.entries, e) = {onServer.entries[e]}
      BY <2>2 DEF ValueOf
    <3>5. Carries(wire', EntryEffect(e), ValueOf(m_recordings, e), {onServer.entries[e]})
      BY <1>2, <3>1, <3>2, <3>3, CarriesAll
    <3>. QED  BY <3>4, <3>5
  <2>3. CASE e \notin DOMAIN onServer.entries
    <3>1. ValueOf(onServer.entries, e) = ValueOf(m_recordings, e)
      BY <1>1, <2>1, <2>3 DEF LeftBehind, ValueOf
    <3>2. ASSUME NEW x \in AllListed PROVE EntryEffect(e)[x] = <<>>
      BY <1>6, <2>3 DEF EntryEffect, About
    <3>. QED  BY <1>2, <3>1, <3>2, CarriesNothing
  <2>. QED  BY <2>2, <2>3
<1>10. LinkHolds'
  BY <1>1, <1>7, <1>8, <1>9 DEF LinkHolds
<1>11. KnownFirst'
  <2>1. \A i \in DOMAIN wire' : ~Partial(wire'[i])
    BY <1>3, <1>5, <1>6 DEF Partial
  <2>. QED  BY <2>1 DEF KnownFirst
<1>12. ScheduledFirst'
  <2>1. ASSUME NEW i \in DOMAIN wire', NEW e
        PROVE  /\ Starts(wire'[i]) => /\ wire'[i].id \in DOMAIN onServer.entries
                                      /\ onServer.entries[wire'[i].id] = "scheduled"
               /\ Moves(wire'[i], e) => e \in DOMAIN onServer.entries /\ onServer.entries[e] # "scheduled"
    BY <1>3, <1>6 DEF Starts, Moves
  <2>2. ASSUME NEW i \in DOMAIN wire', NEW j \in 1..(i - 1) PROVE j \in DOMAIN wire'
    BY <1>2
  <2>3. Recorded(m_recordings)' = Recorded(m_recordings)
    BY <1>1 DEF Recorded
  <2>4. \A e \in DOMAIN onServer.entries :
          onServer.entries[e] = "scheduled" => e \notin Recorded(m_recordings)
    BY <1>1 DEF ScheduledFirst
  <2>. QED  BY <1>1, <2>1, <2>2, <2>3, <2>4 DEF ScheduledFirst
<1>. QED  BY <1>4, <1>10, <1>11, <1>12 DEF Together

(* The tables of the add-on.                                               *)
TableTyped(channels, tags, recs) ==
  /\ channels \in Tables(Channel, [Field -> {0, 1}])
  /\ tags \in Tables(Nat, {"named", Unnamed}) /\ IsFiniteSet(DOMAIN tags) /\ Named(tags) \subseteq TagId
  /\ recs \in Tables(Entry, EntryState)

(* The next message names a part only of a channel that is known.          *)
LEMMA HeadIs ==
  ASSUME Together, wire # <<>>
  PROVE  /\ wire \in Seq(TableMessage) /\ Head(wire) \in TableMessage
         /\ TableTyped(m_channels, m_tags, m_recordings)
         /\ Partial(Head(wire)) => Head(wire).id \in DOMAIN m_channels
<1>1. /\ wire \in Seq(TableMessage) /\ Head(wire) \in TableMessage /\ 1 \in DOMAIN wire /\ Head(wire) = wire[1]
      /\ KnownFirst /\ TableTyped(m_channels, m_tags, m_recordings)
  BY DEF Together, TableTypes, TableTyped
<1>2. ASSUME Partial(Head(wire)) PROVE Head(wire).id \in DOMAIN m_channels
  <2>1. Carries(SubSeq(wire, 1, 1 - 1), ChannelEffect(wire[1].id), Here(DOMAIN m_channels, wire[1].id), {"here"})
    BY <1>1, <1>2 DEF KnownFirst
  <2>2. SubSeq(wire, 1, 1 - 1) = <<>>
    BY <1>1
  <2>3. Here(DOMAIN m_channels, wire[1].id) = {"here"}
    <3>. DEFINE t == Here(DOMAIN m_channels, wire[1].id)
                effect == ChannelEffect(wire[1].id)
    <3>1. Carries(<<>>, effect, t, {"here"})
      BY <2>1, <2>2
    <3>. HIDE DEF t, effect
    <3>2. t = {"here"}
      BY <3>1, CarriesEmpty
    <3>. QED  BY <3>2 DEF t
  <2>. QED  BY <1>1, <2>3 DEF Here
<1>. QED  BY <1>1, <1>2

(* A message taken from the link and told to the tables keeps them:        *)
LEMMA ReceiveStep ==
  ASSUME Together, wire # <<>>, wire' = Tail(wire), UNCHANGED <<onServer, isUp, goneUnheard, walk>>,
         TableTyped(m_channels', m_tags', m_recordings'),
         ChannelsTold(Head(wire), m_channels, m_channels'),
         TagsTold(Head(wire), Named(m_tags), Named(m_tags')),
         EntriesTold(Head(wire), m_recordings, m_recordings'),
         \A e \in Recorded(m_recordings') : e \in Recorded(m_recordings) \/ Moves(Head(wire), e)
  PROVE  Together'
<1>1. /\ TableTypes /\ LinkHolds /\ KnownFirst /\ ScheduledFirst
      /\ Named(m_tags)' = Named(m_tags') /\ Recorded(m_recordings)' = Recorded(m_recordings')
  BY DEF Together, Named, Recorded
<1>2. /\ wire \in Seq(TableMessage) /\ wire' \in Seq(TableMessage) /\ Head(wire) = wire[1]
      /\ DOMAIN wire = 1..Len(wire) /\ DOMAIN wire' = 1..(Len(wire) - 1) /\ Len(wire) \in Nat
      /\ \A i \in DOMAIN wire' : i + 1 \in DOMAIN wire /\ wire'[i] = wire[i + 1]
      /\ 1 \in DOMAIN wire
  BY <1>1, HeadTailProperties, EmptySeq DEF TableTypes
<1>3. TableTypes'
  BY <1>1, <1>2 DEF TableTypes, TableTyped
<1>4. LinkHolds'
  BY <1>1, Receiving
<1>5. KnownFirst'
  BY <1>1, <1>2, KnownTail
<1>6. ScheduledFirst'
  <2>1. ASSUME NEW e \in DOMAIN onServer.entries, onServer.entries[e] = "scheduled"
        PROVE  e \notin Recorded(m_recordings') /\ \A j \in DOMAIN wire' : ~Moves(wire'[j], e)
    <3>1. e \notin Recorded(m_recordings) /\ \A j \in DOMAIN wire : ~Moves(wire[j], e)
      BY <1>1, <2>1 DEF ScheduledFirst
    <3>. QED  BY <1>2, <3>1
  <2>2. ASSUME NEW i \in DOMAIN wire', Starts(wire'[i])
        PROVE  /\ wire'[i].id \notin Recorded(m_recordings')
               /\ \A j \in 1..(i - 1) : ~Moves(wire'[j], wire'[i].id)
    <3>1. /\ wire'[i].id \notin Recorded(m_recordings)
          /\ \A j \in 1..((i + 1) - 1) : ~Moves(wire[j], wire'[i].id)
      BY <1>1, <1>2, <2>2 DEF ScheduledFirst
    <3>2. 1 \in 1..((i + 1) - 1) /\ \A j \in 1..(i - 1) : j \in DOMAIN wire' /\ j + 1 \in 1..((i + 1) - 1)
      BY <1>2
    <3>. QED  BY <1>2, <3>1, <3>2
  <2>. QED  BY <1>1, <2>1, <2>2 DEF ScheduledFirst
<1>. QED  BY <1>3, <1>4, <1>5, <1>6 DEF Together

(* each of the handlers does so.                                           *)
LEMMA UpdateKeeps ==
  ASSUME Together, ParseChannelUpdate
  PROVE  Together'
<1>. DEFINE m == Head(wire)
            v == Updated(ChannelOf(m.id), m.body)
<1>1. /\ wire # <<>> /\ m.kind = "channelUpdate" /\ wire' = Tail(wire)
      /\ m_channels' = With(m_channels, m.id, v)
      /\ UNCHANGED <<onServer, isUp, goneUnheard, walk, m_tags, m_recordings>>
  BY DEF ParseChannelUpdate, Receives
<1>2. /\ wire \in Seq(TableMessage) /\ m \in TableMessage
      /\ TableTyped(m_channels, m_tags, m_recordings)
      /\ Partial(m) => m.id \in DOMAIN m_channels
  BY <1>1, HeadIs
<1>3. m.id \in Channel /\ DOMAIN m.body \subseteq Field /\ \A f \in DOMAIN m.body : m.body[f] \in {0, 1}
  BY <1>1, <1>2, MessageIs
<1>4. ChannelOf(m.id) \in [Field -> {0, 1}]
  BY <1>2, TableIs DEF TableTyped, ChannelOf
<1>5. v \in [Field -> {0, 1}]
  BY <1>3, <1>4 DEF Updated
<1>6. /\ \A f \in DOMAIN m.body : v[f] = m.body[f]
      /\ \A f \in Field \ DOMAIN m.body : v[f] = ChannelOf(m.id)[f]
  BY <1>3 DEF Updated
<1>7. DOMAIN m.body # Field =>
        m.id \in DOMAIN m_channels /\ \A f \in Field \ DOMAIN m.body : v[f] = m_channels[m.id][f]
  BY <1>1, <1>2, <1>6 DEF Partial, ChannelOf
<1>. HIDE DEF m, v
<1>8. With(m_channels, m.id, v) \in Tables(Channel, [Field -> {0, 1}])
  BY <1>2, <1>3, <1>5, WithTyped DEF TableTyped
<1>9. ChannelsTold(m, m_channels, With(m_channels, m.id, v))
  BY <1>1, <1>2, <1>5, <1>6, <1>7, UpdateTold DEF TableTyped
<1>10. TagsTold(m, Named(m_tags), Named(m_tags')) /\ EntriesTold(m, m_recordings, m_recordings')
  BY <1>1, <1>2, TagTold, EntryTold DEF TableTyped
<1>11. TableTyped(m_channels', m_tags', m_recordings')
  BY <1>1, <1>2, <1>8 DEF TableTyped
<1>. QED  BY <1>1, <1>9, <1>10, <1>11, ReceiveStep DEF m

(* (As UpdateKeeps.)                                                       *)
LEMMA RemoveKeeps ==
  ASSUME Together, ParseChannelRemove
  PROVE  Together'
<1>. DEFINE m == Head(wire)
<1>1. /\ wire # <<>> /\ m.kind = "channelDelete" /\ wire' = Tail(wire)
      /\ m_channels' = Without(m_channels, m.id)
      /\ UNCHANGED <<onServer, isUp, goneUnheard, walk, m_tags, m_recordings>>
  BY DEF ParseChannelRemove, Receives
<1>2. m \in TableMessage /\ TableTyped(m_channels, m_tags, m_recordings)
  BY <1>1, HeadIs
<1>. HIDE DEF m
<1>3. Without(m_channels, m.id) \in Tables(Channel, [Field -> {0, 1}])
  BY <1>2, WithoutTyped DEF TableTyped
<1>4. ChannelsTold(m, m_channels, Without(m_channels, m.id))
  BY <1>1, <1>2, DeleteTold DEF TableTyped
<1>5. TagsTold(m, Named(m_tags), Named(m_tags')) /\ EntriesTold(m, m_recordings, m_recordings')
  BY <1>1, <1>2, TagTold, EntryTold DEF TableTyped
<1>6. TableTyped(m_channels', m_tags', m_recordings')
  BY <1>1, <1>2, <1>3 DEF TableTyped
<1>. QED  BY <1>1, <1>4, <1>5, <1>6, ReceiveStep DEF m

(* (As UpdateKeeps.)                                                       *)
LEMMA TagKeeps ==
  ASSUME Together, NEW kind \in {"tagUpdate", "tagDelete"}, ParseTag(kind)
  PROVE  Together'
<1>. DEFINE m == Head(wire)
<1>1. /\ wire # <<>> /\ m.kind = kind /\ wire' = Tail(wire)
      /\ m_tags' = IF kind = "tagUpdate" THEN With(m_tags, m.id, "named") ELSE Without(m_tags, m.id)
      /\ UNCHANGED <<onServer, isUp, goneUnheard, walk, m_channels, m_recordings>>
  BY DEF ParseTag, Receives
<1>2. m \in TableMessage /\ TableTyped(m_channels, m_tags, m_recordings)
  BY <1>1, HeadIs
<1>. HIDE DEF m
<1>3. m.id \in TagId /\ m.id \in Nat
  BY <1>1, <1>2, MessageIs, TablesAssumption
<1>4. ChannelsTold(m, m_channels, m_channels') /\ EntriesTold(m, m_recordings, m_recordings')
  BY <1>1, <1>2, NoChannelTold, EntryTold DEF TableTyped
<1>5. CASE kind = "tagUpdate"
  <2>1. m_tags' = With(m_tags, m.id, "named")
    BY <1>1, <1>5
  <2>2. m_tags' \in Tables(Nat, {"named", Unnamed}) /\ IsFiniteSet(DOMAIN m_tags')
    <3>1. With(m_tags, m.id, "named") \in Tables(Nat, {"named", Unnamed})
      BY <1>2, <1>3, WithTyped DEF TableTyped
    <3>2. DOMAIN m_tags' = DOMAIN m_tags \cup {m.id}
      BY <2>1 DEF With
    <3>. QED  BY <1>2, <2>1, <3>1, <3>2, FS_AddElement DEF TableTyped
  <2>3. Named(m_tags') = Named(m_tags) \cup {m.id}
    BY <2>1, NamedWith
  <2>4. TableTyped(m_channels', m_tags', m_recordings')
    BY <1>1, <1>2, <1>3, <2>2, <2>3 DEF TableTyped
  <2>5. TagsTold(m, Named(m_tags), Named(m_tags'))
    BY <1>1, <1>2, <1>5, <2>3, TagTold
  <2>. QED  BY <1>1, <1>4, <2>4, <2>5, ReceiveStep DEF m
<1>6. CASE kind = "tagDelete"
  <2>1. m_tags' = Without(m_tags, m.id)
    BY <1>1, <1>6
  <2>2. m_tags' \in Tables(Nat, {"named", Unnamed}) /\ IsFiniteSet(DOMAIN m_tags')
    <3>1. DOMAIN m_tags' \in SUBSET DOMAIN m_tags
      BY <2>1 DEF Without
    <3>. QED  BY <1>2, <2>1, <3>1, WithoutTyped, FS_Subset DEF TableTyped
  <2>3. Named(m_tags') = Named(m_tags) \ {m.id}
    BY <2>1, NamedWith
  <2>4. TableTyped(m_channels', m_tags', m_recordings')
    BY <1>1, <1>2, <2>2, <2>3 DEF TableTyped
  <2>5. TagsTold(m, Named(m_tags), Named(m_tags'))
    BY <1>1, <1>2, <1>6, <2>3, TagTold
  <2>. QED  BY <1>1, <1>4, <2>4, <2>5, ReceiveStep DEF m
<1>. QED  BY <1>5, <1>6

(* (As UpdateKeeps.)                                                       *)
LEMMA EntryKeeps ==
  ASSUME Together, ParseDVREntryUpdate \/ ParseDVREntryDelete
  PROVE  Together'
<1>. DEFINE m == Head(wire)
<1>1. /\ wire # <<>> /\ wire' = Tail(wire)
      /\ UNCHANGED <<onServer, isUp, goneUnheard, walk, m_channels, m_tags>>
      /\ \/ m.kind = "dvrEntryUpdate" /\ m_recordings' = With(m_recordings, m.id, m.state)
         \/ m.kind = "dvrEntryDelete" /\ m_recordings' = Without(m_recordings, m.id)
  BY DEF ParseDVREntryUpdate, ParseDVREntryDelete, Receives
<1>2. m \in TableMessage /\ TableTyped(m_channels, m_tags, m_recordings)
  BY <1>1, HeadIs
<1>. HIDE DEF m
<1>3. TagsTold(m, Named(m_tags), Named(m_tags')) /\ ChannelsTold(m, m_channels, m_channels')
  BY <1>1, <1>2, NoChannelTold, TagTold
<1>4. CASE m.kind = "dvrEntryUpdate" /\ m_recordings' = With(m_recordings, m.id, m.state)
  <2>1. m.id \in Entry /\ m.state \in EntryState
    BY <1>2, <1>4, MessageIs
  <2>2. m_recordings' \in Tables(Entry, EntryState)
    BY <1>2, <1>4, <2>1, WithTyped DEF TableTyped
  <2>3. TableTyped(m_channels', m_tags', m_recordings')
    BY <1>1, <1>2, <2>2 DEF TableTyped
  <2>4. EntriesTold(m, m_recordings, m_recordings')
    BY <1>2, <1>4, EntryTold DEF TableTyped
  <2>5. \A e \in Recorded(m_recordings') : e \in Recorded(m_recordings) \/ Moves(m, e)
    BY <1>4 DEF With, Recorded, Moves
  <2>. QED  BY <1>1, <1>3, <2>3, <2>4, <2>5, ReceiveStep DEF m
<1>5. CASE m.kind = "dvrEntryDelete" /\ m_recordings' = Without(m_recordings, m.id)
  <2>1. m_recordings' \in Tables(Entry, EntryState)
    BY <1>2, <1>5, WithoutTyped DEF TableTyped
  <2>2. TableTyped(m_channels', m_tags', m_recordings')
    BY <1>1, <1>2, <2>1 DEF TableTyped
  <2>3. EntriesTold(m, m_recordings, m_recordings')
    BY <1>2, <1>5, EntryTold DEF TableTyped
  <2>4. \A e \in Recorded(m_recordings') : e \in Recorded(m_recordings) \/ Moves(m, e)
    BY <1>5 DEF Without, Recorded
  <2>. QED  BY <1>1, <1>3, <2>2, <2>3, <2>4, ReceiveStep DEF m
<1>. QED  BY <1>1, <1>4, <1>5

(* The parts of the invariant that are about the lists of XBMC.            *)
CopiesTyped == DOMAIN copies = {"channels", "groups", "timers", "recordings"}
Lists ==
  /\ CopiesTyped /\ WalkHolds /\ ChannelsKnown /\ GroupsFollow /\ TimersFollow /\ RecordingsFollow

(* So they begin.                                                          *)
LEMMA ListsBegin == TablesInit => Lists
<1>. SUFFICES ASSUME TablesInit PROVE Lists
  OBVIOUS
<1>1. CopiesTyped /\ WalkHolds /\ ChannelsKnown /\ TimersFollow /\ RecordingsFollow
  BY DEF TablesInit, CopiesTyped, WalkHolds, ChannelsKnown, TimersFollow, RecordingsFollow, NoWalk
<1>2. copies.groups = Named(m_tags)
  BY DEF TablesInit, Named, Unnamed
<1>. QED  BY <1>1, <1>2 DEF Lists, GroupsFollow

(* Steps of the server and of the link leave them alone;                   *)
LEMMA ListsSame ==
  ASSUME Lists,
         UNCHANGED <<m_channels, m_tags, m_recordings, applying, toFetch, copies, walk, masked, unseen>>
  PROVE  Lists'
BY DEF Lists, CopiesTyped, WalkHolds, ChannelsKnown, GroupsFollow, TimersFollow, RecordingsFollow, Named,
       Scheduled, Recorded

(* the others keep them.                                                   *)
LEMMA UpdateLists ==
  ASSUME Together, Lists, ParseChannelUpdate
  PROVE  Lists'
<1>. DEFINE m == Head(wire)
            old == ChannelOf(m.id)
            v == Updated(old, m.body)
            last == LastFieldChanged(m, old)
<1>1. /\ wire # <<>> /\ m.kind = "channelUpdate"
      /\ m_channels' = With(m_channels, m.id, v)
      /\ toFetch' = IF m.lists \/ last THEN toFetch \cup {"channels"} ELSE toFetch
      /\ masked' = (masked \/ (/\ ~m.lists /\ ~last /\ \E f \in DOMAIN m.body : m.body[f] # old[f]))
      /\ UNCHANGED <<m_tags, m_recordings, applying, copies, walk, unseen>>
  BY DEF ParseChannelUpdate, Receives
<1>. HIDE DEF last
<1>2. TableTyped(m_channels, m_tags, m_recordings) /\ (Partial(m) => m.id \in DOMAIN m_channels)
  BY <1>1, HeadIs
<1>3. ChannelsKnown'
  <2>1. CASE m.lists \/ last
    BY <1>1, <2>1 DEF ChannelsKnown
  <2>2. CASE ~(m.lists \/ last) /\ \E f \in DOMAIN m.body : m.body[f] # old[f]
    BY <1>1, <2>2 DEF ChannelsKnown
  <2>3. CASE ~(m.lists \/ last) /\ \A f \in DOMAIN m.body : m.body[f] = old[f]
    <3>1. m.id \in DOMAIN m_channels /\ old = m_channels[m.id]
      BY <1>1, <1>2, <2>3 DEF Partial, ChannelOf
    <3>2. old \in [Field -> {0, 1}]
      BY <1>2, <3>1, TableIs DEF TableTyped
    <3>3. v = old
      BY <2>3, <3>2 DEF Updated
    <3>4. m_channels = [y \in DOMAIN m_channels |-> m_channels[y]]
      BY <1>2 DEF TableTyped, Tables
    <3>5. With(m_channels, m.id, v) = m_channels
      BY <3>1, <3>3, <3>4 DEF With
    <3>6. toFetch' = toFetch /\ masked \in {masked} /\ (masked => masked')
      BY <1>1, <2>3
    <3>. QED  BY <1>1, <3>5, <3>6 DEF ChannelsKnown, Lists
  <2>. QED  BY <2>1, <2>2, <2>3
<1>4. toFetch \subseteq toFetch' /\ \A l \in {"groups", "timers", "recordings"} : l \in toFetch' => l \in toFetch
  BY <1>1
<1>. QED  BY <1>1, <1>3, <1>4 DEF Lists, CopiesTyped, WalkHolds, GroupsFollow, TimersFollow, RecordingsFollow,
       Named, Scheduled, Recorded

(* (As UpdateLists.)                                                       *)
LEMMA RemoveLists ==
  ASSUME Together, Lists, ParseChannelRemove
  PROVE  Lists'
<1>1. /\ toFetch' = toFetch \cup {"channels"}
      /\ UNCHANGED <<m_tags, m_recordings, applying, copies, walk, unseen>>
  BY DEF ParseChannelRemove, Receives
<1>. QED  BY <1>1 DEF Lists, CopiesTyped, ChannelsKnown, WalkHolds, GroupsFollow, TimersFollow, RecordingsFollow,
       Named, Scheduled, Recorded

(* (As UpdateLists.)                                                       *)
LEMMA TagLists ==
  ASSUME Together, Lists, NEW kind \in {"tagUpdate", "tagDelete"}, ParseTag(kind)
  PROVE  Lists'
<1>1. /\ applying' = Head(wire) /\ Head(wire).kind = kind
      /\ UNCHANGED <<m_channels, m_recordings, toFetch, copies, walk, masked, unseen>>
  BY DEF ParseTag, Receives
<1>2. applying' # NoMessageYet
  BY <1>1 DEF NoMessageYet
<1>. QED  BY <1>1, <1>2 DEF Lists, CopiesTyped, ChannelsKnown, WalkHolds, GroupsFollow, TimersFollow,
       RecordingsFollow, Scheduled, Recorded

(* (As UpdateLists.)                                                       *)
LEMMA TriggerLists ==
  ASSUME Lists, TriggerGroups
  PROVE  Lists'
<1>1. /\ toFetch' = toFetch \cup {"groups"}
      /\ UNCHANGED <<m_channels, m_tags, m_recordings, copies, walk, masked, unseen>>
  BY DEF TriggerGroups, htspTables, tableHistory
<1>. QED  BY <1>1 DEF Lists, CopiesTyped, ChannelsKnown, WalkHolds, GroupsFollow, TimersFollow, RecordingsFollow,
       Scheduled, Recorded

(* A recording that ends without the add-on having heard that it began is  *)
(* unseen.                                                                 *)
LEMMA EntryLists ==
  ASSUME Together, Lists, ParseDVREntryUpdate \/ ParseDVREntryDelete
  PROVE  Lists'
<1>. DEFINE m == Head(wire)
<1>1. /\ wire # <<>> /\ "timers" \in toFetch' /\ toFetch \subseteq toFetch'
      /\ \A l \in {"groups", "channels"} : l \in toFetch' => l \in toFetch
      /\ UNCHANGED <<m_channels, m_tags, applying, copies, walk, masked>>
  BY DEF ParseDVREntryUpdate, ParseDVREntryDelete, Receives
<1>2. CopiesTyped' /\ WalkHolds' /\ ChannelsKnown' /\ GroupsFollow' /\ TimersFollow'
  BY <1>1 DEF Lists, CopiesTyped, ChannelsKnown, WalkHolds, GroupsFollow, TimersFollow, Named
<1>3. RecordingsFollow'
  <2>1. CASE "recordings" \in toFetch'
    BY <2>1 DEF RecordingsFollow
  <2>2. CASE "recordings" \notin toFetch'
    <3>1. /\ m.kind = "dvrEntryUpdate" /\ m.state # "recording"
          /\ m_recordings' = With(m_recordings, m.id, m.state)
          /\ unseen' = IF m.state \in {"completed", "aborted"} /\ m.id \notin Recorded(m_recordings)
                         THEN unseen \cup {m.id} ELSE unseen
      BY <2>2 DEF ParseDVREntryUpdate, ParseDVREntryDelete, Receives
    <3>2. /\ wire \in Seq(TableMessage) /\ m \in TableMessage
      BY <1>1, HeadIs
    <3>3. m.state \in {"scheduled", "completed", "aborted"}
      BY <3>1, <3>2, MessageIs DEF EntryState
    <3>4. /\ copies.recordings \subseteq Recorded(m_recordings)
          /\ Recorded(m_recordings) \ copies.recordings \subseteq unseen
      BY <1>1, <2>2 DEF Lists, RecordingsFollow
    <3>5. CASE m.state = "scheduled"
      <4>1. m.id \notin Recorded(m_recordings)
        <5>1. 1 \in DOMAIN wire /\ m = wire[1] /\ ScheduledFirst
          BY <1>1, <3>2 DEF Together
        <5>2. Starts(wire[1])
          BY <3>1, <3>5, <5>1 DEF Starts
        <5>. QED  BY <5>1, <5>2 DEF ScheduledFirst
      <4>2. Recorded(m_recordings') = Recorded(m_recordings)
        BY <3>1, <3>5, <4>1 DEF Recorded, With
      <4>3. unseen' = unseen
        BY <3>1, <3>5
      <4>. QED  BY <1>1, <3>4, <4>2, <4>3 DEF RecordingsFollow, Recorded
    <3>6. CASE m.state \in {"completed", "aborted"}
      <4>1. Recorded(m_recordings') = Recorded(m_recordings) \cup {m.id}
        BY <3>1, <3>6 DEF Recorded, With
      <4>2. Recorded(m_recordings)' = Recorded(m_recordings')
        BY DEF Recorded
      <4>. QED  BY <1>1, <3>1, <3>4, <3>6, <4>1, <4>2 DEF RecordingsFollow
    <3>. QED  BY <3>3, <3>5, <3>6
  <2>. QED  BY <2>1, <2>2
<1>. QED  BY <1>2, <1>3 DEF Lists

(* (As UpdateLists.)                                                       *)
LEMMA FetchLists ==
  ASSUME Lists, NEW list \in {"channels", "timers", "recordings"}, Fetch(list)
  PROVE  Lists'
<1>1. /\ toFetch' = toFetch \ {list} /\ CopiesTyped
      /\ UNCHANGED <<m_channels, m_tags, m_recordings, applying, walk, masked, unseen>>
      /\ \/ list = "channels" /\ copies' = [copies EXCEPT !.channels = m_channels]
         \/ list = "timers" /\ copies' = [copies EXCEPT !.timers = Scheduled(m_recordings)]
         \/ list = "recordings" /\ copies' = [copies EXCEPT !.recordings = Recorded(m_recordings)]
  BY DEF Fetch, htspTables, tableHistory, Lists
<1>2. /\ CopiesTyped' /\ copies'.groups = copies.groups
      /\ IF list = "channels" THEN copies'.channels = m_channels ELSE copies'.channels = copies.channels
      /\ IF list = "timers" THEN copies'.timers = Scheduled(m_recordings) ELSE copies'.timers = copies.timers
      /\ IF list = "recordings" THEN copies'.recordings = Recorded(m_recordings)
         ELSE copies'.recordings = copies.recordings
  BY <1>1 DEF CopiesTyped
<1>3. /\ Scheduled(m_recordings)' = Scheduled(m_recordings) /\ Recorded(m_recordings)' = Recorded(m_recordings)
      /\ Named(m_tags)' = Named(m_tags)
  BY <1>1 DEF Scheduled, Recorded, Named
<1>4. ChannelsKnown' /\ TimersFollow' /\ RecordingsFollow'
  BY <1>1, <1>2, <1>3 DEF Lists, ChannelsKnown, TimersFollow, RecordingsFollow
<1>5. GroupsFollow' /\ WalkHolds'
  BY <1>1, <1>2, <1>3 DEF Lists, GroupsFollow, WalkHolds
<1>. QED  BY <1>2, <1>4, <1>5 DEF Lists

(* (As UpdateLists.)                                                       *)
LEMMA BeginLists ==
  ASSUME Together, Lists, WalkBegins
  PROVE  Lists'
<1>1. /\ toFetch' = toFetch \ {"groups"} /\ walk' = [at |-> 0, sent |-> {}, on |-> TRUE]
      /\ UNCHANGED <<m_channels, m_tags, m_recordings, applying, copies, masked, unseen>>
  BY DEF WalkBegins, htspTables, tableHistory, NoWalk
<1>2. Named(m_tags) \subseteq Nat
  BY TableIs DEF Together, TableTypes, Named
<1>3. WalkHolds'
  <2>1. 0..(0 - 1) = {} /\ {t \in Named(m_tags) : t < 0} = {}
    BY <1>2
  <2>2. Named(m_tags)' = Named(m_tags)
    BY <1>1 DEF Named
  <2>. QED  BY <1>1, <2>1, <2>2 DEF WalkHolds
<1>4. GroupsFollow'
  BY <1>1 DEF GroupsFollow
<1>. QED  BY <1>1, <1>3, <1>4 DEF Lists, CopiesTyped, ChannelsKnown, TimersFollow, RecordingsFollow, Scheduled, Recorded

(* A step of the walk inserts what is missing.                             *)
LEMMA SendsKeeps ==
  ASSUME Together, Lists, WalkSends
  PROVE  Together' /\ Lists'
<1>1. /\ walk.on /\ walk \in [at : Nat, sent : SUBSET Nat, on : BOOLEAN]
      /\ m_tags' = IF walk.at \in DOMAIN m_tags THEN m_tags ELSE With(m_tags, walk.at, Unnamed)
      /\ walk' = [walk EXCEPT !.at = @ + 1,
                    !.sent = IF walk.at \in Named(m_tags) THEN @ \cup {walk.at} ELSE @]
      /\ UNCHANGED <<onServer, isUp, wire, m_channels, m_recordings, applying, toFetch, copies, masked, unseen,
                     goneUnheard>>
      /\ m_tags \in Tables(Nat, {"named", Unnamed}) /\ IsFiniteSet(DOMAIN m_tags)
      /\ Named(m_tags) \subseteq TagId /\ TableTypes
  BY DEF WalkSends, serverSide, tableHistory, Together, TableTypes
<1>2. /\ Named(m_tags') = Named(m_tags) /\ Named(m_tags)' = Named(m_tags')
      /\ DOMAIN m_tags' = DOMAIN m_tags \cup {walk.at}
  <2>1. CASE walk.at \in DOMAIN m_tags
    BY <1>1, <2>1 DEF Named
  <2>2. CASE walk.at \notin DOMAIN m_tags
    <3>1. m_tags' = With(m_tags, walk.at, Unnamed)
      BY <1>1, <2>2
    <3>2. DOMAIN m_tags' = DOMAIN m_tags \cup {walk.at}
      BY <3>1 DEF With
    <3>3. Named(m_tags') = Named(m_tags)
      BY <2>2, <3>1, NamedWith
    <3>. QED  BY <3>2, <3>3 DEF Named
  <2>. QED  BY <2>1, <2>2
<1>3. m_tags' \in Tables(Nat, {"named", Unnamed}) /\ IsFiniteSet(DOMAIN m_tags')
  <2>1. With(m_tags, walk.at, Unnamed) \in Tables(Nat, {"named", Unnamed})
    BY <1>1, WithTyped
  <2>. QED  BY <1>1, <1>2, <2>1, FS_AddElement
<1>4. walk'.at = walk.at + 1 /\ walk'.on = walk.on /\ walk' \in [at : Nat, sent : SUBSET Nat, on : BOOLEAN]
      /\ walk'.sent = IF walk.at \in Named(m_tags) THEN walk.sent \cup {walk.at} ELSE walk.sent
  <2>. DEFINE K == IF walk.at \in Named(m_tags) THEN walk.sent \cup {walk.at} ELSE walk.sent
  <2>1. walk' = [walk EXCEPT !.at = walk.at + 1, !.sent = K]
    BY <1>1
  <2>2. K \in SUBSET Nat /\ walk.at \in Nat
    BY <1>1
  <2>. HIDE DEF K
  <2>3. walk' = [at |-> walk.at + 1, sent |-> K, on |-> walk.on] /\ walk.on \in BOOLEAN
    BY <1>1, <2>1
  <2>4. walk'.at = walk.at + 1 /\ walk'.on = walk.on /\ walk'.sent = K
    BY <2>3
  <2>5. walk' \in [at : Nat, sent : SUBSET Nat, on : BOOLEAN]
    BY <2>2, <2>3
  <2>. QED  BY <2>4, <2>5 DEF K
<1>5. TableTypes'
  BY <1>1, <1>2, <1>3, <1>4 DEF TableTypes
<1>6. LinkHolds' /\ KnownFirst' /\ ScheduledFirst'
  <2>1. LinkHolds'
    BY <1>1, <1>2 DEF Together, LinkHolds, LeftBehind, ChannelsCarried, TagsCarried, EntriesCarried
  <2>2. KnownFirst' /\ ScheduledFirst'
    BY <1>1 DEF Together, KnownFirst, ScheduledFirst, Recorded
  <2>. QED  BY <2>1, <2>2
<1>7. WalkHolds'
  <2>1. CASE "groups" \in toFetch \/ applying # NoMessageYet
    BY <1>1, <2>1 DEF WalkHolds
  <2>2. CASE 0..(walk.at - 1) \subseteq DOMAIN m_tags /\ walk.sent = {t \in Named(m_tags) : t < walk.at}
    <3>1. 0..(walk'.at - 1) \subseteq DOMAIN m_tags'
      <4>1. walk.at \in Nat /\ walk'.at = walk.at + 1
        BY <1>1, <1>4
      <4>2. 0..(walk'.at - 1) = 0..(walk.at - 1) \cup {walk.at}
        BY <4>1
      <4>. QED  BY <1>2, <2>2, <4>2
    <3>2. Named(m_tags) \subseteq Nat
      BY <1>1, TableIs DEF Named
    <3>3. walk'.sent = {t \in Named(m_tags) : t < walk'.at}
      <4>1. walk.at \in Nat /\ walk'.at = walk.at + 1
        BY <1>1, <1>4
      <4>2. \A t \in Named(m_tags) : t < walk'.at <=> t < walk.at \/ t = walk.at
        BY <3>2, <4>1
      <4>. QED  BY <1>4, <2>2, <4>2
    <3>. QED  BY <1>2, <3>1, <3>3 DEF WalkHolds
  <2>. QED  BY <1>1, <2>1, <2>2 DEF Lists, WalkHolds
<1>8. GroupsFollow'
  BY <1>1, <1>4 DEF GroupsFollow
<1>. QED  BY <1>1, <1>5, <1>6, <1>7, <1>8
       DEF Together, Lists, CopiesTyped, ChannelsKnown, TimersFollow, RecordingsFollow, Scheduled, Recorded

(* At its end the indices are all there is, so it has sent every tag.      *)
LEMMA EndLists ==
  ASSUME Together, Lists, WalkEnds
  PROVE  Lists'
<1>1. /\ walk.on /\ walk.at >= Cardinality(DOMAIN m_tags) /\ walk.at \in Nat /\ CopiesTyped
      /\ copies' = [copies EXCEPT !.groups = walk.sent] /\ walk' = NoWalk
      /\ UNCHANGED <<m_channels, m_tags, m_recordings, applying, toFetch, masked, unseen>>
      /\ m_tags \in Tables(Nat, {"named", Unnamed}) /\ IsFiniteSet(DOMAIN m_tags)
  BY DEF WalkEnds, htspTables, tableHistory, Together, TableTypes, Lists
<1>2. /\ CopiesTyped' /\ copies'.groups = walk.sent /\ copies'.channels = copies.channels
      /\ copies'.timers = copies.timers /\ copies'.recordings = copies.recordings
  BY <1>1 DEF CopiesTyped
<1>3. /\ Scheduled(m_recordings)' = Scheduled(m_recordings) /\ Recorded(m_recordings)' = Recorded(m_recordings)
      /\ Named(m_tags)' = Named(m_tags)
  BY <1>1 DEF Scheduled, Recorded, Named
<1>4. GroupsFollow'
  <2>1. CASE "groups" \in toFetch \/ applying # NoMessageYet
    BY <1>1, <2>1 DEF GroupsFollow
  <2>2. CASE 0..(walk.at - 1) \subseteq DOMAIN m_tags /\ walk.sent = {t \in Named(m_tags) : t < walk.at}
    <3>. DEFINE I == 0..(walk.at - 1)
    <3>1. Cardinality(I) = walk.at
      <4>1. walk.at - 1 \in Int /\ 0 \in Int
        BY <1>1
      <4>2. Cardinality(I) = IF 0 > walk.at - 1 THEN 0 ELSE (walk.at - 1) - 0 + 1
        BY <4>1, FS_Interval
      <4>. QED  BY <1>1, <4>2
    <3>2. I \in SUBSET DOMAIN m_tags
      BY <2>2
    <3>. HIDE DEF I
    <3>3. /\ Cardinality(I) <= Cardinality(DOMAIN m_tags) /\ Cardinality(DOMAIN m_tags) \in Nat
          /\ (Cardinality(DOMAIN m_tags) = Cardinality(I) => DOMAIN m_tags = I)
      BY <1>1, <3>2, FS_Subset, FS_CardinalityType
    <3>4. DOMAIN m_tags = I
      BY <1>1, <3>1, <3>3
    <3>5. \A t \in Named(m_tags) : t < walk.at
      BY <1>1, <3>4 DEF Named, I
    <3>6. walk.sent = Named(m_tags)
      BY <2>2, <3>5
    <3>. QED  BY <1>2, <1>3, <3>6 DEF GroupsFollow
  <2>. QED  BY <1>1, <2>1, <2>2 DEF Lists, WalkHolds
<1>5. WalkHolds'
  BY <1>1 DEF WalkHolds, NoWalk
<1>6. ChannelsKnown' /\ TimersFollow' /\ RecordingsFollow'
  BY <1>1, <1>2, <1>3 DEF Lists, ChannelsKnown, TimersFollow, RecordingsFollow
<1>. QED  BY <1>2, <1>4, <1>5, <1>6 DEF Lists

(* The inductive invariant,                                                *)
TablesHold == Together /\ Lists

(* which every step keeps                                                  *)
LEMMA TablesStep == TablesHold /\ [TablesNext]_tablesVars => TablesHold'
<1>. SUFFICES ASSUME TablesHold, [TablesNext]_tablesVars PROVE Together' /\ Lists'
  BY DEF TablesHold
<1>1. Together /\ Lists /\ TableTypes
  BY DEF TablesHold, Together
<1>2. ASSUME NEW m \in TableMessage, ServerMoves(m) PROVE Together' /\ Lists'
  <2>1. UNCHANGED <<m_channels, m_tags, m_recordings, applying, toFetch, copies, walk, masked, unseen>>
    BY <1>2 DEF ServerMoves, htspTables
  <2>. QED  BY <1>1, <1>2, <2>1, ServerStep, ListsSame
<1>3. ASSUME NEW c \in Channel, NEW sent \in SUBSET Field, NEW lists \in BOOLEAN,
             NEW changed \in SUBSET sent, ServerSetsChannel(c, sent, changed, lists)
      PROVE  Together' /\ Lists'
  BY <1>1, <1>2, <1>3, SetsChannelMoves
<1>4. ASSUME NEW t \in TagId, ServerSetsTag(t) PROVE Together' /\ Lists'
  BY <1>1, <1>2, <1>4, SetsTagMoves
<1>5. ASSUME NEW e \in Entry, NEW s \in {"recording", "completed", "aborted"}, ServerSetsEntry(e, s)
      PROVE  Together' /\ Lists'
  BY <1>1, <1>2, <1>5, SetsEntryMoves
<1>6. ASSUME NEW kind, NEW id, ServerDeletes(kind, id) PROVE Together' /\ Lists'
  BY <1>1, <1>2, <1>6, DeletesMoves
<1>7. CASE LinkDown
  <2>1. UNCHANGED <<m_channels, m_tags, m_recordings, applying, toFetch, copies, walk, masked, unseen>>
    BY <1>7 DEF LinkDown, htspTables
  <2>. QED  BY <1>1, <1>7, <2>1, DownKeeps, ListsSame
<1>8. CASE LinkUp
  <2>1. UNCHANGED <<m_channels, m_tags, m_recordings, applying, toFetch, copies, walk, masked, unseen>>
    BY <1>8 DEF LinkUp, htspTables, tableHistory
  <2>. QED  BY <1>1, <1>8, <2>1, UpKeeps, ListsSame
<1>9. CASE ParseChannelUpdate
  BY <1>1, <1>9, UpdateKeeps, UpdateLists
<1>10. CASE ParseChannelRemove
  BY <1>1, <1>10, RemoveKeeps, RemoveLists
<1>11. ASSUME NEW kind \in {"tagUpdate", "tagDelete"}, ParseTag(kind) PROVE Together' /\ Lists'
  BY <1>1, <1>11, TagKeeps, TagLists
<1>12. CASE ParseDVREntryUpdate \/ ParseDVREntryDelete
  BY <1>1, <1>12, EntryKeeps, EntryLists
<1>13. ASSUME UNCHANGED <<serverSide, htspTables, goneUnheard>>, UNCHANGED walk \/ walk' \in [at : {0}, sent : {{}}, on : BOOLEAN]
       PROVE  Together'
  <2>1. /\ UNCHANGED <<onServer, isUp, wire, m_channels, m_tags, m_recordings, goneUnheard>>
        /\ walk' \in [at : Nat, sent : SUBSET Nat, on : BOOLEAN]
    BY <1>1, <1>13 DEF serverSide, htspTables, TableTypes
  <2>2. Named(m_tags)' = Named(m_tags) /\ Recorded(m_recordings)' = Recorded(m_recordings)
    BY <2>1 DEF Named, Recorded
  <2>3. TableTypes'
    BY <1>1, <2>1, <2>2 DEF TableTypes
  <2>4. LinkHolds'
    BY <1>1, <2>1, <2>2 DEF Together, LinkHolds, LeftBehind, ChannelsCarried, TagsCarried, EntriesCarried
  <2>5. KnownFirst' /\ ScheduledFirst'
    BY <1>1, <2>1, <2>2 DEF Together, KnownFirst, ScheduledFirst
  <2>. QED  BY <2>3, <2>4, <2>5 DEF Together
<1>14. CASE TriggerGroups
  BY <1>1, <1>13, <1>14, TriggerLists DEF TriggerGroups, tableHistory
<1>15. ASSUME NEW list \in {"channels", "timers", "recordings"}, Fetch(list) PROVE Together' /\ Lists'
  <2>1. UNCHANGED <<serverSide, htspTables, goneUnheard, walk>>
    BY <1>15 DEF Fetch, tableHistory
  <2>. QED  BY <1>1, <1>13, <1>15, <2>1, FetchLists
<1>16. CASE WalkBegins
  <2>1. UNCHANGED <<serverSide, htspTables, goneUnheard>> /\ walk' = [at |-> 0, sent |-> {}, on |-> TRUE]
    BY <1>16 DEF WalkBegins, tableHistory, NoWalk
  <2>2. walk' \in [at : {0}, sent : {{}}, on : BOOLEAN]
    BY <2>1
  <2>. QED  BY <1>1, <1>13, <1>16, <2>1, <2>2, BeginLists
<1>17. CASE WalkSends
  BY <1>1, <1>17, SendsKeeps
<1>18. CASE WalkEnds
  <2>1. UNCHANGED <<serverSide, htspTables, goneUnheard>> /\ walk' = [at |-> 0, sent |-> {}, on |-> FALSE]
    BY <1>18 DEF WalkEnds, tableHistory, NoWalk
  <2>2. walk' \in [at : {0}, sent : {{}}, on : BOOLEAN]
    BY <2>1
  <2>. QED  BY <1>1, <1>13, <1>18, <2>1, <2>2, EndLists
<1>19. CASE UNCHANGED tablesVars
  <2>1. /\ UNCHANGED <<serverSide, htspTables, goneUnheard, walk>>
        /\ UNCHANGED <<m_channels, m_tags, m_recordings, applying, toFetch, copies, walk, masked, unseen>>
    BY <1>19 DEF tablesVars, tableHistory, htspTables
  <2>. QED  BY <1>1, <1>13, <2>1, ListsSame
<1>. QED  BY <1>3, <1>4, <1>5, <1>6, <1>7, <1>8, <1>9, <1>10, <1>11, <1>12, <1>14, <1>15, <1>16, <1>17, <1>18,
             <1>19 DEF TablesNext

(* and which shows the property.                                           *)
LEMMA TablesShow == TablesHold => ListsFollow
<1>. SUFFICES ASSUME TablesHold PROVE ListsFollow
  OBVIOUS
<1>1. ChannelsFollow /\ GroupsFollow /\ TimersFollow /\ RecordingsFollow
  BY DEF TablesHold, Lists, ChannelsKnown, ChannelsFollow
<1>2. ASSUME isUp, wire = <<>>
      PROVE  /\ \A c \in DOMAIN onServer.channels :
                  c \in DOMAIN m_channels /\ m_channels[c] = onServer.channels[c]
             /\ \A e \in DOMAIN onServer.entries :
                  e \in DOMAIN m_recordings /\ m_recordings[e] = onServer.entries[e]
             /\ onServer.tags \subseteq Named(m_tags)
             /\ \A c \in DOMAIN m_channels \ DOMAIN onServer.channels : <<"channelDelete", c>> \in goneUnheard
             /\ \A e \in DOMAIN m_recordings \ DOMAIN onServer.entries : <<"dvrEntryDelete", e>> \in goneUnheard
             /\ \A t \in Named(m_tags) \ onServer.tags : <<"tagDelete", t>> \in goneUnheard
  <2>1. /\ ChannelsCarried /\ TagsCarried /\ EntriesCarried
        /\ m_channels \in Tables(Channel, [Field -> {0, 1}]) /\ m_recordings \in Tables(Entry, EntryState)
        /\ onServer.channels \in Tables(Channel, [Field -> {0, 1}]) /\ onServer.entries \in Tables(Entry, EntryState)
        /\ Named(m_tags) \subseteq TagId /\ onServer.tags \subseteq TagId
    BY <1>2 DEF TablesHold, Together, LinkHolds, TableTypes
  <2>2. \A c \in Channel :
          \/ c \notin DOMAIN onServer.channels /\ <<"channelDelete", c>> \in goneUnheard
          \/ /\ Here(DOMAIN m_channels, c) = Here(DOMAIN onServer.channels, c)
             /\ \A f \in Field : FieldOf(m_channels, c, f) = FieldOf(onServer.channels, c, f)
    <3>1. ASSUME NEW c \in Channel, ~(c \notin DOMAIN onServer.channels /\ <<"channelDelete", c>> \in goneUnheard)
          PROVE  /\ Here(DOMAIN m_channels, c) = Here(DOMAIN onServer.channels, c)
                 /\ \A f \in Field : FieldOf(m_channels, c, f) = FieldOf(onServer.channels, c, f)
      <4>1. /\ Carries(<<>>, ChannelEffect(c), Here(DOMAIN m_channels, c), Here(DOMAIN onServer.channels, c))
            /\ \A f \in Field :
                 Carries(<<>>, FieldEffect(c, f), FieldOf(m_channels, c, f), FieldOf(onServer.channels, c, f))
        BY <1>2, <2>1, <3>1 DEF ChannelsCarried
      <4>. QED  BY <4>1, CarriesEmpty
    <3>. QED  BY <3>1
  <2>3. \A t \in TagId :
          \/ t \notin onServer.tags /\ <<"tagDelete", t>> \in goneUnheard
          \/ Here(Named(m_tags), t) = Here(onServer.tags, t)
    <3>1. ASSUME NEW t \in TagId, ~(t \notin onServer.tags /\ <<"tagDelete", t>> \in goneUnheard)
          PROVE  Here(Named(m_tags), t) = Here(onServer.tags, t)
      <4>1. Carries(<<>>, TagEffect(t), Here(Named(m_tags), t), Here(onServer.tags, t))
        BY <1>2, <2>1, <3>1 DEF TagsCarried
      <4>. QED  BY <4>1, CarriesEmpty
    <3>. QED  BY <3>1
  <2>4. \A e \in Entry :
          \/ e \notin DOMAIN onServer.entries /\ <<"dvrEntryDelete", e>> \in goneUnheard
          \/ ValueOf(m_recordings, e) = ValueOf(onServer.entries, e)
    BY <1>2, <2>1, CarriesEmpty DEF EntriesCarried
  <2>5. /\ DOMAIN m_channels \subseteq Channel /\ DOMAIN m_recordings \subseteq Entry
        /\ DOMAIN onServer.channels \subseteq Channel /\ DOMAIN onServer.entries \subseteq Entry
        /\ \A c \in DOMAIN m_channels : m_channels[c] \in [Field -> {0, 1}]
        /\ \A c \in DOMAIN onServer.channels : onServer.channels[c] \in [Field -> {0, 1}]
    BY <2>1, TableIs
  <2>6. ASSUME NEW c \in DOMAIN onServer.channels
        PROVE  c \in DOMAIN m_channels /\ m_channels[c] = onServer.channels[c]
    <3>1. Here(DOMAIN m_channels, c) = {"here"} /\ \A f \in Field : FieldOf(m_channels, c, f) = {onServer.channels[c][f]}
      BY <2>2, <2>5, <2>6 DEF Here, FieldOf
    <3>2. c \in DOMAIN m_channels
      BY <3>1 DEF Here
    <3>3. \A f \in Field : m_channels[c][f] = onServer.channels[c][f]
      BY <3>1, <3>2 DEF FieldOf
    <3>. QED  BY <2>5, <3>2, <3>3
  <2>7. ASSUME NEW e \in DOMAIN onServer.entries
        PROVE  e \in DOMAIN m_recordings /\ m_recordings[e] = onServer.entries[e]
    BY <2>4, <2>5, <2>7 DEF ValueOf
  <2>8. ASSUME NEW c \in DOMAIN m_channels \ DOMAIN onServer.channels PROVE <<"channelDelete", c>> \in goneUnheard
    BY <2>2, <2>5, <2>8 DEF Here
  <2>9. ASSUME NEW e \in DOMAIN m_recordings \ DOMAIN onServer.entries PROVE <<"dvrEntryDelete", e>> \in goneUnheard
    BY <2>4, <2>5, <2>9 DEF ValueOf
  <2>10. onServer.tags \subseteq Named(m_tags) /\ \A t \in Named(m_tags) \ onServer.tags : <<"tagDelete", t>> \in goneUnheard
    BY <2>1, <2>3 DEF Here
  <2>. QED  BY <2>6, <2>7, <2>8, <2>9, <2>10
<1>. QED  BY <1>1, <1>2 DEF ListsFollow, TablesFollowServer

(* What XBMC shows follows the tables, and the tables follow the server,   *)
(* through any changes and outages: no list stays out of date unless a     *)
(* trigger is pending, but for channels of which a changed field was       *)
(* masked by a later one and recordings that ended before they were heard  *)
(* of, and the tables keep only what the server removed during an outage.  *)
THEOREM ListsKept == TablesSpec => []ListsFollow
<1>1. TablesInit => TablesHold
  BY TogetherBegins, ListsBegin DEF TablesHold
<1>2. TablesHold /\ [TablesNext]_tablesVars => TablesHold'
  BY TablesStep
<1>3. TablesHold => ListsFollow
  BY TablesShow
<1>. QED  BY <1>1, <1>2, <1>3, PTL DEF TablesSpec
=============================================================================
