------------------------ MODULE HTSPConnectionProofs ------------------------
(***************************************************************************)
(* CHTSPConnection for every queue size, number of senders and bound: its  *)
(* types, the queue that ReadResult sets aside, that a connection in use   *)
(* has been greeted, and that the connection keeps the promise of Session. *)
(***************************************************************************)
EXTENDS HTSPConnection, SequenceLemmas

ToServer == [what : {"hello", "auth", "request", "query"}, seq : 0..MaxSeq]

Sock ==
  /\ m_bIsConnected \in BOOLEAN
  /\ sock \in {"closed", "open", "fin", "rst"}
  /\ net \in Seq(Message)
  /\ srv \in Seq(ToServer)
  /\ pushing \in BOOLEAN

Queues ==
  /\ m_queue \in Seq(Message \cup {Empty})
  /\ queue \in Seq(Message \cup {Empty})

Calls ==
  /\ pc \in {"idle", "check", "write", "wait", "return"}
  /\ call \in [what : {"hello", "auth", "request"}, seq : 0..MaxSeq]
  /\ res \in {"null", "ok", "old", "empty", "async"}

Counters ==
  /\ seq \in 0..MaxSeq /\ out \in [Senders -> 0..MaxSeq]
  /\ conn \in 0..MaxConnects /\ greeted \in 0..conn
  /\ lastId \in 0..MaxId

(* No message is newer than the server's latest: what ReadMessage hands    *)
(* out, from the socket or from the queue, is one the server has sent.     *)
Sent ==
  /\ lastRead \in 0..lastId
  /\ \A i \in 1..Len(net) : net[i].id <= lastId
  /\ \A i \in 1..Len(m_queue) : m_queue[i].id <= lastId
  /\ \A i \in 1..Len(queue) : queue[i].id <= lastId

Types == Sock /\ Queues /\ Calls /\ Counters

LEMMA Split == Types /\ Sent => TypeOK
BY DEF Types, Sent, Sock, Queues, Calls, Counters, TypeOK, ToServer

-----------------------------------------------------------------------------
(* What the helpers do to the socket and what a read returns.              *)
LEMMA CloseTypes == Close => Sock' /\ net' = <<>>
<1>1. <<>> \in Seq(Message) /\ <<>> \in Seq(ToServer)
  OBVIOUS
<1>. QED  BY <1>1 DEF Close, Sock

LEMMA WriteTypes ==
  ASSUME Sock, NEW request \in ToServer, NEW done, Write(request, done)
  PROVE  Sock' /\ (net' = net \/ net' = <<>>)
<1>1. CASE sock = "open" /\ srv' = Append(srv, request)
           /\ UNCHANGED <<m_bIsConnected, sock, net, pushing>>
  BY <1>1 DEF Sock
<1>2. CASE sock' = "rst" /\ net' = <<>> /\ UNCHANGED <<m_bIsConnected, srv, pushing>>
  BY <1>2 DEF Sock
<1>3. CASE Close
  BY <1>3, CloseTypes
<1>. QED  BY <1>1, <1>2, <1>3 DEF Write

LEMMA ReadTypes ==
  ASSUME Sock, NEW m, ReadSocket(m)
  PROVE  /\ Sock'
         /\ m \in Message \/ m \in {Null, Empty}
         /\ m \in Message => m = net[1] /\ 1 \in 1..Len(net)
         /\ net' = net \/ net' = <<>> \/ (net # <<>> /\ net' = Tail(net))
<1>1. CASE /\ net # <<>> /\ m = Head(net) /\ net' = Tail(net)
           /\ UNCHANGED <<m_bIsConnected, sock, srv, pushing>>
  BY <1>1 DEF Sock
<1>2. CASE net # <<>> /\ m = Null /\ Close
  BY <1>2, CloseTypes DEF Message, Null
<1>3. CASE m \in {Empty, Null} /\ UNCHANGED wire
  BY <1>3 DEF Sock, wire, Message, Null, Empty
<1>. QED  BY <1>1, <1>2, <1>3 DEF ReadSocket

LEMMA KeptTypes ==
  ASSUME Queues, Sent, NEW m \in Message \cup {Empty}, m.id <= lastId
  PROVE  /\ Kept(m) \in Seq(Message \cup {Empty})
         /\ \A i \in 1..Len(Kept(m)) : Kept(m)[i].id <= lastId
BY DEF Queues, Sent, Kept

-----------------------------------------------------------------------------
(* One lemma per part of the types and per group of steps.                 *)
LEMMA ReadsKeepTypes ==
  ASSUME Types, Sent, NEW m, ReadSocket(m), UNCHANGED lastId
  PROVE  /\ Sock'
         /\ \A i \in 1..Len(net') : net'[i].id <= lastId'
         /\ m \in Message \cup {Empty, Null}
         /\ m.id \in 0..lastId
<1>1. /\ Sock'
      /\ m \in Message \/ m \in {Null, Empty}
      /\ m \in Message => m = net[1] /\ 1 \in 1..Len(net)
      /\ net' = net \/ net' = <<>> \/ (net # <<>> /\ net' = Tail(net))
  BY ReadTypes DEF Types
<1>2. lastId \in Nat /\ net \in Seq(Message)
  BY ConnectionAssumption DEF Types, Counters, Sock
<1>3. m.id \in 0..lastId
  BY <1>1, <1>2, ConnectionAssumption DEF Sent, Message, Null, Empty
<1>4. \A i \in 1..Len(net') : net'[i].id <= lastId'
  <2>1. CASE net' = net \/ net' = <<>>
    BY <2>1 DEF Sent
  <2>2. CASE net # <<>> /\ net' = Tail(net)
    <3>1. \A i \in 1..Len(net') : i + 1 \in 1..Len(net) /\ net'[i] = net[i + 1]
      BY <1>2, <2>2
    <3>. QED  BY <3>1 DEF Sent
  <2>. QED  BY <1>1, <2>1, <2>2
<1>. QED  BY <1>1, <1>3, <1>4

LEMMA InitTypes == Init => Types /\ Sent
<1>1. <<>> \in Seq(Message) /\ <<>> \in Seq(ToServer) /\ <<>> \in Seq(Message \cup {Empty})
  OBVIOUS
<1>2. Init => Sock /\ Queues
  BY <1>1 DEF Init, Sock, Queues
<1>3. Init => Calls
  BY ConnectionAssumption DEF Init, Calls
<1>4. Init => Counters /\ Sent
  BY ConnectionAssumption DEF Init, Counters, Sent
<1>. QED  BY <1>2, <1>3, <1>4 DEF Types

(* ReadMessage(): from the queue, or from the socket.                      *)
LEMMA ReadMessageTypes ==
  ASSUME Types, Sent, ReadQueued \/ ReadFresh
  PROVE  Types' /\ Sent'
<1>1. CASE ReadQueued
  <2>1. /\ m_queue' = Tail(m_queue) /\ m_queue # <<>>
        /\ UNCHANGED <<wire, queue, reader, seq, out, greeted, conn, lastId>>
    BY <1>1 DEF ReadQueued
  <2>2. Types'
    BY <2>1 DEF Types, Sock, Queues, Calls, Counters, wire, reader
  <2>3. /\ 1 \in 1..Len(m_queue) /\ Head(m_queue) = m_queue[1]
        /\ m_queue[1] \in Message \cup {Empty}
    BY <2>1 DEF Types, Queues
  <2>4. lastRead' \in 0..lastId'
    BY <1>1, <2>3, ConnectionAssumption DEF ReadQueued, Sent, Types, Counters, Message
  <2>5. \A i \in 1..Len(m_queue') : m_queue'[i].id <= lastId'
    BY <2>1 DEF Sent, Types, Queues
  <2>. QED  BY <2>1, <2>2, <2>4, <2>5 DEF Sent, wire
<1>2. CASE ReadFresh
  <2>1. PICK m : /\ ReadSocket(m)
                 /\ lastRead' = IF m \in {Null, Empty} THEN lastRead ELSE m.id
    BY <1>2 DEF ReadFresh
  <2>2. UNCHANGED <<queues, reader, seq, out, greeted, conn, lastId>>
    BY <1>2 DEF ReadFresh
  <2>3. Sock' /\ m.id \in 0..lastId /\ \A i \in 1..Len(net') : net'[i].id <= lastId'
    BY <2>1, <2>2, ReadsKeepTypes
  <2>. QED
    BY <2>1, <2>2, <2>3 DEF Types, Sent, Queues, Calls, Counters, queues, reader
<1>. QED  BY <1>1, <1>2

(* ReadResult(), from its check to its end.                                *)
LEMMA ReadResultTypes ==
  ASSUME Types, Sent, ResultChecks \/ ResultWrites \/ ResultReads
  PROVE  Types' /\ Sent'
<1>1. CASE ResultChecks
  BY <1>1 DEF ResultChecks, Types, Sent, Sock, Queues, Calls, Counters, wire, queues
<1>2. CASE ResultWrites
  <2>1. call \in ToServer
    BY DEF Types, Calls, ToServer
  <2>2. Sock' /\ (net' = net \/ net' = <<>>)
    BY <1>2, <2>1, WriteTypes DEF ResultWrites, Types
  <2>3. UNCHANGED <<call, seq, out, greeted, conn, lastId, lastRead>>
    BY <1>2 DEF ResultWrites
  <2>4. (queue' = m_queue /\ m_queue' = queue) \/ UNCHANGED <<m_queue, queue>>
    BY <1>2 DEF ResultWrites, queues
  <2>5. pc' \in {"wait", "return"} /\ res' \in {res, "null"}
    BY <1>2 DEF ResultWrites
  <2>6. Types'
    BY <2>2, <2>3, <2>4, <2>5 DEF Types, Queues, Calls, Counters
  <2>. QED  BY <2>2, <2>3, <2>4, <2>6 DEF Sent
<1>3. CASE ResultReads
  <2>1. UNCHANGED <<call, seq, out, greeted, conn, lastId, lastRead>>
    BY <1>3 DEF ResultReads
  <2>2. PICK m : ReadSocket(m) /\
          CASE m = Null -> ResultEnds(queue, "null")
            [] m # Null /\ IsReply(m) -> ResultEnds(queue, Verdict(m))
            [] m # Null /\ ~IsReply(m) /\ Len(Kept(m)) >= QueueSize -> ResultEnds(Kept(m), "null")
            [] OTHER -> queue' = Kept(m) /\ UNCHANGED <<m_queue, pc, res>>
    BY <1>3 DEF ResultReads
  <2>3. /\ Sock'
        /\ \A i \in 1..Len(net') : net'[i].id <= lastId'
        /\ m \in Message \cup {Empty, Null}
        /\ m.id \in 0..lastId
    BY <2>1, <2>2, ReadsKeepTypes
  <2>4. CASE m = Null \/ IsReply(m)
    <3>1. m_queue' = queue /\ queue' = <<>> /\ pc' = "return"
      BY <2>2, <2>4 DEF ResultEnds
    <3>2. res' \in {"null", "ok", "old", "empty", "async"}
      BY <2>2, <2>3, <2>4 DEF ResultEnds, Verdict, Message, Empty
    <3>3. <<>> \in Seq(Message \cup {Empty})
      OBVIOUS
    <3>4. Types'
      BY <2>1, <2>3, <3>1, <3>2, <3>3 DEF Types, Queues, Calls, Counters
    <3>. QED  BY <2>1, <2>3, <3>1, <3>4 DEF Sent
  <2>5. CASE m # Null /\ ~IsReply(m)
    <3>1. /\ Kept(m) \in Seq(Message \cup {Empty})
          /\ \A i \in 1..Len(Kept(m)) : Kept(m)[i].id <= lastId
      BY <2>3, <2>5, KeptTypes DEF Types, Counters
    <3>2. \/ m_queue' = Kept(m) /\ queue' = <<>> /\ pc' = "return" /\ res' = "null"
          \/ queue' = Kept(m) /\ UNCHANGED <<m_queue, pc, res>>
      BY <2>2, <2>5 DEF ResultEnds
    <3>3. <<>> \in Seq(Message \cup {Empty})
      OBVIOUS
    <3>4. Types'
      BY <2>1, <2>3, <3>1, <3>2, <3>3 DEF Types, Queues, Calls, Counters
    <3>. QED  BY <2>1, <2>3, <3>1, <3>2, <3>4 DEF Sent
  <2>. QED  BY <2>4, <2>5
<1>. QED  BY <1>1, <1>2, <1>3

(* Connect() with the returns of its two calls, and a request.             *)
LEMMA ConnectTypes ==
  ASSUME Types, Sent,
         Connect \/ HelloReturns \/ AuthReturns \/ Request \/ RequestReturns \/ OutsideClose
  PROVE  Types' /\ Sent'
<1>1. Sock' /\ (net' = net \/ net' = <<>>)
  <2>1. CASE Close \/ UNCHANGED wire
    BY <2>1, CloseTypes DEF Types, Sock, wire
  <2>2. <<>> \in Seq(Message) /\ <<>> \in Seq(ToServer)
    OBVIOUS
  <2>3. CASE Connect
    BY <2>2, <2>3 DEF Connect, Sock
  <2>. QED
    BY <2>1, <2>3 DEF HelloReturns, Auth, AuthReturns, Request, RequestReturns, OutsideClose
<1>2. UNCHANGED <<m_queue, queue, out, lastId, lastRead, res>>
  BY DEF Connect, HelloReturns, Auth, AuthReturns, Request, RequestReturns, OutsideClose, queues,
         reader
<1>3. Calls'
  BY <1>2, ConnectionAssumption
  DEF Connect, HelloReturns, Auth, AuthReturns, Request, RequestReturns, OutsideClose, Begin, Types,
      Calls, Counters, reader
<1>4. Counters'
  BY <1>2, ConnectionAssumption
  DEF Connect, HelloReturns, Auth, AuthReturns, Request, RequestReturns, OutsideClose, Types,
      Counters
<1>. QED  BY <1>1, <1>2, <1>3, <1>4 DEF Types, Sent, Queues

LEMMA SenderTypes ==
  ASSUME Types, Sent, NEW t \in Senders, SendChecks(t) \/ SendWrites(t)
  PROVE  Types' /\ Sent'
<1>1. CASE SendChecks(t)
  BY <1>1, ConnectionAssumption
  DEF SendChecks, Types, Sent, Sock, Queues, Calls, Counters, wire, queues, reader
<1>2. CASE SendWrites(t)
  <2>1. [what |-> "query", seq |-> out[t]] \in ToServer
    BY DEF Types, Counters, ToServer
  <2>2. Sock' /\ (net' = net \/ net' = <<>>)
    BY <1>2, <2>1, WriteTypes DEF SendWrites, Types
  <2>. QED
    BY <1>2, <2>2, ConnectionAssumption
    DEF SendWrites, Types, Sent, Queues, Calls, Counters, queues, reader
<1>. QED  BY <1>1, <1>2

LEMMA ServerTypes ==
  ASSUME Types, Sent, ServerReplies \/ ServerPushes \/ ServerDies
  PROVE  Types' /\ Sent'
<1>1. ASSUME NEW number \in 0..MaxSeq, NEW kind \in {"ok", "old", "error", "async"},
             Send(number, kind), srv' \in Seq(ToServer), pushing' \in BOOLEAN
      PROVE  Types' /\ Sent'
  <2>. DEFINE m == [id |-> lastId + 1, seq |-> number, kind |-> kind]
  <2>1. m \in Message
    BY <1>1, ConnectionAssumption DEF Message, Send, Types, Counters
  <2>2. lastId' = lastId + 1 /\ net' = Append(net, m)
    BY <1>1 DEF Send
  <2>3. UNCHANGED <<m_bIsConnected, sock, m_queue, queue, pc, call, res, seq, out, greeted,
                    conn, lastRead>>
    BY <1>1 DEF Send, queues, reader
  <2>4. lastId \in Nat /\ lastId' \in 0..MaxId
    BY <1>1, ConnectionAssumption DEF Send, Types, Counters
  <2>5. Types'
    BY <1>1, <2>1, <2>2, <2>3, <2>4 DEF Types, Sock, Queues, Calls, Counters
  <2>6. \A i \in 1..Len(net') : net'[i].id <= lastId'
    <3>1. net \in Seq(Message) /\ Len(net') = Len(net) + 1 /\ Len(net) \in Nat
      BY <2>1, <2>2 DEF Types, Sock
    <3>2. net'[Len(net) + 1] = m /\ \A i \in 1..Len(net) : net'[i] = net[i]
      BY <2>1, <2>2, <3>1
    <3>3. \A i \in 1..Len(net) : net[i] \in Message /\ net[i].id \in Nat /\ net[i].id <= lastId
      <4>1. \A x \in Message : x.id \in Nat
        BY ConnectionAssumption DEF Message
      <4>2. \A i \in 1..Len(net) : net[i] \in Message
        BY <3>1
      <4>. QED  BY <4>1, <4>2 DEF Sent
    <3>4. ASSUME NEW i \in 1..Len(net') PROVE net'[i].id <= lastId'
      <4>1. CASE i = Len(net) + 1
        BY <2>2, <2>4, <3>2, <4>1
      <4>2. CASE i \in 1..Len(net)
        BY <2>2, <2>4, <3>2, <3>3, <4>2
      <4>. QED  BY <3>1, <4>1, <4>2
    <3>. QED  BY <3>4
  <2>7. /\ \A i \in 1..Len(m_queue) : m_queue[i].id \in Nat /\ m_queue[i].id <= lastId
        /\ \A i \in 1..Len(queue) : queue[i].id \in Nat /\ queue[i].id <= lastId
    <3>1. \A x \in Message \cup {Empty} : x.id \in Nat
      BY ConnectionAssumption DEF Message, Empty
    <3>2. /\ \A i \in 1..Len(m_queue) : m_queue[i] \in Message \cup {Empty}
          /\ \A i \in 1..Len(queue) : queue[i] \in Message \cup {Empty}
      BY DEF Types, Queues
    <3>. QED  BY <3>1, <3>2 DEF Sent
  <2>8. lastRead' \in 0..lastId'
    BY <2>2, <2>3, <2>4 DEF Sent
  <2>9. /\ \A i \in 1..Len(m_queue') : m_queue'[i].id <= lastId'
        /\ \A i \in 1..Len(queue') : queue'[i].id <= lastId'
    BY <2>2, <2>3, <2>4, <2>7
  <2>. QED  BY <2>5, <2>6, <2>8, <2>9 DEF Sent
<1>2. CASE ServerReplies
  <2>1. /\ srv # <<>> /\ Head(srv) \in ToServer /\ Tail(srv) \in Seq(ToServer)
    BY <1>2 DEF ServerReplies, Types, Sock
  <2>2. PICK kind \in {"ok", "old", "error", "async"} : Send(Head(srv).seq, kind)
    BY <1>2 DEF ServerReplies
  <2>3. pushing' \in BOOLEAN
    BY <1>2, Zenon DEF ServerReplies, Types, Sock
  <2>. QED  BY <1>1, <1>2, <2>1, <2>2, <2>3 DEF ServerReplies, ToServer
<1>3. CASE ServerPushes
  BY <1>1, <1>3, ConnectionAssumption DEF ServerPushes, Types, Sock
<1>4. CASE ServerDies
  <2>1. <<>> \in Seq(Message) /\ <<>> \in Seq(ToServer)
    OBVIOUS
  <2>2. Types'
    BY <1>4, <2>1 DEF ServerDies, Types, Sock, Queues, Calls, Counters, queues, reader
  <2>3. Sent'
    BY <1>4 DEF ServerDies, Sent, queues
  <2>. QED  BY <2>2, <2>3
<1>. QED  BY <1>2, <1>3, <1>4

LEMMA NextTypes == Types /\ Sent /\ [Next]_vars => Types' /\ Sent'
<1>1. CASE UNCHANGED vars
  BY <1>1 DEF vars, wire, queues, reader, Types, Sent, Sock, Queues, Calls, Counters
<1>. QED
  BY <1>1, ReadMessageTypes, ReadResultTypes, ConnectTypes, SenderTypes, ServerTypes
  DEF Next, ReaderCall

(* Types of the connection, its queues and its calls, and that no message  *)
(* is handed out which the server has not sent.                            *)
THEOREM TypeCorrect == Spec => []TypeOK
<1>. QED  BY InitTypes, NextTypes, Split, PTL DEF Spec

-----------------------------------------------------------------------------
(* ReadResult sets the queue aside: whatever the size of the queue, the    *)
(* number of connections and what the socket does, no message is left in   *)
(* the local queue when the call returns, nor in m_queue while it waits.   *)
THEOREM QueueKept == Spec => []QueueSetAside
<1>1. Init => QueueSetAside
  BY DEF Init, QueueSetAside
<1>2. QueueSetAside /\ [Next]_vars => QueueSetAside'
  <2>. SUFFICES ASSUME QueueSetAside, [Next]_vars PROVE QueueSetAside'
    OBVIOUS
  <2>. USE DEF QueueSetAside, queues, reader
  <2>1. CASE ResultWrites
    BY <2>1 DEF ResultWrites
  <2>2. CASE ResultReads
    BY <2>2 DEF ResultReads, ResultEnds
  <2>3. CASE ResultChecks \/ HelloReturns \/ AuthReturns \/ RequestReturns \/ Connect \/ Request
    BY <2>3 DEF ResultChecks, HelloReturns, Auth, AuthReturns, RequestReturns, Connect, Request,
         Begin
  <2>4. CASE ReadQueued \/ ReadFresh
    BY <2>4 DEF ReadQueued, ReadFresh
  <2>5. ASSUME NEW t \in Senders, SendChecks(t) \/ SendWrites(t) PROVE QueueSetAside'
    BY <2>5 DEF SendChecks, SendWrites
  <2>6. CASE OutsideClose \/ ServerReplies \/ ServerPushes \/ ServerDies
    BY <2>6 DEF OutsideClose, ServerReplies, ServerPushes, ServerDies, Send
  <2>7. CASE UNCHANGED vars
    BY <2>7 DEF vars
  <2>. QED
    BY <2>1, <2>2, <2>3, <2>4, <2>5, <2>6, <2>7 DEF Next, ReaderCall
<1>. QED  BY <1>1, <1>2, PTL DEF Spec

(* The handshake is outstanding only while Connect() is in its two calls:  *)
(* in every other call of the reader, and between calls, a connection that *)
(* is up has been let in.                                                  *)
Greeted == m_bIsConnected /\ (pc = "idle" \/ call.what = "request") => greeted = conn

(* No thread uses a connection whose greeting or authentication failed, or *)
(* was never answered, or whose version is too old, also when another      *)
(* thread closed the connection before or transmits on it meanwhile.       *)
THEOREM GreetedFirst == Spec => []UsableMeansGreeted
<1>1. Init => Greeted
  BY DEF Init, Greeted
<1>2. Greeted /\ [Next]_vars => Greeted'
  <2>. SUFFICES ASSUME Greeted, [Next]_vars PROVE Greeted'
    OBVIOUS
  <2>. USE DEF Greeted, reader, wire
  <2>1. CASE ResultChecks
    BY <2>1 DEF ResultChecks
  <2>2. CASE ResultWrites
    BY <2>2 DEF ResultWrites, Write, Close
  <2>3. CASE ResultReads
    BY <2>3 DEF ResultReads, ResultEnds, ReadSocket, Close
  <2>4. CASE Connect \/ Request
    <3>1. CASE Connect
      BY <3>1 DEF Connect, Begin
    <3>2. CASE Request
      BY <3>2 DEF Request, Begin
    <3>. QED  BY <2>4, <3>1, <3>2
  <2>5. CASE HelloReturns \/ AuthReturns \/ RequestReturns
    <3>1. CASE HelloReturns
      <4>1. CASE res = "ok" /\ Username
        <5>1. call' = [what |-> "auth", seq |-> 0] /\ pc' = "check"
          BY <3>1, <4>1 DEF HelloReturns, Auth, Begin
        <5>. QED  BY <5>1
      <4>2. CASE res = "ok" /\ ~Username
        <5>1. greeted' = conn /\ conn' = conn
          BY <3>1, <4>2 DEF HelloReturns, Auth
        <5>. QED  BY <5>1
      <4>3. CASE res # "ok"
        BY <3>1, <4>3 DEF HelloReturns, Close
      <4>. QED  BY <4>1, <4>2, <4>3
    <3>2. CASE AuthReturns
      BY <3>2 DEF AuthReturns, Close
    <3>3. CASE RequestReturns
      BY <3>3 DEF RequestReturns
    <3>. QED  BY <2>5, <3>1, <3>2, <3>3
  <2>6. CASE ReadQueued \/ ReadFresh
    BY <2>6 DEF ReadQueued, ReadFresh, ReadSocket, Close
  <2>7. ASSUME NEW t \in Senders, SendChecks(t) \/ SendWrites(t) PROVE Greeted'
    BY <2>7 DEF SendChecks, SendWrites, Write, Close
  <2>8. CASE OutsideClose \/ ServerReplies \/ ServerPushes \/ ServerDies
    BY <2>8 DEF OutsideClose, ServerReplies, ServerPushes, ServerDies, Send, Close
  <2>9. CASE UNCHANGED vars
    BY <2>9 DEF vars
  <2>. QED
    BY <2>1, <2>2, <2>3, <2>4, <2>5, <2>6, <2>7, <2>8, <2>9 DEF Next, ReaderCall
<1>3. Greeted => UsableMeansGreeted
  BY DEF Greeted, UsableMeansGreeted
<1>. QED  BY <1>1, <1>2, <1>3, PTL DEF Spec

-----------------------------------------------------------------------------
(* KeepsPromise: the connection implements Session                         *)

(* The socket: it is closed if the connection is down, and has something   *)
(* to read only while it is there.                                         *)
SocketFits ==
  /\ sock = "closed" <=> ~m_bIsConnected
  /\ net # <<>> => m_bIsConnected
  /\ sock = "rst" => net = <<>>

(* Messages that are pushed bear no number, and a call that looks for its  *)
(* reply by the number has one.  During the handshake none is pushed.      *)
Pushed ==
  /\ \A m \in Range(net) : m.kind = "async" => m.seq = 0
  /\ pc # "idle" /\ call.what # "auth" => call.seq # 0
  /\ pc # "idle" /\ call.what \in {"hello", "auth"} =>
       /\ ~pushing
       /\ \A r \in Range(srv) : r.what # "request"
       /\ \A m \in Range(net) : m.kind # "async"

(* The invariant the refinement needs.                                     *)
ConnInv == Types /\ Sent /\ QueueSetAside /\ SocketFits /\ Pushed

(* So it is at the start.                                                  *)
LEMMA InitFits == Init => SocketFits /\ Pushed
BY RangeOfEmpty DEF Init, SocketFits, Pushed

(* What the helpers do to the socket.                                      *)
LEMMA CloseFits ==
  ASSUME Close, pc' # "idle" /\ call'.what # "auth" => call'.seq # 0
  PROVE  SocketFits' /\ Pushed'
BY RangeOfEmpty DEF Close, SocketFits, Pushed

(* A step that leaves the call alone, or ends it, keeps what is pushed, if *)
(* it adds nothing to the socket.                                          *)
LEMMA LessFits ==
  ASSUME Types, Pushed, UNCHANGED <<call, srv, pushing>>, pc' = "idle" \/ pc # "idle",
         Range(net') \subseteq Range(net)
  PROVE  Pushed'
BY DEF Pushed

(* A write puts a request in the socket or closes it.                      *)
LEMMA WriteFits ==
  ASSUME Types, SocketFits, Pushed, NEW request \in ToServer, NEW done, Write(request, done),
         UNCHANGED call, pc' = "idle" \/ pc # "idle",
         call.what \in {"hello", "auth"} => request.what # "request"
  PROVE  SocketFits' /\ Pushed'
<1>1. CASE sock = "open" /\ srv' = Append(srv, request)
           /\ UNCHANGED <<m_bIsConnected, sock, net, pushing>>
  <2>1. Range(srv') = Range(srv) \cup {request}
    BY <1>1, RangeOfAppend DEF Types, Sock
  <2>. QED  BY <1>1, <2>1 DEF SocketFits, Pushed
<1>2. CASE /\ sock = "fin" /\ sock' = "rst" /\ net' = <<>>
           /\ UNCHANGED <<m_bIsConnected, srv, pushing>>
  <2>1. Pushed'
    BY <1>2, RangeOfEmpty, LessFits
  <2>. QED  BY <1>2, <2>1 DEF SocketFits
<1>3. CASE Close
  <2>1. pc' # "idle" /\ call'.what # "auth" => call'.seq # 0
    BY DEF Pushed
  <2>. QED  BY <1>3, <2>1, CloseFits
<1>. QED  BY <1>1, <1>2, <1>3 DEF Write

(* A read takes a message out of it or closes it.                          *)
LEMMA ReadFits ==
  ASSUME Types, SocketFits, Pushed, NEW m, ReadSocket(m), UNCHANGED call, pc' = "idle" \/ pc # "idle"
  PROVE  SocketFits' /\ Pushed'
<1>1. CASE /\ net # <<>> /\ net' = Tail(net)
           /\ UNCHANGED <<m_bIsConnected, sock, srv, pushing>>
  <2>1. Range(net') \subseteq Range(net)
    BY <1>1, RangeOfTail DEF Types, Sock
  <2>. QED  BY <1>1, <2>1, LessFits DEF SocketFits
<1>2. CASE Close
  <2>1. pc' # "idle" /\ call'.what # "auth" => call'.seq # 0
    BY DEF Pushed
  <2>. QED  BY <1>2, <2>1, CloseFits
<1>3. CASE UNCHANGED wire
  BY <1>3, LessFits DEF wire, SocketFits
<1>. QED  BY <1>1, <1>2, <1>3 DEF ReadSocket

(* What the server sends goes behind the rest.                             *)
LEMMA SendFits ==
  ASSUME Types, SocketFits, Pushed, NEW number \in 0..MaxSeq, NEW kind, kind = "async" => number = 0 /\ pushing,
         Send(number, kind), Range(srv') \subseteq Range(srv),
         pushing' => pushing \/ \E r \in Range(srv) : r.what = "request"
  PROVE  SocketFits' /\ Pushed'
<1> DEFINE m == [id |-> lastId + 1, seq |-> number, kind |-> kind]
<1>1. net' = Append(net, m) /\ sock = "open" /\ UNCHANGED <<m_bIsConnected, sock, pc, call>>
  BY DEF Send, reader
<1>2. Range(net') = Range(net) \cup {m}
  <2>1. net \in Seq(Message \cup {m}) /\ m \in Message \cup {m}
    BY DEF Types, Sock
  <2>. QED  BY <1>1, <2>1, RangeOfAppend
<1>3. m.kind = kind /\ m.seq = number
  OBVIOUS
<1>. HIDE DEF m
<1>4. Pushed'
  BY <1>1, <1>2, <1>3 DEF Pushed
<1>5. SocketFits'
  BY <1>1 DEF SocketFits
<1>. QED  BY <1>4, <1>5

(* Every step keeps both.                                                  *)
LEMMA NextFits ==
  ASSUME Types, SocketFits, Pushed, [Next]_vars
  PROVE  SocketFits' /\ Pushed'
<1>1. CASE ReadQueued
  BY <1>1, LessFits DEF ReadQueued, SocketFits, wire, reader
<1>2. CASE ReadFresh
  BY <1>2, ReadFits DEF ReadFresh, reader
<1>3. CASE ResultChecks
  BY <1>3, LessFits DEF ResultChecks, SocketFits, wire
<1>4. CASE ResultWrites
  <2>1. /\ call \in ToServer /\ (call.what \in {"hello", "auth"} => call.what # "request")
        /\ UNCHANGED call /\ pc # "idle"
    BY <1>4 DEF Types, Calls, ToServer, ResultWrites
  <2>2. PICK done \in BOOLEAN : Write(call, done)
    BY <1>4 DEF ResultWrites
  <2>. QED  BY <2>1, <2>2, WriteFits
<1>5. CASE ResultReads
  BY <1>5, ReadFits DEF ResultReads
<1>6. CASE Connect
  <2>1. /\ net' = <<>> /\ srv' = <<>> /\ pushing' = FALSE /\ m_bIsConnected' = TRUE /\ sock' = "open"
        /\ call'.seq = seq + 1
    BY <1>6 DEF Connect, Begin
  <2>2. seq + 1 # 0
    BY ConnectionAssumption DEF Types, Counters
  <2>. QED  BY <2>1, <2>2, RangeOfEmpty DEF SocketFits, Pushed
<1>7. CASE HelloReturns
  <2>1. CASE Close
    <3>1. pc' # "idle" /\ call'.what # "auth" => call'.seq # 0
      BY <1>7 DEF HelloReturns, Auth, Pushed, Begin
    <3>. QED  BY <2>1, <3>1, CloseFits
  <2>2. CASE UNCHANGED wire
    <3>1. pc' = "idle" \/ (pc' = "check" /\ call' = [what |-> "auth", seq |-> 0])
      BY <1>7 DEF HelloReturns, Auth, Begin
    <3>2. pc # "idle" /\ call.what = "hello"
      BY <1>7 DEF HelloReturns, Auth
    <3>3. Pushed'
      BY <2>2, <3>1, <3>2 DEF Pushed, wire
    <3>. QED  BY <2>2, <3>3 DEF SocketFits, wire
  <2>. QED  BY <1>7, <2>1, <2>2 DEF HelloReturns, Auth
<1>8. CASE AuthReturns
  <2>1. CASE Close
    <3>1. pc' # "idle" /\ call'.what # "auth" => call'.seq # 0
      BY <1>8 DEF AuthReturns
    <3>. QED  BY <2>1, <3>1, CloseFits
  <2>2. CASE UNCHANGED wire
    BY <1>8, <2>2, LessFits DEF AuthReturns, SocketFits, wire
  <2>. QED  BY <1>8, <2>1, <2>2 DEF AuthReturns
<1>9. CASE Request
  <2>1. /\ UNCHANGED wire /\ call' = [what |-> "request", seq |-> seq + 1]
    BY <1>9 DEF Request, Begin
  <2>2. seq + 1 # 0
    BY ConnectionAssumption DEF Types, Counters
  <2>. QED  BY <2>1, <2>2 DEF SocketFits, Pushed, wire
<1>10. CASE RequestReturns
  BY <1>10, LessFits DEF RequestReturns, SocketFits, wire
<1>11. ASSUME NEW t \in Senders, SendChecks(t) PROVE SocketFits' /\ Pushed'
  BY <1>11, LessFits DEF SendChecks, SocketFits, wire, reader
<1>12. ASSUME NEW t \in Senders, SendWrites(t) PROVE SocketFits' /\ Pushed'
  <2> DEFINE r == [what |-> "query", seq |-> out[t]]
  <2>1. r \in ToServer /\ r.what # "request"
    BY DEF Types, Counters, ToServer
  <2>2. PICK done \in BOOLEAN : Write(r, done)
    BY <1>12 DEF SendWrites
  <2>3. UNCHANGED <<call, pc>>
    BY <1>12 DEF SendWrites, reader
  <2>. HIDE DEF r
  <2>. QED  BY <2>1, <2>2, <2>3, WriteFits
<1>13. CASE OutsideClose
  <2>1. pc' # "idle" /\ call'.what # "auth" => call'.seq # 0
    BY <1>13 DEF OutsideClose, Pushed, reader
  <2>. QED  BY <1>13, <2>1, CloseFits DEF OutsideClose
<1>14. CASE ServerReplies
  <2>1. /\ srv # <<>> /\ srv \in Seq(ToServer) /\ srv' = Tail(srv)
    BY <1>14 DEF ServerReplies, Types, Sock
  <2>2. Head(srv) \in ToServer /\ Range(srv) = {Head(srv)} \cup Range(Tail(srv))
    BY <2>1, RangeOfTail
  <2>3. Head(srv).seq \in 0..MaxSeq
    BY <2>2 DEF ToServer
  <2>4. PICK kind \in {"ok", "error", "old"} :
           /\ Send(Head(srv).seq, kind)
           /\ pushing' = (pushing \/ (Head(srv).what = "request" /\ kind = "ok"))
    BY <1>14 DEF ServerReplies
  <2>5. pushing' => pushing \/ \E r \in Range(srv) : r.what = "request"
    BY <2>2, <2>4
  <2>6. Range(srv') \subseteq Range(srv)
    BY <2>1, <2>2
  <2>. QED  BY <2>3, <2>4, <2>5, <2>6, SendFits
<1>15. CASE ServerPushes
  <2>1. 0 \in 0..MaxSeq
    BY ConnectionAssumption
  <2>2. pushing /\ Send(0, "async") /\ UNCHANGED <<srv, pushing>>
    BY <1>15 DEF ServerPushes
  <2>. QED  BY <2>1, <2>2, SendFits
<1>16. CASE ServerDies
  <2>1. /\ sock = "open" /\ UNCHANGED <<m_bIsConnected, pc, call>> /\ srv' = <<>> /\ ~pushing'
        /\ \/ sock' = "fin" /\ UNCHANGED net
           \/ sock' = "rst" /\ net' = <<>>
    BY <1>16 DEF ServerDies, reader
  <2>2. Pushed'
    BY <2>1, RangeOfEmpty DEF Pushed
  <2>. QED  BY <2>1, <2>2 DEF SocketFits
<1>17. CASE UNCHANGED vars
  BY <1>17, LessFits DEF vars, SocketFits, wire, reader
<1>. QED
  BY <1>1, <1>2, <1>3, <1>4, <1>5, <1>6, <1>7, <1>8, <1>9, <1>10, <1>11, <1>12, <1>13, <1>14,
     <1>15, <1>16, <1>17 DEF Next, ReaderCall

(* What ReadResult has set aside, empty maps left out, comes before what   *)
(* is still in the socket.                                                 *)
Held == Only(queue \o m_queue, Message)

(* The steps of Session, in the connection's own terms.                    *)
Arrives(m) ==
  /\ m_bIsConnected /\ m.id > lastId
  /\ Backlog' = Append(Backlog, m)
  /\ lastId' = m.id
  /\ UNCHANGED <<m_bIsConnected, lastRead>>

(* Read() hands out the oldest message,                                    *)
Delivered ==
  /\ Backlog # <<>>
  /\ lastRead' = Head(Backlog).id
  /\ Backlog' = Tail(Backlog)
  /\ UNCHANGED <<m_bIsConnected, lastId>>

(* ReadResult() takes an answer out of the middle,                         *)
Taken(i) ==
  /\ m_bIsConnected /\ Backlog[i].kind # "async"
  /\ Backlog' = RemoveAt(Backlog, i)
  /\ UNCHANGED <<m_bIsConnected, lastId, lastRead>>

(* a broken connection loses all but the oldest n,                         *)
Broken(n) ==
  /\ m_bIsConnected
  /\ m_bIsConnected' \in {m_bIsConnected, FALSE}
  /\ Backlog' = SubSeq(Backlog, 1, n)
  /\ UNCHANGED <<lastId, lastRead>>

(* and Connect() makes it usable again.                                    *)
Restored ==
  /\ ~m_bIsConnected
  /\ m_bIsConnected' = TRUE
  /\ UNCHANGED <<Backlog, lastId, lastRead>>

(* Or Session sees nothing of a step.                                      *)
Unseen == UNCHANGED <<m_bIsConnected, Backlog, lastId, lastRead>>

(* Each step is one of these.                                              *)
OneStep ==
  \/ \E m \in Message : Arrives(m)
  \/ Delivered
  \/ \E i \in 1..Len(Backlog) : Taken(i)
  \/ \E n \in 0..Len(Backlog) : Broken(n)
  \/ Restored \/ Unseen

(* It is made of messages.                                                 *)
LEMMA HeldIs ==
  ASSUME NEW q \in Seq(Message \cup {Empty})
  PROVE  Only(q, Message) \in Seq(Message)
<1> DEFINE h == Only(q, Message)
           n == Len(h)
<1>1. h \in Seq(Message \cup {Empty}) /\ Range(h) = Range(q) \cap Message
  BY OnlyIs
<1>. HIDE DEF h
<1>2. DOMAIN h = 1..n /\ n \in Nat /\ h = [i \in 1..n |-> h[i]]
  BY <1>1
<1>3. \A i \in 1..n : h[i] \in Message
  BY <1>1, <1>2 DEF Range
<1>4. h \in [1..n -> Message]
  BY <1>2, <1>3
<1>5. h \in Seq(Message)
  BY <1>2, <1>4
<1>. QED  BY <1>5 DEF h

(* So is all that is still to be handed out.                               *)
LEMMA BacklogIs ==
  ASSUME Types
  PROVE  /\ Held \in Seq(Message) /\ net \in Seq(Message)
         /\ Backlog = Held \o net /\ Backlog \in Seq(Message)
<1>1. queue \o m_queue \in Seq(Message \cup {Empty})
  BY DEF Types, Queues
<1>2. Held \in Seq(Message)
  BY <1>1, HeldIs DEF Held
<1>3. net \in Seq(Message)
  BY DEF Types, Sock
<1>. QED  BY <1>2, <1>3 DEF Backlog, Held

(* A message that is pushed behind the others.                             *)
LEMMA ArrivesSo ==
  ASSUME Types, Types', SocketFits, NEW number, NEW kind, Send(number, kind)
  PROVE  OneStep
<1> DEFINE m == [id |-> lastId + 1, seq |-> number, kind |-> kind]
<1>1. /\ net' = Append(net, m) /\ lastId' = lastId + 1 /\ sock = "open"
      /\ UNCHANGED <<m_bIsConnected, queue, m_queue, lastRead>>
  BY DEF Send, queues
<1>2. m_bIsConnected
  BY <1>1 DEF SocketFits, Types, Sock
<1>3. lastId \in Nat /\ m.id = lastId + 1
  BY ConnectionAssumption DEF Types, Counters
<1>4. net \in Seq(Message) /\ net' \in Seq(Message)
  BY DEF Types, Sock
<1>. HIDE DEF m
<1>5. m \in Message
  <2>1. net' = Append(net, m) /\ Len(net) + 1 \in 1..Len(net')
    BY <1>1, <1>4
  <2>2. net'[Len(net) + 1] = m
    BY <1>1, <1>4
  <2>. QED  BY <1>4, <2>1, <2>2
<1>6. Held' = Held /\ Held \in Seq(Message) /\ Backlog = Held \o net /\ Backlog' = Held' \o net'
  BY <1>1, BacklogIs DEF Held, Backlog
<1>7. Backlog' = Append(Backlog, m)
  <2>1. \A a, b \in Seq(Message) : a \o Append(b, m) = Append(a \o b, m)
    BY <1>5
  <2>. QED  BY <1>1, <1>4, <1>6, <2>1
<1>8. Arrives(m)
  BY <1>1, <1>2, <1>3, <1>7 DEF Arrives
<1>. QED  BY <1>5, <1>8 DEF OneStep

(* What was in the socket is lost, or nothing is.                          *)
LEMMA LostSo ==
  ASSUME Types, SocketFits, Held' = Held, net' \in {net, <<>>},
         m_bIsConnected' \in {m_bIsConnected, FALSE}, UNCHANGED <<lastId, lastRead>>
  PROVE  OneStep
<1>1. /\ Held \in Seq(Message) /\ net \in Seq(Message) /\ Backlog = Held \o net
      /\ Backlog \in Seq(Message) /\ Backlog' = Held \o net'
  BY BacklogIs DEF Held, Backlog
<1>2. m_bIsConnected \in BOOLEAN
  BY DEF Types, Sock
<1>3. CASE net' = net /\ ~m_bIsConnected
  BY <1>1, <1>2, <1>3 DEF OneStep, Unseen
<1>4. CASE net' = net /\ m_bIsConnected
  <2>1. Len(Backlog) \in 0..Len(Backlog) /\ SubSeq(Backlog, 1, Len(Backlog)) = Backlog
    <3>1. \A s \in Seq(Message) : Len(s) \in 0..Len(s) /\ SubSeq(s, 1, Len(s)) = s
      OBVIOUS
    <3>. QED  BY <1>1, <3>1
  <2>2. Broken(Len(Backlog))
    BY <1>1, <1>4, <2>1 DEF Broken
  <2>. QED  BY <2>1, <2>2 DEF OneStep
<1>5. CASE net' = <<>> /\ net # <<>>
  <2>1. m_bIsConnected
    BY <1>5 DEF SocketFits
  <2>2. Len(Held) \in 0..Len(Backlog) /\ SubSeq(Backlog, 1, Len(Held)) = Held
    <3>1. \A a, b \in Seq(Message) : Len(a) \in 0..Len(a \o b) /\ SubSeq(a \o b, 1, Len(a)) = a
      OBVIOUS
    <3>. QED  BY <1>1, <3>1
  <2>3. Backlog' = Held
    BY <1>1, <1>5
  <2>4. Broken(Len(Held))
    BY <2>1, <2>2, <2>3 DEF Broken
  <2>. QED  BY <2>2, <2>4 DEF OneStep
<1>. QED  BY <1>2, <1>3, <1>4, <1>5

(* The helpers lose no more than what is in the socket.                    *)
LEMMA CloseLoses == Close => net' = <<>> /\ m_bIsConnected' = FALSE
BY DEF Close

(* A write loses nothing but by closing.                                   *)
LEMMA WriteLoses ==
  ASSUME NEW request, NEW done, Write(request, done)
  PROVE  net' \in {net, <<>>} /\ m_bIsConnected' \in {m_bIsConnected, FALSE}
BY CloseLoses DEF Write

(* A read takes the oldest message, or it loses what is in the socket.     *)
LEMMA ReadTakes ==
  ASSUME NEW m, ReadSocket(m), Types
  PROVE  \/ /\ net # <<>> /\ m = Head(net) /\ m \in Message /\ net' = Tail(net)
            /\ UNCHANGED m_bIsConnected
         \/ /\ m \in {Null, Empty} /\ net' \in {net, <<>>}
            /\ m_bIsConnected' \in {m_bIsConnected, FALSE}
<1>1. net # <<>> => Head(net) \in Message
  BY DEF Types, Sock
<1>. QED  BY <1>1, CloseLoses DEF ReadSocket, wire

(* Null and the empty map are no messages.                                 *)
LEMMA EmptyMap == Empty \notin Message /\ Null \notin Message
BY ConnectionAssumption DEF Empty, Null, Message

(* ReadMessage() takes the oldest message, or an empty map nobody waits    *)
(* for.                                                                    *)
LEMMA ReadQueuedSo ==
  ASSUME Types, Types', QueueSetAside, ReadQueued
  PROVE  OneStep
<1> DEFINE M == Message \cup {Empty}
<1>1. /\ queue = <<>> /\ queue' = <<>> /\ m_queue \in Seq(M) /\ m_queue # <<>>
      /\ m_queue' = Tail(m_queue) /\ Tail(m_queue) \in Seq(M)
      /\ lastRead' = IF Head(m_queue) = Empty THEN lastRead ELSE Head(m_queue).id
      /\ UNCHANGED <<m_bIsConnected, net, lastId>>
  BY DEF ReadQueued, QueueSetAside, Types, Queues, wire
<1>2. \A s \in Seq(M) : <<>> \o s = s
  OBVIOUS
<1>3. /\ Held = Only(m_queue, Message) /\ Held' = Only(Tail(m_queue), Message)
  BY <1>1, <1>2 DEF Held
<1>4. Held = IF Head(m_queue) \in Message THEN <<Head(m_queue)>> \o Held' ELSE Held'
  BY <1>1, <1>3, OnlyTail
<1>5. /\ Held \in Seq(Message) /\ Held' \in Seq(Message) /\ net \in Seq(Message)
      /\ Backlog = Held \o net /\ Backlog' = Held' \o net
  <2>1. Only(Tail(m_queue), Message) \in Seq(Message)
    BY <1>1, HeldIs
  <2>. QED  BY <1>1, <1>3, <2>1, BacklogIs DEF Backlog, Held
<1>6. Head(m_queue) \in M
  BY <1>1
<1>7. CASE Head(m_queue) = Empty
  BY <1>1, <1>4, <1>5, <1>7, EmptyMap DEF OneStep, Unseen
<1>8. CASE Head(m_queue) \in Message
  <2> DEFINE m == Head(m_queue)
  <2>1. m \in Message /\ Held = <<m>> \o Held'
    BY <1>4, <1>8
  <2>. HIDE DEF m
  <2>2. \A a, b \in Seq(Message) : /\ (<<m>> \o a) \o b # <<>>
                                   /\ Head((<<m>> \o a) \o b) = m
                                   /\ Tail((<<m>> \o a) \o b) = a \o b
    <3>1. ASSUME NEW a \in Seq(Message), NEW b \in Seq(Message)
          PROVE  (<<m>> \o a) \o b = <<m>> \o (a \o b) /\ a \o b \in Seq(Message)
      BY <2>1
    <3>2. ASSUME NEW c \in Seq(Message)
          PROVE  <<m>> \o c # <<>> /\ Head(<<m>> \o c) = m /\ Tail(<<m>> \o c) = c
      BY <2>1
    <3>. QED  BY <3>1, <3>2
  <2>3. lastRead' = m.id
    BY <1>1, <1>8, EmptyMap DEF m
  <2>4. Delivered
    BY <1>1, <1>5, <2>1, <2>2, <2>3 DEF Delivered
  <2>. QED  BY <2>4 DEF OneStep
<1>. QED  BY <1>6, <1>7, <1>8

(* The same from the socket.                                               *)
LEMMA ReadFreshSo ==
  ASSUME Types, Types', QueueSetAside, SocketFits, ReadFresh
  PROVE  OneStep
<1>1. /\ queue = <<>> /\ m_queue = <<>> /\ UNCHANGED <<queue, m_queue, lastId>>
  BY DEF ReadFresh, QueueSetAside, queues
<1>2. PICK m : /\ ReadSocket(m)
               /\ lastRead' = IF m \in {Null, Empty} THEN lastRead ELSE m.id
  BY DEF ReadFresh
<1>3. Held' = Held
  BY <1>1 DEF Held
<1>4. CASE m \in {Null, Empty}
  BY <1>1, <1>2, <1>3, <1>4, EmptyMap, ReadTakes, LostSo
<1>5. CASE m \notin {Null, Empty}
  <2>1. net # <<>> /\ m = Head(net) /\ net' = Tail(net) /\ UNCHANGED m_bIsConnected
    BY <1>2, <1>5, ReadTakes
  <2>2. Backlog = net /\ Backlog' = net'
    <3>1. Held = <<>>
      <4>1. <<>> \o <<>> = <<>>
        OBVIOUS
      <4>. QED  BY <1>1, <4>1, OnlyEmpty DEF Held
    <3>2. net \in Seq(Message) /\ net' \in Seq(Message)
      BY DEF Types, Sock, Message
    <3>3. \A s \in Seq(Message) : <<>> \o s = s
      OBVIOUS
    <3>. QED  BY <1>3, <3>1, <3>2, <3>3 DEF Backlog, Held
  <2>3. Delivered
    BY <1>1, <1>2, <1>5, <2>1, <2>2 DEF Delivered
  <2>. QED  BY <2>3 DEF OneStep
<1>. QED  BY <1>4, <1>5

(* ReadResult() sets the queue aside and puts it back.                     *)
LEMMA ResultWritesSo ==
  ASSUME Types, QueueSetAside, SocketFits, ResultWrites
  PROVE  OneStep
<1>1. net' \in {net, <<>>} /\ m_bIsConnected' \in {m_bIsConnected, FALSE} /\ UNCHANGED <<lastId, lastRead>>
  BY WriteLoses DEF ResultWrites
<1>2. /\ queue = <<>>
      /\ (queue' = m_queue /\ m_queue' = queue) \/ UNCHANGED <<queue, m_queue>>
  BY DEF ResultWrites, QueueSetAside, queues
<1>3. queue' \o m_queue' = queue \o m_queue
  <2>1. \A s \in Seq(Message \cup {Empty}) : s \o <<>> = <<>> \o s
    OBVIOUS
  <2>. QED  BY <1>2, <2>1 DEF Types, Queues
<1>4. Held' = Held
  BY <1>3 DEF Held, Message
<1>. QED  BY <1>1, <1>4, LostSo

(* A turn of its loop takes the reply, or it keeps a message for later.    *)
LEMMA ResultReadsSo ==
  ASSUME Types, Types', QueueSetAside, SocketFits, Pushed, ResultReads
  PROVE  OneStep
<1> DEFINE M == Message \cup {Empty}
<1>1. UNCHANGED <<call, lastId, lastRead>> /\ pc = "wait"
  BY DEF ResultReads
<1>2. PICK m : ReadSocket(m) /\
        CASE m = Null -> ResultEnds(queue, "null")
          [] m # Null /\ IsReply(m) -> ResultEnds(queue, Verdict(m))
          [] m # Null /\ ~IsReply(m) /\ Len(Kept(m)) >= QueueSize -> ResultEnds(Kept(m), "null")
          [] OTHER -> queue' = Kept(m) /\ UNCHANGED <<m_queue, pc, res>>
  BY DEF ResultReads
<1>3. /\ m_queue = <<>> /\ queue \in Seq(M) /\ net \in Seq(Message)
  BY <1>1 DEF QueueSetAside, Types, Queues, Sock
<1>4. \A s \in Seq(M) : s \o <<>> = s /\ <<>> \o s = s
  OBVIOUS
<1>5. Held = Only(queue, Message)
  BY <1>3, <1>4 DEF Held
<1>6. \/ /\ m = Null \/ IsReply(m)
         /\ m_queue' = queue /\ queue' = <<>>
      \/ /\ ~IsReply(m)
         /\ \/ m_queue' = Append(queue, m) /\ queue' = <<>>
            \/ queue' = Append(queue, m) /\ UNCHANGED m_queue
  BY <1>2 DEF ResultEnds, Kept
<1>7. Held' = Only(queue, Message) \/ (m = Empty /\ Held' = Held)
      \/ (m \in Message /\ ~IsReply(m) /\ Held' = Append(Held, m))
  <2>1. CASE m_queue' = queue /\ queue' = <<>>
    BY <1>3, <1>4, <2>1 DEF Held
  <2>2. CASE m \in M /\ ~IsReply(m) /\ queue' \o m_queue' = Append(queue, m)
    <3>0. Only(Append(queue, m), Message) =
            IF m \in Message THEN Append(Only(queue, Message), m) ELSE Only(queue, Message)
      <4>1. queue \in Seq(M) /\ m \in M
        BY <1>3, <2>2
      <4>. HIDE DEF M
      <4>. QED  BY <4>1, OnlyAppend
    <3>1. Held' = IF m \in Message THEN Append(Held, m) ELSE Held
      BY <1>5, <2>2, <3>0 DEF Held
    <3>. QED  BY <2>2, <3>1
  <2>3. CASE m = Null
    BY <1>2, <2>1, <2>3 DEF ResultEnds
  <2>4. CASE m # Null
    <3>1. m \in M
      BY <1>2, <2>4, ReadTakes
    <3>2. Append(queue, m) \in Seq(M)
      BY <1>3, <3>1
    <3>. QED  BY <1>3, <1>4, <1>6, <2>1, <2>2, <2>4, <3>1, <3>2
  <2>. QED  BY <2>3, <2>4
<1>8. CASE m \in {Null, Empty}
  <2>1. Held' = Held
    BY <1>5, <1>7, <1>8, EmptyMap
  <2>2. net' \in {net, <<>>} /\ m_bIsConnected' \in {m_bIsConnected, FALSE}
    BY <1>2, <1>8, EmptyMap, ReadTakes
  <2>. QED  BY <1>1, <2>1, <2>2, LostSo
<1>9. CASE m \notin {Null, Empty}
  <2>1. net # <<>> /\ m = Head(net) /\ m \in Message /\ net' = Tail(net) /\ UNCHANGED m_bIsConnected
    BY <1>2, <1>9, ReadTakes
  <2>2. /\ Held \in Seq(Message) /\ Backlog = Held \o net /\ Backlog \in Seq(Message)
        /\ Backlog' = Held' \o net'
    BY BacklogIs DEF Held, Backlog
  <2>3. CASE IsReply(m)
    <3>1. Held' = Held
      BY <1>3, <1>4, <1>5, <1>6, <1>9, <2>3 DEF Held
    <3>2. m \in Range(net) /\ m_bIsConnected
      BY <1>3, <2>1, RangeOfTail DEF SocketFits
    <3>3. m.kind # "async"
      BY <1>1, <2>3, <3>2 DEF Pushed, IsReply
    <3> DEFINE i == Len(Held) + 1
    <3>4. i \in 1..Len(Backlog) /\ Backlog[i] = m /\ RemoveAt(Backlog, i) = Held \o Tail(net)
      BY <1>3, <2>1, <2>2, TakenOut
    <3>5. Backlog' = RemoveAt(Backlog, i)
      BY <2>1, <2>2, <3>1, <3>4
    <3>. HIDE DEF i
    <3>6. Taken(i)
      BY <1>1, <2>1, <3>2, <3>3, <3>4, <3>5 DEF Taken
    <3>. QED  BY <3>4, <3>6 DEF OneStep
  <2>4. CASE ~IsReply(m)
    <3>1. Held' = Append(Held, m)
      <4>1. \/ m_queue' = Append(queue, m) /\ queue' = <<>>
            \/ queue' = Append(queue, m) /\ UNCHANGED m_queue
        BY <1>6, <1>9, <2>4
      <4>2. Append(queue, m) \in Seq(M)
        BY <1>3, <2>1
      <4>3. queue' \o m_queue' = Append(queue, m)
        BY <1>3, <1>4, <4>1, <4>2
      <4>4. Held' = Only(Append(queue, m), Message)
        BY <4>3 DEF Held
      <4>5. queue \in Seq(M) /\ m \in M
        BY <1>3, <2>1
      <4>. HIDE DEF M
      <4>6. Only(Append(queue, m), Message) = Append(Only(queue, Message), m)
        BY <2>1, <4>5, OnlyAppend
      <4>. QED  BY <1>5, <4>4, <4>6
    <3>2. \A a, b \in Seq(Message) : b # <<>> => Append(a, Head(b)) \o Tail(b) = a \o b
      <4>. SUFFICES ASSUME NEW a \in Seq(Message), NEW b \in Seq(Message), b # <<>>
                    PROVE  Append(a, Head(b)) \o Tail(b) = a \o b
        OBVIOUS
      <4>. QED  OBVIOUS
    <3>3. Backlog' = Backlog
      BY <1>3, <2>1, <2>2, <3>1, <3>2
    <3>. QED  BY <1>1, <2>1, <3>3 DEF OneStep, Unseen
  <2>. QED  BY <2>3, <2>4
<1>. QED  BY <1>8, <1>9

(* Every step of the connection, and                                       *)
LEMMA NextSo ==
  ASSUME Types, Types', QueueSetAside, SocketFits, SocketFits', Pushed, [Next]_vars
  PROVE  OneStep
<1>1. ASSUME UNCHANGED <<queue, m_queue, net, m_bIsConnected, lastId, lastRead>>
      PROVE  OneStep
  BY <1>1 DEF OneStep, Unseen, Backlog
<1>2. ASSUME UNCHANGED <<queue, m_queue, lastId, lastRead>>, net' \in {net, <<>>},
             m_bIsConnected' \in {m_bIsConnected, FALSE}
      PROVE  OneStep
  <2>1. Held' = Held
    BY <1>2 DEF Held
  <2>. QED  BY <1>2, <2>1, LostSo
<1>3. CASE ReadQueued
  BY <1>3, ReadQueuedSo
<1>4. CASE ReadFresh
  BY <1>4, ReadFreshSo
<1>5. CASE ResultChecks
  BY <1>1, <1>5 DEF ResultChecks, wire, queues
<1>6. CASE ResultWrites
  BY <1>6, ResultWritesSo
<1>7. CASE ResultReads
  BY <1>7, ResultReadsSo
<1>8. CASE Connect
  <2>1. /\ ~m_bIsConnected /\ m_bIsConnected' = TRUE /\ net' = <<>>
        /\ UNCHANGED <<queue, m_queue, lastId, lastRead>>
    BY <1>8 DEF Connect, queues
  <2>2. net = <<>>
    BY <2>1 DEF SocketFits
  <2>3. Backlog' = Backlog
    BY <2>1, <2>2 DEF Backlog
  <2>. QED  BY <2>1, <2>3 DEF OneStep, Restored
<1>9. CASE HelloReturns \/ AuthReturns \/ OutsideClose
  <2>1. UNCHANGED <<queue, m_queue, lastId, lastRead>>
    BY <1>9 DEF HelloReturns, Auth, AuthReturns, OutsideClose, queues
  <2>2. Close \/ UNCHANGED wire
    BY <1>9 DEF HelloReturns, Auth, AuthReturns, OutsideClose
  <2>3. net' \in {net, <<>>} /\ m_bIsConnected' \in {m_bIsConnected, FALSE}
    BY <2>2, CloseLoses DEF wire
  <2>. QED  BY <1>2, <2>1, <2>3
<1>10. CASE Request
  BY <1>1, <1>10 DEF Request, wire, queues
<1>11. CASE RequestReturns
  BY <1>1, <1>11 DEF RequestReturns, wire, queues
<1>12. ASSUME NEW t \in Senders, SendChecks(t) PROVE OneStep
  BY <1>1, <1>12 DEF SendChecks, wire, queues
<1>13. ASSUME NEW t \in Senders, SendWrites(t) PROVE OneStep
  <2>1. UNCHANGED <<queue, m_queue, lastId, lastRead>>
    BY <1>13 DEF SendWrites, queues
  <2>. QED  BY <1>2, <1>13, <2>1, WriteLoses DEF SendWrites
<1>14. CASE ServerReplies \/ ServerPushes
  <2>1. PICK number, kind : Send(number, kind)
    BY <1>14 DEF ServerReplies, ServerPushes
  <2>. QED  BY <2>1, ArrivesSo
<1>15. CASE ServerDies
  <2>1. /\ UNCHANGED <<queue, m_queue, lastId, lastRead, m_bIsConnected>>
        /\ net' \in {net, <<>>}
    BY <1>15 DEF ServerDies, queues
  <2>. QED  BY <1>2, <2>1
<1>16. CASE UNCHANGED vars
  BY <1>1, <1>16 DEF vars, wire, queues
<1>. QED
  BY <1>3, <1>4, <1>5, <1>6, <1>7, <1>8, <1>9, <1>10, <1>11, <1>12, <1>13, <1>14, <1>15, <1>16
  DEF Next, ReaderCall

(* What Session sees of a message.                                         *)
Seen == [m \in Message |-> Abstract(m)]

(* A message as Session has it.                                            *)
SeenMessage == [id : 1..MaxId, reply : BOOLEAN]

(* Number and kind stay.                                                   *)
LEMMA SeenIs ==
  /\ Seen \in [Message -> SeenMessage]
  /\ \A m \in Message : /\ Seen[m] \in SeenMessage /\ Seen[m].id = m.id
                        /\ Seen[m].reply <=> m.kind # "async"
<1>1. \A m \in Message : /\ Abstract(m) \in SeenMessage /\ Abstract(m).id = m.id
                         /\ Abstract(m).reply <=> m.kind # "async"
  BY DEF Abstract, Message, SeenMessage
<1>. QED  BY <1>1 DEF Seen

(* The inbox of Session.                                                   *)
LEMMA InboxIs ==
  ASSUME NEW s \in Seq(Message)
  PROVE  [i \in 1..Len(s) |-> Abstract(s[i])] = Through(s, Seen)
<1>1. \A i \in 1..Len(s) : s[i] \in Message
  OBVIOUS
<1>. QED  BY <1>1 DEF Through, Seen

(* A step of the connection is a step of the session.                      *)
LEMMA SessionStep ==
  ASSUME Types, Types', OneStep
  PROVE  [Promise!Next]_(Promise!vars)
<1>1. Backlog \in Seq(Message) /\ Backlog' \in Seq(Message)
  <2>1. \/ Backlog' = Backlog
        \/ \E m \in Message : Backlog' = Append(Backlog, m)
        \/ Backlog # <<>> /\ Backlog' = Tail(Backlog)
        \/ \E i \in 1..Len(Backlog) : Backlog' = RemoveAt(Backlog, i)
        \/ \E n \in 0..Len(Backlog) : Backlog' = SubSeq(Backlog, 1, n)
    BY DEF OneStep, Arrives, Delivered, Taken, Broken, Restored, Unseen
  <2>2. Backlog \in Seq(Message)
    BY BacklogIs
  <2>3. \A s \in Seq(Message) :
           /\ \A m \in Message : Append(s, m) \in Seq(Message)
           /\ s # <<>> => Tail(s) \in Seq(Message)
           /\ \A n \in 0..Len(s) : SubSeq(s, 1, n) \in Seq(Message)
    OBVIOUS
  <2>. QED  BY <2>1, <2>2, <2>3, RemoveAtProperties
<1> DEFINE seen == Inbox
<1>2. seen = Through(Backlog, Seen) /\ seen' = Through(Backlog', Seen)
  BY <1>1, InboxIs DEF Inbox
<1>3. CASE \E m \in Message : Arrives(m)
  <2>1. PICK m \in Message : Arrives(m)
    BY <1>3
  <2>2. Through(Append(Backlog, m), Seen) = Append(Through(Backlog, Seen), Seen[m])
    <3>1. Seen \in [Message -> SeenMessage]
      BY SeenIs
    <3>. QED  BY <1>1, <3>1, ThroughAppend, Zenon
  <2>3. Promise!Arrive(Seen[m])
    BY <1>2, <2>1, <2>2, SeenIs DEF Arrives, Promise!Arrive
  <2>4. Seen[m] \in [id : 1..MaxId, reply : BOOLEAN]
    BY SeenIs DEF SeenMessage
  <2>. QED  BY <2>3, <2>4 DEF Promise!Next
<1>4. CASE Delivered
  <2>1. /\ Through(Tail(Backlog), Seen) = Tail(Through(Backlog, Seen))
        /\ Through(Backlog, Seen) # <<>> /\ Head(Through(Backlog, Seen)) = Seen[Head(Backlog)]
    <3>1. Backlog # <<>> /\ Seen \in [Message -> SeenMessage]
      BY <1>4, SeenIs DEF Delivered
    <3>. QED  BY <1>1, <3>1, ThroughTail, Zenon
  <2>2. Head(Backlog) \in Message
    BY <1>1, <1>4 DEF Delivered
  <2>3. Promise!Deliver
    BY <1>2, <1>4, <2>1, <2>2, SeenIs DEF Delivered, Promise!Deliver
  <2>. QED  BY <2>3 DEF Promise!Next
<1>5. CASE \E i \in 1..Len(Backlog) : Taken(i)
  <2>1. PICK i \in 1..Len(Backlog) : Taken(i)
    BY <1>5
  <2>2. Through(RemoveAt(Backlog, i), Seen) = RemoveAt(Through(Backlog, Seen), i)
    <3>1. Seen \in [Message -> SeenMessage]
      BY SeenIs
    <3>2. \A f \in [Message -> SeenMessage], s \in Seq(Message) : \A k \in 1..Len(s) :
             Through(RemoveAt(s, k), f) = RemoveAt(Through(s, f), k)
      BY ThroughRemoveAt
    <3>3. i \in 1..Len(Backlog)
      BY <2>1
    <3>. QED  BY <1>1, <3>1, <3>2, <3>3, Zenon
  <2>3. Len(seen) = Len(Backlog) /\ seen[i] = Seen[Backlog[i]] /\ Backlog[i] \in Message
    <3>1. Shows(Through(Backlog, Seen), Backlog, Seen, SeenMessage)
      BY <1>1, SeenIs, ThroughIs
    <3>. QED  BY <1>1, <1>2, <3>1 DEF Shows
  <2>4. Promise!TakeReply(i)
    BY <1>2, <2>1, <2>2, <2>3, SeenIs DEF Taken, Promise!TakeReply, Promise!RemoveAt, RemoveAt
  <2>. QED  BY <2>3, <2>4 DEF Promise!Next
<1>6. CASE \E n \in 0..Len(Backlog) : Broken(n)
  <2>1. PICK n \in 0..Len(Backlog) : Broken(n)
    BY <1>6
  <2>2. Through(SubSeq(Backlog, 1, n), Seen) = SubSeq(Through(Backlog, Seen), 1, n)
    <3>1. Seen \in [Message -> SeenMessage]
      BY SeenIs
    <3>2. \A f \in [Message -> SeenMessage], s \in Seq(Message) : \A k \in 0..Len(s) :
             Through(SubSeq(s, 1, k), f) = SubSeq(Through(s, f), 1, k)
      BY ThroughPrefix
    <3>3. n \in 0..Len(Backlog)
      BY <2>1
    <3>. QED  BY <1>1, <3>1, <3>2, <3>3, Zenon
  <2>3. Len(seen) = Len(Backlog)
    <3>1. Shows(Through(Backlog, Seen), Backlog, Seen, SeenMessage)
      BY <1>1, SeenIs, ThroughIs
    <3>. QED  BY <1>2, <3>1 DEF Shows
  <2>4. Promise!Break(n)
    BY <1>2, <2>1, <2>2 DEF Broken, Promise!Break
  <2>. QED  BY <2>3, <2>4 DEF Promise!Next
<1>7. CASE Restored
  BY <1>2, <1>7 DEF Restored, Promise!Up, Promise!Next
<1>8. CASE Unseen
  BY <1>2, <1>8 DEF Unseen, Promise!vars
<1>. QED  BY <1>3, <1>4, <1>5, <1>6, <1>7, <1>8 DEF OneStep

(* The connection keeps the promise of Session: whatever ReadResult sets   *)
(* aside or leaves behind, however often Close() and Connect() come in     *)
(* between, messages are handed out in the order of the server, none       *)
(* twice, and only a broken connection loses any.                          *)
THEOREM PromiseKept == Spec => KeepsPromise
<1>1. Init => Promise!Init
  <2>. SUFFICES ASSUME Init PROVE Promise!Init
    OBVIOUS
  <2>1. Backlog = <<>>
    <3>1. <<>> \o <<>> = <<>>
      OBVIOUS
    <3>. QED  BY <3>1, OnlyEmpty DEF Init, Backlog
  <2>2. Inbox = <<>>
    BY <2>1 DEF Inbox
  <2>. QED  BY <2>2 DEF Init, Promise!Init
<1>2. Types /\ Sent /\ SocketFits /\ Pushed /\ [Next]_vars => (Types /\ Sent /\ SocketFits /\ Pushed)'
  BY NextTypes, NextFits
<1>3. Types /\ Types' /\ QueueSetAside /\ SocketFits /\ SocketFits' /\ Pushed /\ [Next]_vars
        => [Promise!Next]_(Promise!vars)
  BY NextSo, SessionStep
<1>4. Spec => [](Types /\ Sent /\ SocketFits /\ Pushed)
  BY <1>2, InitTypes, InitFits, PTL DEF Spec
<1>. QED  BY <1>1, <1>3, <1>4, QueueKept, PTL DEF Spec, KeepsPromise, Promise!Spec
=============================================================================
