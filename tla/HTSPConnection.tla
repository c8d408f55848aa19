--------------------------- MODULE HTSPConnection ---------------------------
(***************************************************************************)
(* CHTSPConnection (addons/pvr.hts/src/HTSPConnection.cpp): one TCP        *)
(* connection to a tvheadend server, the handshake on it, and the queue of *)
(* the messages that arrived while somebody waited for a reply.            *)
(*                                                                         *)
(* One thread reads (Connect, ReadMessage, ReadResult): in CHTSPData the   *)
(* thread of Open and after it Process(), in CHTSPDemux the player.  Other *)
(* threads transmit requests whose replies the reader finds.  m_mutex is   *)
(* held for the whole of a socket read or write, so each is one step; it   *)
(* is free between the IsConnected test of TransmitMessage and its write.  *)
(* The server, outside src/, answers in order and pushes messages once a   *)
(* request has switched that on.                                           *)
(***************************************************************************)
EXTENDS Naturals, Sequences, SequencesExt, Filter

CONSTANTS
  Senders,       (* threads that only transmit                            *)
  Username,      (* TRUE if a user name is set, so that Auth() asks       *)
  QueueSize,     (* m_iQueueSize, 1000 in the code                        *)
  MaxConnects,   (* bound: connections made                               *)
  MaxSeq,        (* bound: sequence numbers handed out                    *)
  MaxId          (* bound: messages the server sends                      *)

ASSUME ConnectionAssumption ==
  /\ Username \in BOOLEAN
  /\ QueueSize \in Nat \ {0}
  /\ {MaxConnects, MaxSeq, MaxId} \subseteq Nat

VARIABLES
  m_bIsConnected,
  sock,       (* "closed", "open", "fin" (the peer is gone), "rst"         *)
  net,        (* messages in the socket, oldest first                     *)
  m_queue,
  queue,      (* the local queue of ReadResult                            *)
  pc,         (* where the reader is                                      *)
  call,       (* the ReadResult call it makes                             *)
  res,        (* what that call returns                                   *)
  seq,        (* g_iPacketSequence                                        *)
  out,        (* number of the request a sender is about to write, or 0   *)
  greeted,    (* history: the connection let in last, with its greeting   *)
              (* and, if a user name is set, its authentication accepted  *)
  conn,       (* connections made so far                                  *)
  srv,        (* requests the server has still to answer                  *)
  pushing,    (* the server pushes messages on this connection            *)
  lastId,     (* id of the server's latest message                        *)
  lastRead    (* id of the message ReadMessage handed out last            *)

wire   == <<m_bIsConnected, sock, net, srv, pushing>>
queues == <<m_queue, queue>>
reader == <<pc, call, res>>
server == <<srv, pushing, lastId>>
vars == <<wire, queues, reader, seq, out, greeted, conn, lastId, lastRead>>

Null  == [id |-> 0, seq |-> 0, kind |-> "null"]
Empty == [id |-> 0, seq |-> 0, kind |-> "empty"]  (* htsmsg_create_map()   *)

Message == [id : 1..MaxId, seq : 0..MaxSeq, kind : {"ok", "old", "error", "async"}]

Init ==
  /\ m_bIsConnected = FALSE /\ sock = "closed" /\ net = <<>>
  /\ m_queue = <<>> /\ queue = <<>>
  /\ pc = "idle" /\ call = [what |-> "request", seq |-> 0] /\ res = "null"
  /\ seq = 0 /\ out = [t \in Senders |-> 0]
  /\ greeted = 0 /\ conn = 0
  /\ srv = <<>> /\ pushing = FALSE /\ lastId = 0 /\ lastRead = 0

-----------------------------------------------------------------------------
(* Close().  It leaves m_queue as it is.                                   *)
Close ==
  /\ m_bIsConnected' = FALSE
  /\ sock' = "closed" /\ net' = <<>>
  /\ srv' = <<>> /\ pushing' = FALSE

(* m_socket->Write and what TransmitMessage does with its result: done is  *)
(* TRUE if all bytes were taken.  The first write to a peer that has gone  *)
(* still succeeds; the reset it provokes fails the next one.               *)
Write(request, done) ==
  \/ /\ sock = "open" /\ done
     /\ srv' = Append(srv, request)
     /\ UNCHANGED <<m_bIsConnected, sock, net, pushing>>
  \/ /\ sock = "fin" /\ done
     /\ sock' = "rst" /\ net' = <<>>
     /\ UNCHANGED <<m_bIsConnected, srv, pushing>>
  \/ /\ sock \in {"rst", "closed"} /\ ~done
     /\ Close

(* The part of ReadMessage behind the queue: a whole message, an empty map *)
(* when the time-out expires, or NULL.  A message whose body does not come *)
(* in time closes the connection; a failing size read does not.            *)
ReadSocket(m) ==
  \/ /\ net # <<>> /\ m = Head(net)
     /\ net' = Tail(net)
     /\ UNCHANGED <<m_bIsConnected, sock, srv, pushing>>
  \/ /\ net # <<>> /\ m = Null
     /\ Close
  \/ /\ net = <<>> /\ sock = "open" /\ m = Empty
     /\ UNCHANGED wire
  \/ /\ net = <<>> /\ sock # "open" /\ m = Null
     /\ UNCHANGED wire

(* ReadMessage() by the add-on.                                            *)
ReadQueued ==
  /\ pc = "idle" /\ m_queue # <<>>
  /\ m_queue' = Tail(m_queue)
  /\ lastRead' = IF Head(m_queue) = Empty THEN lastRead ELSE Head(m_queue).id
  /\ UNCHANGED <<wire, queue, reader, seq, out, greeted, conn, lastId>>

ReadFresh ==
  /\ pc = "idle" /\ m_queue = <<>>
  /\ \E m \in {Null, Empty} \cup Range(net) :
       /\ ReadSocket(m)
       /\ lastRead' = IF m \in {Null, Empty} THEN lastRead ELSE m.id
  /\ UNCHANGED <<queues, reader, seq, out, greeted, conn, lastId>>

-----------------------------------------------------------------------------
(* Definitions that stand before another one with nothing said of them are *)
(* variants of it with one plausible mistake, for the mutation runs.       *)

(* ReadResult(m, sequence): take a sequence number, transmit, then read    *)
(* until the reply comes, with the queue set aside.                        *)
Begin(what, number) ==
  /\ pc' = "check"
  /\ call' = [what |-> what, seq |-> number]

ResultChecks ==
  /\ pc = "check"
  /\ IF m_bIsConnected
     THEN pc' = "write" /\ UNCHANGED res
     ELSE pc' = "return" /\ res' = "null"
  /\ UNCHANGED <<wire, queues, call, seq, out, greeted, conn, lastId, lastRead>>

ResultWritesOnly ==
  /\ pc = "write"
  /\ \/ Write(call, TRUE) /\ pc' = "wait" /\ UNCHANGED res
     \/ Write(call, FALSE) /\ pc' = "return" /\ res' = "null"
  /\ UNCHANGED <<queues, call, seq, out, greeted, conn, lastId, lastRead>>

ResultWrites ==
  /\ pc = "write"
  /\ \/ /\ Write(call, TRUE)
        /\ pc' = "wait"
        /\ queue' = m_queue /\ m_queue' = queue
        /\ UNCHANGED res
     \/ /\ Write(call, FALSE)
        /\ pc' = "return" /\ res' = "null"
        /\ UNCHANGED queues
  /\ UNCHANGED <<call, seq, out, greeted, conn, lastId, lastRead>>

QueueLeftAside(kept, result) ==
  /\ queue' = kept /\ UNCHANGED m_queue
  /\ pc' = "return" /\ res' = result

(* The swap that ends ReadResult.                                          *)
ResultEnds(kept, result) ==
  /\ m_queue' = kept /\ queue' = <<>>
  /\ pc' = "return" /\ res' = result

Verdict(m) == IF m.kind = "error" THEN "null" ELSE m.kind

KeptUnlessEmpty(m) == IF m = Empty THEN queue ELSE Append(queue, m)

Kept(m) == Append(queue, m)

IsReply(m) == call.what = "auth" \/ m.seq = call.seq

(* One turn of its loop.  Without a sequence number any message will do,   *)
(* an empty map too, which holds neither "error" nor "noaccess".           *)
ResultReads ==
  /\ pc = "wait"
  /\ \E m \in {Null, Empty} \cup Range(net) :
       /\ ReadSocket(m)
       /\ CASE m = Null -> ResultEnds(queue, "null")
            [] m # Null /\ IsReply(m) ->
                 ResultEnds(queue, Verdict(m))
            [] m # Null /\ ~IsReply(m) /\ Len(Kept(m)) >= QueueSize ->
                 ResultEnds(Kept(m), "null")
            [] OTHER ->
                 /\ queue' = Kept(m)
                 /\ UNCHANGED <<m_queue, pc, res>>
  /\ UNCHANGED <<call, seq, out, greeted, conn, lastId, lastRead>>

-----------------------------------------------------------------------------
(* Connect(): nothing to do if m_bIsConnected; the socket opens, which     *)
(* already sets m_bIsConnected, and SendGreeting() begins.  A socket that  *)
(* does not open in time changes nothing.                                  *)
Connect ==
  /\ pc = "idle" /\ ~m_bIsConnected
  /\ conn < MaxConnects /\ seq < MaxSeq
  /\ conn' = conn + 1
  /\ m_bIsConnected' = TRUE
  /\ sock' = "open" /\ net' = <<>> /\ srv' = <<>> /\ pushing' = FALSE
  /\ seq' = seq + 1
  /\ Begin("hello", seq + 1)
  /\ UNCHANGED <<queues, res, out, greeted, lastId, lastRead>>

(* Auth(), which does nothing without a user name.                         *)
Auth ==
  IF Username THEN Begin("auth", 0) /\ UNCHANGED greeted
              ELSE pc' = "idle" /\ greeted' = conn /\ UNCHANGED call

(* SendGreeting() returns and the protocol version is tested.              *)
HelloReturns ==
  /\ pc = "return" /\ call.what = "hello"
  /\ IF res = "ok"
     THEN Auth /\ UNCHANGED wire
     ELSE Close /\ pc' = "idle" /\ UNCHANGED <<call, greeted>>
  /\ UNCHANGED <<queues, res, seq, out, conn, lastId, lastRead>>

AuthReturnsOpen ==
  /\ pc = "return" /\ call.what = "auth"
  /\ pc' = "idle"
  /\ IF res = "null" THEN UNCHANGED greeted ELSE greeted' = conn
  /\ UNCHANGED <<wire, queues, call, res, seq, out, conn, lastId, lastRead>>

(* Whatever came, and a wait that ended with nothing, is an acceptance: no *)
(* error is in it.                                                         *)
AuthReturns ==
  /\ pc = "return" /\ call.what = "auth"
  /\ IF res = "null" THEN Close /\ UNCHANGED greeted ELSE greeted' = conn /\ UNCHANGED wire
  /\ pc' = "idle"
  /\ UNCHANGED <<queues, call, res, seq, out, conn, lastId, lastRead>>

(* A request of the reader's own, enableAsyncMetadata or subscribe: the    *)
(* server pushes messages once it has accepted one.                        *)
Request ==
  /\ pc = "idle" /\ seq < MaxSeq
  /\ seq' = seq + 1
  /\ Begin("request", seq + 1)
  /\ UNCHANGED <<wire, queues, res, out, greeted, conn, lastId, lastRead>>

RequestReturns ==
  /\ pc = "return" /\ call.what = "request"
  /\ pc' = "idle"
  /\ UNCHANGED <<wire, queues, call, res, seq, out, greeted, conn, lastId, lastRead>>

-----------------------------------------------------------------------------
(* TransmitMessage by another thread, and a Close() from outside.          *)
SendChecks(t) ==
  /\ out[t] = 0 /\ m_bIsConnected
  /\ seq < MaxSeq
  /\ seq' = seq + 1
  /\ out' = [out EXCEPT ![t] = seq + 1]
  /\ UNCHANGED <<wire, queues, reader, greeted, conn, lastId, lastRead>>

SendWrites(t) ==
  /\ out[t] # 0
  /\ \E done \in BOOLEAN : Write([what |-> "query", seq |-> out[t]], done)
  /\ out' = [out EXCEPT ![t] = 0]
  /\ UNCHANGED <<queues, reader, seq, greeted, conn, lastId, lastRead>>

OutsideClose ==
  /\ m_bIsConnected
  /\ Close
  /\ UNCHANGED <<queues, reader, seq, out, greeted, conn, lastId, lastRead>>

-----------------------------------------------------------------------------
(* The server.                                                             *)
Send(number, kind) ==
  /\ sock = "open" /\ lastId < MaxId
  /\ lastId' = lastId + 1
  /\ net' = Append(net, [id |-> lastId + 1, seq |-> number, kind |-> kind])
  /\ UNCHANGED <<m_bIsConnected, sock, queues, reader, seq, out, greeted, conn, lastRead>>

ServerReplies ==
  /\ srv # <<>>
  /\ \E kind \in {"ok", "error"} \cup IF Head(srv).what = "hello" THEN {"old"} ELSE {} :
       /\ Send(Head(srv).seq, kind)
       /\ pushing' = (pushing \/ (Head(srv).what = "request" /\ kind = "ok"))
  /\ srv' = Tail(srv)

ServerPushes ==
  /\ pushing
  /\ Send(0, "async")
  /\ UNCHANGED <<srv, pushing>>

(* It closes the connection, or it resets it and loses what was not read.  *)
ServerDies ==
  /\ sock = "open"
  /\ \/ sock' = "fin" /\ UNCHANGED net
     \/ sock' = "rst" /\ net' = <<>>
  /\ srv' = <<>> /\ pushing' = FALSE
  /\ UNCHANGED <<m_bIsConnected, queues, reader, seq, out, greeted, conn,
                 lastId, lastRead>>

-----------------------------------------------------------------------------
ReaderCall ==
  \/ ResultChecks \/ ResultWrites \/ ResultReads
  \/ HelloReturns \/ AuthReturns \/ RequestReturns

Next ==
  \/ Connect \/ Request \/ ReadQueued \/ ReadFresh
  \/ ReaderCall
  \/ \E t \in Senders : SendChecks(t) \/ SendWrites(t)
  \/ OutsideClose
  \/ ServerReplies \/ ServerPushes \/ ServerDies

Spec == Init /\ [][Next]_vars

(* Every socket operation has a time-out, so a call goes on to its end.    *)
FairSpec == Spec /\ WF_vars(ReaderCall)

-----------------------------------------------------------------------------
TypeOK ==
  /\ m_bIsConnected \in BOOLEAN
  /\ sock \in {"closed", "open", "fin", "rst"}
  /\ net \in Seq(Message)
  /\ m_queue \in Seq(Message \cup {Empty}) /\ queue \in Seq(Message \cup {Empty})
  /\ pc \in {"idle", "check", "write", "wait", "return"}
  /\ call \in [what : {"hello", "auth", "request"}, seq : 0..MaxSeq]
  /\ res \in {"null", "ok", "old", "empty", "async"}
  /\ seq \in 0..MaxSeq /\ out \in [Senders -> 0..MaxSeq]
  /\ conn \in 0..MaxConnects /\ greeted \in 0..conn
  /\ srv \in Seq([what : {"hello", "auth", "request", "query"}, seq : 0..MaxSeq])
  /\ pushing \in BOOLEAN
  /\ lastId \in 0..MaxId /\ lastRead \in 0..lastId

(***************************************************************************)
(* The two queues are never in use together: outside the loop of           *)
(* ReadResult the local queue is empty, inside it m_queue is, so that      *)
(* ReadMessage, which looks at m_queue first, reads the socket there and   *)
(* the swap at the end loses nothing.                                      *)
(***************************************************************************)
QueueSetAside == IF pc = "wait" THEN m_queue = <<>> ELSE queue = <<>>

(***************************************************************************)
(* A connection the add-on may use has been let in: when no call is going  *)
(* on and m_bIsConnected holds, the server of this very connection has     *)
(* answered "hello" with a protocol version that will do and, where a user *)
(* name is set, the request to authenticate was not answered with an error,*)
(* with no access, or by the end of the connection.  That the answer Auth()*)
(* takes is its own is not so: it asks for no number.                      *)
(***************************************************************************)
UsableMeansGreeted == m_bIsConnected /\ pc = "idle" => greeted = conn

(***************************************************************************)
(* ReadResult returns: although an empty map restarts its wait each time a *)
(* read times out, the length of the queue bounds the number of turns.     *)
(***************************************************************************)
ResultReturns == (pc = "wait") ~> (pc # "wait")

(* Everything read or on its way that ReadMessage has still to hand out.   *)
Abstract(m) == [id |-> m.id, reply |-> m.kind # "async"]
Backlog == Only(queue \o m_queue, Message) \o net
Inbox == [i \in 1..Len(Backlog) |-> Abstract(Backlog[i])]

Promise == INSTANCE Session WITH
  Message <- [id : 1..MaxId, reply : BOOLEAN],
  link <- m_bIsConnected, inbox <- Inbox, lastSent <- lastId

(***************************************************************************)
(* The connection keeps the promise of Session: messages are handed out in *)
(* the order of the server, none twice and none but the latest lost, across*)
(* the queueing of ReadResult, a full queue, Close() and reconnection.     *)
(***************************************************************************)
KeepsPromise == Promise!Spec
=============================================================================
