------------------------------ MODULE HTSPData ------------------------------
(***************************************************************************)
(* CHTSPData (addons/pvr.hts/src/HTSPData.cpp): the control connection of  *)
(* the tvheadend add-on.  API threads of XBMC send requests and wait for   *)
(* their replies in a table keyed by sequence number; the thread Process() *)
(* reads the session, hands replies to the waiting calls, applies the      *)
(* updates the server pushes and reconnects; the owner opens and destroys  *)
(* the whole.  The session under it is the one module Session promises and *)
(* HTSPConnection implements.                                              *)
(***************************************************************************)
EXTENDS Naturals, Sequences, SequencesExt

CONSTANTS
  Api,        (* threads of XBMC that call the add-on                      *)
  Nobody,     (* in place of a thread in a message the server pushes       *)
  MaxSeq,     (* bound: requests made                                      *)
  MaxId,      (* bound: messages the server sends                          *)
  MaxDeaths   (* bound: times the server goes away                         *)

ASSUME DataAssumption ==
  /\ Nobody \notin Api
  /\ MaxSeq \in Nat /\ MaxId \in Nat /\ MaxDeaths \in Nat
  /\ Api \cap {"free", "owner", "process"} = {}

VARIABLES
  (* the session *)
  link, inbox, lastSent, lastRead,
  peer,          (* the server is still at the other end                   *)
  pend,          (* requests it has still to answer                        *)
  async,         (* it pushes updates on this connection                   *)
  deaths,
  (* CHTSPData *)
  mutex,         (* who holds m_mutex                                      *)
  m_queue,       (* the keys found in the map of requests                  *)
  m_bIsStarted,
  seq,           (* the last number of HTSPNextSequenceNumber              *)
  (* the API threads: a node of m_queue belongs to the thread that made it *)
  pc, mySeq, calls, event, msg, got, ret,
  lost,          (* keys whose removal a racing insertion has undone       *)
  (* Process() *)
  ppc, hand, bInitialised, m_bStop, m_bRunning,
  (* the owner *)
  opc, m_bCreated,
  expired        (* its StopThread gave up waiting                         *)

session == <<link, inbox, lastSent, lastRead>>
server  == <<peer, pend, async, deaths>>
api     == <<pc, mySeq, calls, event, msg, got, ret>>
process == <<ppc, hand, bInitialised, m_bRunning>>
owner   == <<opc, m_bCreated, expired, m_bStop>>
shared  == <<m_queue, lost, m_bIsStarted, seq>>
vars    == <<session, server, mutex, shared, api, process, owner>>

Message == [id : 1..MaxId, reply : BOOLEAN, seq : 0..MaxSeq,
            by : Api \cup {Nobody}, n : 0..MaxSeq, kind : {"reply", "meta", "sync"}]
Request == [seq : 1..MaxSeq, by : Api, n : 1..MaxSeq]
NoMessage == [id |-> 0, reply |-> FALSE, seq |-> 0, by |-> Nobody, n |-> 0, kind |-> "none"]

S == INSTANCE Session

Init ==
  /\ S!Init
  /\ peer = FALSE /\ pend = {} /\ async = FALSE /\ deaths = 0
  /\ mutex = "free" /\ m_queue = {} /\ lost = {} /\ m_bIsStarted = FALSE /\ seq = 0
  /\ pc = [a \in Api |-> "idle"]
  /\ mySeq = [a \in Api |-> 0] /\ calls = [a \in Api |-> 0]
  /\ event = [a \in Api |-> "none"]
  /\ msg = [a \in Api |-> NoMessage] /\ got = [a \in Api |-> NoMessage]
  /\ ret = [a \in Api |-> "none"]
  /\ ppc = "none" /\ hand = NoMessage /\ bInitialised = FALSE
  /\ m_bStop = FALSE /\ m_bRunning = FALSE
  /\ opc = "new" /\ m_bCreated = FALSE /\ expired = FALSE

-----------------------------------------------------------------------------
(* A definition nothing is said of is a variant of the next one with a     *)
(* plausible mistake: the mutation runs put it in its place.               *)

(* Close() of the session: what was still in the socket is lost.           *)
Disconnect ==
  /\ \E n \in 0..Len(inbox) : inbox' = SubSeq(inbox, 1, n)
  /\ link' = FALSE
  /\ peer' = FALSE /\ pend' = {} /\ async' = FALSE
  /\ UNCHANGED <<lastSent, lastRead, deaths>>

CloseSocket == IF link THEN Disconnect ELSE UNCHANGED <<session, server>>

(* The socket opens: from here on IsConnected() lets API threads transmit. *)
SocketOpens ==
  /\ S!Up
  /\ peer' = TRUE /\ pend' = {} /\ async' = FALSE
  /\ UNCHANGED deaths

(* Hello and authentication go through.  Auth() asks without a sequence    *)
(* number and may take the reply to an API thread's request for its own.   *)
HandshakeSucceeds ==
  /\ link /\ peer
  /\ \/ UNCHANGED session
     \/ \E i \in 1..Len(inbox) : S!TakeReply(i)
  /\ UNCHANGED server

(* SendEnableAsync() and the server agrees.                                *)
EnableAsync ==
  /\ link /\ peer
  /\ async' = TRUE
  /\ UNCHANGED <<session, peer, pend, deaths>>

-----------------------------------------------------------------------------
(* API threads: CHTSPData::ReadResult.                                     *)
Refused(a) ==
  /\ pc[a] = "idle" /\ opc = "open" /\ ~link
  /\ ret' = [ret EXCEPT ![a] = "serverError"]
  /\ UNCHANGED <<session, server, mutex, shared, pc, mySeq, calls, event, msg, got,
                 process, owner>>

NumberUsedTwice == IF seq = 0 THEN 1 ELSE seq

(* HTSPNextSequenceNumber: atomic, never twice the same within 2^32 calls. *)
NextSequenceNumber == seq + 1

(* Without m_mutex, m_queue[seq] begins to insert a node.                  *)
Begin(a) ==
  /\ pc[a] = "idle" /\ opc = "open" /\ link
  /\ seq < MaxSeq
  /\ seq'   = NextSequenceNumber
  /\ mySeq' = [mySeq EXCEPT ![a] = NextSequenceNumber]
  /\ calls' = [calls EXCEPT ![a] = @ + 1]
  /\ event' = [event EXCEPT ![a] = "armed"]
  /\ msg'   = [msg EXCEPT ![a] = NoMessage]
  /\ got'   = [got EXCEPT ![a] = NoMessage]
  /\ ret'   = [ret EXCEPT ![a] = "none"]
  /\ pc'    = [pc EXCEPT ![a] = "insert"]
  /\ UNCHANGED <<session, server, mutex, m_queue, lost, m_bIsStarted, process, owner>>

(* The insertion is not under m_mutex: it races with every other access to *)
(* the map.  What a race does to a std::map is undefined; here the node is *)
(* not found, or a removed one stays.  The caller's reference stays good.  *)
Inserting(threads) == \E b \in threads : pc[b] = "insert"

Insert(a) ==
  /\ pc[a] = "insert"
  /\ \/ m_queue' = m_queue \cup {mySeq[a]}
     \/ /\ \E b \in Api \ {a} : pc[b] \in {"insert", "erase"}
        /\ UNCHANGED m_queue
  /\ pc' = [pc EXCEPT ![a] = "send"]
  /\ UNCHANGED <<session, server, mutex, lost, m_bIsStarted, seq, mySeq, calls, event, msg,
                 got, ret, process, owner>>

(* TransmitMessage.  A request to a dead peer may still seem to be sent.   *)
Send(a) ==
  /\ pc[a] = "send"
  /\ \/ /\ link
        /\ pend' = IF peer
                   THEN pend \cup {[seq |-> mySeq[a], by |-> a, n |-> calls[a]]}
                   ELSE pend
        /\ pc'  = [pc EXCEPT ![a] = "wait"]
        /\ UNCHANGED <<session, peer, async, deaths, ret>>
     \/ /\ ~peer
        /\ CloseSocket
        /\ pc'  = [pc EXCEPT ![a] = "clean"]
        /\ ret' = [ret EXCEPT ![a] = "unknown"]
  /\ UNCHANGED <<mutex, shared, mySeq, calls, event, msg, got, process, owner>>

(* event->Wait returns: with the reply, or after the response time-out.    *)
WaitEnds(a) ==
  /\ pc[a] = "wait"
  /\ IF event[a] = "set"
     THEN /\ got' = [got EXCEPT ![a] = msg[a]]
          /\ ret' = [ret EXCEPT ![a] = "ok"]
     ELSE /\ ret' = [ret EXCEPT ![a] = "timeout"]
          /\ UNCHANGED got
  /\ pc' = [pc EXCEPT ![a] = "clean"]
  /\ UNCHANGED <<session, server, mutex, shared, mySeq, calls, event, msg, process,
                 owner>>

LockSkipped(a) ==
  /\ pc[a] = "clean"
  /\ pc' = [pc EXCEPT ![a] = "erase"]
  /\ UNCHANGED <<session, server, mutex, shared, mySeq, calls, event, msg, got, ret,
                 process, owner>>

Lock(a) ==
  /\ pc[a] = "clean" /\ mutex = "free"
  /\ mutex' = a
  /\ pc' = [pc EXCEPT ![a] = "erase"]
  /\ UNCHANGED <<session, server, shared, mySeq, calls, event, msg, got, ret, process,
                 owner>>

EraseForgets(a) ==
  /\ pc[a] = "erase"
  /\ event'   = [event EXCEPT ![a] = "none"]
  /\ mutex'   = "free"
  /\ pc'      = [pc EXCEPT ![a] = "idle"]
  /\ UNCHANGED <<session, server, m_queue, lost, m_bIsStarted, seq, mySeq, calls, msg,
                 got, ret, process, owner>>

(* delete message.event, m_queue.erase(seq), and the lock is released.     *)
Erase(a) ==
  /\ pc[a] = "erase"
  /\ event'   = [event EXCEPT ![a] = "none"]
  /\ \/ m_queue' = m_queue \ {mySeq[a]} /\ UNCHANGED lost
     \/ /\ Inserting(Api \ {a}) /\ mySeq[a] \in m_queue
        /\ lost' = lost \cup {mySeq[a]}
        /\ UNCHANGED m_queue
  /\ mutex'   = "free"
  /\ pc'      = [pc EXCEPT ![a] = "idle"]
  /\ UNCHANGED <<session, server, m_bIsStarted, seq, mySeq, calls, msg, got, ret,
                 process, owner>>

-----------------------------------------------------------------------------
(* Process(), as long as the object exists: the head of its loop.          *)
Exists == opc # "deleted"

LeavesWhenLost == m_bStop \/ ~link

Leaves == m_bStop \/ (~bInitialised /\ ~link)

LoopEnds ==
  /\ ppc = "top" /\ Exists /\ Leaves
  /\ ppc' = "leave"
  /\ UNCHANGED <<session, server, mutex, shared, api, hand, bInitialised, m_bRunning,
                 owner>>

Reconnect ==
  /\ ppc = "top" /\ Exists /\ ~Leaves
  /\ m_bCreated
  /\ SocketOpens
  /\ ppc' = "handshake"
  /\ UNCHANGED <<mutex, shared, api, hand, bInitialised, m_bRunning, owner>>

Handshake ==
  /\ ppc = "handshake" /\ Exists
  /\ \/ HandshakeSucceeds /\ ppc' = "enable"
     \/ CloseSocket /\ ppc' = "top"
  /\ UNCHANGED <<mutex, shared, api, hand, bInitialised, m_bRunning, owner>>

Enable ==
  /\ ppc = "enable" /\ Exists
  /\ \/ EnableAsync
     \/ UNCHANGED <<session, server>>
  /\ ppc' = "top"
  /\ UNCHANGED <<mutex, shared, api, hand, bInitialised, m_bRunning, owner>>

(* ReadMessage(5) finds a message; finding none changes nothing.           *)
Read ==
  /\ ppc = "top" /\ Exists /\ ~Leaves
  /\ S!Deliver
  /\ hand' = Head(inbox)
  /\ ppc' = IF Head(inbox).kind = "reply" THEN "lock" ELSE "apply"
  /\ UNCHANGED <<server, mutex, shared, api, bInitialised, m_bRunning, owner>>

(* A message breaks off: ReadMessage closes the connection.                *)
ReadBreaks ==
  /\ ppc = "top" /\ Exists /\ ~Leaves
  /\ link /\ Disconnect
  /\ UNCHANGED <<mutex, shared, api, process, owner>>

(* A reply: look the sequence number up, and if a call waits for it give   *)
(* it the message and set its event, which brings a deleted one not back.  *)
(* A reply nobody waits for is dropped; what the node of a finished call   *)
(* does, which only a race leaves behind, is undefined.                    *)
Dispatch ==
  /\ ppc = "lock" /\ Exists /\ mutex = "free"
  /\ \/ \E a \in Api :
          /\ hand.seq \in m_queue \ lost /\ mySeq[a] = hand.seq
          /\ mutex' = "process"
          /\ msg'   = [msg EXCEPT ![a] = hand]
          /\ event' = [event EXCEPT ![a] = IF @ = "none" THEN @ ELSE "set"]
          /\ ppc'   = "notify"
          /\ UNCHANGED hand
     \/ /\ hand.seq \notin m_queue \ lost \/ Inserting(Api)
        /\ ppc' = "top" /\ hand' = NoMessage
        /\ UNCHANGED <<mutex, msg, event>>
  /\ UNCHANGED <<session, server, shared, pc, mySeq, calls, got, ret, bInitialised,
                 m_bRunning, owner>>

NotifyHolding ==
  /\ ppc = "notify" /\ Exists
  /\ ppc' = "top" /\ hand' = NoMessage
  /\ UNCHANGED <<session, server, mutex, shared, api, bInitialised, m_bRunning, owner>>

(* The rest of event->Broadcast(), which still uses the event, and the end *)
(* of the section under m_mutex.                                           *)
Notify ==
  /\ ppc = "notify" /\ Exists
  /\ mutex' = "free"
  /\ ppc' = "top" /\ hand' = NoMessage
  /\ UNCHANGED <<session, server, shared, api, bInitialised, m_bRunning, owner>>

(* An update is applied under m_mutex; the last one of the initial set is  *)
(* initialSyncCompleted.                                                   *)
Apply ==
  /\ ppc = "apply" /\ Exists /\ mutex = "free"
  /\ IF hand.kind = "sync"
     THEN bInitialised' = TRUE /\ m_bIsStarted' = TRUE
     ELSE UNCHANGED <<bInitialised, m_bIsStarted>>
  /\ ppc' = "top" /\ hand' = NoMessage
  /\ UNCHANGED <<session, server, mutex, m_queue, lost, seq, api, m_bRunning, owner>>

(* Process() takes m_mutex a last time for m_started.Broadcast(), and      *)
(* ThreadHandler ends.                                                     *)
Exit ==
  /\ ppc = "leave" /\ Exists /\ mutex = "free"
  /\ ppc' = "done"
  /\ m_bRunning' = FALSE
  /\ UNCHANGED <<session, server, mutex, shared, api, hand, bInitialised, owner>>

ThreadStarts ==
  /\ ppc = "starting"
  /\ ppc' = "top"
  /\ m_bRunning' = TRUE
  /\ UNCHANGED <<session, server, mutex, shared, api, hand, bInitialised, owner>>

-----------------------------------------------------------------------------
(* The owner, ADDON_Create: Open() with m_mutex held throughout ...        *)
OpenConnects ==
  /\ opc = "new" /\ mutex = "free"
  /\ \/ SocketOpens /\ opc' = "handshake" /\ mutex' = "owner"
     \/ UNCHANGED <<session, server, mutex>> /\ opc' = "close"
  /\ UNCHANGED <<shared, api, process, m_bCreated, expired, m_bStop>>

OpenHandshakes ==
  /\ opc = "handshake"
  /\ \/ HandshakeSucceeds /\ opc' = "enable" /\ UNCHANGED mutex
     \/ CloseSocket /\ opc' = "close" /\ mutex' = "free"
  /\ UNCHANGED <<shared, api, process, m_bCreated, expired, m_bStop>>

(* The thread may fail to be created: Open() then waits in vain.           *)
OpenEnables ==
  /\ opc = "enable"
  /\ \/ /\ EnableAsync
        /\ \/ opc' = "createWait" /\ ppc' = "starting" /\ UNCHANGED mutex
           \/ opc' = "startedWait" /\ mutex' = "free" /\ UNCHANGED ppc
     \/ /\ opc' = "close" /\ mutex' = "free"
        /\ UNCHANGED <<session, server, ppc>>
  /\ UNCHANGED <<shared, api, hand, bInitialised, m_bRunning, m_bCreated, expired, m_bStop>>

(* ... up to the wait for m_started, which is where it gives m_mutex up.   *)
(* CreateThread, before it, comes back only if it finds m_bRunning set.    *)
ThreadCreated ==
  /\ opc = "createWait" /\ m_bRunning
  /\ opc' = "startedWait"
  /\ mutex' = "free"
  /\ UNCHANGED <<session, server, shared, api, process, m_bCreated, expired, m_bStop>>

(* The wait ends with m_bIsStarted or after the connect time-out: either   *)
(* way Open() returns IsRunning(), and ADDON_Create sets m_bCreated.       *)
OpenReturns ==
  /\ opc = "startedWait" /\ mutex = "free"
  /\ opc' = IF m_bRunning THEN "open" ELSE "close"
  /\ m_bCreated' = m_bRunning
  /\ UNCHANGED <<session, server, mutex, shared, api, process, expired, m_bStop>>

(* XBMC destroys the add-on when none of its calls is under way.           *)
Destroy ==
  /\ opc = "open"
  /\ \A a \in Api : pc[a] = "idle"
  /\ opc' = "close"
  /\ UNCHANGED <<session, server, mutex, shared, api, process, m_bCreated, expired, m_bStop>>

(* ~CHTSPData: Close() closes the session, then stops the thread: at most  *)
(* 5 s are spent on waiting for it.                                        *)
CloseSession ==
  /\ opc = "close"
  /\ CloseSocket
  /\ opc' = "stop"
  /\ UNCHANGED <<mutex, shared, api, process, m_bCreated, expired, m_bStop>>

StopWithoutWaiting ==
  /\ opc = "stop"
  /\ m_bStop' = TRUE
  /\ opc' = "deleted"
  /\ UNCHANGED <<session, server, mutex, shared, api, process, m_bCreated, expired>>

StopThread ==
  /\ opc = "stop"
  /\ m_bStop' = TRUE
  /\ opc' = IF m_bRunning THEN "stopWait" ELSE "deleted"
  /\ UNCHANGED <<session, server, mutex, shared, api, process, m_bCreated, expired>>

StopReturns ==
  /\ opc = "stopWait"
  /\ opc' = "deleted"
  /\ expired' = m_bRunning
  /\ UNCHANGED <<session, server, mutex, shared, api, process, m_bCreated, m_bStop>>

-----------------------------------------------------------------------------
(* The server.                                                             *)
Arrive(m) ==
  /\ link /\ peer
  /\ m \in Message
  /\ S!Arrive(m)
  /\ UNCHANGED <<peer, async, deaths, mutex, shared, api, process, owner>>

ServerReplies ==
  \E r \in pend :
    /\ Arrive([id |-> lastSent + 1, reply |-> TRUE, seq |-> r.seq, by |-> r.by,
               n |-> r.n, kind |-> "reply"])
    /\ pend' = pend \ {r}

ServerPushes ==
  /\ async
  /\ \E kind \in {"meta", "sync"} :
       Arrive([id |-> lastSent + 1, reply |-> FALSE, seq |-> 0, by |-> Nobody,
               n |-> 0, kind |-> kind])
  /\ UNCHANGED pend

ServerDies ==
  /\ peer /\ deaths < MaxDeaths
  /\ deaths' = deaths + 1
  /\ peer' = FALSE /\ pend' = {} /\ async' = FALSE
  /\ UNCHANGED <<session, mutex, shared, api, process, owner>>
-----------------------------------------------------------------------------
Call(a) == Insert(a) \/ Send(a) \/ WaitEnds(a) \/ Erase(a)

Loop ==
  \/ ThreadStarts \/ LoopEnds \/ Reconnect \/ Handshake \/ Enable
  \/ Read \/ ReadBreaks \/ Notify

Locked == Dispatch \/ Apply \/ Exit  (* what Process() needs m_mutex for   *)

Owner ==
  \/ OpenHandshakes \/ OpenEnables \/ ThreadCreated
  \/ CloseSession \/ StopThread \/ StopReturns

(* Once the object is deleted nothing is left to happen.                   *)
Deleted == opc = "deleted" /\ UNCHANGED vars

Next ==
  \/ \E a \in Api : Refused(a) \/ Begin(a) \/ Lock(a) \/ Call(a)
  \/ Loop \/ Locked
  \/ OpenConnects \/ Owner \/ OpenReturns \/ Destroy \/ Deleted
  \/ ServerReplies \/ ServerPushes \/ ServerDies

Spec == Init /\ [][Next]_vars

HandshakeDone == Handshake /\ ppc' = "enable"

(* Every thread is scheduled, every wait inside a call has a time-out, and *)
(* whoever waits for m_mutex gets it when it is free again and again.  A   *)
(* server that is asked again and again to greet does so in the end.       *)
Fairness ==
  /\ \A a \in Api : WF_vars(Call(a)) /\ SF_vars(Lock(a))
  /\ WF_vars(Loop) /\ SF_vars(Locked) /\ SF_vars(HandshakeDone)
  /\ WF_vars(Owner) /\ SF_vars(OpenReturns)

FairSpec == Spec /\ Fairness

-----------------------------------------------------------------------------
Busy(a) == pc[a] # "idle"

Flags ==
  /\ link \in BOOLEAN /\ peer \in BOOLEAN /\ async \in BOOLEAN
  /\ m_bIsStarted \in BOOLEAN /\ bInitialised \in BOOLEAN
  /\ m_bStop \in BOOLEAN /\ m_bRunning \in BOOLEAN
  /\ m_bCreated \in BOOLEAN /\ expired \in BOOLEAN

Wire ==
  /\ inbox \in Seq(Message)
  /\ lastSent \in 0..MaxId /\ lastRead \in 0..MaxId
  /\ pend \subseteq Request /\ deaths \in 0..MaxDeaths

Table ==
  /\ mutex \in Api \cup {"free", "owner", "process"}
  /\ m_queue \subseteq 1..MaxSeq /\ lost \subseteq 1..MaxSeq
  /\ seq \in 0..MaxSeq

Calls ==
  /\ pc \in [Api -> {"idle", "insert", "send", "wait", "clean", "erase"}]
  /\ mySeq \in [Api -> 0..MaxSeq] /\ calls \in [Api -> 0..MaxSeq]
  /\ \A a \in Api : mySeq[a] <= seq /\ calls[a] <= seq
  /\ event \in [Api -> {"none", "armed", "set"}]
  /\ \A a \in Api : IF Busy(a) THEN event[a] # "none" /\ mySeq[a] >= 1 /\ calls[a] >= 1
                              ELSE event[a] = "none"
  /\ msg \in [Api -> Message \cup {NoMessage}] /\ got \in [Api -> Message \cup {NoMessage}]
  /\ ret \in [Api -> {"none", "ok", "timeout", "unknown", "serverError"}]

Control ==
  /\ ppc \in {"none", "starting", "top", "handshake", "enable", "lock", "notify",
              "apply", "leave", "done"}
  /\ hand \in Message \cup {NoMessage}
  /\ opc \in {"new", "handshake", "enable", "createWait", "startedWait", "open",
              "close", "stop", "stopWait", "deleted"}

TypeOK == Flags /\ Wire /\ Table /\ Calls /\ Control

(***************************************************************************)
(* A call returns the reply to its own request: not another thread's, and  *)
(* not the late answer to an earlier request of its own that timed out.    *)
(***************************************************************************)
OwnReply == \A a \in Api : ret[a] = "ok" => got[a].by = a /\ got[a].n = calls[a]

(***************************************************************************)
(* While Process() is inside Broadcast() of an event, the call that made   *)
(* the event has not deleted it: delete and Broadcast are under m_mutex.   *)
(***************************************************************************)
EventAlive ==
  ppc = "notify" => \E a \in Api : mySeq[a] = hand.seq /\ event[a] # "none"

(***************************************************************************)
(* The table holds no node of a call that has returned, unless the removal *)
(* raced with an insertion: a call that failed or timed out cleans up too. *)
(***************************************************************************)
TableClean == \A s \in m_queue \ lost : \E a \in Api : mySeq[a] = s /\ Busy(a)

(***************************************************************************)
(* The session is deleted under a running Process() in one case only: when *)
(* StopThread gave up waiting for it after its five seconds.               *)
(***************************************************************************)
SessionOutlivesThread == opc = "deleted" /\ ~expired => ppc \in {"none", "done"}

(***************************************************************************)
(* Open() and the clean-up after a failed one come to an end.  CreateThread*)
(* waits without a time-out for m_bRunning and would wait for ever if the  *)
(* thread were through before it looked: the thread cannot be, because its *)
(* last act takes m_mutex, which Open() holds.  And every request comes    *)
(* back to its caller, whatever happens to the server.                     *)
(***************************************************************************)
CallsReturn ==
  /\ (opc = "handshake") ~> (opc \in {"open", "deleted"})
  /\ \A a \in Api : Busy(a) ~> ~Busy(a)

(***************************************************************************)
(* A connection that breaks after the initial synchronisation is restored, *)
(* up to the handshake, for as long as the add-on is not destroyed.        *)
(***************************************************************************)
Reconnects ==
  (opc = "open" /\ bInitialised /\ ~link)
     ~> ((link /\ ppc # "handshake") \/ opc # "open")
=============================================================================
