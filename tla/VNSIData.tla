------------------------------ MODULE VNSIData ------------------------------
(***************************************************************************)
(* cVNSIData and its session (addons/pvr.vdr.vnsi/src/VNSIData.cpp,        *)
(* VNSISession.cpp, requestpacket.cpp): XBMC's threads send requests and   *)
(* wait for events, Process() reads the replies, hands them over through   *)
(* m_queue and, when the connection is lost, makes another, on which it    *)
(* logs in and then sends a request of its own like any other thread.      *)
(*                                                                         *)
(* The server answers the requests of a connection in their order.         *)
(***************************************************************************)
EXTENDS Integers, Sequences, FiniteSets, Functions

CONSTANTS
  Requester,  \* threads of XBMC
  Process,    \* the thread of cVNSIData
  MaxCalls,   \* bound: requests that are made
  MaxLosses   \* bound: lost connections

ASSUME VNSIAssumption ==
  /\ IsFiniteSet(Requester) /\ Process \notin Requester
  /\ MaxCalls \in Nat /\ MaxLosses \in Nat

VARIABLES
  serialCounter, \* cRequestPacket::serialNumberCounter
  loaded,        \* what each thread has read of it for its increment
  serial,        \* the serial number of each thread's request
  at,            \* where each thread is
  purpose,       \* what Process()'s request is for
  vnsiQueue,     \* m_queue: the reply of each serial number that waits
  adrift,        \* nodes a race with an unlocked erasure lost, or left there
  vnsiOpen,      \* m_socket is there and open
  requests,      \* what the server has received and not answered
  inHand,        \* the reply Process() has read
  calls, losses,
  raced,         \* history: two increments of the counter overlapped
  wrong,         \* history: a call returned the reply to another
  crashed        \* a node or a socket was used after it was deleted

vnsiVars == <<serialCounter, loaded, serial, at, purpose, vnsiQueue, adrift, vnsiOpen,
              requests, inHand, calls, losses, raced, wrong, crashed>>

counterVars == <<serialCounter, loaded, serial, calls, raced>>
linkVars == <<vnsiOpen, requests, losses>>
tableVars == <<vnsiQueue, adrift>>
resultVars == <<wrong, crashed>>

VNSIThread == Requester \cup {Process}
Delivering == at[Process] = "found" \* Process() holds m_mutex from one step to another
NoReply == [owner |-> "nobody", serial |-> 0]
Nodes == DOMAIN vnsiQueue
Erasing(threads) == \E u \in threads : at[u] = "erases"
Request(t) == [owner |-> t, serial |-> serial[t]]

VNSITypeOK ==
  /\ serialCounter \in 1..(MaxCalls + 1)
  /\ loaded \in [VNSIThread -> 0..MaxCalls] /\ serial \in [VNSIThread -> 0..MaxCalls]
  /\ at \in [VNSIThread -> {"idle", "counts", "starts", "inserts", "sends", "writes",
                        "erases", "waits", "reads", "delivers", "found",
                        "lost", "login", "welcome", "greets"}]
  /\ purpose \in {"login", "confirm"}
  /\ \A n \in Nodes : vnsiQueue[n] = NoReply \/ vnsiQueue[n].owner \in VNSIThread
  /\ adrift \subseteq 0..MaxCalls
  /\ crashed \in {"no", "node", "socket"}

VNSIInit ==
  /\ serialCounter = 1
  /\ loaded = [t \in VNSIThread |-> 0] /\ serial = [t \in VNSIThread |-> 0]
  /\ at = [t \in VNSIThread |-> IF t = Process THEN "reads" ELSE "idle"]
  /\ purpose = "login"
  /\ vnsiQueue = <<>> /\ adrift = {}
  /\ vnsiOpen = TRUE /\ requests = <<>> /\ inHand = NoReply
  /\ calls = 0 /\ losses = 0 /\ raced = FALSE /\ wrong = FALSE /\ crashed = "no"

Goes(t, place) == at' = [at EXCEPT ![t] = place]

\* The call is over and its request gone.
Returns(t) ==
  /\ Goes(t, IF t = Process THEN "reads" ELSE "idle")
  /\ serial' = [serial EXCEPT ![t] = 0]
  /\ UNCHANGED <<serialCounter, loaded, calls, raced>>

-----------------------------------------------------------------------------
(* cRequestPacket::init: serialNumberCounter++ of a static member, unlocked *)

\* XBMC calls the client, or the session has to log in or confirm.
Load(t) ==
  /\ at[t] \in {"idle", "login", "starts"}
  /\ calls < MaxCalls /\ calls' = calls + 1
  /\ loaded' = [loaded EXCEPT ![t] = serialCounter]
  /\ raced' = (raced \/ \E u \in VNSIThread \ {t} : at[u] = "counts")
  /\ Goes(t, "counts")
  /\ UNCHANGED <<serialCounter, serial, purpose, tableVars, linkVars, inHand,
                 resultVars>>

Increment(t) ==
  /\ at[t] = "counts"
  /\ serialCounter' = loaded[t] + 1
  /\ serial' = [serial EXCEPT ![t] = loaded[t]]
  /\ loaded' = [loaded EXCEPT ![t] = 0]
  /\ Goes(t, IF t = Process /\ purpose = "login" THEN "welcome" ELSE "inserts")
  /\ UNCHANGED <<calls, raced, purpose, tableVars, linkVars, inHand, resultVars>>

-----------------------------------------------------------------------------
(* cVNSIData::ReadResult                                                   *)

\* The call and its event are entered; a number used already gets them anew.
Insert(t) ==
  /\ at[t] = "inserts" /\ ~Delivering
  /\ \/ /\ vnsiQueue' = [n \in Nodes \cup {serial[t]} |->
                          IF n = serial[t] THEN NoReply ELSE vnsiQueue[n]]
        /\ adrift' = adrift \ {serial[t]}
     \/ /\ Erasing(VNSIThread)
        /\ adrift' = adrift \cup {serial[t]} /\ UNCHANGED vnsiQueue
  /\ Goes(t, "sends")
  /\ UNCHANGED <<counterVars, purpose, linkVars, inHand, resultVars>>

\* TransmitMessage: IsOpen() first, then m_socket->Write().
TestOpen(t) ==
  /\ at[t] = "sends"
  /\ Goes(t, IF vnsiOpen THEN "writes" ELSE "erases")
  /\ UNCHANGED <<counterVars, purpose, tableVars, linkVars, inHand, resultVars>>

\* A socket deleted since is used nevertheless.
WriteRequest(t) ==
  /\ at[t] = "writes"
  /\ \/ /\ vnsiOpen
        /\ requests' = Append(requests, Request(t))
        /\ Goes(t, "waits") /\ UNCHANGED crashed
     \/ Goes(t, "erases") /\ UNCHANGED <<requests, crashed>>
     \/ /\ ~vnsiOpen
        /\ crashed' = "socket"
        /\ UNCHANGED <<at, requests>>
  /\ UNCHANGED <<counterVars, purpose, tableVars, vnsiOpen, losses, inHand, wrong>>

\* The node of t's request goes, or a race keeps it.
Unlink(t) ==
  \/ /\ vnsiQueue' = Restrict(vnsiQueue, Nodes \ {serial[t]})
     /\ adrift' = adrift \ {serial[t]}
  \/ /\ \E u \in VNSIThread \ {t} :
          at[u] = "erases" \/ (at[t] = "erases" /\ at[u] \in {"inserts", "waits"})
     /\ adrift' = adrift \cup {serial[t]}
     /\ UNCHANGED vnsiQueue

\* The node of a request that was not sent, without m_mutex.
Erase(t) ==
  /\ at[t] = "erases"
  /\ Unlink(t)
  /\ Returns(t)
  /\ UNCHANGED <<purpose, linkVars, inHand, resultVars>>

\* What the caller's reference to its node finds there.
Taken(t) ==
  IF serial[t] \in Nodes
  THEN /\ wrong' = (wrong \/ vnsiQueue[serial[t]] \notin {NoReply, Request(t)})
       /\ UNCHANGED crashed
  ELSE /\ crashed' = IF serial[t] \in adrift THEN crashed ELSE "node"
       /\ UNCHANGED wrong

\* The event was broadcast, or g_iConnectTimeout is over: the reply is
\* taken, the event deleted and the node erased.
RemoveNode(t) ==
  /\ at[t] = "waits" /\ ~Delivering
  /\ Taken(t) /\ Unlink(t)
  /\ Returns(t)
  /\ UNCHANGED <<purpose, linkVars, inHand>>

-----------------------------------------------------------------------------
(* Process                                                                 *)

ReadReply ==
  /\ at[Process] = "reads" /\ vnsiOpen /\ requests # <<>>
  /\ inHand' = Head(requests) /\ requests' = Tail(requests)
  /\ Goes(Process, "delivers")
  /\ UNCHANGED <<counterVars, purpose, tableVars, vnsiOpen, losses, resultVars>>

\* A reply nobody waits for any more is deleted, and one whose node an
\* erasure hides.
FindRequest ==
  /\ at[Process] = "delivers"
  /\ \/ /\ inHand.serial \in Nodes \ adrift
        /\ Goes(Process, "found") /\ UNCHANGED inHand
     \/ /\ inHand.serial \notin Nodes \ adrift \/ Erasing(Requester)
        /\ Goes(Process, "reads") /\ inHand' = NoReply
  /\ UNCHANGED <<counterVars, purpose, tableVars, linkVars, resultVars>>

\* Whoever waits longest gets the reply.
HandToFirst ==
  /\ at[Process] = "found"
  /\ IF inHand.serial \in Nodes
     THEN /\ \E n \in Nodes : /\ \A k \in Nodes : n <= k
                              /\ vnsiQueue' = [vnsiQueue EXCEPT ![n] = inHand]
          /\ UNCHANGED crashed
     ELSE crashed' = "node" /\ UNCHANGED vnsiQueue
  /\ Goes(Process, "reads") /\ inHand' = NoReply
  /\ UNCHANGED <<counterVars, purpose, adrift, linkVars, wrong>>

HandOver ==
  /\ at[Process] = "found"
  /\ IF inHand.serial \in Nodes
     THEN vnsiQueue' = [vnsiQueue EXCEPT ![inHand.serial] = inHand] /\ UNCHANGED crashed
     ELSE crashed' = "node" /\ UNCHANGED vnsiQueue
  /\ Goes(Process, "reads") /\ inHand' = NoReply
  /\ UNCHANGED <<counterVars, purpose, adrift, linkVars, wrong>>

-----------------------------------------------------------------------------
(* The connection is lost and made again                                   *)

CloseSocket ==
  /\ losses < MaxLosses /\ losses' = losses + 1
  /\ vnsiOpen' = FALSE /\ requests' = <<>>
  /\ Goes(Process, "lost")
  /\ UNCHANGED <<counterVars, purpose, tableVars, inHand, resultVars>>

\* SignalConnectionLost out of ReadMessage.
ConnectionLost == at[Process] = "reads" /\ vnsiOpen /\ CloseSocket

\* TryReconnect, up to Login(); until Open() succeeds it is called again.
Reopen ==
  /\ at[Process] = "lost"
  /\ vnsiOpen' = TRUE /\ requests' = <<>>
  /\ purpose' = "login"
  /\ Goes(Process, "login")
  /\ UNCHANGED <<counterVars, tableVars, losses, inHand, resultVars>>

SendLogin ==
  /\ at[Process] = "welcome"
  /\ requests' = Append(requests, Request(Process))
  /\ Goes(Process, "greets")
  /\ UNCHANGED <<counterVars, purpose, tableVars, vnsiOpen, losses, inHand, resultVars>>

\* The session's own ReadResult discards what is not the reply; OnReconnect
\* then calls EnableStatusInterface.
ReadWelcome ==
  /\ at[Process] = "greets" /\ requests # <<>>
  /\ requests' = Tail(requests)
  /\ IF Head(requests).serial = serial[Process]
     THEN Goes(Process, "starts") /\ purpose' = "confirm"
     ELSE UNCHANGED <<at, purpose>>
  /\ UNCHANGED <<counterVars, tableVars, vnsiOpen, losses, inHand, resultVars>>

LoginFails == at[Process] \in {"welcome", "greets"} /\ CloseSocket

-----------------------------------------------------------------------------
VNSINext ==
  /\ crashed = "no"
  /\ \/ \E t \in VNSIThread :
          \/ Load(t) \/ Increment(t)
          \/ Insert(t) \/ TestOpen(t) \/ WriteRequest(t) \/ Erase(t) \/ RemoveNode(t)
     \/ ReadReply \/ FindRequest \/ HandOver
     \/ ConnectionLost \/ Reopen \/ SendLogin \/ ReadWelcome \/ LoginFails

VNSISpec == VNSIInit /\ [][VNSINext]_vnsiVars

-----------------------------------------------------------------------------
(* Properties                                                              *)

(* A call returns the reply to its own request or none, in whatever order  *)
(* replies, time-outs and reconnections come: unless two increments of the *)
(* counter, which no lock protects, overlapped and two requests have one   *)
(* number.                                                                 *)
AnswersOwn == wrong => raced

(* Process() broadcasts no event that was deleted, and no call looks for   *)
(* its reply in a node that is gone: time-outs do not lead to it, nor does *)
(* the node erased without m_mutex, whose request was not sent.            *)
NodesInUse == crashed = "node" => raced

(* Nothing stays in m_queue: each node belongs to a call under way,        *)
(* whether it was sent, answered, timed out or lost with the connection,   *)
(* except for what a race with the unlocked erasure has left there.        *)
NodesBelong ==
  \A n \in Nodes \ adrift : \E t \in VNSIThread :
    serial[t] = n /\ at[t] \in {"sends", "writes", "erases", "waits"}

(* The status interface is never confirmed after a reconnection:           *)
(* OnReconnect waits for a reply that only its own thread would read, so   *)
(* each reconnection waits for all of g_iConnectTimeout, reads no other    *)
(* thread's replies meanwhile, and drops its own when it comes.            *)
ConfirmUnanswered ==
  (purpose = "confirm" /\ at[Process] = "waits" /\ ~raced /\ serial[Process] \in Nodes) =>
    vnsiQueue[serial[Process]] = NoReply

(* The table of requests serves its callers: each finds its own reply, and *)
(* leaves nothing behind, except where a race with code outside m_mutex did*)
(* harm.                                                                   *)
RepliesFound ==
  /\ AnswersOwn
  /\ NodesInUse
  /\ NodesBelong
  /\ ConfirmUnanswered
=============================================================================
