---------------------------- MODULE ThreadProofs ----------------------------
(***************************************************************************)
(* Threads that are started, stopped and worked beside: proofs about       *)
(* CThread (Thread), and about the add-ons' threads on one object. The     *)
(* owner and its keep-alive thread (ArgusLive), the server's streamer with *)
(* three threads (VNSIStreamer), callers and the thread that reads         *)
(* (VNSIData), a cache with its worker (FileOps).                          *)
(***************************************************************************)
EXTENDS Thread, ArgusLive, VNSIStreamer, VNSIData, FileOps, SequenceLemmas,
        SequenceTheorems, TLAPS

-----------------------------------------------------------------------------
(* Thread: for every number of owners and handlers, types and wake-ups.    *)
(* With a single owner that always waits in CreateThread, which is how the *)
(* add-ons use the class: one handler at a time, and StopThread is final.  *)

(* Every step of the class leaves its variables in their types.            *)
THEOREM TypeCorrect == Spec => []TypeOK
<1>. USE ThreadAssumption DEF TypeOK, Blocked, flags
<1>1. Init => TypeOK
  BY DEF Init
<1>2. TypeOK /\ [Next]_vars => TypeOK'
  <2>. SUFFICES ASSUME TypeOK, [Next]_vars PROVE TypeOK'
    OBVIOUS
  <2>1. ASSUME NEW o \in Owners, CreateRefused(o) PROVE TypeOK'
    BY <2>1 DEF CreateRefused, Return
  <2>2. ASSUME NEW o \in Owners, CreateFails(o) PROVE TypeOK'
    BY <2>2 DEF CreateFails, Return
  <2>3. ASSUME NEW o \in Owners, NEW bWait \in Waits, CreateThread(o, bWait)
        PROVE  TypeOK'
    BY <2>3 DEF CreateThread, Return
  <2>4. ASSUME NEW o \in Owners, CreateWakes(o) PROVE TypeOK'
    BY <2>4 DEF CreateWakes, Return
  <2>5. ASSUME NEW o \in Owners, NEW iWaitMs \in StopModes, StopThread(o, iWaitMs)
        PROVE  TypeOK'
    BY <2>5 DEF StopThread, Return
  <2>6. ASSUME NEW o \in Owners, StopLocks(o) PROVE TypeOK'
    BY <2>6 DEF StopLocks, Return
  <2>7. ASSUME NEW o \in Owners, StopWakes(o) PROVE TypeOK'
    BY <2>7 DEF StopWakes, Return
  <2>8. ASSUME NEW o \in Owners, StopExpires(o) PROVE TypeOK'
    BY <2>8 DEF StopExpires, Return
  <2>9. ASSUME NEW o \in Owners, SpuriousWake(o) PROVE TypeOK'
    BY <2>9 DEF SpuriousWake
  <2>10. ASSUME NEW h \in Handlers, HandlerStep(h) PROVE TypeOK'
    BY <2>10 DEF HandlerStep, HandlerStarts, ProcessReturns, ProcessSeesStop,
                 SleepStarts, SleepEnds, HandlerEnds, Broadcast
  <2>11. CASE UNCHANGED vars
    BY <2>11 DEF vars
  <2>. QED
    BY <2>1, <2>2, <2>3, <2>4, <2>5, <2>6, <2>7, <2>8, <2>9, <2>10, <2>11
    DEF Next, OwnerStep
<1>. QED  BY <1>1, <1>2, PTL DEF Spec

(***************************************************************************)
(* No wake-up is lost, whatever the owners do and however many there are:  *)
(* each flag is set in the same section under m_threadMutex as the         *)
(* broadcast, and tested in the same section in which the waiter blocks.   *)
(***************************************************************************)
THEOREM WakeupsKept == Spec => []NoLostWakeups
<1>. USE ThreadAssumption DEF TypeOK, NoLostWakeups, Blocked, flags
<1>1. Init => NoLostWakeups
  BY DEF Init
<1>2. TypeOK /\ NoLostWakeups /\ [Next]_vars => NoLostWakeups'
  <2>. SUFFICES ASSUME TypeOK, NoLostWakeups, [Next]_vars PROVE NoLostWakeups'
    OBVIOUS
  <2>1. ASSUME NEW o \in Owners, CreateRefused(o) PROVE NoLostWakeups'
    BY <2>1 DEF CreateRefused, Return
  <2>2. ASSUME NEW o \in Owners, CreateFails(o) PROVE NoLostWakeups'
    BY <2>2 DEF CreateFails, Return
  <2>3. ASSUME NEW o \in Owners, NEW bWait \in Waits, CreateThread(o, bWait)
        PROVE  NoLostWakeups'
    BY <2>3 DEF CreateThread, Return
  <2>4. ASSUME NEW o \in Owners, CreateWakes(o) PROVE NoLostWakeups'
    BY <2>4 DEF CreateWakes, Return
  <2>5. ASSUME NEW o \in Owners, NEW iWaitMs \in StopModes, StopThread(o, iWaitMs)
        PROVE  NoLostWakeups'
    BY <2>5 DEF StopThread, Return
  <2>6. ASSUME NEW o \in Owners, StopLocks(o) PROVE NoLostWakeups'
    BY <2>6 DEF StopLocks, Return
  <2>7. ASSUME NEW o \in Owners, StopWakes(o) PROVE NoLostWakeups'
    BY <2>7 DEF StopWakes, Return
  <2>8. ASSUME NEW o \in Owners, StopExpires(o) PROVE NoLostWakeups'
    BY <2>8 DEF StopExpires, Return
  <2>9. ASSUME NEW o \in Owners, SpuriousWake(o) PROVE NoLostWakeups'
    BY <2>9 DEF SpuriousWake
  <2>10. ASSUME NEW h \in Handlers, HandlerStep(h) PROVE NoLostWakeups'
    BY <2>10 DEF HandlerStep, HandlerStarts, ProcessReturns, ProcessSeesStop,
                 SleepStarts, SleepEnds, HandlerEnds, Broadcast
  <2>11. CASE UNCHANGED vars
    BY <2>11 DEF vars
  <2>. QED
    BY <2>1, <2>2, <2>3, <2>4, <2>5, <2>6, <2>7, <2>8, <2>9, <2>10, <2>11
    DEF Next, OwnerStep
<1>. QED  BY <1>1, <1>2, TypeCorrect, PTL DEF Spec

-----------------------------------------------------------------------------
(* How the add-ons use the class.                                          *)
SoleOwner == Waits = {TRUE} /\ \A o, p \in Owners : o = p

Running(h) == handler[h] \in {"process", "sleep", "ending"}

(* What makes the two properties inductive: a handler that has not started *)
(* keeps its owner in CreateThread, and the flags say whether one runs.    *)
Solo ==
  /\ AtMostOneHandler
  /\ StopIsFinal
  /\ \A h \in Handlers : handler[h] = "created" => \E o \in Owners : pc[o] = "createWait"
  /\ m_bRunning => \E h \in Handlers : Running(h)
  /\ \A h \in Handlers : Running(h) => m_bRunning
  /\ ~(m_bStopped /\ m_bRunning)
  /\ \A o \in Owners : pc[o] = "createWait" => ret[o] = "none"

(* Solo holds in every reachable state of a class with a sole owner.       *)
THEOREM SoloHolds == SoleOwner /\ Spec => []Solo
<1>. SUFFICES ASSUME SoleOwner PROVE Spec => []Solo
  OBVIOUS
<1>. USE DEF TypeOK, Solo, AtMostOneHandler, StopIsFinal, Alive, Running, flags
<1>1. Init => Solo
  BY DEF Init
<1>2. TypeOK /\ Solo /\ [Next]_vars => Solo'
  <2>. SUFFICES ASSUME TypeOK, Solo, [Next]_vars PROVE Solo'
    OBVIOUS
  <2>1. ASSUME NEW o \in Owners, CreateRefused(o) PROVE Solo'
    BY <2>1 DEF CreateRefused, Return, SoleOwner
  <2>2. ASSUME NEW o \in Owners, CreateFails(o) PROVE Solo'
    BY <2>2 DEF CreateFails, Return, SoleOwner
  <2>3. ASSUME NEW o \in Owners, NEW bWait \in Waits, CreateThread(o, bWait)
        PROVE  Solo'
    BY <2>3 DEF CreateThread, Return, SoleOwner
  <2>4. ASSUME NEW o \in Owners, CreateWakes(o) PROVE Solo'
    BY <2>4 DEF CreateWakes, Return, SoleOwner
  <2>5. ASSUME NEW o \in Owners, NEW iWaitMs \in StopModes, StopThread(o, iWaitMs)
        PROVE  Solo'
    BY <2>5 DEF StopThread, Return, SoleOwner
  <2>6. ASSUME NEW o \in Owners, StopLocks(o) PROVE Solo'
    BY <2>6 DEF StopLocks, Return, SoleOwner
  <2>7. ASSUME NEW o \in Owners, StopWakes(o) PROVE Solo'
    BY <2>7 DEF StopWakes, Return, SoleOwner
  <2>8. ASSUME NEW o \in Owners, StopExpires(o) PROVE Solo'
    BY <2>8 DEF StopExpires, Return, SoleOwner
  <2>9. ASSUME NEW o \in Owners, SpuriousWake(o) PROVE Solo'
    BY <2>9 DEF SpuriousWake
  <2>10. ASSUME NEW h \in Handlers, HandlerStarts(h) PROVE Solo'
    BY <2>10 DEF HandlerStarts, SoleOwner
  <2>11. ASSUME NEW h \in Handlers, ProcessReturns(h) PROVE Solo'
    BY <2>11 DEF ProcessReturns
  <2>12. ASSUME NEW h \in Handlers, SleepStarts(h) PROVE Solo'
    BY <2>12 DEF SleepStarts
  <2>13. ASSUME NEW h \in Handlers, SleepEnds(h) PROVE Solo'
    BY <2>13 DEF SleepEnds
  <2>14. ASSUME NEW h \in Handlers, HandlerEnds(h) PROVE Solo'
    BY <2>14 DEF HandlerEnds
  <2>15. CASE UNCHANGED vars
    BY <2>15 DEF vars
  <2>. QED
    BY <2>1, <2>2, <2>3, <2>4, <2>5, <2>6, <2>7, <2>8, <2>9, <2>10, <2>11, <2>12,
       <2>13, <2>14, <2>15
    DEF Next, OwnerStep, HandlerStep, ProcessSeesStop
<1>. QED  BY <1>1, <1>2, TypeCorrect, PTL DEF Spec

(* Process() of one object never runs twice at a time, and after a         *)
(* StopThread that returned TRUE no handler touches the object.            *)
THEOREM HandlersTakeTurns == SoleOwner /\ Spec => []HandlersInTurn
<1>1. Solo => HandlersInTurn
  BY DEF Solo, HandlersInTurn
<1>. QED  BY <1>1, SoloHolds, PTL

-----------------------------------------------------------------------------
(* ArgusLive                                                               *)

(* Where the player's thread may be while a call of its own goes on.       *)
ArgusTypes ==
  /\ ArgusTypeOK
  /\ started \in BOOLEAN /\ keeperStop \in BOOLEAN
  /\ nameless \in BOOLEAN /\ lostAnswer \in BOOLEAN /\ keeperLate \in BOOLEAN
  /\ tunes \in Nat /\ replays \in Nat
  /\ argusAt \in {"tunes", "retunes", "starts", "reopens", "restops"} => tuning \in ArgusChannel

(* A stream without a name is not played: a switch to it ends with the     *)
(* close that XBMC makes of what could not be switched to.                 *)
Unnamed ==
  IF started
  THEN argusAt \in {"gives up", "failed", "closes", "stops"}
  ELSE /\ reported = OffAir
       /\ fileRead = NoStream \/ (fileRead = ARecording /\ argusAt = "idle")

(* The object, the flag, the number reported and the reader are one        *)
(* stream's, except between the answer to a tune and what follows it.      *)
InStep ==
  /\ argusAt = "starts" => current # NoStream /\ current.on = tuning /\ ~nameless
  /\ argusAt # "starts" /\ ~nameless =>
       /\ started <=> current # NoStream
       /\ reported = current.on
       /\ fileRead = current \/ (fileRead = ARecording /\ argusAt = "idle" /\ ~started)
  /\ nameless => current # NoStream /\ Unnamed

(* A thread told to stop is waited for, or the wait was given up.          *)
KeeperInHand ==
  /\ IsRunning /\ keeperStop => keeperLate \/ argusAt \in {"gives up", "closes", "reopens"}
  /\ IsRunning /\ argusAt \in {"stops", "restops"} => keeperLate

(* Until a close or a tune that fails stops the thread, it keeps the       *)
(* stream; the server has just been asked for one that is about to start.  *)
Kept ==
  /\ argusAt \in {"idle", "tunes"} /\ started /\ ~keeperLate => Lively /\ current \in liveStreams
  /\ argusAt = "starts" => current \in liveStreams

(* The inductive invariant. As long as no answer to a request is lost, the *)
(* server has no stream but the one in hand.                               *)
ArgusInv ==
  /\ ArgusTypes /\ InStep /\ KeeperInHand /\ Kept
  /\ ~lostAnswer => liveStreams \subseteq {current}
  /\ ClearedInPeace

\* A stream is none of the other things in the reader, and a new one is a stream.
LEMMA Streams ==
  /\ NoStream # ARecording /\ NoStream \notin Stream /\ ARecording \notin Stream
  /\ \A i \in 1..MaxTunes, c \in ArgusChannel : [n |-> i, on |-> c] \in Stream
<1>1. NoStream # ARecording
  BY DEF NoStream, ARecording, OffAir
<1>2. \A i \in 1..MaxTunes, c \in ArgusChannel : [n |-> i, on |-> c] \in Stream
  BY ArgusAssumption DEF Stream
<1>3. \A s \in Stream : s.n # 0
  BY ArgusAssumption DEF Stream
<1>4. NoStream.n = 0 /\ ARecording.n = 0
  BY DEF NoStream, ARecording
<1>. QED  BY <1>1, <1>2, <1>3, <1>4

\* What a request to tune may ask the server for.
LEMMA StreamAsked ==
  ASSUME ArgusTypes, CallsTune
  PROVE  /\ NewStream \in Stream /\ NewStream # NoStream /\ NewStream.on = tuning
         /\ Retuned \subseteq Stream
         /\ tunes' \in Nat
<1>1. tuning \in ArgusChannel /\ tunes + 1 \in 1..MaxTunes
  BY ArgusAssumption DEF ArgusTypes, CallsTune
<1>2. NewStream \in Stream /\ NewStream # NoStream /\ NewStream.on = tuning
  BY <1>1, Streams DEF NewStream
<1>3. liveStreams \subseteq Stream
  BY DEF ArgusTypes, ArgusTypeOK
<1>. QED  BY <1>1, <1>2, <1>3 DEF Retuned, CallsTune, ArgusTypes

(* Every step of the client, its thread and the server keeps the types.    *)
LEMMA ArgusTypesKept == ArgusInv /\ [ArgusNext]_argusVars => ArgusTypes'
<1>. SUFFICES ASSUME ArgusInv, [ArgusNext]_argusVars PROVE ArgusTypes'
  OBVIOUS
<1>. USE ArgusAssumption, Streams DEF ArgusInv, ArgusTypes, ArgusTypeOK, IsRunning,
             argusPlayer, argusStream, argusKeeper, argusBounds, argusHistory
<1>1. ASSUME KeeperLoops PROVE ArgusTypes'
  BY <1>1 DEF KeeperLoops, KeeperOnly
<1>2. ASSUME KeeperReads PROVE ArgusTypes'
  BY <1>2 DEF KeeperReads, KeeperOnly
<1>3. ASSUME KeeperGoesOn PROVE ArgusTypes'
  BY <1>3, ZenonT(30) DEF KeeperGoesOn, KeeperOnly
<1>4. ASSUME StreamExpires PROVE ArgusTypes'
  <2>1. liveStreams' \subseteq liveStreams /\ UNCHANGED <<argusPlayer, argusStream, argusKeeper, argusBounds, argusHistory>>
    BY <1>4 DEF StreamExpires
  <2>2. ArgusTypeOK'
    BY <2>1
  <2>. QED  BY <2>1, <2>2
<1>5. ASSUME NEW c \in ArgusChannel, OpenLiveChannel(c) PROVE ArgusTypes'
  BY <1>5 DEF OpenLiveChannel
<1>6. ASSUME TuneSucceeds PROVE ArgusTypes'
  BY <1>6, StreamAsked DEF TuneSucceeds, CallsTune, Retuned, Touched
<1>16. ASSUME TuneNameless PROVE ArgusTypes'
  BY <1>16, StreamAsked DEF TuneNameless, CallsTune, Retuned, Touched, Stops
<1>7. ASSUME TuneFails PROVE ArgusTypes'
  BY <1>7, StreamAsked DEF TuneFails, CallsTune, Stops
<1>8. ASSUME TuneNeedsClose PROVE ArgusTypes'
  <2>1. argusAt' \in {"reopens", "restops"} /\ keeperStop' \in BOOLEAN
    BY <1>8 DEF TuneNeedsClose, Stops
  <2>2. tunes' \in Nat /\ tuning \in ArgusChannel
    BY <1>8 DEF TuneNeedsClose, CallsTune
  <2>. QED  BY <1>8, <2>1, <2>2 DEF TuneNeedsClose
<1>9. ASSUME StreamStarts PROVE ArgusTypes'
  BY <1>9 DEF StreamStarts
<1>10. ASSUME CloseLiveChannel PROVE ArgusTypes'
  BY <1>10 DEF CloseLiveChannel, Stops
<1>11. ASSUME StopThreadReturns PROVE ArgusTypes'
  BY <1>11 DEF StopThreadReturns
<1>12. ASSUME StopLive PROVE ArgusTypes'
  BY <1>12 DEF StopLive, Touched
<1>13. ASSUME PlayRecording PROVE ArgusTypes'
  BY <1>13 DEF PlayRecording
<1>14. ASSUME StopRecording PROVE ArgusTypes'
  BY <1>14 DEF StopRecording
<1>15. CASE UNCHANGED argusVars
  <2>1. ArgusTypeOK'
    BY <1>15 DEF argusVars
  <2>. QED  BY <1>15, <2>1 DEF argusVars
<1>. QED
  BY <1>1, <1>2, <1>3, <1>4, <1>5, <1>6, <1>7, <1>8, <1>9, <1>10, <1>11, <1>12, <1>13, <1>14, <1>15, <1>16
     DEF ArgusNext

(* Object, flag, number and reader stay one stream's: a call changes them  *)
(* all before it returns.                                                  *)
LEMMA InStepKept == ArgusInv /\ [ArgusNext]_argusVars => InStep'
<1>. SUFFICES ASSUME ArgusInv, [ArgusNext]_argusVars PROVE InStep'
  OBVIOUS
<1>. USE DEF ArgusInv, InStep, Unnamed, ArgusTypes,
             argusPlayer, argusStream, argusKeeper, argusBounds, argusHistory
<1>1. ASSUME KeeperLoops PROVE InStep'
  BY <1>1 DEF KeeperLoops, KeeperOnly
<1>2. ASSUME KeeperReads PROVE InStep'
  BY <1>2 DEF KeeperReads, KeeperOnly
<1>3. ASSUME KeeperGoesOn PROVE InStep'
  BY <1>3 DEF KeeperGoesOn, KeeperOnly
<1>4. ASSUME StreamExpires PROVE InStep'
  BY <1>4 DEF StreamExpires
<1>5. ASSUME NEW c \in ArgusChannel, OpenLiveChannel(c) PROVE InStep'
  BY <1>5 DEF OpenLiveChannel
<1>6. ASSUME TuneSucceeds PROVE InStep'
  BY <1>6, StreamAsked DEF TuneSucceeds, CallsTune, Retuned, Touched
<1>16. ASSUME TuneNameless PROVE InStep'
  <2>1. argusAt \in {"tunes", "retunes"} /\ NoStream.on = OffAir
    BY <1>16 DEF TuneNameless, CallsTune, NoStream
  <2>2. argusAt' \in {"gives up", "failed"} /\ nameless' /\ current' # NoStream
    BY <1>16, StreamAsked DEF TuneNameless, Stops
  <2>3. ~started => reported = OffAir /\ fileRead = NoStream
    BY <2>1
  <2>. QED  BY <1>16, <2>2, <2>3 DEF TuneNameless
<1>7. ASSUME TuneFails PROVE InStep'
  BY <1>7, StreamAsked DEF TuneFails, CallsTune, Stops
<1>8. ASSUME TuneNeedsClose PROVE InStep'
  BY <1>8 DEF TuneNeedsClose, CallsTune, Stops
<1>9. ASSUME StreamStarts PROVE InStep'
  BY <1>9 DEF StreamStarts
<1>10. ASSUME CloseLiveChannel PROVE InStep'
  BY <1>10 DEF CloseLiveChannel, Stops
<1>11. ASSUME StopThreadReturns PROVE InStep'
  BY <1>11 DEF StopThreadReturns
<1>12. ASSUME StopLive PROVE InStep'
  <2>1. argusAt \in {"stops", "restops"} /\ argusAt' \in {"idle", "retunes"}
    BY <1>12 DEF StopLive
  <2>2. CASE started
    <3>1. /\ current' = NoStream /\ nameless' = FALSE
          /\ started' = FALSE /\ reported' = OffAir /\ fileRead' = NoStream
      BY <1>12, <2>2 DEF StopLive
    <3>. QED  BY <2>1, <3>1 DEF NoStream
  <2>3. CASE ~started
    BY <1>12, <2>1, <2>3 DEF StopLive
  <2>. QED  BY <2>2, <2>3
<1>13. ASSUME PlayRecording PROVE InStep'
  BY <1>13 DEF PlayRecording
<1>14. ASSUME StopRecording PROVE InStep'
  <2>1. argusAt = "idle" /\ ~started /\ fileRead' = NoStream
    <3>1. current # ARecording
      BY Streams DEF ArgusTypeOK
    <3>. QED  BY <1>14, <3>1 DEF StopRecording
  <2>. QED  BY <1>14, <2>1 DEF StopRecording
<1>15. CASE UNCHANGED argusVars
  BY <1>15 DEF argusVars
<1>. QED
  BY <1>1, <1>2, <1>3, <1>4, <1>5, <1>6, <1>7, <1>8, <1>9, <1>10, <1>11, <1>12, <1>13, <1>14, <1>15, <1>16
     DEF ArgusNext

(* StopThread() is the only way a thread is told to stop, and it waits.    *)
LEMMA KeeperInHandKept == ArgusInv /\ [ArgusNext]_argusVars => KeeperInHand'
<1>. SUFFICES ASSUME ArgusInv, [ArgusNext]_argusVars PROVE KeeperInHand'
  OBVIOUS
<1>. USE DEF ArgusInv, KeeperInHand, IsRunning,
             argusPlayer, argusStream, argusKeeper, argusBounds, argusHistory
<1>1. ASSUME KeeperLoops PROVE KeeperInHand'
  BY <1>1 DEF KeeperLoops, KeeperOnly
<1>2. ASSUME KeeperReads PROVE KeeperInHand'
  BY <1>2 DEF KeeperReads, KeeperOnly
<1>3. ASSUME KeeperGoesOn PROVE KeeperInHand'
  BY <1>3 DEF KeeperGoesOn, KeeperOnly
<1>4. ASSUME StreamExpires PROVE KeeperInHand'
  BY <1>4 DEF StreamExpires
<1>5. ASSUME NEW c \in ArgusChannel, OpenLiveChannel(c) PROVE KeeperInHand'
  BY <1>5 DEF OpenLiveChannel
<1>6. ASSUME TuneSucceeds PROVE KeeperInHand'
  BY <1>6, StreamAsked DEF TuneSucceeds, CallsTune, Retuned, Touched
<1>16. ASSUME TuneNameless PROVE KeeperInHand'
  BY <1>16, StreamAsked DEF TuneNameless, CallsTune, Retuned, Touched, Stops
<1>7. ASSUME TuneFails PROVE KeeperInHand'
  BY <1>7, StreamAsked DEF TuneFails, CallsTune, Stops
<1>8. ASSUME TuneNeedsClose PROVE KeeperInHand'
  BY <1>8 DEF TuneNeedsClose, CallsTune, Stops
<1>9. ASSUME StreamStarts PROVE KeeperInHand'
  BY <1>9 DEF StreamStarts
<1>10. ASSUME CloseLiveChannel PROVE KeeperInHand'
  BY <1>10 DEF CloseLiveChannel, Stops
<1>11. ASSUME StopThreadReturns PROVE KeeperInHand'
  BY <1>11 DEF StopThreadReturns
<1>12. ASSUME StopLive PROVE KeeperInHand'
  BY <1>12 DEF StopLive, Touched
<1>13. ASSUME PlayRecording PROVE KeeperInHand'
  BY <1>13 DEF PlayRecording
<1>14. ASSUME StopRecording PROVE KeeperInHand'
  BY <1>14 DEF StopRecording
<1>15. CASE UNCHANGED argusVars
  BY <1>15 DEF argusVars
<1>. QED
  BY <1>1, <1>2, <1>3, <1>4, <1>5, <1>6, <1>7, <1>8, <1>9, <1>10, <1>11, <1>12, <1>13, <1>14, <1>15, <1>16
     DEF ArgusNext

(* The stream that is watched stays kept: the server ends a stream only if *)
(* no thread asks for it.                                                  *)
LEMMA KeptKept == ArgusInv /\ [ArgusNext]_argusVars => Kept'
<1>. SUFFICES ASSUME ArgusInv, [ArgusNext]_argusVars PROVE Kept'
  OBVIOUS
<1>. USE DEF ArgusInv, KeeperInHand, Kept, InStep, IsRunning, Lively,
             argusPlayer, argusStream, argusKeeper, argusBounds, argusHistory
<1>1. ASSUME KeeperLoops PROVE Kept'
  BY <1>1 DEF KeeperLoops, KeeperOnly
<1>2. ASSUME KeeperReads PROVE Kept'
  BY <1>2 DEF KeeperReads, KeeperOnly
<1>3. ASSUME KeeperGoesOn PROVE Kept'
  BY <1>3 DEF KeeperGoesOn, KeeperOnly
<1>4. ASSUME StreamExpires PROVE Kept'
  BY <1>4 DEF StreamExpires
<1>5. ASSUME NEW c \in ArgusChannel, OpenLiveChannel(c) PROVE Kept'
  BY <1>5 DEF OpenLiveChannel
<1>6. ASSUME TuneSucceeds PROVE Kept'
  BY <1>6, StreamAsked DEF TuneSucceeds, CallsTune, Retuned, Touched
<1>16. ASSUME TuneNameless PROVE Kept'
  BY <1>16, StreamAsked DEF TuneNameless, CallsTune, Retuned, Touched, Stops
<1>7. ASSUME TuneFails PROVE Kept'
  BY <1>7, StreamAsked DEF TuneFails, CallsTune, Stops
<1>8. ASSUME TuneNeedsClose PROVE Kept'
  BY <1>8 DEF TuneNeedsClose, CallsTune, Stops
<1>9. ASSUME StreamStarts PROVE Kept'
  BY <1>9 DEF StreamStarts
<1>10. ASSUME CloseLiveChannel PROVE Kept'
  BY <1>10 DEF CloseLiveChannel, Stops
<1>11. ASSUME StopThreadReturns PROVE Kept'
  BY <1>11 DEF StopThreadReturns
<1>12. ASSUME StopLive PROVE Kept'
  BY <1>12 DEF StopLive, Touched
<1>13. ASSUME PlayRecording PROVE Kept'
  BY <1>13 DEF PlayRecording
<1>14. ASSUME StopRecording PROVE Kept'
  BY <1>14 DEF StopRecording
<1>15. CASE UNCHANGED argusVars
  BY <1>15 DEF argusVars
<1>. QED
  BY <1>1, <1>2, <1>3, <1>4, <1>5, <1>6, <1>7, <1>8, <1>9, <1>10, <1>11, <1>12, <1>13, <1>14, <1>15, <1>16
     DEF ArgusNext

(* Only a request whose answer is lost makes a stream that the client has  *)
(* no object of.                                                           *)
LEMMA OwnKept == ArgusInv /\ [ArgusNext]_argusVars => (~lostAnswer => liveStreams \subseteq {current})'
<1>. SUFFICES ASSUME ArgusInv, [ArgusNext]_argusVars PROVE (~lostAnswer => liveStreams \subseteq {current})'
  OBVIOUS
<1>. USE DEF ArgusInv,
             argusPlayer, argusStream, argusKeeper, argusBounds, argusHistory
<1>1. ASSUME KeeperLoops PROVE (~lostAnswer => liveStreams \subseteq {current})'
  BY <1>1 DEF KeeperLoops, KeeperOnly
<1>2. ASSUME KeeperReads PROVE (~lostAnswer => liveStreams \subseteq {current})'
  BY <1>2 DEF KeeperReads, KeeperOnly
<1>3. ASSUME KeeperGoesOn PROVE (~lostAnswer => liveStreams \subseteq {current})'
  BY <1>3 DEF KeeperGoesOn, KeeperOnly
<1>4. ASSUME StreamExpires PROVE (~lostAnswer => liveStreams \subseteq {current})'
  BY <1>4 DEF StreamExpires
<1>5. ASSUME NEW c \in ArgusChannel, OpenLiveChannel(c) PROVE (~lostAnswer => liveStreams \subseteq {current})'
  BY <1>5 DEF OpenLiveChannel
<1>6. ASSUME TuneSucceeds PROVE (~lostAnswer => liveStreams \subseteq {current})'
  BY <1>6, StreamAsked DEF TuneSucceeds, CallsTune, Retuned, Touched
<1>16. ASSUME TuneNameless PROVE (~lostAnswer => liveStreams \subseteq {current})'
  BY <1>16, StreamAsked DEF TuneNameless, CallsTune, Retuned, Touched, Stops
<1>7. ASSUME TuneFails PROVE (~lostAnswer => liveStreams \subseteq {current})'
  <2>1. CASE lostAnswer' = TRUE
    BY <2>1
  <2>2. CASE UNCHANGED <<liveStreams, lostAnswer>>
    BY <1>7, <2>2 DEF TuneFails
  <2>. QED  BY <1>7, <2>1, <2>2 DEF TuneFails
<1>8. ASSUME TuneNeedsClose PROVE (~lostAnswer => liveStreams \subseteq {current})'
  BY <1>8 DEF TuneNeedsClose, CallsTune, Stops
<1>9. ASSUME StreamStarts PROVE (~lostAnswer => liveStreams \subseteq {current})'
  BY <1>9 DEF StreamStarts
<1>10. ASSUME CloseLiveChannel PROVE (~lostAnswer => liveStreams \subseteq {current})'
  BY <1>10 DEF CloseLiveChannel, Stops
<1>11. ASSUME StopThreadReturns PROVE (~lostAnswer => liveStreams \subseteq {current})'
  BY <1>11 DEF StopThreadReturns
<1>12. ASSUME StopLive PROVE (~lostAnswer => liveStreams \subseteq {current})'
  BY <1>12 DEF StopLive, Touched
<1>13. ASSUME PlayRecording PROVE (~lostAnswer => liveStreams \subseteq {current})'
  BY <1>13 DEF PlayRecording
<1>14. ASSUME StopRecording PROVE (~lostAnswer => liveStreams \subseteq {current})'
  BY <1>14 DEF StopRecording
<1>15. CASE UNCHANGED argusVars
  BY <1>15 DEF argusVars
<1>. QED
  BY <1>1, <1>2, <1>3, <1>4, <1>5, <1>6, <1>7, <1>8, <1>9, <1>10, <1>11, <1>12, <1>13, <1>14, <1>15, <1>16
     DEF ArgusNext

(* The object is cleared when the thread is gone, or was given up.         *)
LEMMA ClearedInPeaceKept == ArgusInv /\ [ArgusNext]_argusVars => ClearedInPeace'
<1>. SUFFICES ASSUME ArgusInv, [ArgusNext]_argusVars PROVE ClearedInPeace'
  OBVIOUS
<1>. USE DEF ArgusInv, KeeperInHand, ClearedInPeace, IsRunning,
             argusPlayer, argusStream, argusKeeper, argusBounds, argusHistory
<1>1. ASSUME KeeperLoops PROVE ClearedInPeace'
  BY <1>1 DEF KeeperLoops, KeeperOnly
<1>2. ASSUME KeeperReads PROVE ClearedInPeace'
  BY <1>2 DEF KeeperReads, KeeperOnly
<1>3. ASSUME KeeperGoesOn PROVE ClearedInPeace'
  BY <1>3 DEF KeeperGoesOn, KeeperOnly
<1>4. ASSUME StreamExpires PROVE ClearedInPeace'
  BY <1>4 DEF StreamExpires
<1>5. ASSUME NEW c \in ArgusChannel, OpenLiveChannel(c) PROVE ClearedInPeace'
  BY <1>5 DEF OpenLiveChannel
<1>6. ASSUME TuneSucceeds PROVE ClearedInPeace'
  BY <1>6, StreamAsked DEF TuneSucceeds, CallsTune, Retuned, Touched
<1>16. ASSUME TuneNameless PROVE ClearedInPeace'
  BY <1>16, StreamAsked DEF TuneNameless, CallsTune, Retuned, Touched, Stops
<1>7. ASSUME TuneFails PROVE ClearedInPeace'
  BY <1>7, StreamAsked DEF TuneFails, CallsTune, Stops
<1>8. ASSUME TuneNeedsClose PROVE ClearedInPeace'
  BY <1>8 DEF TuneNeedsClose, CallsTune, Stops
<1>9. ASSUME StreamStarts PROVE ClearedInPeace'
  BY <1>9 DEF StreamStarts
<1>10. ASSUME CloseLiveChannel PROVE ClearedInPeace'
  BY <1>10 DEF CloseLiveChannel, Stops
<1>11. ASSUME StopThreadReturns PROVE ClearedInPeace'
  BY <1>11 DEF StopThreadReturns
<1>12. ASSUME StopLive PROVE ClearedInPeace'
  BY <1>12 DEF StopLive, Touched
<1>13. ASSUME PlayRecording PROVE ClearedInPeace'
  BY <1>13 DEF PlayRecording
<1>14. ASSUME StopRecording PROVE ClearedInPeace'
  BY <1>14 DEF StopRecording
<1>15. CASE UNCHANGED argusVars
  BY <1>15 DEF argusVars
<1>. QED
  BY <1>1, <1>2, <1>3, <1>4, <1>5, <1>6, <1>7, <1>8, <1>9, <1>10, <1>11, <1>12, <1>13, <1>14, <1>15, <1>16
     DEF ArgusNext

(* The client, its keep-alive thread and the server agree on the stream.   *)
THEOREM StreamAgreed == ArgusSpec => []StreamInHand
<1>1. ArgusInit => ArgusInv
  <2>. SUFFICES ASSUME ArgusInit PROVE ArgusInv
    OBVIOUS
  <2>1. ArgusTypes
    BY DEF ArgusInit, ArgusTypes, ArgusTypeOK
  <2>2. InStep
    BY DEF ArgusInit, InStep, NoStream
  <2>3. KeeperInHand /\ Kept
    BY DEF ArgusInit, KeeperInHand, Kept, IsRunning
  <2>. QED  BY <2>1, <2>2, <2>3 DEF ArgusInv, ArgusInit, ClearedInPeace
<1>2. ArgusInv /\ [ArgusNext]_argusVars => ArgusInv'
  BY ArgusTypesKept, InStepKept, KeeperInHandKept, KeptKept, OwnKept, ClearedInPeaceKept DEF ArgusInv
<1>3. ArgusInv => StreamInHand
  BY DEF ArgusInv, StreamInHand, StreamKeptAlive, OneStream, NoStreamLeft, InStep, Unnamed,
         Kept
<1>. QED  BY <1>1, <1>2, <1>3, PTL DEF ArgusSpec

-----------------------------------------------------------------------------
(* VNSIStreamer                                                            *)

(* The parts of the streamer: it is there while the client streams and     *)
(* until it is deleted, and the filter as long; only its receiver feeds a  *)
(* thread, and there is none while the demuxers are replaced.              *)
StreamerParts ==
  /\ StreamerTypeOK
  /\ told \in Nat /\ edition \in Nat /\ opens \in Nat /\ tables \in Nat
  /\ streamer \in BOOLEAN
  /\ clientAt = "reads" => (isStreaming <=> streamer)
  /\ Deleting => streamer /\ ~isStreaming
  /\ filterAt # "none" <=> streamer
  /\ threadAt # "none" /\ streamer => receiver
  /\ filterAt \in {"builds", "attaches"} => ~receiver

(* The client knows what it is sent, or is told before.                    *)
ToldInTime ==
  /\ threadAt \in {"told", "sends"} => told = edition
  /\ threadAt = "loops" /\ ~startup /\ ~change => told = edition

(* A radio channel that was rebuilt without video never starts up again.   *)
SilentRadio ==
  audioOnly /\ rebuilt /\ "video" \notin streams =>
    /\ ~ready /\ threadAt \in {"none", "starts", "loops"}
    /\ threadAt = "loops" => startup

(* Without an overlap the filter rests while the streamer is deleted.      *)
DeletedAlone ==
  ~overlap => /\ Deleting => filterAt = "idle"
              /\ clientAt = "detaches" => ~receiver
              /\ DeletedInPeace

(* The inductive invariant.                                                *)
StreamerInv == StreamerParts /\ ToldInTime /\ SilentRadio /\ DeletedAlone

(* Every step of the client's thread, the section handler and the          *)
(* streamer's thread keeps the parts.                                      *)
LEMMA StreamerPartsKept == StreamerInv /\ [StreamerNext]_streamerVars => StreamerParts'
<1>. SUFFICES ASSUME StreamerInv, [StreamerNext]_streamerVars PROVE StreamerParts'
  OBVIOUS
<1>. USE StreamerAssumption DEF StreamerInv, StreamerParts, StreamerTypeOK, Deleting, Crashed,
         threadVars, demuxerVars, clientVars, filterVars
<1>1. ASSUME ~Crashed, NEW p \in Programme, StartChannelStreaming(p) PROVE StreamerParts'
  BY <1>1 DEF StartChannelStreaming
<1>2. ASSUME ~Crashed, NEW p \in Programme, NewStreams(p) PROVE StreamerParts'
  BY <1>2 DEF NewStreams
<1>3. ASSUME ~Crashed, NEW p \in Programme, KnownStreams(p) PROVE StreamerParts'
  BY <1>3 DEF KnownStreams
<1>4. ASSUME ~Crashed, StopChannelStreaming PROVE StreamerParts'
  BY <1>4 DEF StopChannelStreaming
<1>5. ASSUME ~Crashed, DetachReceiver PROVE StreamerParts'
  BY <1>5 DEF DetachReceiver
<1>6. ASSUME ~Crashed, DeleteStreamer PROVE StreamerParts'
  BY <1>6 DEF DeleteStreamer
<1>7. ASSUME ~Crashed, ClientEnds PROVE StreamerParts'
  BY <1>7 DEF ClientEnds
<1>8. ASSUME ~Crashed, Detached PROVE StreamerParts'
  BY <1>8 DEF Detached
<1>9. ASSUME ~Crashed, Build PROVE StreamerParts'
  BY <1>9 DEF Build
<1>10. ASSUME ~Crashed, Attach PROVE StreamerParts'
  BY <1>10 DEF Attach
<1>11. ASSUME ~Crashed, RequestStreamChange PROVE StreamerParts'
  BY <1>11 DEF RequestStreamChange
<1>12. ASSUME ~Crashed, ActionStarts PROVE StreamerParts'
  BY <1>12 DEF ActionStarts
<1>13. ASSUME ~Crashed, ActionEnds PROVE StreamerParts'
  BY <1>13 DEF ActionEnds
<1>14. ASSUME ~Crashed, ThreadCancelled PROVE StreamerParts'
  BY <1>14 DEF ThreadCancelled
<1>15. ASSUME ~Crashed, SetReady PROVE StreamerParts'
  BY <1>15 DEF SetReady
<1>16. ASSUME ~Crashed, StartsUp PROVE StreamerParts'
  BY <1>16 DEF StartsUp
<1>17. ASSUME ~Crashed, PacketComplete PROVE StreamerParts'
  BY <1>17 DEF PacketComplete
<1>18. ASSUME ~Crashed, SendStreamChange PROVE StreamerParts'
  BY <1>18 DEF SendStreamChange
<1>19. ASSUME ~Crashed, ChangeSent PROVE StreamerParts'
  BY <1>19 DEF ChangeSent
<1>20. ASSUME ~Crashed, SendStreamPacket PROVE StreamerParts'
  BY <1>20 DEF SendStreamPacket
<1>21. CASE UNCHANGED streamerVars
  BY <1>21 DEF streamerVars
<1>. QED
  BY <1>1, <1>2, <1>3, <1>4, <1>5, <1>6, <1>7, <1>8, <1>9, <1>10, <1>11, <1>12, <1>13, <1>14, <1>15, <1>16, <1>17, <1>18, <1>19, <1>20, <1>21 DEF StreamerNext

(* The streamer's thread tells the client of the streams before it sends a *)
(* packet of theirs.                                                       *)
LEMMA ToldInTimeKept == StreamerInv /\ [StreamerNext]_streamerVars => ToldInTime'
<1>. SUFFICES ASSUME StreamerInv, [StreamerNext]_streamerVars PROVE ToldInTime'
  OBVIOUS
<1>. USE StreamerAssumption DEF StreamerInv, StreamerParts, ToldInTime, Deleting, Crashed,
         threadVars, demuxerVars, clientVars, filterVars
<1>1. ASSUME ~Crashed, NEW p \in Programme, StartChannelStreaming(p) PROVE ToldInTime'
  BY <1>1 DEF StartChannelStreaming
<1>2. ASSUME ~Crashed, NEW p \in Programme, NewStreams(p) PROVE ToldInTime'
  BY <1>2 DEF NewStreams
<1>3. ASSUME ~Crashed, NEW p \in Programme, KnownStreams(p) PROVE ToldInTime'
  BY <1>3 DEF KnownStreams
<1>4. ASSUME ~Crashed, StopChannelStreaming PROVE ToldInTime'
  BY <1>4 DEF StopChannelStreaming
<1>5. ASSUME ~Crashed, DetachReceiver PROVE ToldInTime'
  BY <1>5 DEF DetachReceiver
<1>6. ASSUME ~Crashed, DeleteStreamer PROVE ToldInTime'
  BY <1>6 DEF DeleteStreamer
<1>7. ASSUME ~Crashed, ClientEnds PROVE ToldInTime'
  BY <1>7 DEF ClientEnds
<1>8. ASSUME ~Crashed, Detached PROVE ToldInTime'
  BY <1>8 DEF Detached
<1>9. ASSUME ~Crashed, Build PROVE ToldInTime'
  BY <1>9 DEF Build
<1>10. ASSUME ~Crashed, Attach PROVE ToldInTime'
  BY <1>10 DEF Attach
<1>11. ASSUME ~Crashed, RequestStreamChange PROVE ToldInTime'
  BY <1>11 DEF RequestStreamChange
<1>12. ASSUME ~Crashed, ActionStarts PROVE ToldInTime'
  BY <1>12 DEF ActionStarts
<1>13. ASSUME ~Crashed, ActionEnds PROVE ToldInTime'
  BY <1>13 DEF ActionEnds
<1>14. ASSUME ~Crashed, ThreadCancelled PROVE ToldInTime'
  BY <1>14 DEF ThreadCancelled
<1>15. ASSUME ~Crashed, SetReady PROVE ToldInTime'
  BY <1>15 DEF SetReady
<1>16. ASSUME ~Crashed, StartsUp PROVE ToldInTime'
  BY <1>16 DEF StartsUp
<1>17. ASSUME ~Crashed, PacketComplete PROVE ToldInTime'
  BY <1>17 DEF PacketComplete
<1>18. ASSUME ~Crashed, SendStreamChange PROVE ToldInTime'
  BY <1>18 DEF SendStreamChange
<1>19. ASSUME ~Crashed, ChangeSent PROVE ToldInTime'
  BY <1>19 DEF ChangeSent
<1>20. ASSUME ~Crashed, SendStreamPacket PROVE ToldInTime'
  BY <1>20 DEF SendStreamPacket
<1>21. CASE UNCHANGED streamerVars
  BY <1>21 DEF streamerVars
<1>. QED
  BY <1>1, <1>2, <1>3, <1>4, <1>5, <1>6, <1>7, <1>8, <1>9, <1>10, <1>11, <1>12, <1>13, <1>14, <1>15, <1>16, <1>17, <1>18, <1>19, <1>20, <1>21 DEF StreamerNext

(* A radio channel without video stays silent, until it is opened anew.    *)
LEMMA SilentRadioKept == StreamerInv /\ [StreamerNext]_streamerVars => SilentRadio'
<1>. SUFFICES ASSUME StreamerInv, [StreamerNext]_streamerVars PROVE SilentRadio'
  OBVIOUS
<1>. USE StreamerAssumption DEF StreamerInv, StreamerParts, SilentRadio, Deleting, Crashed,
         threadVars, demuxerVars, clientVars, filterVars
<1>1. ASSUME ~Crashed, NEW p \in Programme, StartChannelStreaming(p) PROVE SilentRadio'
  BY <1>1 DEF StartChannelStreaming
<1>2. ASSUME ~Crashed, NEW p \in Programme, NewStreams(p) PROVE SilentRadio'
  BY <1>2 DEF NewStreams
<1>3. ASSUME ~Crashed, NEW p \in Programme, KnownStreams(p) PROVE SilentRadio'
  BY <1>3 DEF KnownStreams
<1>4. ASSUME ~Crashed, StopChannelStreaming PROVE SilentRadio'
  BY <1>4 DEF StopChannelStreaming
<1>5. ASSUME ~Crashed, DetachReceiver PROVE SilentRadio'
  BY <1>5 DEF DetachReceiver
<1>6. ASSUME ~Crashed, DeleteStreamer PROVE SilentRadio'
  BY <1>6 DEF DeleteStreamer
<1>7. ASSUME ~Crashed, ClientEnds PROVE SilentRadio'
  BY <1>7 DEF ClientEnds
<1>8. ASSUME ~Crashed, Detached PROVE SilentRadio'
  BY <1>8 DEF Detached
<1>9. ASSUME ~Crashed, Build PROVE SilentRadio'
  BY <1>9 DEF Build
<1>10. ASSUME ~Crashed, Attach PROVE SilentRadio'
  BY <1>10 DEF Attach
<1>11. ASSUME ~Crashed, RequestStreamChange PROVE SilentRadio'
  BY <1>11 DEF RequestStreamChange
<1>12. ASSUME ~Crashed, ActionStarts PROVE SilentRadio'
  BY <1>12 DEF ActionStarts
<1>13. ASSUME ~Crashed, ActionEnds PROVE SilentRadio'
  BY <1>13 DEF ActionEnds
<1>14. ASSUME ~Crashed, ThreadCancelled PROVE SilentRadio'
  BY <1>14 DEF ThreadCancelled
<1>15. ASSUME ~Crashed, SetReady PROVE SilentRadio'
  BY <1>15 DEF SetReady
<1>16. ASSUME ~Crashed, StartsUp PROVE SilentRadio'
  BY <1>16 DEF StartsUp
<1>17. ASSUME ~Crashed, PacketComplete PROVE SilentRadio'
  BY <1>17 DEF PacketComplete
<1>18. ASSUME ~Crashed, SendStreamChange PROVE SilentRadio'
  BY <1>18 DEF SendStreamChange
<1>19. ASSUME ~Crashed, ChangeSent PROVE SilentRadio'
  BY <1>19 DEF ChangeSent
<1>20. ASSUME ~Crashed, SendStreamPacket PROVE SilentRadio'
  BY <1>20 DEF SendStreamPacket
<1>21. CASE UNCHANGED streamerVars
  BY <1>21 DEF streamerVars
<1>. QED
  BY <1>1, <1>2, <1>3, <1>4, <1>5, <1>6, <1>7, <1>8, <1>9, <1>10, <1>11, <1>12, <1>13, <1>14, <1>15, <1>16, <1>17, <1>18, <1>19, <1>20, <1>21 DEF StreamerNext

(* The filter is not at work on a streamer that is being deleted, unless a *)
(* table came between the two detachments.                                 *)
LEMMA DeletedAloneKept == StreamerInv /\ [StreamerNext]_streamerVars => DeletedAlone'
<1>. SUFFICES ASSUME StreamerInv, [StreamerNext]_streamerVars PROVE DeletedAlone'
  OBVIOUS
<1>. USE StreamerAssumption DEF StreamerInv, StreamerParts, DeletedAlone, DeletedInPeace, Deleting, Crashed,
         threadVars, demuxerVars, clientVars, filterVars
<1>1. ASSUME ~Crashed, NEW p \in Programme, StartChannelStreaming(p) PROVE DeletedAlone'
  BY <1>1 DEF StartChannelStreaming
<1>2. ASSUME ~Crashed, NEW p \in Programme, NewStreams(p) PROVE DeletedAlone'
  BY <1>2 DEF NewStreams
<1>3. ASSUME ~Crashed, NEW p \in Programme, KnownStreams(p) PROVE DeletedAlone'
  BY <1>3 DEF KnownStreams
<1>4. ASSUME ~Crashed, StopChannelStreaming PROVE DeletedAlone'
  BY <1>4 DEF StopChannelStreaming
<1>5. ASSUME ~Crashed, DetachReceiver PROVE DeletedAlone'
  BY <1>5 DEF DetachReceiver
<1>6. ASSUME ~Crashed, DeleteStreamer PROVE DeletedAlone'
  BY <1>6 DEF DeleteStreamer
<1>7. ASSUME ~Crashed, ClientEnds PROVE DeletedAlone'
  BY <1>7 DEF ClientEnds
<1>8. ASSUME ~Crashed, Detached PROVE DeletedAlone'
  BY <1>8 DEF Detached
<1>9. ASSUME ~Crashed, Build PROVE DeletedAlone'
  BY <1>9 DEF Build
<1>10. ASSUME ~Crashed, Attach PROVE DeletedAlone'
  BY <1>10 DEF Attach
<1>11. ASSUME ~Crashed, RequestStreamChange PROVE DeletedAlone'
  BY <1>11 DEF RequestStreamChange
<1>12. ASSUME ~Crashed, ActionStarts PROVE DeletedAlone'
  BY <1>12 DEF ActionStarts
<1>13. ASSUME ~Crashed, ActionEnds PROVE DeletedAlone'
  BY <1>13 DEF ActionEnds
<1>14. ASSUME ~Crashed, ThreadCancelled PROVE DeletedAlone'
  BY <1>14 DEF ThreadCancelled
<1>15. ASSUME ~Crashed, SetReady PROVE DeletedAlone'
  BY <1>15 DEF SetReady
<1>16. ASSUME ~Crashed, StartsUp PROVE DeletedAlone'
  BY <1>16 DEF StartsUp
<1>17. ASSUME ~Crashed, PacketComplete PROVE DeletedAlone'
  BY <1>17 DEF PacketComplete
<1>18. ASSUME ~Crashed, SendStreamChange PROVE DeletedAlone'
  BY <1>18 DEF SendStreamChange
<1>19. ASSUME ~Crashed, ChangeSent PROVE DeletedAlone'
  BY <1>19 DEF ChangeSent
<1>20. ASSUME ~Crashed, SendStreamPacket PROVE DeletedAlone'
  BY <1>20 DEF SendStreamPacket
<1>21. CASE UNCHANGED streamerVars
  BY <1>21 DEF streamerVars
<1>. QED
  BY <1>1, <1>2, <1>3, <1>4, <1>5, <1>6, <1>7, <1>8, <1>9, <1>10, <1>11, <1>12, <1>13, <1>14, <1>15, <1>16, <1>17, <1>18, <1>19, <1>20, <1>21 DEF StreamerNext

(* The plugin's streamer: the client is told of the streams before their   *)
(* packets, and neither demuxers nor streamer go away under the thread     *)
(* that uses them.                                                         *)
THEOREM StreamedInPeace == StreamerSpec => []StreamsInPeace
<1>1. StreamerInit => StreamerInv
  <2>. SUFFICES ASSUME StreamerInit PROVE StreamerInv
    OBVIOUS
  <2>1. StreamerParts
    <3>1. MaxOpens \in Nat /\ MaxTables \in Nat
      BY StreamerAssumption
    <3>2. StreamerTypeOK
      BY <3>1 DEF StreamerInit, StreamerTypeOK
    <3>. QED  BY <3>2 DEF StreamerInit, StreamerParts, Deleting
  <2>2. ToldInTime /\ SilentRadio /\ DeletedAlone
    BY DEF StreamerInit, ToldInTime, SilentRadio, DeletedAlone, DeletedInPeace, Deleting, Crashed
  <2>. QED  BY <2>1, <2>2 DEF StreamerInv
<1>2. StreamerInv /\ [StreamerNext]_streamerVars => StreamerInv'
  BY StreamerPartsKept, ToldInTimeKept, SilentRadioKept, DeletedAloneKept DEF StreamerInv
<1>3. StreamerInv => StreamsInPeace
  BY DEF StreamerInv, StreamerParts, StreamsInPeace, StreamsTold, RebuiltInPeace, DeletedInPeace, RadioSilent,
         ToldInTime, SilentRadio, DeletedAlone
<1>. QED  BY <1>1, <1>2, <1>3, PTL DEF StreamerSpec

-----------------------------------------------------------------------------
(* VNSIData                                                                *)

(* What a request asks for, with the thread that made it.                  *)
Reply == [owner : VNSIThread, serial : Nat \ {0}]

(* Where a thread may be,                                                  *)
Places == {"idle", "counts", "starts", "inserts", "sends", "writes", "erases", "waits", "reads",
           "delivers", "found", "lost", "login", "welcome", "greets"}

(* with a number of its own,                                               *)
Numbered == {"inserts", "sends", "writes", "erases", "waits", "welcome", "greets"}

(* with a node in the table, and                                           *)
Entered == {"sends", "writes", "erases", "waits"}

(* with a request that the server has not seen.                            *)
Unsent == {"inserts", "sends", "writes", "erases"}

(* The threads and their numbers; a number has been counted.               *)
ThreadTypes ==
  /\ serialCounter \in Nat \ {0} /\ calls \in Nat
  /\ serialCounter <= calls + 1 /\ calls <= MaxCalls
  /\ loaded \in [VNSIThread -> Nat] /\ serial \in [VNSIThread -> Nat]
  /\ at \in [VNSIThread -> Places] /\ purpose \in {"login", "confirm"}
  /\ \A t \in VNSIThread : /\ loaded[t] <= calls /\ serial[t] <= calls
                           /\ at[t] = "counts" => loaded[t] # 0
                           /\ at[t] \in Numbered => serial[t] # 0

(* The table, the requests on their way and the reply in hand.             *)
TableTypes ==
  /\ Nodes \subseteq Nat \ {0} /\ adrift \subseteq 0..MaxCalls
  /\ \A n \in Nodes : vnsiQueue[n] \in Reply \cup {NoReply}
  /\ requests \in Seq(Reply)
  /\ inHand \in Reply \cup {NoReply}
  /\ at[Process] \in {"delivers", "found"} => inHand \in Reply
  /\ wrong \in BOOLEAN /\ crashed \in {"no", "node", "socket"}

(* Unless two increments overlapped, no number is used twice.              *)
Numbers ==
  /\ \A t, u \in VNSIThread : at[t] = "counts" /\ at[u] = "counts" => t = u
  /\ \A t \in VNSIThread : at[t] = "counts" => loaded[t] = serialCounter
  /\ \A t \in VNSIThread : serial[t] < serialCounter
  /\ \A t, u \in VNSIThread : serial[t] # 0 /\ serial[t] = serial[u] => t = u
  /\ \A n \in Nodes : n < serialCounter

(* The number of r is that of no thread but its own, and was counted.      *)
Owned(r) ==
  r = NoReply \/ (/\ r.serial < serialCounter
                  /\ \A t \in VNSIThread : serial[t] = r.serial => r.owner = t)

(* The requests on their way.                                              *)
Asked == Range(requests)

(* A number on its way, or in a node, is that of its own request.          *)
RepliesOwned ==
  /\ \A r \in Asked : Owned(r)
  /\ Owned(inHand)
  /\ \A n \in Nodes : Owned(vnsiQueue[n]) /\ (vnsiQueue[n] = NoReply \/ vnsiQueue[n].serial = n)

(* The server has nothing of a request that is not sent.                   *)
NotSent ==
  \A t \in VNSIThread : at[t] \in Unsent =>
     /\ inHand.serial # serial[t]
     /\ \A r \in Asked : r.serial # serial[t]

(* A thread that waits has its node in the table, or it was unlinked while *)
(* it was used; a node that Process() made for itself has no reply.        *)
NodesThere ==
  /\ \A t \in VNSIThread : at[t] = "inserts" => serial[t] \notin Nodes
  /\ \A t \in VNSIThread : at[t] \in Entered => serial[t] \in Nodes \cup adrift
  /\ at[Process] = "found" => inHand.serial \in Nodes
  /\ at[Process] \in Entered /\ serial[Process] \in Nodes => vnsiQueue[serial[Process]] = NoReply

(* The inductive invariant. Its parts hold until two increments of the     *)
(* counter overlap.                                                        *)
VNSIInv ==
  /\ ThreadTypes /\ TableTypes
  /\ ~raced => Numbers /\ RepliesOwned /\ NotSent /\ NodesThere /\ ~wrong /\ crashed # "node"
  /\ NodesBelong

(* Process() is one of the threads, and all others make requests.          *)
LEMMA ProcessIs == /\ Process \in VNSIThread /\ MaxCalls \in Nat
                   /\ \A t \in VNSIThread : t # Process => t \in Requester
BY VNSIAssumption DEF VNSIThread

\* What the server may have received, as the requests change.
LEMMA AskedIs ==
  /\ requests' = requests => Asked' = Asked
  /\ requests' = <<>> => Asked' = {} /\ requests' \in Seq(Reply)
  /\ requests \in Seq(Reply) => Asked \subseteq Reply
<1>1. requests \in Seq(Reply) => Asked \subseteq Reply
  BY DEF Asked, Range
<1>2. requests' = <<>> => requests' \in Seq(Reply)
  BY EmptySeq
<1>3. requests' = <<>> => Asked' = {}
  BY DEF Asked, Range
<1>. QED  BY <1>1, <1>2, <1>3 DEF Asked

(* The fields of a request, and that a thread and a number make one.       *)
LEMMA ReplyIs ==
  /\ NoReply.serial = 0 /\ NoReply \notin Reply
  /\ \A r \in Reply : r.owner \in VNSIThread /\ r.serial \in Nat \ {0}
  /\ \A t \in VNSIThread : serial[t] \in Nat \ {0} =>
       /\ Request(t) \in Reply /\ Request(t).owner = t /\ Request(t).serial = serial[t]
       /\ \A r \in Reply : r.owner = t /\ r.serial = serial[t] => r = Request(t)
BY DEF NoReply, Reply, Request

(* Numbers that do not change belong to whom they belonged to.             *)
LEMMA OwnedSame ==
  /\ serial' = serial /\ serialCounter' = serialCounter => \A r : Owned(r)' <=> Owned(r)
  /\ Owned(NoReply) /\ Owned(NoReply)'
BY DEF Owned

(* A thread that is through with its number takes it from nobody.          *)
LEMMA OwnedCleared ==
  ASSUME NEW t \in VNSIThread, serial \in [VNSIThread -> Nat],
         serial' = [serial EXCEPT ![t] = 0], serialCounter' = serialCounter
  PROVE  \A r \in Reply \cup {NoReply} : Owned(r) => Owned(r)'
BY ReplyIs DEF Owned

(* What the second half of the increment does when it overlaps with no     *)
(* other.                                                                  *)
LEMMA IncrementIs ==
  ASSUME ThreadTypes, Numbers, NEW t \in VNSIThread, Increment(t)
  PROVE  /\ at[t] = "counts" /\ serialCounter' = serialCounter + 1
         /\ \A u \in VNSIThread : /\ serial'[u] = IF u = t THEN serialCounter ELSE serial[u]
                                  /\ u # t => at'[u] = at[u]
                                  /\ at'[u] # "counts"
         /\ at'[t] \in {"welcome", "inserts"}
         /\ UNCHANGED <<raced, requests, inHand, vnsiQueue, adrift>>
BY DEF ThreadTypes, Numbers, Increment, Goes, tableVars, linkVars

(* A number that is counted is new.                                        *)
LEMMA OwnedCounts ==
  ASSUME ThreadTypes, Numbers, NEW t \in VNSIThread, Increment(t)
  PROVE  \A r \in Reply \cup {NoReply} : Owned(r) => Owned(r)'
BY IncrementIs, ReplyIs DEF Owned, ThreadTypes

(* The nodes are those of the table.                                       *)
LEMMA NodesIs == vnsiQueue' = vnsiQueue => Nodes' = Nodes
BY DEF Nodes

(* A request is sent behind the others.                                    *)
LEMMA AskedMore ==
  ASSUME NEW r \in Reply, requests \in Seq(Reply), requests' = Append(requests, r)
  PROVE  requests' \in Seq(Reply) /\ Asked' = Asked \cup {r}
<1>1. /\ requests' \in Seq(Reply) /\ DOMAIN requests' = 1..Len(requests) + 1
      /\ \A i \in 1..Len(requests) : requests'[i] = requests[i]
      /\ requests'[Len(requests) + 1] = r
  BY AppendProperties
<1>2. DOMAIN requests = 1..Len(requests) /\ Len(requests) \in Nat
  OBVIOUS
<1>. QED  BY <1>1, <1>2 DEF Asked, Range

(* The oldest request is answered.                                         *)
LEMMA AskedLess ==
  ASSUME requests \in Seq(Reply), requests # <<>>, requests' = Tail(requests)
  PROVE  /\ requests' \in Seq(Reply) /\ Asked' \subseteq Asked
         /\ Head(requests) \in Asked /\ Head(requests) \in Reply
<1>1. /\ requests' \in Seq(Reply) /\ DOMAIN requests' = 1..Len(requests) - 1
      /\ \A i \in 1..Len(requests) - 1 : requests'[i] = requests[i + 1]
      /\ Head(requests) = requests[1]
  BY HeadTailProperties
<1>2. DOMAIN requests = 1..Len(requests) /\ Len(requests) \in Nat \ {0}
  BY EmptySeq
<1>. QED  BY <1>1, <1>2 DEF Asked, Range

\* What an entry does to the table.
LEMMA InsertIs ==
  ASSUME NEW t \in VNSIThread, Insert(t)
  PROVE  \/ /\ Nodes' = Nodes \cup {serial[t]} /\ adrift' = adrift \ {serial[t]}
            /\ \A n \in Nodes' : vnsiQueue'[n] = IF n = serial[t] THEN NoReply ELSE vnsiQueue[n]
         \/ adrift' = adrift \cup {serial[t]} /\ UNCHANGED vnsiQueue
BY DEF Insert, Goes, Nodes

(* What an insertion leaves alone.                                         *)
LEMMA InsertGoes ==
  ASSUME NEW t \in VNSIThread, Insert(t)
  PROVE  /\ at[t] = "inserts" /\ ~Delivering /\ at' = [at EXCEPT ![t] = "sends"]
         /\ UNCHANGED <<counterVars, purpose, linkVars, inHand, resultVars>>
BY DEF Insert, Goes

(* An insertion keeps the types of the table.                              *)
LEMMA InsertTyped ==
  ASSUME ThreadTypes, TableTypes, NEW t \in VNSIThread, Insert(t)
  PROVE  /\ Nodes' \subseteq Nat \ {0} /\ adrift' \subseteq 0..MaxCalls
         /\ \A n \in Nodes' : vnsiQueue'[n] \in Reply \cup {NoReply}
<1>1. serial[t] \in Nat \ {0} /\ serial[t] \in 0..MaxCalls
  BY ProcessIs DEF Insert, ThreadTypes, Numbered
<1>. QED  BY <1>1, InsertIs, NodesIs, ZenonT(30) DEF TableTypes

(* An insertion gives no node another's reply.                             *)
LEMMA InsertOwned ==
  ASSUME ThreadTypes, RepliesOwned, NEW t \in VNSIThread, Insert(t)
  PROVE  \A n \in Nodes' : Owned(vnsiQueue'[n]) /\ (vnsiQueue'[n] = NoReply \/ vnsiQueue'[n].serial = n)
BY InsertIs, NodesIs, OwnedSame DEF RepliesOwned

\* What an erasure does to it.
LEMMA UnlinkIs ==
  ASSUME NEW t \in VNSIThread, Unlink(t)
  PROVE  /\ Nodes' \subseteq Nodes /\ Nodes \ {serial[t]} \subseteq Nodes'
         /\ \A n \in Nodes' : vnsiQueue'[n] = vnsiQueue[n]
         /\ adrift \ {serial[t]} \subseteq adrift' /\ adrift' \subseteq adrift \cup {serial[t]}
         /\ serial[t] \in Nodes' => serial[t] \in adrift'
BY DEF Unlink, Nodes, Restrict

\* What a reply handed over does to it.
LEMMA HandOverIs ==
  ASSUME HandOver
  PROVE  /\ Nodes' = Nodes
         /\ inHand.serial \in Nodes =>
              \A n \in Nodes : vnsiQueue'[n] = IF n = inHand.serial THEN inHand ELSE vnsiQueue[n]
BY DEF HandOver, Nodes

(* Every step keeps the types of the threads.                              *)
LEMMA ThreadTypesKept == VNSIInv /\ [VNSINext]_vnsiVars => ThreadTypes'
<1>. SUFFICES ASSUME VNSIInv, [VNSINext]_vnsiVars PROVE ThreadTypes'
  OBVIOUS
<1>. USE ProcessIs DEF VNSIInv, ThreadTypes, Places, Numbered,
         Goes, Returns, counterVars, linkVars, tableVars, resultVars
<1>1. ASSUME NEW t \in VNSIThread, Load(t) PROVE ThreadTypes'
  BY <1>1 DEF Load
<1>2. ASSUME NEW t \in VNSIThread, Increment(t) PROVE ThreadTypes'
  BY <1>2 DEF Increment
<1>3. ASSUME NEW t \in VNSIThread, Insert(t) PROVE ThreadTypes'
  BY <1>3, InsertIs, InsertGoes
<1>4. ASSUME NEW t \in VNSIThread, TestOpen(t) PROVE ThreadTypes'
  BY <1>4 DEF TestOpen
<1>5. ASSUME NEW t \in VNSIThread, WriteRequest(t) PROVE ThreadTypes'
  BY <1>5 DEF WriteRequest
<1>6. ASSUME NEW t \in VNSIThread, Erase(t) PROVE ThreadTypes'
  BY <1>6, UnlinkIs DEF Erase, Erasing
<1>7. ASSUME NEW t \in VNSIThread, RemoveNode(t) PROVE ThreadTypes'
  BY <1>7, UnlinkIs DEF RemoveNode, Taken
<1>8. ASSUME ReadReply PROVE ThreadTypes'
  BY <1>8, AskedLess DEF ReadReply
<1>9. ASSUME FindRequest PROVE ThreadTypes'
  BY <1>9 DEF FindRequest
<1>10. ASSUME HandOver PROVE ThreadTypes'
  BY <1>10, HandOverIs DEF HandOver
<1>11. ASSUME ConnectionLost PROVE ThreadTypes'
  BY <1>11 DEF ConnectionLost, CloseSocket
<1>12. ASSUME Reopen PROVE ThreadTypes'
  BY <1>12 DEF Reopen
<1>13. ASSUME SendLogin PROVE ThreadTypes'
  BY <1>13 DEF SendLogin
<1>14. ASSUME ReadWelcome PROVE ThreadTypes'
  BY <1>14, AskedLess DEF ReadWelcome
<1>15. ASSUME LoginFails PROVE ThreadTypes'
  BY <1>15 DEF LoginFails, CloseSocket
<1>16. CASE UNCHANGED vnsiVars
  BY <1>16 DEF vnsiVars
<1>. QED
  BY <1>1, <1>2, <1>3, <1>4, <1>5, <1>6, <1>7, <1>8, <1>9, <1>10, <1>11, <1>12, <1>13, <1>14, <1>15, <1>16 DEF VNSINext

(* Every step keeps the types of the table.                                *)
LEMMA TableTypesKept == VNSIInv /\ [VNSINext]_vnsiVars => TableTypes'
<1>. SUFFICES ASSUME VNSIInv, [VNSINext]_vnsiVars PROVE TableTypes'
  OBVIOUS
<1>. USE ProcessIs, AskedIs, NodesIs, ReplyIs DEF VNSIInv, ThreadTypes, TableTypes, Places, Numbered,
         Goes, Returns, counterVars, linkVars, tableVars, resultVars
<1>1. ASSUME NEW t \in VNSIThread, Load(t) PROVE TableTypes'
  BY <1>1 DEF Load
<1>2. ASSUME NEW t \in VNSIThread, Increment(t) PROVE TableTypes'
  BY <1>2 DEF Increment
<1>3. ASSUME NEW t \in VNSIThread, Insert(t) PROVE TableTypes'
  <2>1. /\ Nodes' \subseteq Nat \ {0} /\ adrift' \subseteq 0..MaxCalls
        /\ \A n \in Nodes' : vnsiQueue'[n] \in Reply \cup {NoReply}
    BY <1>3, InsertTyped
  <2>. QED  BY <1>3, <2>1 DEF Insert
<1>4. ASSUME NEW t \in VNSIThread, TestOpen(t) PROVE TableTypes'
  BY <1>4 DEF TestOpen
<1>5. ASSUME NEW t \in VNSIThread, WriteRequest(t) PROVE TableTypes'
  <2>1. Request(t) \in Reply
    BY <1>5 DEF WriteRequest, Numbered
  <2>2. requests' \in Seq(Reply)
    BY <1>5, <2>1, AskedMore DEF WriteRequest
  <2>3. /\ UNCHANGED <<vnsiQueue, adrift, inHand, wrong>>
        /\ crashed' \in {"no", "node", "socket"}
        /\ at'[Process] \in {"delivers", "found"} => at[Process] \in {"delivers", "found"}
    BY <1>5 DEF WriteRequest
  <2>. QED  BY <2>2, <2>3
<1>6. ASSUME NEW t \in VNSIThread, Erase(t) PROVE TableTypes'
  <2>1. serial[t] \in 0..MaxCalls
    OBVIOUS
  <2>2. Unlink(t)
    BY <1>6 DEF Erase
  <2>3. /\ Nodes' \subseteq Nat \ {0} /\ adrift' \subseteq 0..MaxCalls
        /\ \A n \in Nodes' : vnsiQueue'[n] \in Reply \cup {NoReply}
    <3>1. /\ Nodes' \subseteq Nodes /\ adrift' \subseteq adrift \cup {serial[t]}
          /\ \A n \in Nodes' : vnsiQueue'[n] = vnsiQueue[n]
      BY <2>2, UnlinkIs
    <3>. QED  BY <2>1, <3>1
  <2>. QED  BY <1>6, <2>3 DEF Erase
<1>7. ASSUME NEW t \in VNSIThread, RemoveNode(t) PROVE TableTypes'
  <2>1. serial[t] \in 0..MaxCalls
    OBVIOUS
  <2>2. Unlink(t)
    BY <1>7 DEF RemoveNode
  <2>3. /\ Nodes' \subseteq Nat \ {0} /\ adrift' \subseteq 0..MaxCalls
        /\ \A n \in Nodes' : vnsiQueue'[n] \in Reply \cup {NoReply}
    <3>1. /\ Nodes' \subseteq Nodes /\ adrift' \subseteq adrift \cup {serial[t]}
          /\ \A n \in Nodes' : vnsiQueue'[n] = vnsiQueue[n]
      BY <2>2, UnlinkIs
    <3>. QED  BY <2>1, <3>1
  <2>. QED  BY <1>7, <2>3 DEF RemoveNode, Taken
<1>8. ASSUME ReadReply PROVE TableTypes'
  BY <1>8, AskedLess DEF ReadReply
<1>9. ASSUME FindRequest PROVE TableTypes'
  BY <1>9, ZenonT(30) DEF FindRequest
<1>10. ASSUME HandOver PROVE TableTypes'
  BY <1>10, HandOverIs DEF HandOver
<1>11. ASSUME ConnectionLost PROVE TableTypes'
  BY <1>11 DEF ConnectionLost, CloseSocket
<1>12. ASSUME Reopen PROVE TableTypes'
  BY <1>12 DEF Reopen
<1>13. ASSUME SendLogin PROVE TableTypes'
  <2>1. Request(Process) \in Reply
    BY <1>13 DEF SendLogin, Numbered
  <2>2. requests' \in Seq(Reply)
    BY <1>13, <2>1, AskedMore DEF SendLogin
  <2>. QED  BY <1>13, <2>2 DEF SendLogin
<1>14. ASSUME ReadWelcome PROVE TableTypes'
  BY <1>14, AskedLess DEF ReadWelcome
<1>15. ASSUME LoginFails PROVE TableTypes'
  BY <1>15 DEF LoginFails, CloseSocket
<1>16. CASE UNCHANGED vnsiVars
  BY <1>16 DEF vnsiVars
<1>. QED
  BY <1>1, <1>2, <1>3, <1>4, <1>5, <1>6, <1>7, <1>8, <1>9, <1>10, <1>11, <1>12, <1>13, <1>14, <1>15, <1>16 DEF VNSINext

(* As long as no two increments overlap, every number is used once.        *)
LEMMA NumbersKept == VNSIInv /\ [VNSINext]_vnsiVars => (~raced => Numbers)'
<1>. SUFFICES ASSUME VNSIInv, [VNSINext]_vnsiVars PROVE (~raced => Numbers)'
  OBVIOUS
<1>. USE ProcessIs, NodesIs DEF VNSIInv, ThreadTypes, Numbers, Numbered,
         Goes, Returns, counterVars, linkVars, tableVars, resultVars
<1>1. ASSUME NEW t \in VNSIThread, Load(t) PROVE (~raced => Numbers)'
  BY <1>1 DEF Load
<1>2. ASSUME NEW t \in VNSIThread, Increment(t) PROVE (~raced => Numbers)'
  <2>. SUFFICES ASSUME ~raced PROVE Numbers'
    BY <1>2 DEF Increment
  <2>1. Nodes' = Nodes /\ serialCounter' = serialCounter + 1 /\ \A n \in Nodes : n \in Nat
    BY <1>2, IncrementIs DEF TableTypes
  <2>2. \A u \in VNSIThread : /\ serial[u] \in Nat /\ at'[u] # "counts"
                              /\ serial'[u] = IF u = t THEN serialCounter ELSE serial[u]
    BY <1>2, IncrementIs
  <2>. QED  BY <2>1, <2>2
<1>3. ASSUME NEW t \in VNSIThread, Insert(t) PROVE (~raced => Numbers)'
  BY <1>3, InsertIs, InsertGoes
<1>4. ASSUME NEW t \in VNSIThread, TestOpen(t) PROVE (~raced => Numbers)'
  BY <1>4 DEF TestOpen
<1>5. ASSUME NEW t \in VNSIThread, WriteRequest(t) PROVE (~raced => Numbers)'
  BY <1>5 DEF WriteRequest
<1>6. ASSUME NEW t \in VNSIThread, Erase(t) PROVE (~raced => Numbers)'
  BY <1>6, UnlinkIs DEF Erase, Erasing
<1>7. ASSUME NEW t \in VNSIThread, RemoveNode(t) PROVE (~raced => Numbers)'
  BY <1>7, UnlinkIs DEF RemoveNode, Taken
<1>8. ASSUME ReadReply PROVE (~raced => Numbers)'
  BY <1>8, AskedLess DEF ReadReply
<1>9. ASSUME FindRequest PROVE (~raced => Numbers)'
  BY <1>9 DEF FindRequest
<1>10. ASSUME HandOver PROVE (~raced => Numbers)'
  BY <1>10, HandOverIs DEF HandOver
<1>11. ASSUME ConnectionLost PROVE (~raced => Numbers)'
  BY <1>11 DEF ConnectionLost, CloseSocket
<1>12. ASSUME Reopen PROVE (~raced => Numbers)'
  BY <1>12 DEF Reopen
<1>13. ASSUME SendLogin PROVE (~raced => Numbers)'
  BY <1>13 DEF SendLogin
<1>14. ASSUME ReadWelcome PROVE (~raced => Numbers)'
  BY <1>14, AskedLess DEF ReadWelcome
<1>15. ASSUME LoginFails PROVE (~raced => Numbers)'
  BY <1>15 DEF LoginFails, CloseSocket
<1>16. CASE UNCHANGED vnsiVars
  BY <1>16 DEF vnsiVars
<1>. QED
  BY <1>1, <1>2, <1>3, <1>4, <1>5, <1>6, <1>7, <1>8, <1>9, <1>10, <1>11, <1>12, <1>13, <1>14, <1>15, <1>16 DEF VNSINext

(* A reply keeps the number and the owner of its request on its whole way  *)
(* into the node.                                                          *)
LEMMA RepliesOwnedKept == VNSIInv /\ [VNSINext]_vnsiVars => (~raced => RepliesOwned)'
<1>. SUFFICES ASSUME VNSIInv, [VNSINext]_vnsiVars PROVE (~raced => RepliesOwned)'
  OBVIOUS
<1>. USE ProcessIs, OwnedSame, OwnedCleared, AskedIs, NodesIs, ReplyIs DEF VNSIInv, ThreadTypes, TableTypes, RepliesOwned,
         Goes, Returns, counterVars, linkVars, tableVars, resultVars
<1>1. ASSUME NEW t \in VNSIThread, Load(t) PROVE (~raced => RepliesOwned)'
  BY <1>1 DEF Load
<1>2. ASSUME NEW t \in VNSIThread, Increment(t) PROVE (~raced => RepliesOwned)'
  <2>. SUFFICES ASSUME ~raced PROVE RepliesOwned'
    BY <1>2 DEF Increment
  <2>. QED  BY <1>2, IncrementIs, OwnedCounts, ZenonT(30)
<1>3. ASSUME NEW t \in VNSIThread, Insert(t) PROVE (~raced => RepliesOwned)'
  <2>1. /\ UNCHANGED <<requests, inHand>> /\ \A r : Owned(r)' <=> Owned(r)
        /\ ~raced' => RepliesOwned
    BY <1>3 DEF Insert
  <2>2. RepliesOwned => \A n \in Nodes' :
          Owned(vnsiQueue'[n]) /\ (vnsiQueue'[n] = NoReply \/ vnsiQueue'[n].serial = n)
    BY <1>3, InsertOwned
  <2>. QED  BY <2>1, <2>2
<1>4. ASSUME NEW t \in VNSIThread, TestOpen(t) PROVE (~raced => RepliesOwned)'
  BY <1>4 DEF TestOpen
<1>5. ASSUME NEW t \in VNSIThread, WriteRequest(t) PROVE (~raced => RepliesOwned)'
  <2>. SUFFICES ASSUME ~raced PROVE RepliesOwned'
    BY <1>5 DEF WriteRequest
  <2>1. Request(t) \in Reply /\ serial[t] # 0
    BY <1>5 DEF WriteRequest, Numbered
  <2>2. Owned(Request(t))
    BY <2>1 DEF Owned, Numbers
  <2>3. Asked' = Asked \/ Asked' = Asked \cup {Request(t)}
    BY <1>5, <2>1, AskedMore DEF WriteRequest
  <2>. QED  BY <1>5, <2>2, <2>3 DEF WriteRequest
<1>6. ASSUME NEW t \in VNSIThread, Erase(t) PROVE (~raced => RepliesOwned)'
  BY <1>6, UnlinkIs DEF Erase, Erasing
<1>7. ASSUME NEW t \in VNSIThread, RemoveNode(t) PROVE (~raced => RepliesOwned)'
  BY <1>7, UnlinkIs DEF RemoveNode, Taken
<1>8. ASSUME ReadReply PROVE (~raced => RepliesOwned)'
  BY <1>8, AskedLess DEF ReadReply
<1>9. ASSUME FindRequest PROVE (~raced => RepliesOwned)'
  BY <1>9 DEF FindRequest
<1>10. ASSUME HandOver PROVE (~raced => RepliesOwned)'
  BY <1>10, HandOverIs, ZenonT(30) DEF HandOver
<1>11. ASSUME ConnectionLost PROVE (~raced => RepliesOwned)'
  BY <1>11 DEF ConnectionLost, CloseSocket
<1>12. ASSUME Reopen PROVE (~raced => RepliesOwned)'
  BY <1>12 DEF Reopen
<1>13. ASSUME SendLogin PROVE (~raced => RepliesOwned)'
  <2>. SUFFICES ASSUME ~raced PROVE RepliesOwned'
    BY <1>13 DEF SendLogin
  <2>1. Request(Process) \in Reply /\ serial[Process] # 0
    BY <1>13 DEF SendLogin, Numbered
  <2>2. Owned(Request(Process))
    BY <2>1 DEF Owned, Numbers
  <2>3. Asked' = Asked \/ Asked' = Asked \cup {Request(Process)}
    BY <1>13, <2>1, AskedMore DEF SendLogin
  <2>. QED  BY <1>13, <2>2, <2>3 DEF SendLogin
<1>14. ASSUME ReadWelcome PROVE (~raced => RepliesOwned)'
  BY <1>14, AskedLess DEF ReadWelcome
<1>15. ASSUME LoginFails PROVE (~raced => RepliesOwned)'
  BY <1>15 DEF LoginFails, CloseSocket
<1>16. CASE UNCHANGED vnsiVars
  BY <1>16 DEF vnsiVars
<1>. QED
  BY <1>1, <1>2, <1>3, <1>4, <1>5, <1>6, <1>7, <1>8, <1>9, <1>10, <1>11, <1>12, <1>13, <1>14, <1>15, <1>16 DEF VNSINext

(* The server answers nothing that was not sent.                           *)
LEMMA NotSentKept == VNSIInv /\ [VNSINext]_vnsiVars => (~raced => NotSent)'
<1>. SUFFICES ASSUME VNSIInv, [VNSINext]_vnsiVars PROVE (~raced => NotSent)'
  OBVIOUS
<1>. USE ProcessIs, AskedIs, ReplyIs DEF VNSIInv, ThreadTypes, TableTypes, Numbers, NotSent, Unsent, Numbered,
         Goes, Returns, counterVars, linkVars, tableVars, resultVars
<1>1. ASSUME NEW t \in VNSIThread, Load(t) PROVE (~raced => NotSent)'
  BY <1>1 DEF Load
<1>2. ASSUME NEW t \in VNSIThread, Increment(t) PROVE (~raced => NotSent)'
  <2>. SUFFICES ASSUME ~raced PROVE NotSent'
    BY <1>2 DEF Increment
  <2>1. \A r \in Asked \cup {inHand} : r.serial < serialCounter
    BY DEF RepliesOwned, Owned
  <2>. QED  BY <1>2, <2>1, IncrementIs
<1>3. ASSUME NEW t \in VNSIThread, Insert(t) PROVE (~raced => NotSent)'
  BY <1>3, InsertIs, InsertGoes
<1>4. ASSUME NEW t \in VNSIThread, TestOpen(t) PROVE (~raced => NotSent)'
  BY <1>4 DEF TestOpen
<1>5. ASSUME NEW t \in VNSIThread, WriteRequest(t) PROVE (~raced => NotSent)'
  <2>1. Request(t) \in Reply /\ serial[t] # 0
    BY <1>5 DEF WriteRequest, Numbered
  <2>2. Asked' = Asked \/ (Asked' = Asked \cup {Request(t)} /\ at'[t] \notin Unsent)
    BY <1>5, <2>1, AskedMore DEF WriteRequest, Unsent
  <2>. QED  BY <1>5, <2>1, <2>2 DEF WriteRequest
<1>6. ASSUME NEW t \in VNSIThread, Erase(t) PROVE (~raced => NotSent)'
  BY <1>6, UnlinkIs DEF Erase, Erasing
<1>7. ASSUME NEW t \in VNSIThread, RemoveNode(t) PROVE (~raced => NotSent)'
  BY <1>7, UnlinkIs DEF RemoveNode, Taken
<1>8. ASSUME ReadReply PROVE (~raced => NotSent)'
  BY <1>8, AskedLess DEF ReadReply
<1>9. ASSUME FindRequest PROVE (~raced => NotSent)'
  BY <1>9 DEF FindRequest
<1>10. ASSUME HandOver PROVE (~raced => NotSent)'
  BY <1>10, HandOverIs DEF HandOver
<1>11. ASSUME ConnectionLost PROVE (~raced => NotSent)'
  BY <1>11 DEF ConnectionLost, CloseSocket
<1>12. ASSUME Reopen PROVE (~raced => NotSent)'
  BY <1>12 DEF Reopen
<1>13. ASSUME SendLogin PROVE (~raced => NotSent)'
  <2>1. Request(Process) \in Reply /\ serial[Process] # 0
    BY <1>13 DEF SendLogin, Numbered
  <2>2. Asked' = Asked \/ (Asked' = Asked \cup {Request(Process)} /\ at'[Process] \notin Unsent)
    BY <1>13, <2>1, AskedMore DEF SendLogin, Unsent
  <2>. QED  BY <1>13, <2>1, <2>2 DEF SendLogin
<1>14. ASSUME ReadWelcome PROVE (~raced => NotSent)'
  BY <1>14, AskedLess DEF ReadWelcome
<1>15. ASSUME LoginFails PROVE (~raced => NotSent)'
  BY <1>15 DEF LoginFails, CloseSocket
<1>16. CASE UNCHANGED vnsiVars
  BY <1>16 DEF vnsiVars
<1>. QED
  BY <1>1, <1>2, <1>3, <1>4, <1>5, <1>6, <1>7, <1>8, <1>9, <1>10, <1>11, <1>12, <1>13, <1>14, <1>15, <1>16 DEF VNSINext

(* Nodes of threads that wait are erased by nobody else.                   *)
LEMMA NodesThereKept == VNSIInv /\ [VNSINext]_vnsiVars => (~raced => NodesThere)'
<1>. SUFFICES ASSUME VNSIInv, [VNSINext]_vnsiVars PROVE (~raced => NodesThere)'
  OBVIOUS
<1>. USE ProcessIs, NodesIs, ReplyIs DEF VNSIInv, ThreadTypes, TableTypes, Numbers, NotSent, NodesThere, Entered, Unsent, Numbered, Delivering,
         Goes, Returns, counterVars, linkVars, tableVars, resultVars
<1>1. ASSUME NEW t \in VNSIThread, Load(t) PROVE (~raced => NodesThere)'
  BY <1>1, ZenonT(30) DEF Load
<1>2. ASSUME NEW t \in VNSIThread, Increment(t) PROVE (~raced => NodesThere)'
  BY <1>2 DEF Increment
<1>3. ASSUME NEW t \in VNSIThread, Insert(t) PROVE (~raced => NodesThere)'
  BY <1>3, InsertIs, InsertGoes
<1>4. ASSUME NEW t \in VNSIThread, TestOpen(t) PROVE (~raced => NodesThere)'
  BY <1>4 DEF TestOpen
<1>5. ASSUME NEW t \in VNSIThread, WriteRequest(t) PROVE (~raced => NodesThere)'
  BY <1>5 DEF WriteRequest
<1>6. ASSUME NEW t \in VNSIThread, Erase(t) PROVE (~raced => NodesThere)'
  BY <1>6, UnlinkIs DEF Erase, Erasing
<1>7. ASSUME NEW t \in VNSIThread, RemoveNode(t) PROVE (~raced => NodesThere)'
  BY <1>7, UnlinkIs DEF RemoveNode, Taken
<1>8. ASSUME ReadReply PROVE (~raced => NodesThere)'
  BY <1>8, AskedLess DEF ReadReply
<1>9. ASSUME FindRequest PROVE (~raced => NodesThere)'
  BY <1>9 DEF FindRequest
<1>10. ASSUME HandOver PROVE (~raced => NodesThere)'
  BY <1>10, HandOverIs DEF HandOver
<1>11. ASSUME ConnectionLost PROVE (~raced => NodesThere)'
  BY <1>11 DEF ConnectionLost, CloseSocket
<1>12. ASSUME Reopen PROVE (~raced => NodesThere)'
  BY <1>12 DEF Reopen
<1>13. ASSUME SendLogin PROVE (~raced => NodesThere)'
  BY <1>13 DEF SendLogin
<1>14. ASSUME ReadWelcome PROVE (~raced => NodesThere)'
  BY <1>14, AskedLess DEF ReadWelcome
<1>15. ASSUME LoginFails PROVE (~raced => NodesThere)'
  BY <1>15 DEF LoginFails, CloseSocket
<1>16. CASE UNCHANGED vnsiVars
  BY <1>16 DEF vnsiVars
<1>. QED
  BY <1>1, <1>2, <1>3, <1>4, <1>5, <1>6, <1>7, <1>8, <1>9, <1>10, <1>11, <1>12, <1>13, <1>14, <1>15, <1>16 DEF VNSINext

(* No thread takes a wrong reply, and none looks for a node that is gone.  *)
LEMMA UnharmedKept == VNSIInv /\ [VNSINext]_vnsiVars => (~raced => ~wrong /\ crashed # "node")'
<1>. SUFFICES ASSUME VNSIInv, [VNSINext]_vnsiVars PROVE (~raced => ~wrong /\ crashed # "node")'
  OBVIOUS
<1>. USE ProcessIs, ReplyIs DEF VNSIInv, ThreadTypes, TableTypes, Numbers, RepliesOwned, NodesThere, Owned, Entered,
         Goes, Returns, counterVars, linkVars, tableVars, resultVars
<1>1. ASSUME NEW t \in VNSIThread, Load(t) PROVE (~raced => ~wrong /\ crashed # "node")'
  BY <1>1 DEF Load
<1>2. ASSUME NEW t \in VNSIThread, Increment(t) PROVE (~raced => ~wrong /\ crashed # "node")'
  BY <1>2 DEF Increment
<1>3. ASSUME NEW t \in VNSIThread, Insert(t) PROVE (~raced => ~wrong /\ crashed # "node")'
  BY <1>3, InsertIs, InsertGoes
<1>4. ASSUME NEW t \in VNSIThread, TestOpen(t) PROVE (~raced => ~wrong /\ crashed # "node")'
  BY <1>4 DEF TestOpen
<1>5. ASSUME NEW t \in VNSIThread, WriteRequest(t) PROVE (~raced => ~wrong /\ crashed # "node")'
  BY <1>5 DEF WriteRequest
<1>6. ASSUME NEW t \in VNSIThread, Erase(t) PROVE (~raced => ~wrong /\ crashed # "node")'
  BY <1>6, UnlinkIs DEF Erase, Erasing
<1>7. ASSUME NEW t \in VNSIThread, RemoveNode(t) PROVE (~raced => ~wrong /\ crashed # "node")'
  <2>. SUFFICES ASSUME ~raced PROVE ~wrong' /\ crashed' # "node"
    BY <1>7 DEF RemoveNode
  <2>1. at[t] = "waits" /\ Taken(t)
    BY <1>7 DEF RemoveNode
  <2>2. serial[t] \in Nodes => vnsiQueue[serial[t]] \in {NoReply, Request(t)}
    <3>. SUFFICES ASSUME serial[t] \in Nodes, vnsiQueue[serial[t]] # NoReply
                  PROVE  vnsiQueue[serial[t]] = Request(t)
      OBVIOUS
    <3>1. serial[t] \in Nat \ {0} /\ vnsiQueue[serial[t]] \in Reply
      OBVIOUS
    <3>2. vnsiQueue[serial[t]].serial = serial[t] /\ vnsiQueue[serial[t]].owner = t
      BY <3>1
    <3>. QED  BY <3>1, <3>2
  <2>. QED  BY <2>1, <2>2 DEF Taken
<1>8. ASSUME ReadReply PROVE (~raced => ~wrong /\ crashed # "node")'
  BY <1>8, AskedLess DEF ReadReply
<1>9. ASSUME FindRequest PROVE (~raced => ~wrong /\ crashed # "node")'
  BY <1>9 DEF FindRequest
<1>10. ASSUME HandOver PROVE (~raced => ~wrong /\ crashed # "node")'
  BY <1>10, HandOverIs DEF HandOver
<1>11. ASSUME ConnectionLost PROVE (~raced => ~wrong /\ crashed # "node")'
  BY <1>11 DEF ConnectionLost, CloseSocket
<1>12. ASSUME Reopen PROVE (~raced => ~wrong /\ crashed # "node")'
  BY <1>12 DEF Reopen
<1>13. ASSUME SendLogin PROVE (~raced => ~wrong /\ crashed # "node")'
  BY <1>13 DEF SendLogin
<1>14. ASSUME ReadWelcome PROVE (~raced => ~wrong /\ crashed # "node")'
  BY <1>14, AskedLess DEF ReadWelcome
<1>15. ASSUME LoginFails PROVE (~raced => ~wrong /\ crashed # "node")'
  BY <1>15 DEF LoginFails, CloseSocket
<1>16. CASE UNCHANGED vnsiVars
  BY <1>16 DEF vnsiVars
<1>. QED
  BY <1>1, <1>2, <1>3, <1>4, <1>5, <1>6, <1>7, <1>8, <1>9, <1>10, <1>11, <1>12, <1>13, <1>14, <1>15, <1>16 DEF VNSINext

(* What stays in the table belongs to a thread, or was left by a race.     *)
LEMMA NodesBelongKept == VNSIInv /\ [VNSINext]_vnsiVars => NodesBelong'
<1>. SUFFICES ASSUME VNSIInv, [VNSINext]_vnsiVars PROVE NodesBelong'
  OBVIOUS
<1>. USE ProcessIs, NodesIs DEF VNSIInv, ThreadTypes, NodesBelong,
         Goes, Returns, counterVars, linkVars, tableVars, resultVars
<1>1. ASSUME NEW t \in VNSIThread, Load(t) PROVE NodesBelong'
  BY <1>1 DEF Load
<1>2. ASSUME NEW t \in VNSIThread, Increment(t) PROVE NodesBelong'
  BY <1>2 DEF Increment
<1>3. ASSUME NEW t \in VNSIThread, Insert(t) PROVE NodesBelong'
  BY <1>3, InsertIs, InsertGoes
<1>4. ASSUME NEW t \in VNSIThread, TestOpen(t) PROVE NodesBelong'
  BY <1>4 DEF TestOpen
<1>5. ASSUME NEW t \in VNSIThread, WriteRequest(t) PROVE NodesBelong'
  BY <1>5 DEF WriteRequest
<1>6. ASSUME NEW t \in VNSIThread, Erase(t) PROVE NodesBelong'
  BY <1>6, UnlinkIs DEF Erase, Erasing
<1>7. ASSUME NEW t \in VNSIThread, RemoveNode(t) PROVE NodesBelong'
  BY <1>7, UnlinkIs DEF RemoveNode, Taken
<1>8. ASSUME ReadReply PROVE NodesBelong'
  BY <1>8, AskedLess DEF ReadReply
<1>9. ASSUME FindRequest PROVE NodesBelong'
  BY <1>9 DEF FindRequest
<1>10. ASSUME HandOver PROVE NodesBelong'
  BY <1>10, HandOverIs DEF HandOver
<1>11. ASSUME ConnectionLost PROVE NodesBelong'
  BY <1>11 DEF ConnectionLost, CloseSocket
<1>12. ASSUME Reopen PROVE NodesBelong'
  BY <1>12 DEF Reopen
<1>13. ASSUME SendLogin PROVE NodesBelong'
  BY <1>13 DEF SendLogin
<1>14. ASSUME ReadWelcome PROVE NodesBelong'
  BY <1>14, AskedLess DEF ReadWelcome
<1>15. ASSUME LoginFails PROVE NodesBelong'
  BY <1>15 DEF LoginFails, CloseSocket
<1>16. CASE UNCHANGED vnsiVars
  BY <1>16 DEF vnsiVars
<1>. QED
  BY <1>1, <1>2, <1>3, <1>4, <1>5, <1>6, <1>7, <1>8, <1>9, <1>10, <1>11, <1>12, <1>13, <1>14, <1>15, <1>16 DEF VNSINext

(* The requests of the VNSI client: a call gets its own reply and nothing  *)
(* is left in the table, except by the races on counter and table.         *)
THEOREM VNSIRepliesFound == VNSISpec => []RepliesFound
<1>1. VNSIInit => VNSIInv
  <2>. SUFFICES ASSUME VNSIInit PROVE VNSIInv
    OBVIOUS
  <2>1. Nodes = {} /\ Asked = {}
    BY DEF VNSIInit, Nodes, Asked, Range
  <2>2. ThreadTypes /\ TableTypes
    <3>1. ThreadTypes
      BY ProcessIs DEF VNSIInit, ThreadTypes, Places, Numbered
    <3>2. TableTypes
      BY <2>1, ProcessIs, EmptySeq DEF VNSIInit, TableTypes
    <3>. QED  BY <3>1, <3>2
  <2>3. Numbers
    BY <2>1 DEF VNSIInit, Numbers
  <2>4. RepliesOwned
    BY <2>1 DEF VNSIInit, RepliesOwned, Owned
  <2>5. NotSent /\ NodesThere
    BY <2>1, ProcessIs DEF VNSIInit, NotSent, NodesThere, Unsent, Entered
  <2>. QED  BY <2>1, <2>2, <2>3, <2>4, <2>5 DEF VNSIInv, VNSIInit, NodesBelong
<1>2. VNSIInv /\ [VNSINext]_vnsiVars => VNSIInv'
  BY ThreadTypesKept, TableTypesKept, NumbersKept, RepliesOwnedKept, NotSentKept, NodesThereKept, UnharmedKept, NodesBelongKept DEF VNSIInv
<1>3. VNSIInv => RepliesFound
  BY ProcessIs DEF VNSIInv, RepliesFound, AnswersOwn, NodesInUse, ConfirmUnanswered, NodesThere, Entered
<1>. QED  BY <1>1, <1>2, <1>3, PTL DEF VNSISpec

-----------------------------------------------------------------------------
(* FileOps                                                                 *)

(* The types; a name that is found is an image's.                          *)
FileTypes ==
  /\ FileOpsTypeOK
  /\ asking.found => asking.file \in Image
  /\ asking.file \in Image \cup {None}

(* The queues have room for what is delayed, or in hand, to be queued again. *)
JobsFit ==
  /\ job = None => Len(queue) + Len(delayed) <= MaxQueue
  /\ job # None => Len(queue) + Len(delayed) + 1 <= MaxQueue
  /\ job # None <=> worker = "copies"

(* A name that XBMC may ask for is cached or on its way, also the one just *)
(* being answered.                                                         *)
NamesCovered ==
  /\ KnownIsCachedOrComing
  /\ asking.found =>
       asking.file \in cached \cup Range(queue) \cup Range(delayed) \cup {job} \cup dropped \cup overtaken

(* There is no thread without an owner, nor while a playback has suspended *)
(* it in time.                                                             *)
Quiet ==
  /\ player = "none" => worker = "none"
  /\ player = "playing" /\ ~expired => worker = "none"

(* The inductive invariant.                                                *)
FileInv == FileTypes /\ JobsFit /\ NamesCovered /\ Quiet

(* What the assumption on the names says of the files.                     *)
LEMMA Files == Image \subseteq File /\ Artwork \subseteq File /\ None \notin File /\ MaxQueue \in Nat
BY FileAssumption DEF File

(* Every step keeps the types.                                             *)
LEMMA FileTypesKept == FileInv /\ [FileOpsNext]_fileOpsVars => FileTypes'
<1>. SUFFICES ASSUME FileInv, [FileOpsNext]_fileOpsVars PROVE FileTypes'
  OBVIOUS
<1>. USE Files DEF FileInv, FileTypes, FileOpsTypeOK, NoRequest, jobVars, diskVars, historyVars, boundVars
<1>1. ASSUME Construct PROVE FileTypes'
  BY <1>1 DEF Construct
<1>2. ASSUME NEW f \in Image, AskForImage(f) PROVE FileTypes'
  BY <1>2 DEF AskForImage
<1>3. ASSUME QueueImage PROVE FileTypes'
  <2>1. queue' \in Seq(File) /\ Len(queue') <= MaxQueue
    <3>1. queue' \in Seq(File) /\ Len(queue') = Len(queue) + 1
      BY <1>3 DEF QueueImage
    <3>2. Len(queue) + 1 <= MaxQueue
      BY <1>3 DEF QueueImage, Room, JobsFit
    <3>. QED  BY <3>1, <3>2
  <2>. QED  BY <1>3, <2>1 DEF QueueImage
<1>4. ASSUME RememberName PROVE FileTypes'
  BY <1>4 DEF RememberName
<1>5. ASSUME NEW f \in Artwork, GetArtworkPath(f) PROVE FileTypes'
  <2>1. listed' \in [read : BOOLEAN, names : SUBSET Artwork]
    BY <1>5 DEF GetArtworkPath
  <2>2. queue' \in Seq(File) /\ Len(queue') <= MaxQueue
    <3>1. CASE Room /\ queue' = Append(queue, f)
      <4>1. queue' \in Seq(File) /\ Len(queue') = Len(queue) + 1
        BY <3>1
      <4>2. Len(queue) + 1 <= MaxQueue
        BY <3>1 DEF Room, JobsFit
      <4>. QED  BY <4>1, <4>2
    <3>2. CASE queue' = queue
      BY <3>2
    <3>. QED  BY <1>5, <3>1, <3>2 DEF GetArtworkPath
  <2>3. event' \in BOOLEAN
    BY <1>5 DEF GetArtworkPath
  <2>. QED  BY <1>5, <2>1, <2>2, <2>3 DEF GetArtworkPath
<1>6. ASSUME WorkerWakes PROVE FileTypes'
  BY <1>6 DEF WorkerWakes
<1>7. ASSUME TakeJob PROVE FileTypes'
  BY <1>7 DEF TakeJob, JobsFit
<1>8. ASSUME CopyFile PROVE FileTypes'
  BY <1>8 DEF CopyFile, JobsFit
<1>9. ASSUME DelayJob PROVE FileTypes'
  BY <1>9 DEF DelayJob, JobsFit
<1>10. ASSUME NoMoreJobs PROVE FileTypes'
  BY <1>10 DEF NoMoreJobs
<1>11. ASSUME Requeue PROVE FileTypes'
  <2>1. queue' \in Seq(File) /\ delayed' \in Seq(File)
    BY <1>11, EmptySeq DEF Requeue
  <2>2. Len(queue') <= MaxQueue
    BY <1>11 DEF Requeue, JobsFit
  <2>. QED  BY <1>11, <2>1, <2>2 DEF Requeue
<1>12. ASSUME EndOfRound PROVE FileTypes'
  BY <1>12 DEF EndOfRound, Emptied
<1>13. ASSUME SuspendStarts PROVE FileTypes'
  BY <1>13 DEF SuspendStarts, Stopping
<1>14. ASSUME SuspendEnds PROVE FileTypes'
  BY <1>14 DEF SuspendEnds
<1>15. ASSUME Resume PROVE FileTypes'
  BY <1>15 DEF Resume
<1>16. ASSUME DestroyStarts PROVE FileTypes'
  BY <1>16 DEF DestroyStarts, Emptied, Stopping
<1>17. ASSUME RemoteChanges PROVE FileTypes'
  BY <1>17 DEF RemoteChanges
<1>18. CASE UNCHANGED fileOpsVars
  BY <1>18 DEF fileOpsVars
<1>. QED
  BY <1>1, <1>2, <1>3, <1>4, <1>5, <1>6, <1>7, <1>8, <1>9, <1>10, <1>11, <1>12, <1>13, <1>14, <1>15, <1>16, <1>17, <1>18 DEF FileOpsNext

(* A job that is delayed or taken in hand has its place in the queue       *)
(* still.                                                                  *)
LEMMA JobsFitKept == FileInv /\ [FileOpsNext]_fileOpsVars => JobsFit'
<1>. SUFFICES ASSUME FileInv, [FileOpsNext]_fileOpsVars PROVE JobsFit'
  OBVIOUS
<1>. USE Files DEF FileInv, JobsFit, FileTypes, FileOpsTypeOK, Quiet, jobVars, diskVars, historyVars, boundVars
<1>1. ASSUME Construct PROVE JobsFit'
  BY <1>1 DEF Construct
<1>2. ASSUME NEW f \in Image, AskForImage(f) PROVE JobsFit'
  BY <1>2 DEF AskForImage
<1>3. ASSUME QueueImage PROVE JobsFit'
  <2>1. Len(queue') = Len(queue) + 1
    BY <1>3 DEF QueueImage
  <2>. QED  BY <1>3, <2>1 DEF QueueImage, Room
<1>4. ASSUME RememberName PROVE JobsFit'
  BY <1>4 DEF RememberName
<1>5. ASSUME NEW f \in Artwork, GetArtworkPath(f) PROVE JobsFit'
  <2>1. CASE Room /\ queue' = Append(queue, f)
    <3>1. Len(queue') = Len(queue) + 1
      BY <2>1
    <3>. QED  BY <1>5, <2>1, <3>1 DEF GetArtworkPath, Room
  <2>2. CASE queue' = queue
    BY <1>5, <2>2 DEF GetArtworkPath
  <2>. QED  BY <1>5, <2>1, <2>2 DEF GetArtworkPath
<1>6. ASSUME WorkerWakes PROVE JobsFit'
  BY <1>6 DEF WorkerWakes
<1>7. ASSUME TakeJob PROVE JobsFit'
  BY <1>7 DEF TakeJob
<1>8. ASSUME CopyFile PROVE JobsFit'
  BY <1>8 DEF CopyFile
<1>9. ASSUME DelayJob PROVE JobsFit'
  BY <1>9 DEF DelayJob
<1>10. ASSUME NoMoreJobs PROVE JobsFit'
  BY <1>10 DEF NoMoreJobs
<1>11. ASSUME Requeue PROVE JobsFit'
  BY <1>11 DEF Requeue
<1>12. ASSUME EndOfRound PROVE JobsFit'
  BY <1>12 DEF EndOfRound, Emptied
<1>13. ASSUME SuspendStarts PROVE JobsFit'
  BY <1>13 DEF SuspendStarts, Stopping
<1>14. ASSUME SuspendEnds PROVE JobsFit'
  BY <1>14 DEF SuspendEnds
<1>15. ASSUME Resume PROVE JobsFit'
  BY <1>15 DEF Resume
<1>16. ASSUME DestroyStarts PROVE JobsFit'
  BY <1>16 DEF DestroyStarts, Emptied, Stopping
<1>17. ASSUME RemoteChanges PROVE JobsFit'
  BY <1>17 DEF RemoteChanges
<1>18. CASE UNCHANGED fileOpsVars
  BY <1>18 DEF fileOpsVars
<1>. QED
  BY <1>1, <1>2, <1>3, <1>4, <1>5, <1>6, <1>7, <1>8, <1>9, <1>10, <1>11, <1>12, <1>13, <1>14, <1>15, <1>16, <1>17, <1>18 DEF FileOpsNext

(* A job is forgotten only when its file is cached, or it is recorded as   *)
(* dropped or overtaken.                                                   *)
LEMMA NamesCoveredKept == FileInv /\ [FileOpsNext]_fileOpsVars => NamesCovered'
<1>. SUFFICES ASSUME FileInv, [FileOpsNext]_fileOpsVars PROVE NamesCovered'
  OBVIOUS
<1>. USE Files DEF FileInv, NamesCovered, KnownIsCachedOrComing, Pending, FileTypes, JobsFit, FileOpsTypeOK, NoRequest, jobVars, diskVars, historyVars, boundVars
<1>1. ASSUME Construct PROVE NamesCovered'
  BY <1>1 DEF Construct
<1>2. ASSUME NEW f \in Image, AskForImage(f) PROVE NamesCovered'
  BY <1>2 DEF AskForImage
<1>3. ASSUME QueueImage PROVE NamesCovered'
  <2>1. Range(queue') = Range(queue) \cup {asking.file}
    BY <1>3, RangeOfAppend DEF QueueImage
  <2>. QED  BY <1>3, <2>1 DEF QueueImage
<1>4. ASSUME RememberName PROVE NamesCovered'
  BY <1>4 DEF RememberName
<1>5. ASSUME NEW f \in Artwork, GetArtworkPath(f) PROVE NamesCovered'
  <2>1. Range(queue) \subseteq Range(queue')
    <3>1. queue' = Append(queue, f) => Range(queue') = Range(queue) \cup {f}
      BY RangeOfAppend
    <3>. QED  BY <1>5, <3>1 DEF GetArtworkPath
  <2>. QED  BY <1>5, <2>1 DEF GetArtworkPath
<1>6. ASSUME WorkerWakes PROVE NamesCovered'
  BY <1>6 DEF WorkerWakes
<1>7. ASSUME TakeJob PROVE NamesCovered'
  <2>1. Range(queue) = {job'} \cup Range(queue')
    BY <1>7, RangeOfTail DEF TakeJob
  <2>2. job = None
    BY <1>7 DEF TakeJob
  <2>. QED  BY <1>7, <2>1, <2>2 DEF TakeJob
<1>8. ASSUME CopyFile PROVE NamesCovered'
  BY <1>8 DEF CopyFile
<1>9. ASSUME DelayJob PROVE NamesCovered'
  <2>1. Range(delayed') = Range(delayed) \cup {job}
    BY <1>9, RangeOfAppend DEF DelayJob
  <2>. QED  BY <1>9, <2>1 DEF DelayJob
<1>10. ASSUME NoMoreJobs PROVE NamesCovered'
  BY <1>10 DEF NoMoreJobs
<1>11. ASSUME Requeue PROVE NamesCovered'
  <2>1. Range(queue') = Range(queue) \cup Range(delayed)
    BY <1>11, RangeOfConcat DEF Requeue
  <2>. QED  BY <1>11, <2>1 DEF Requeue
<1>12. ASSUME EndOfRound PROVE NamesCovered'
  BY <1>12 DEF EndOfRound, Emptied
<1>13. ASSUME SuspendStarts PROVE NamesCovered'
  BY <1>13 DEF SuspendStarts, Stopping
<1>14. ASSUME SuspendEnds PROVE NamesCovered'
  BY <1>14 DEF SuspendEnds
<1>15. ASSUME Resume PROVE NamesCovered'
  BY <1>15 DEF Resume
<1>16. ASSUME DestroyStarts PROVE NamesCovered'
  BY <1>16 DEF DestroyStarts, Emptied, Stopping
<1>17. ASSUME RemoteChanges PROVE NamesCovered'
  BY <1>17 DEF RemoteChanges
<1>18. CASE UNCHANGED fileOpsVars
  BY <1>18 DEF fileOpsVars
<1>. QED
  BY <1>1, <1>2, <1>3, <1>4, <1>5, <1>6, <1>7, <1>8, <1>9, <1>10, <1>11, <1>12, <1>13, <1>14, <1>15, <1>16, <1>17, <1>18 DEF FileOpsNext

(* Suspend() and the destructor leave no thread that copies.               *)
LEMMA QuietKept == FileInv /\ [FileOpsNext]_fileOpsVars => Quiet'
<1>. SUFFICES ASSUME FileInv, [FileOpsNext]_fileOpsVars PROVE Quiet'
  OBVIOUS
<1>. USE Files DEF FileInv, Quiet, jobVars, diskVars, historyVars, boundVars
<1>1. ASSUME Construct PROVE Quiet'
  BY <1>1 DEF Construct
<1>2. ASSUME NEW f \in Image, AskForImage(f) PROVE Quiet'
  BY <1>2 DEF AskForImage
<1>3. ASSUME QueueImage PROVE Quiet'
  BY <1>3 DEF QueueImage
<1>4. ASSUME RememberName PROVE Quiet'
  BY <1>4 DEF RememberName
<1>5. ASSUME NEW f \in Artwork, GetArtworkPath(f) PROVE Quiet'
  BY <1>5 DEF GetArtworkPath
<1>6. ASSUME WorkerWakes PROVE Quiet'
  BY <1>6 DEF WorkerWakes
<1>7. ASSUME TakeJob PROVE Quiet'
  BY <1>7 DEF TakeJob
<1>8. ASSUME CopyFile PROVE Quiet'
  BY <1>8 DEF CopyFile
<1>9. ASSUME DelayJob PROVE Quiet'
  BY <1>9 DEF DelayJob
<1>10. ASSUME NoMoreJobs PROVE Quiet'
  BY <1>10 DEF NoMoreJobs
<1>11. ASSUME Requeue PROVE Quiet'
  BY <1>11 DEF Requeue
<1>12. ASSUME EndOfRound PROVE Quiet'
  BY <1>12 DEF EndOfRound, Emptied
<1>13. ASSUME SuspendStarts PROVE Quiet'
  BY <1>13 DEF SuspendStarts, Stopping
<1>14. ASSUME SuspendEnds PROVE Quiet'
  BY <1>14 DEF SuspendEnds
<1>15. ASSUME Resume PROVE Quiet'
  BY <1>15 DEF Resume
<1>16. ASSUME DestroyStarts PROVE Quiet'
  BY <1>16 DEF DestroyStarts, Emptied, Stopping
<1>17. ASSUME RemoteChanges PROVE Quiet'
  BY <1>17 DEF RemoteChanges
<1>18. CASE UNCHANGED fileOpsVars
  BY <1>18 DEF fileOpsVars
<1>. QED
  BY <1>1, <1>2, <1>3, <1>4, <1>5, <1>6, <1>7, <1>8, <1>9, <1>10, <1>11, <1>12, <1>13, <1>14, <1>15, <1>16, <1>17, <1>18 DEF FileOpsNext

(* The cache of the MythTV client: names lead to files, a playback is not  *)
(* disturbed, and no thread outlives the object.                           *)
THEOREM FilesKept == FileOpsSpec => []CacheKept
<1>1. FileOpsInit => FileInv
  <2>. SUFFICES ASSUME FileOpsInit PROVE FileInv
    OBVIOUS
  <2>1. FileTypes
    <3>1. Len(queue) <= MaxQueue /\ queue \in Seq(File) /\ delayed \in Seq(File)
      BY Files, EmptySeq DEF FileOpsInit
    <3>2. /\ asking \in [file : File \cup {None}, found : BOOLEAN]
          /\ asking.file = None /\ asking.found = FALSE
      BY DEF FileOpsInit, NoRequest
    <3>. QED  BY <3>1, <3>2 DEF FileOpsInit, FileTypes, FileOpsTypeOK
  <2>2. JobsFit
    BY Files, EmptySeq DEF FileOpsInit, JobsFit
  <2>. QED  BY <2>1, <2>2 DEF FileOpsInit, FileInv, NamesCovered, Quiet, NoRequest, KnownIsCachedOrComing
<1>2. FileInv /\ [FileOpsNext]_fileOpsVars => FileInv'
  BY FileTypesKept, JobsFitKept, NamesCoveredKept, QuietKept DEF FileInv
<1>3. FileInv => CacheKept
  BY DEF FileInv, NamesCovered, Quiet, CacheKept, QuietWhilePlaying
<1>. QED  BY <1>1, <1>2, <1>3, PTL DEF FileOpsSpec
=============================================================================
