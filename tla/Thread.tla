------------------------------- MODULE Thread -------------------------------
(***************************************************************************)
(* CThread of lib/platform/threads/threads.h: the thread object every      *)
(* add-on with a background loop derives from.  Owners call CreateThread   *)
(* and StopThread; every successful ThreadsCreate starts a handler, which  *)
(* runs ThreadHandler around the virtual Process().                        *)
(*                                                                         *)
(* Each section the code runs under m_threadMutex is one action.  A thread *)
(* blocked in m_threadCondition gives the mutex up; it is in woken once a  *)
(* broadcast (or a spurious wake-up, which POSIX allows) has reached it,   *)
(* and it tests its predicate again when it next gets the mutex.           *)
(***************************************************************************)
EXTENDS Naturals, FiniteSets

CONSTANTS
  Owners,    (* threads that call CreateThread and StopThread             *)
  Handlers,  (* threads pthread_create can give out; a slot is reused     *)
  Waits,     (* the values of CreateThread's bWait the owners use         *)
  StopModes  (* StopThread's iWaitMs: "negative", "zero" and "positive"   *)

ASSUME ThreadAssumption ==
  /\ IsFiniteSet(Handlers)
  /\ Waits \subseteq BOOLEAN
  /\ StopModes \subseteq {"negative", "zero", "positive"}

VARIABLES
  m_bStop,     (* the stop request IsStopped() reports                    *)
  m_bRunning,
  m_bStopped,
  handler,     (* what each handler thread is doing                       *)
  pc,          (* where each owner is                                     *)
  mode,        (* iWaitMs of an owner's StopThread call                   *)
  woken,       (* the blocked owners a wake-up has reached                *)
  ret          (* what an owner's last finished call returned             *)

vars == <<m_bStop, m_bRunning, m_bStopped, handler, pc, mode, woken, ret>>
flags == <<m_bStop, m_bRunning, m_bStopped>>

Blocked == {o \in Owners : pc[o] \in {"createWait", "stopWait"}}

(* Variants of definitions of this module with one plausible mistake each: *)
(* the mutation runs put them in the place of the right ones.              *)
NoBroadcast == UNCHANGED woken

(* m_threadCondition.Broadcast(): it reaches the threads blocked now.      *)
Broadcast == woken' = woken \cup Blocked

Return(o, value) ==
  /\ pc'    = [pc EXCEPT ![o] = "idle"]
  /\ ret'   = [ret EXCEPT ![o] = value]
  /\ woken' = woken \ {o}

Init ==
  /\ m_bStop = FALSE /\ m_bRunning = FALSE /\ m_bStopped = FALSE
  /\ handler = [h \in Handlers |-> "none"]
  /\ pc      = [o \in Owners |-> "idle"]
  /\ mode    = [o \in Owners |-> "zero"]
  /\ woken   = {}
  /\ ret     = [o \in Owners |-> "none"]

HandlerStartsStale(h) ==
  /\ handler[h] = "created"
  /\ handler'   = [handler EXCEPT ![h] = "process"]
  /\ m_bRunning' = TRUE
  /\ Broadcast
  /\ UNCHANGED <<m_bStop, m_bStopped, pc, mode, ret>>

HandlerEndsUnmarked(h) ==
  /\ handler[h] = "ending"
  /\ handler'   = [handler EXCEPT ![h] = "none"]
  /\ m_bRunning' = FALSE
  /\ Broadcast
  /\ UNCHANGED <<m_bStop, m_bStopped, pc, mode, ret>>

-----------------------------------------------------------------------------
(* CreateThread when a handler runs already: nothing happens, FALSE.       *)
CreateRefused(o) ==
  /\ pc[o] = "idle" /\ m_bRunning
  /\ Return(o, "refused")
  /\ UNCHANGED <<flags, handler, mode>>

(* pthread_create fails: m_bStop has been reset all the same.              *)
CreateFails(o) ==
  /\ pc[o] = "idle" /\ ~m_bRunning
  /\ m_bStop' = FALSE
  /\ Return(o, "failed")
  /\ UNCHANGED <<m_bRunning, m_bStopped, handler, mode>>

(* pthread_create succeeds.  With bWait the owner blocks until m_bRunning, *)
(* which only the new handler sets; the mutex is held up to that wait.     *)
CreateThread(o, bWait) ==
  /\ pc[o] = "idle" /\ ~m_bRunning
  /\ m_bStop' = FALSE
  /\ \E h \in Handlers :
       /\ handler[h] = "none"
       /\ handler' = [handler EXCEPT ![h] = "created"]
  /\ IF bWait
     THEN /\ pc'  = [pc EXCEPT ![o] = "createWait"]
          /\ ret' = [ret EXCEPT ![o] = "none"]
          /\ UNCHANGED woken
     ELSE Return(o, "created")
  /\ UNCHANGED <<m_bRunning, m_bStopped, mode>>

(* The owner wakes up: CCondition::Wait leaves its loop if m_bRunning.     *)
CreateWakes(o) ==
  /\ pc[o] = "createWait" /\ o \in woken
  /\ IF m_bRunning
     THEN Return(o, "created")
     ELSE /\ woken' = woken \ {o}
          /\ UNCHANGED <<pc, ret>>
  /\ UNCHANGED <<flags, handler, mode>>

-----------------------------------------------------------------------------
(* ThreadHandler before Process().                                         *)
HandlerStarts(h) ==
  /\ handler[h] = "created"
  /\ handler'   = [handler EXCEPT ![h] = "process"]
  /\ m_bRunning' = TRUE
  /\ m_bStopped' = FALSE
  /\ Broadcast
  /\ UNCHANGED <<m_bStop, pc, mode, ret>>

(* Process() returns for a reason of its own.                              *)
ProcessReturns(h) ==
  /\ handler[h] = "process"
  /\ handler' = [handler EXCEPT ![h] = "ending"]
  /\ UNCHANGED <<flags, pc, mode, woken, ret>>

(* Process() returns because its loop saw IsStopped().                     *)
ProcessSeesStop(h) ==
  /\ m_bStop
  /\ ProcessReturns(h)

(* Sleep() inside Process(): refused once m_bStop is set, else it blocks   *)
(* for the whole time-out, since StopThread wakes nobody.                  *)
SleepStarts(h) ==
  /\ handler[h] = "process" /\ ~m_bStop
  /\ handler' = [handler EXCEPT ![h] = "sleep"]
  /\ UNCHANGED <<flags, pc, mode, woken, ret>>

SleepEnds(h) ==
  /\ handler[h] = "sleep"
  /\ handler' = [handler EXCEPT ![h] = "process"]
  /\ UNCHANGED <<flags, pc, mode, woken, ret>>

(* ThreadHandler after Process(); the slot is free again.                  *)
HandlerEnds(h) ==
  /\ handler[h] = "ending"
  /\ handler'   = [handler EXCEPT ![h] = "none"]
  /\ m_bRunning' = FALSE
  /\ m_bStopped' = TRUE
  /\ Broadcast
  /\ UNCHANGED <<m_bStop, pc, mode, ret>>

-----------------------------------------------------------------------------
(* First section of StopThread: set m_bStop and sample m_bRunning.         *)
StopThread(o, iWaitMs) ==
  /\ pc[o] = "idle"
  /\ m_bStop' = TRUE
  /\ mode' = [mode EXCEPT ![o] = iWaitMs]
  /\ IF m_bRunning /\ iWaitMs # "negative"
     THEN /\ pc'  = [pc EXCEPT ![o] = "stopLock"]
          /\ ret' = [ret EXCEPT ![o] = "none"]
          /\ UNCHANGED woken
     ELSE Return(o, IF iWaitMs = "negative" THEN "told" ELSE "stopped")
  /\ UNCHANGED <<m_bRunning, m_bStopped, handler>>

(* Second section: the mutex was free in between.                          *)
StopLocks(o) ==
  /\ pc[o] = "stopLock"
  /\ IF m_bStopped
     THEN Return(o, "stopped")
     ELSE /\ pc' = [pc EXCEPT ![o] = "stopWait"]
          /\ UNCHANGED <<woken, ret>>
  /\ UNCHANGED <<flags, handler, mode>>

StopWakes(o) ==
  /\ pc[o] = "stopWait" /\ o \in woken
  /\ IF m_bStopped
     THEN Return(o, "stopped")
     ELSE /\ woken' = woken \ {o}
          /\ UNCHANGED <<pc, ret>>
  /\ UNCHANGED <<flags, handler, mode>>

(* The time-out expires: the predicate is tested once more.                *)
StopExpires(o) ==
  /\ pc[o] = "stopWait" /\ mode[o] = "positive"
  /\ Return(o, IF m_bStopped THEN "stopped" ELSE "timedOut")
  /\ UNCHANGED <<flags, handler, mode>>

(* pthread_cond_wait may return with nobody having signalled.              *)
SpuriousWake(o) ==
  /\ o \in Blocked \ woken
  /\ woken' = woken \cup {o}
  /\ UNCHANGED <<flags, handler, pc, mode, ret>>

-----------------------------------------------------------------------------
OwnerStep(o) ==
  \/ CreateRefused(o) \/ CreateFails(o) \/ CreateWakes(o)
  \/ \E bWait \in Waits : CreateThread(o, bWait)
  \/ \E iWaitMs \in StopModes : StopThread(o, iWaitMs)
  \/ StopLocks(o) \/ StopWakes(o) \/ StopExpires(o) \/ SpuriousWake(o)

HandlerStep(h) ==
  \/ HandlerStarts(h) \/ ProcessReturns(h) \/ ProcessSeesStop(h)
  \/ SleepStarts(h) \/ SleepEnds(h) \/ HandlerEnds(h)

Next ==
  \/ \E o \in Owners : OwnerStep(o)
  \/ \E h \in Handlers : HandlerStep(h)

(* A thread that can run is run: a handler starts, ends a sleep, leaves    *)
(* its loop once it is told to and ends; an owner that was woken gets the  *)
(* mutex.  Nothing makes an owner call, or Process() return by itself.     *)
Fairness ==
  /\ \A h \in Handlers :
       /\ WF_vars(HandlerStarts(h)) /\ WF_vars(SleepEnds(h))
       /\ WF_vars(ProcessSeesStop(h)) /\ WF_vars(HandlerEnds(h))
  /\ \A o \in Owners :
       WF_vars(CreateWakes(o)) /\ WF_vars(StopLocks(o)) /\ WF_vars(StopWakes(o))

Spec == Init /\ [][Next]_vars
FairSpec == Spec /\ Fairness

-----------------------------------------------------------------------------
Alive == {h \in Handlers : handler[h] # "none"}

TypeOK ==
  /\ m_bStop \in BOOLEAN /\ m_bRunning \in BOOLEAN /\ m_bStopped \in BOOLEAN
  /\ handler \in [Handlers -> {"none", "created", "process", "sleep", "ending"}]
  /\ pc \in [Owners -> {"idle", "createWait", "stopLock", "stopWait"}]
  /\ mode \in [Owners -> {"negative", "zero", "positive"}]
  /\ woken \subseteq Blocked
  /\ ret \in [Owners -> {"none", "refused", "failed", "created", "told",
                         "stopped", "timedOut"}]

(***************************************************************************)
(* No wake-up is lost: an owner that is blocked although what it waits for *)
(* is true (m_bRunning in CreateThread, m_bStopped in StopThread) has been *)
(* reached by the broadcast of ThreadHandler and will test it again.       *)
(***************************************************************************)
NoLostWakeups ==
  \A o \in Owners :
    /\ pc[o] = "createWait" /\ m_bRunning => o \in woken
    /\ pc[o] = "stopWait" /\ m_bStopped => o \in woken

(***************************************************************************)
(* At most one handler is alive, so Process() of one object never runs     *)
(* twice at a time.  It takes a single owner that always waits: a second   *)
(* CreateThread before the first handler has set m_bRunning starts another *)
(* handler.                                                                *)
(***************************************************************************)
AtMostOneHandler == \A g, h \in Alive : g = h

(***************************************************************************)
(* Once StopThread has returned TRUE after waiting, or without having to,  *)
(* no handler is left that could still touch the object: what every        *)
(* destructor that calls StopThread and then frees its members relies on.  *)
(***************************************************************************)
StopIsFinal == \A o \in Owners : ret[o] = "stopped" => Alive = {}

(* The handlers of one object take turns, and the last goes before it.     *)
HandlersInTurn == AtMostOneHandler /\ StopIsFinal

(***************************************************************************)
(* threads.h:108 says of StopThread's argument "negative = don't wait,     *)
(* 0 = infinite": StopThread(0) returns only when the thread has gone.     *)
(***************************************************************************)
ZeroWaitsForThread ==
  \A o \in Owners : ret[o] = "stopped" /\ mode[o] = "zero" => Alive = {}

(***************************************************************************)
(* Both calls of an owner come back.  StopThread does whatever the handler *)
(* was doing.  CreateThread does except in the one case the code leaves    *)
(* open: the handler ran to its end before the owner got m_threadMutex     *)
(* back, so that m_bRunning is FALSE again and nobody is left to set it.   *)
(***************************************************************************)
CallsReturn ==
  \A o \in Owners :
    /\ (pc[o] \in {"stopLock", "stopWait"}) ~> (pc[o] = "idle")
    /\ (pc[o] = "createWait") ~> (pc[o] = "idle" \/ Alive = {})

=============================================================================
