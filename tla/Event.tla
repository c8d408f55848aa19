-------------------------------- MODULE Event --------------------------------
(***************************************************************************)
(* CEvent of lib/platform/threads/mutex.h.  Wait() holds m_mutex but while *)
(* it is blocked in the condition; Signal() and Broadcast() set the flag   *)
(* under m_mutex and wake the condition afterwards, without it.            *)
(***************************************************************************)
EXTENDS Naturals, FiniteSets

CONSTANTS
  Waiter,      \* threads that wait
  Signaller,   \* threads that signal and broadcast
  AutoReset,   \* m_bAutoReset
  MaxSets,     \* bound: calls of Signal() and Broadcast()
  MaxTimeouts  \* bound: Wait() that time out

ASSUME EventAssumption ==
  /\ IsFiniteSet(Waiter) /\ AutoReset \in BOOLEAN /\ MaxSets \in Nat /\ MaxTimeouts \in Nat

VARIABLES
  signaled,    \* m_bSignaled
  broadcast,   \* m_bBroadcast
  waiting,     \* m_iWaitingThreads
  blocked,     \* the threads blocked in Wait()
  awake,       \* those of them that were woken and test the flag next
  notifying,   \* what each signaller still has to wake
  owed,        \* history: the threads blocked when Broadcast() set the flag
  served,      \* history: a Wait() was answered since the flag was set last
  timeouts,    \* history: how many Wait() have timed out
  mixed,       \* history: Signal() set the flag with a broadcast under way
  sets

eventVars == <<signaled, broadcast, waiting, blocked, awake, notifying,
               owed, served, timeouts, mixed, sets>>

EventTypeOK ==
  /\ signaled \in BOOLEAN /\ broadcast \in BOOLEAN
  /\ waiting \in Nat
  /\ blocked \subseteq Waiter /\ awake \subseteq blocked /\ owed \subseteq blocked
  /\ notifying \in [Signaller -> {"nothing", "one", "all"}]
  /\ served \in BOOLEAN /\ mixed \in BOOLEAN
  /\ sets \in 0..MaxSets /\ timeouts \in 0..MaxTimeouts

EventInit ==
  /\ signaled = FALSE /\ broadcast = FALSE /\ waiting = 0
  /\ blocked = {} /\ awake = {} /\ owed = {}
  /\ notifying = [s \in Signaller |-> "nothing"]
  /\ served = FALSE /\ mixed = FALSE
  /\ sets = 0 /\ timeouts = 0

\* The flag is reset by whoever comes first.
AnsweredFirst(count) ==
  /\ signaled
  /\ waiting' = count - 1
  /\ signaled' = ~AutoReset
  /\ served' = TRUE
  /\ UNCHANGED timeouts

\* ResetAndReturn with the flag set.
Answered(count) ==
  /\ signaled
  /\ waiting' = count - 1
  /\ signaled' = ((count - 1 # 0 /\ broadcast) \/ ~AutoReset)
  /\ served' = TRUE
  /\ UNCHANGED timeouts

\* ResetAndReturn without: the waiter stays counted.
Refused(count) ==
  /\ ~signaled
  /\ waiting' = count
  /\ timeouts < MaxTimeouts /\ timeouts' = timeouts + 1
  /\ UNCHANGED <<signaled, served>>

Leave(w) ==
  /\ blocked' = blocked \ {w} /\ awake' = awake \ {w} /\ owed' = owed \ {w}

\* Wait(): the flag is set already, or the thread blocks.
Wait(w) ==
  /\ w \notin blocked
  /\ \/ Answered(waiting + 1) /\ UNCHANGED blocked
     \/ /\ ~signaled
        /\ waiting' = waiting + 1
        /\ blocked' = blocked \cup {w}
        /\ UNCHANGED <<signaled, served, timeouts>>
  /\ UNCHANGED <<broadcast, awake, notifying, owed, mixed, sets>>

\* A woken thread has m_mutex again.
Wakes(w) ==
  /\ w \in awake
  /\ \/ Answered(waiting) /\ Leave(w)
     \/ /\ ~signaled
        /\ awake' = awake \ {w}
        /\ UNCHANGED <<signaled, waiting, blocked, owed, served, timeouts>>
  /\ UNCHANGED <<broadcast, notifying, mixed, sets>>

\* The time of a Wait(iTimeout) is over.
Expires(w) ==
  /\ w \in blocked
  /\ Answered(waiting) \/ Refused(waiting)
  /\ Leave(w)
  /\ UNCHANGED <<broadcast, notifying, mixed, sets>>

SpuriousWake(w) ==
  /\ w \in blocked \ awake
  /\ awake' = awake \cup {w}
  /\ UNCHANGED <<signaled, broadcast, waiting, blocked, notifying, owed, served,
                 timeouts, mixed, sets>>

\* Set() of Signal() and of Broadcast().
Set(s, whom) ==
  /\ notifying[s] = "nothing"
  /\ sets < MaxSets /\ sets' = sets + 1
  /\ signaled' = TRUE
  /\ broadcast' = (whom = "all")
  /\ notifying' = [notifying EXCEPT ![s] = whom]
  /\ owed' = IF whom = "all" THEN blocked ELSE owed
  /\ mixed' = (mixed \/ (whom = "one" /\ owed # {}))
  /\ served' = FALSE
  /\ UNCHANGED <<waiting, blocked, awake, timeouts>>

\* m_condition.Signal() or m_condition.Broadcast().
Notifies(s) ==
  /\ notifying[s] # "nothing"
  /\ \/ notifying[s] = "all" /\ awake' = blocked
     \/ notifying[s] = "one" /\ \E w \in blocked \ awake : awake' = awake \cup {w}
     \/ notifying[s] = "one" /\ blocked \subseteq awake /\ UNCHANGED awake
  /\ notifying' = [notifying EXCEPT ![s] = "nothing"]
  /\ UNCHANGED <<signaled, broadcast, waiting, blocked, owed, served, timeouts, mixed, sets>>

EventNext ==
  \/ \E w \in Waiter : Wait(w) \/ Wakes(w) \/ Expires(w) \/ SpuriousWake(w)
  \/ \E s \in Signaller : Set(s, "one") \/ Set(s, "all") \/ Notifies(s)

EventSpec == EventInit /\ [][EventNext]_eventVars

-----------------------------------------------------------------------------
(* Properties                                                              *)

(* A signal is not lost: as long as the flag is set, a thread that blocks  *)
(* has been woken or is about to be, for Signal() at least one of them.    *)
NoLostSignal ==
  (signaled /\ blocked # {}) =>
    awake # {} \/ \E s \in Signaller : notifying[s] # "nothing"

(* Every thread blocked when Broadcast() is called is answered: the flag   *)
(* is not reset before, though each answer may reset it, unless a Signal() *)
(* comes in between, which takes the broadcast back.                       *)
BroadcastReachesAll ==
  owed # {} => signaled \/ mixed

(* A broadcast is spent when all who waited for it were answered: the next *)
(* Wait() blocks.  Not so once a Wait() has timed out: it stays counted,   *)
(* the count never comes to zero again, and the flag stays set.            *)
BroadcastIsSpent ==
  (AutoReset /\ served /\ blocked = {}) => ~signaled \/ timeouts > 0

(* What CEvent promises its waiters: to wake those it should, and no later *)
(* ones for the same signal.                                               *)
SignalsReach ==
  /\ NoLostSignal
  /\ BroadcastReachesAll
  /\ BroadcastIsSpent
==============================================================================
