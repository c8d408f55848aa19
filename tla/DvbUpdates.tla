----------------------------- MODULE DvbUpdates -----------------------------
(***************************************************************************)
(* The update thread of the DVBViewer add-on (addons/pvr.dvbviewer/src/    *)
(* DvbData.cpp) and the two flags by which the API threads reach it:       *)
(* m_bUpdateTimers after a command to the server, m_bUpdateEPG after a     *)
(* change of channel.  The flags are plain booleans without a lock.  What  *)
(* the merge with the fetched list makes of m_timers is left to VuTimers:  *)
(* it is the same code.                                                    *)
(***************************************************************************)
EXTENDS Integers

CONSTANTS
  Caller,       \* API threads that add, change and delete timers
  DvbChannel,   \* channels one can switch to
  MaxCommands,  \* bound: commands sent
  MaxSwitches   \* bound: switches of channel

ASSUME DvbAssumption ==
  DvbChannel \subseteq Nat \ {0} /\ MaxCommands \in Nat /\ MaxSwitches \in Nat

VARIABLES
  timersServed,    \* how many commands the server has carried out
  timersKnown,     \* how many of them the last fetch has seen
  fetchFailed,     \* the last LoadTimers did: no timer is left
  m_bUpdateTimers,
  callerAt,        \* where each API thread is in its command
  commands,
  m_iCurrentChannel,
  m_bUpdateEPG,
  switchTo,        \* the channel a call is switching to, or 0
  switchAt, switches,
  updaterAt,       \* where Process() is in its loop, or "hung": RemoveNullChars
                   \* never returns, and m_mutex is held for good
  asked,           \* history: the channel whose EPG was asked for last
  tooLate          \* history: m_bUpdateEPG was set just before it was cleared

timerSide == <<timersServed, timersKnown, fetchFailed, m_bUpdateTimers, callerAt, commands>>
epgSide == <<m_iCurrentChannel, m_bUpdateEPG, switchTo, switchAt, switches, asked, tooLate>>
dvbVars == <<timerSide, epgSide, updaterAt>>

NoChannel == -1

DvbInit ==
  /\ timersServed = 0 /\ timersKnown = 0 /\ fetchFailed = FALSE /\ m_bUpdateTimers = FALSE
  /\ callerAt = [a \in Caller |-> "idle"] /\ commands = 0
  /\ m_iCurrentChannel = NoChannel /\ m_bUpdateEPG = FALSE
  /\ switchTo = 0 /\ switchAt = "idle" /\ switches = 0
  /\ updaterAt = "sleep" /\ asked = NoChannel /\ tooLate = FALSE

-----------------------------------------------------------------------------
(* AddTimer, UpdateTimer, DeleteTimer: the command, then the flag          *)

\* Whether the server carried it out is not asked.
SendsCommand(a, from, to) ==
  /\ callerAt[a] = from /\ callerAt' = [callerAt EXCEPT ![a] = to]
  /\ timersServed' \in {timersServed, timersServed + 1}
  /\ UNCHANGED <<timersKnown, fetchFailed, m_bUpdateTimers, epgSide, updaterAt>>

SetsFlag(a, from, to) ==
  /\ callerAt[a] = from /\ callerAt' = [callerAt EXCEPT ![a] = to]
  /\ m_bUpdateTimers' = TRUE
  /\ UNCHANGED <<timersServed, timersKnown, fetchFailed, epgSide, updaterAt>>

Counted == commands < MaxCommands /\ commands' = commands + 1

Command(a) ==
  \/ SendsCommand(a, "idle", "second") /\ Counted
  \/ SetsFlag(a, "second", "idle") /\ UNCHANGED commands

-----------------------------------------------------------------------------
(* OpenLiveStream, GetLiveStreamURL, CloseLiveStream                       *)

BeginSwitch(ch) ==
  /\ switchAt = "idle" /\ switches < MaxSwitches
  /\ switchTo' = ch /\ switchAt' = "first" /\ switches' = switches + 1
  /\ UNCHANGED <<timerSide, m_iCurrentChannel, m_bUpdateEPG, asked, tooLate, updaterAt>>

\* The same channel again is no switch for OpenLiveStream.
OpenLiveStream(ch) == ch # m_iCurrentChannel /\ BeginSwitch(ch)
GetLiveStreamURL(ch) == BeginSwitch(ch)

SetsChannel(from, to) ==
  /\ switchAt = from /\ switchAt' = to
  /\ m_iCurrentChannel' = switchTo
  /\ UNCHANGED <<timerSide, m_bUpdateEPG, switchTo, switches, asked, tooLate, updaterAt>>

SetsEpgFlag(from, to) ==
  /\ switchAt = from /\ switchAt' = to
  /\ m_bUpdateEPG' = TRUE
  /\ tooLate' = (updaterAt = "clearEpg")
  /\ UNCHANGED <<timerSide, m_iCurrentChannel, switchTo, switches, asked, updaterAt>>

SwitchChannel == SetsChannel("first", "second") \/ SetsEpgFlag("second", "idle")

CloseLiveStream ==
  /\ switchAt = "idle" /\ m_iCurrentChannel # NoChannel
  /\ m_iCurrentChannel' = NoChannel
  /\ UNCHANGED <<timerSide, m_bUpdateEPG, switchTo, switchAt, switches, asked, tooLate, updaterAt>>

-----------------------------------------------------------------------------
(* Process()                                                               *)

Moves(from, to) == updaterAt = from /\ updaterAt' = to

LooksAtEpg ==
  /\ Moves("sleep", IF m_bUpdateEPG THEN "askEpg" ELSE "timers")
  /\ UNCHANGED <<timerSide, epgSide>>

\* After a sleep of eight seconds.
AsksForEpg ==
  /\ Moves("askEpg", "clearEpg")
  /\ asked' = m_iCurrentChannel
  /\ UNCHANGED <<timerSide, m_iCurrentChannel, m_bUpdateEPG, switchTo, switchAt, switches, tooLate>>

ClearsEpg ==
  /\ Moves("clearEpg", "timers")
  /\ m_bUpdateEPG' = FALSE
  /\ UNCHANGED <<timerSide, m_iCurrentChannel, switchTo, switchAt, switches, asked, tooLate>>

\* Every minute, and when the flag is set.
LooksAtTimers ==
  /\ \/ Moves("timers", "first")
     \/ ~m_bUpdateTimers /\ Moves("timers", "sleep")
  /\ UNCHANGED <<timerSide, epgSide>>

ClearsTimers(from, to) ==
  /\ Moves(from, to)
  /\ m_bUpdateTimers' = FALSE
  /\ UNCHANGED <<timersServed, timersKnown, fetchFailed, callerAt, commands, epgSide>>

\* A list that does not come is the empty string, whose last place, size() - 1,
\* RemoveNullChars never reaches.
ListMissing(from) == Moves(from, "hung") /\ UNCHANGED <<timersKnown, fetchFailed>>

\* TimerUpdates: a list that does not come in one piece leaves no timer.
UpdatesTimers(from, to) ==
  /\ \/ Moves(from, to) /\ timersKnown' = timersServed /\ fetchFailed' = FALSE
     \/ Moves(from, to) /\ timersKnown' = 0 /\ fetchFailed' = TRUE
     \/ ListMissing(from)
  /\ UNCHANGED <<timersServed, m_bUpdateTimers, callerAt, commands, epgSide>>

FetchThenClear == UpdatesTimers("first", "second") \/ ClearsTimers("second", "sleep")

PerformUpdates == ClearsTimers("first", "second") \/ UpdatesTimers("second", "sleep")

Loop == LooksAtEpg \/ AsksForEpg \/ ClearsEpg \/ LooksAtTimers \/ PerformUpdates

-----------------------------------------------------------------------------
DvbNext ==
  \/ \E a \in Caller : Command(a)
  \/ \E ch \in DvbChannel : OpenLiveStream(ch) \/ GetLiveStreamURL(ch)
  \/ SwitchChannel \/ CloseLiveStream \/ Loop

DvbSpec == DvbInit /\ [][DvbNext]_dvbVars

\* The thread sleeps for seconds at most.
DvbFairSpec == DvbSpec /\ WF_dvbVars(Loop)

-----------------------------------------------------------------------------
(* Properties                                                              *)

(* A command the server has carried out was seen, or will be: its          *)
(* thread has still to set the flag, the flag is set, or the list is being *)
(* fetched after the flag was cleared.  A list that comes in part loses    *)
(* it, and all other timers, until the next minute; one that does not come *)
(* at all hangs the thread, and it is never seen.                          *)
ChangeReachesTimers ==
  \/ timersKnown = timersServed \/ m_bUpdateTimers \/ fetchFailed \/ updaterAt = "hung"
  \/ updaterAt = "second" \/ \E a \in Caller : callerAt[a] = "second"

(* The EPG of the channel one watches is asked for after the switch to it, *)
(* unless the flag was set after the thread had asked for the channel      *)
(* before and before it cleared the flag: then the switch goes unnoticed.  *)
EpgAskedFor ==
  switchAt = "idle" /\ m_iCurrentChannel # NoChannel =>
    asked = m_iCurrentChannel \/ m_bUpdateEPG \/ tooLate

(* No flag that asks for an update is cleared without it, but in the cases *)
(* named.                                                                  *)
UpdatesFollow ==
  /\ ChangeReachesTimers
  /\ EpgAskedFor

(* What the change log of the add-on says of version 0.1.5: always grab    *)
(* the EPG data after a channel switch.  To the running thread that is a   *)
(* promise that a flag that is set gets served.  Not so once a list of     *)
(* timers did not come.                                                    *)
EpgFlagServed == m_bUpdateEPG ~> ~m_bUpdateEPG
=============================================================================
