------------------------------ MODULE VuTimers ------------------------------
(***************************************************************************)
(* The timer list of the Vu+ client (addons/pvr.vuplus/src/VuData.cpp).    *)
(* The box keeps the timers; m_timers mirrors them for XBMC, which names a *)
(* timer by the client index the mirror gave it.  TimerUpdates() fetches   *)
(* the box's list and merges it: the update thread calls it with m_mutex   *)
(* held, AddTimer, UpdateTimer and DeleteTimer without, so that a list may *)
(* be merged after one that was fetched later.  A merge is taken as one    *)
(* step, which the code does not ensure when two threads merge at once.    *)
(***************************************************************************)
EXTENDS Integers, Sequences, FiniteSets, SequencesExt, Filter

CONSTANTS
  Key,        \* what like() compares: times, channel, weekdays, event
  MaxChanges, \* bound: changes of the box's list
  MaxFailures \* bound: fetches that fail

Text == 0..1            \* title and plot
State == 0..1           \* scheduled, recording
Thread == {"update", "xbmc"}
BoxTimer == [key : Key, text : Text, state : State]

VARIABLES
  box,        \* the list of the box, in its order
  timers,     \* m_timers
  counter,    \* m_iClientIndexCounter
  fetched,    \* newtimer of each thread inside TimerUpdates()
  step,       \* where each thread is
  shown,      \* the timers XBMC knows, from its last GetTimers()
  merged,     \* history: the list merged last
  changes, failures,
  thrown      \* m_timers.at() threw: the program is gone

vuTimerVars ==
  <<box, timers, counter, fetched, step, shown, merged, changes, failures, thrown>>

Distinct(list) == \A i, j \in DOMAIN list : list[i].key = list[j].key => i = j
Keys(list) == {list[i].key : i \in DOMAIN list}
Entry(k, text) == [key |-> k, text |-> text, state |-> 0]

VuTimersTypeOK ==
  /\ box \in Seq(BoxTimer) /\ Distinct(box)
  /\ \A i \in DOMAIN timers :
       timers[i] \in [key : Key, text : Text, state : State, index : 1..(counter - 1)]
  /\ \A t \in Thread : fetched[t] \in Seq(BoxTimer)
  /\ step \in [Thread -> {"none", "idle", "fetch", "merge"}]
  /\ shown \subseteq [index : 1..(counter - 1), key : Key]
  /\ changes \in 0..MaxChanges /\ failures \in 0..MaxFailures
  /\ thrown \in BOOLEAN

VuTimersInit ==
  /\ box = <<>> /\ timers = <<>> /\ counter = 1
  /\ fetched = [t \in Thread |-> <<>>]
  /\ step = [t \in Thread |-> "none"]
  /\ shown = {} /\ merged = <<>>
  /\ changes = 0 /\ failures = 0 /\ thrown = FALSE

-----------------------------------------------------------------------------
(* TimerUpdates                                                            *)

\* The entry of list that is like t.
Like(list, t) == {i \in DOMAIN list : list[i].key = t.key}

\* A timer once taken over is never looked at again.
NotRefreshed(mine, list) == mine

\* Every timer the list still has takes over its title and plot, but not its
\* state: an entry that differs in the state alone is updated, for ever.
Refreshed(mine, list) ==
  [i \in DOMAIN mine |->
     IF Like(list, mine[i]) = {} THEN mine[i]
     ELSE [mine[i] EXCEPT !.text = list[CHOOSE j \in Like(list, mine[i]) : TRUE].text]]

\* The timers the list no longer has are erased; the loop starts again after
\* each, but at the second place: i = 0 is followed by i++.  What comes to the
\* first place, when the timer there is erased, is never tested.
Swept(mine, list) ==
  LET kept == {t \in Range(mine) : t.key \in Keys(list)}
  IN  IF mine = <<>> \/ Head(mine) \in kept THEN Only(mine, kept)
      ELSE IF Len(mine) = 1 THEN <<>>
      ELSE <<mine[2]>> \o Only(Tail(Tail(mine)), kept)

NewTimers(mine, list) == Only(list, {t \in Range(list) : t.key \notin Keys(mine)})

\* Numbering that starts again behind the timers there are.
NumberedBySize(list, from) ==
  [i \in DOMAIN list |->
     [key |-> list[i].key, text |-> list[i].text, state |-> list[i].state,
      index |-> Len(timers) + i]]

Numbered(list, from) ==
  [i \in DOMAIN list |->
     [key |-> list[i].key, text |-> list[i].text, state |-> list[i].state,
      index |-> from + i - 1]]

TimerUpdates(mine, list) ==
  Swept(Refreshed(mine, list), list) \o Numbered(NewTimers(mine, list), counter)

MergeList(list) ==
  /\ timers' = TimerUpdates(timers, list)
  /\ counter' = counter + Len(NewTimers(timers, list))
  /\ merged' = list

\* LoadTimers gives an empty list when the request fails.
Fetch(t) ==
  /\ ~thrown /\ step[t] = "fetch"
  /\ \/ fetched' = [fetched EXCEPT ![t] = box] /\ UNCHANGED failures
     \/ /\ failures < MaxFailures /\ failures' = failures + 1
        /\ fetched' = [fetched EXCEPT ![t] = <<>>]
  /\ step' = [step EXCEPT ![t] = "merge"]
  /\ UNCHANGED <<box, timers, counter, shown, merged, changes, thrown>>

Merge(t) ==
  /\ ~thrown /\ step[t] = "merge"
  /\ MergeList(fetched[t])
  /\ fetched' = [fetched EXCEPT ![t] = <<>>]
  /\ step' = [step EXCEPT ![t] = "idle"]
  /\ UNCHANGED <<box, shown, changes, failures, thrown>>

-----------------------------------------------------------------------------
(* The callers                                                             *)

\* Open() merges the first list and creates the update thread.
Open ==
  /\ step["update"] = "none"
  /\ \E list \in {box, <<>>} : MergeList(list)
  /\ step' = [t \in Thread |-> "idle"]
  /\ UNCHANGED <<box, fetched, shown, changes, failures, thrown>>

\* Process(): every g_iUpdateInterval minutes.
UpdateDue ==
  /\ ~thrown /\ step["update"] = "idle"
  /\ step' = [step EXCEPT !["update"] = "fetch"]
  /\ UNCHANGED <<box, timers, counter, fetched, shown, merged, changes, failures, thrown>>

\* GetTimers(), some time after TriggerTimerUpdate().
GetTimers ==
  /\ ~thrown /\ step["update"] # "none"
  /\ shown' = {[index |-> t.index, key |-> t.key] : t \in Range(timers)}
  /\ UNCHANGED <<box, timers, counter, fetched, step, merged, changes, failures, thrown>>

Change(list) ==
  /\ changes < MaxChanges /\ changes' = changes + 1
  /\ box' = list

Without(list, k) == Only(list, {e \in Range(list) : e.key # k})

\* The command is refused, and nothing else happens, or carried out.
AddTimer ==
  /\ ~thrown /\ step["xbmc"] = "idle"
  /\ \E k \in Key \ Keys(box) : Change(Append(box, Entry(k, 0)))
  /\ step' = [step EXCEPT !["xbmc"] = "fetch"]
  /\ UNCHANGED <<timers, counter, fetched, shown, merged, failures, thrown>>

DeleteTimer ==
  /\ ~thrown /\ step["xbmc"] = "idle"
  /\ \E s \in shown : s.key \in Keys(box) /\ Change(Without(box, s.key))
  /\ step' = [step EXCEPT !["xbmc"] = "fetch"]
  /\ UNCHANGED <<timers, counter, fetched, shown, merged, failures, thrown>>

\* The timer XBMC names is looked up by its index to tell the box which one
\* to change; m_timers.at() throws when an update has removed it.
UpdateTimer ==
  /\ ~thrown /\ step["xbmc"] = "idle"
  /\ \E s \in shown :
       LET named == {t \in Range(timers) : t.index = s.index}
       IN  \/ /\ named = {}
              /\ thrown' = TRUE
              /\ UNCHANGED <<box, changes, step>>
           \/ /\ \E t \in named, k \in (Key \ Keys(box)) \cup {s.key} :
                   /\ t.key \in Keys(box)
                   /\ Change(Append(Without(box, t.key), Entry(k, 1)))
              /\ step' = [step EXCEPT !["xbmc"] = "fetch"]
              /\ UNCHANGED thrown
  /\ UNCHANGED <<timers, counter, fetched, shown, merged, failures>>

\* Somebody else changes the list, or a recording starts or ends.
BoxChanges ==
  /\ \/ \E k \in Key \ Keys(box) : Change(Append(box, Entry(k, 0)))
     \/ \E k \in Keys(box) : Change(Without(box, k))
     \/ \E i \in DOMAIN box : Change([box EXCEPT ![i].state = 1 - @])
  /\ UNCHANGED <<timers, counter, fetched, step, shown, merged, failures, thrown>>

VuTimersNext ==
  \/ \E t \in Thread : Fetch(t) \/ Merge(t)
  \/ Open \/ UpdateDue \/ GetTimers
  \/ AddTimer \/ DeleteTimer \/ UpdateTimer
  \/ BoxChanges

VuTimersSpec == VuTimersInit /\ [][VuTimersNext]_vuTimerVars

\* The update thread runs, and a thread inside TimerUpdates() comes out.
VuTimersFairness ==
  /\ WF_vuTimerVars(UpdateDue)
  /\ \A t \in Thread : WF_vuTimerVars(Fetch(t)) /\ WF_vuTimerVars(Merge(t))

-----------------------------------------------------------------------------
(* Properties                                                              *)

(* After an update the mirror has each timer of the list merged, once and  *)
(* with its title; and of the timers the list does not have, at most one,  *)
(* at the first place: the one the loop that starts again never tests.     *)
MirrorOfMerged ==
  /\ \A e \in Range(merged) :
       Cardinality({i \in DOMAIN timers : timers[i].key = e.key /\ timers[i].text = e.text}) = 1
  /\ \A i \in DOMAIN timers : timers[i].key \in Keys(merged) \/ i = 1

(* A client index XBMC still has from an earlier list names the timer its  *)
(* user saw or none at all, whatever the order in which the threads' lists *)
(* were merged since: no other timer is changed in its place.              *)
IndexNamesOneTimer ==
  \A s \in shown, t \in Range(timers) : s.index = t.index => s.key = t.key

(* When the box's list changes no more, an open client comes to have just  *)
(* the timers of the box, with their titles: a late merge of an older list *)
(* and a timer that was skipped are put right by a later update.           *)
Mirrors ==
  /\ Keys(timers) = Keys(box)
  /\ \A e \in Range(box) : \E t \in Range(timers) : t.key = e.key /\ t.text = e.text

MirrorConverges == <>[](step["update"] = "none" \/ thrown \/ Mirrors)

(* What XBMC knows of the timers names what it showed.                     *)
TimersTold ==
  /\ MirrorOfMerged
  /\ IndexNamesOneTimer
=============================================================================
