------------------------------- MODULE LiveTV --------------------------------
(***************************************************************************)
(* Live TV of the MythTV client: the chain of files in                     *)
(* lib/cmyth/libcmyth/livetv.c, read by XBMC's thread and lengthened by    *)
(* the event thread (addons/pvr.mythtv.cmyth/src/cppmyth).  The backend    *)
(* writes each programme to a file of its own.  Every call of a recorder   *)
(* holds the lock of the connection from its beginning to its end, a read  *)
(* that waits at the end of the chain as well.                             *)
(***************************************************************************)
EXTENDS Integers, Sequences, FiniteSetsExt, Sums

CONSTANTS
  MaxPrograms,  \* bound: programmes of all sessions
  MaxLength,    \* bound: bytes of a programme
  MaxSessions,  \* bound: live streams opened
  MaxMisses,    \* bound: file connections that fail, DONE_RECORDING ignored
  MaxSeeks

ASSUME LiveTVAssumption ==
  /\ MaxPrograms \in Nat /\ MaxLength \in Nat /\ MaxSessions \in Nat
  /\ MaxMisses \in Nat /\ MaxSeeks \in Nat

VARIABLES
  programs,  \* the backend's files: [length, finished]
  live,      \* the recorder records live TV; the last file is the current one
  events,    \* sent to the event connection, not handled yet
  session,   \* which stream it is: the chain id
  stage,     \* where XBMC's thread is
  chained,   \* rec_livetv_chain is not NULL
  chain,     \* the files of it: [program, known, req, pos], where known is
             \* file_length, req file_req and pos file_pos
  current,   \* chain_current
  watch,     \* livetv_watch is 1
  crashed,   \* a null pointer was used: the program is gone
  seeks, misses,
  mishap,    \* history: a break was not announced, or not the only one
  early      \* history: a file was left too early with no mishap before

backendVars == <<programs, live>>
chainVars == <<chained, chain, current, watch>>
liveTVVars == <<programs, live, events, session, stage, chained, chain,
                current, watch, crashed, seeks, misses, mishap, early>>

ChainFile == [program : 1..MaxPrograms, known : Nat, req : Nat, pos : Nat]
Kind == {"chain", "watch", "done"}

LiveTVTypeOK ==
  /\ programs \in Seq([length : 0..MaxLength, finished : BOOLEAN])
  /\ live \in BOOLEAN /\ chained \in BOOLEAN
  /\ watch \in BOOLEAN /\ crashed \in BOOLEAN /\ mishap \in BOOLEAN
  /\ events \in Seq([kind : Kind, session : 1..MaxSessions])
  /\ session \in 0..MaxSessions
  /\ stage \in {"closed", "assigned", "open", "waiting"}
  /\ chain \in Seq(ChainFile) /\ current \in 0..Len(chain)
  /\ seeks \in 0..MaxSeeks /\ misses \in 0..MaxMisses
  /\ early \in BOOLEAN

LiveTVInit ==
  /\ programs = <<>> /\ live = FALSE /\ events = <<>>
  /\ session = 0 /\ stage = "closed"
  /\ chained = FALSE /\ chain = <<>> /\ current = 0 /\ watch = FALSE
  /\ crashed = FALSE /\ seeks = 0 /\ misses = 0
  /\ mishap = FALSE /\ early = FALSE

Event(kind) == [kind |-> kind, session |-> session]
Unfinished == {p \in DOMAIN programs : ~programs[p].finished}

-----------------------------------------------------------------------------
(* The backend                                                             *)

ProgramGrows ==
  /\ live
  /\ \E p \in Unfinished :
       /\ programs[p].length < MaxLength
       /\ programs' = [programs EXCEPT ![p].length = @ + 1]
  /\ UNCHANGED <<live, events, session, stage, chainVars, crashed,
                 seeks, misses, mishap, early>>

\* The next programme begins while the file of the last one is still
\* written; LIVETV_WATCH may announce it.
ProgramBreak ==
  /\ live /\ Len(programs) < MaxPrograms
  /\ programs' = Append(programs, [length |-> 0, finished |-> FALSE])
  /\ \/ events' = events \o <<Event("watch"), Event("chain")>>
        /\ mishap' = (mishap \/ events # <<>> \/ Cardinality(Unfinished) > 1)
     \/ events' = Append(events, Event("chain")) /\ mishap' = TRUE
  /\ UNCHANGED <<live, session, stage, chainVars, crashed, seeks, misses, early>>

ProgramFinished ==
  /\ \E p \in Unfinished :
       /\ p # Len(programs) \/ ~live
       /\ programs' = [programs EXCEPT ![p].finished = TRUE]
  /\ events' = Append(events, Event("done"))
  /\ UNCHANGED <<live, session, stage, chainVars, crashed, seeks,
                 misses, mishap, early>>

-----------------------------------------------------------------------------
(* The event thread.  It waits for the lock while a read has it.           *)

\* Only the first file is looked at.
HasUrlFirst(p) == chain # <<>> /\ chain[1].program = p

HasUrl(p) == \E i \in DOMAIN chain : chain[i].program = p

NewFile(p) == [program |-> p, known |-> programs[p].length, req |-> 0, pos |-> 0]

\* The chain takes the file of the recorder's current programme, if it is
\* new; a connection that fails loses the file.
ChainUpdate ==
  LET p == Len(programs)
  IN  \/ HasUrl(p) /\ UNCHANGED <<chain, misses>>
      \/ ~HasUrl(p) /\ chain' = Append(chain, NewFile(p)) /\ UNCHANGED misses
      \/ ~HasUrl(p) /\ misses < MaxMisses /\ misses' = misses + 1
         /\ UNCHANGED chain

LiveTVChainUpdate(e) ==
  /\ e.kind = "chain"
  /\ \/ chained /\ watch /\ e.session = session /\ ChainUpdate
     \/ ~(chained /\ watch /\ e.session = session) /\ UNCHANGED <<chain, misses>>
  /\ UNCHANGED <<chained, current, watch, crashed>>

\* LIVETV_WATCH with a value that is not 1.
LiveTVWatch(e) ==
  /\ e.kind = "watch"
  /\ crashed' = ~chained
  /\ watch' = FALSE
  /\ UNCHANGED <<chained, chain, current, misses>>

\* The watch signal goes up and the chain is not updated.
DoneWithoutUpdate(e) ==
  /\ e.kind = "done"
  /\ crashed' = ~chained
  /\ watch' = TRUE
  /\ UNCHANGED <<chained, chain, current, misses>>

\* It is ignored while no break is under way, and when the recorder does
\* not answer that it is recording.
LiveTVDoneRecording(e) ==
  /\ e.kind = "done"
  /\ crashed' = ~chained
  /\ \/ chained /\ ~watch /\ live /\ watch' = TRUE /\ ChainUpdate
     \/ chained /\ ~watch /\ UNCHANGED <<watch, chain>>
        /\ misses < MaxMisses /\ misses' = misses + 1
     \/ (~chained \/ watch) /\ UNCHANGED <<watch, chain, misses>>
  /\ UNCHANGED <<chained, current>>

Handle ==
  /\ events # <<>> /\ stage # "waiting"
  /\ events' = Tail(events)
  /\ \/ stage = "closed" /\ UNCHANGED <<chainVars, crashed, misses>>
     \/ stage # "closed" /\ LET e == Head(events)
                            IN  LiveTVChainUpdate(e) \/ LiveTVWatch(e) \/ LiveTVDoneRecording(e)
  /\ UNCHANGED <<backendVars, session, stage, seeks, mishap, early>>

-----------------------------------------------------------------------------
(* XBMC's thread: opening and closing                                      *)

\* OpenLiveStream up to the spawn: the event thread has the recorder.
SetRecorder ==
  /\ stage = "closed" /\ session < MaxSessions
  /\ stage' = "assigned" /\ session' = session + 1
  /\ chained' = FALSE /\ chain' = <<>> /\ current' = 0 /\ watch' = FALSE
  /\ UNCHANGED <<backendVars, events, crashed, seeks, misses, mishap, early>>

\* cmyth_spawn_live_tv and chain_setup; SpawnLiveTV then waits some time for
\* the first chain update, without the lock.
SpawnLiveTV ==
  /\ stage = "assigned" /\ Len(programs) < MaxPrograms
  /\ live' = TRUE
  /\ programs' = Append(programs, [length |-> 0, finished |-> FALSE])
  /\ events' = Append(events, Event("chain"))
  /\ chained' = TRUE /\ watch' = TRUE
  /\ chain' = <<[program |-> Len(programs'), known |-> 0, req |-> 0, pos |-> 0]>>
  /\ current' = 1
  /\ mishap' = (mishap \/ Unfinished # {} \/ events # <<>>)
  /\ stage' = "open"
  /\ UNCHANGED <<session, crashed, seeks, misses, early>>

SpawnFails ==
  /\ stage = "assigned"
  /\ stage' = "closed"
  /\ UNCHANGED <<backendVars, events, session, chainVars, crashed,
                 seeks, misses, mishap, early>>

\* CloseLiveStream, and SwitchChannel before it opens again; the last stream
\* is left open.
CloseLiveStream ==
  /\ stage = "open" /\ session < MaxSessions
  /\ live' = FALSE /\ stage' = "closed"
  /\ UNCHANGED <<programs, events, session, chainVars, crashed,
                 seeks, misses, mishap, early>>

-----------------------------------------------------------------------------
(* Reading                                                                 *)

playerVars == <<backendVars, events, session, chained, watch, crashed,
                misses, mishap>>

Exhausted(i) ==
  /\ chain[i].pos = chain[i].req
  /\ chain[i].req >= programs[chain[i].program].length

\* The files a read leaves for the i-th, each at its end; the backend may not
\* have finished one.
Leaves(i) ==
  /\ \A j \in current..(i - 1) : Exhausted(j)
  /\ current' = i
  /\ early' = (early \/ (~mishap /\
       \E j \in current..(i - 1) : ~programs[chain[j].program].finished))

\* cmyth_livetv_chain_read: what is there of the block is requested, and
\* some of what was requested has come.
ReadData ==
  /\ stage = "open"
  /\ \E i \in current..Len(chain) :
       /\ ~Exhausted(i) /\ Leaves(i)
       /\ LET f == chain[i]
          IN  \E req \in f.req..programs[f.program].length :
                \E pos \in (f.pos + 1)..req :
                  chain' = [chain EXCEPT ![i] =
                    [f EXCEPT !.req = req, !.pos = pos, !.known = Max({f.known, pos})]]
  /\ UNCHANGED <<playerVars, stage, seeks>>

\* The end of the last file: no bytes after half a second or, in a break,
\* up to two for the watch signal.
ReadAtEnd ==
  /\ stage = "open"
  /\ Exhausted(Len(chain)) /\ Leaves(Len(chain))
  /\ stage' = IF watch THEN "open" ELSE "waiting"
  /\ UNCHANGED <<playerVars, chain, seeks>>

WaitEnds ==
  /\ stage = "waiting"
  /\ stage' = "open"
  /\ UNCHANGED <<playerVars, chain, current, seeks, early>>

-----------------------------------------------------------------------------
(* Seeking                                                                 *)

Whence == {"set", "cur", "end"}

\* The length of the files before the i-th, and of all.
ChainBefore(i) == SumTo([j \in DOMAIN chain |-> chain[j].known], i - 1)
ChainLength == ChainBefore(Len(chain) + 1)

\* Where a position o of the current file is, which may be outside of it.
Relative(o) ==
  LET from(i) == o + ChainBefore(current) - ChainBefore(i)
      files == IF o >= 0
               THEN {i \in current..Len(chain) : from(i) <= chain[i].known}
               ELSE {i \in 1..(current - 1) : from(i) >= 0}
      file == IF o >= 0 THEN Min(files) ELSE Max(files)
  IN  IF files = {} THEN {} ELSE {[file |-> file, offset |-> from(file), move |-> TRUE]}

\* Where a position of the chain is; at its end the beginning of the last
\* file is taken, and no file is switched to.
Absolute(o) ==
  LET files == {i \in DOMAIN chain : o < ChainBefore(i) + chain[i].known}
  IN  IF files = {}
      THEN {[file |-> Len(chain), offset |-> o - ChainLength, move |-> FALSE]}
      ELSE {[file |-> Min(files), offset |-> o - ChainBefore(Min(files)), move |-> TRUE]}

\* cmyth_livetv_chain_seek: where it goes, if anywhere.  SEEK_CUR counts from
\* what was requested, not from what was read.
SeekTarget(o, whence) ==
  LET toEnd == ChainLength - ChainBefore(current) - chain[current].req
      rel == IF whence = "end" THEN o + toEnd ELSE o
  IN  IF whence = "set" THEN Absolute(o)
      ELSE IF rel = 0 THEN {} ELSE Relative(rel + chain[current].req)

\* cmyth_file_seek_unlocked, which does nothing when the file is there.
Sought(f, o, whence) ==
  IF o = (IF whence = "set" THEN f.pos ELSE f.req) THEN f
  ELSE [f EXCEPT !.req = o, !.pos = o, !.known = Max({f.known, o})]

SeekLiveStream ==
  /\ stage = "open" /\ seeks < MaxSeeks /\ seeks' = seeks + 1
  /\ \E whence \in Whence : \E o \in (IF whence = "set" THEN 0 ELSE -ChainLength)..ChainLength :
       \E t \in SeekTarget(o, whence) :
         /\ chain' = [chain EXCEPT ![t.file] = Sought(@, t.offset, whence)]
         /\ current' = IF t.move THEN t.file ELSE current
  /\ UNCHANGED <<playerVars, stage, early>>

-----------------------------------------------------------------------------
LiveTVNext ==
  /\ ~crashed
  /\ \/ ProgramGrows \/ ProgramBreak \/ ProgramFinished
     \/ Handle
     \/ SetRecorder \/ SpawnLiveTV \/ SpawnFails \/ CloseLiveStream
     \/ ReadData \/ ReadAtEnd \/ WaitEnds
     \/ SeekLiveStream

(* A wait ends; the backend finishes the file of a programme that is over; *)
(* and the lock, which each read lets go, comes to the event thread.       *)
LiveTVFairness ==
  /\ WF_liveTVVars(~crashed /\ WaitEnds)
  /\ WF_liveTVVars(~crashed /\ ProgramFinished)
  /\ SF_liveTVVars(~crashed /\ Handle)

LiveTVSpec == LiveTVInit /\ [][LiveTVNext]_liveTVVars /\ LiveTVFairness

-----------------------------------------------------------------------------
(* Properties                                                              *)

Drained == \A i \in DOMAIN chain : chain[i].req = chain[i].pos

(* A seek goes where XBMC asks: the position in the chain that is asked    *)
(* for is the one the next read takes.  A seek by SEEK_CUR or SEEK_END     *)
(* does so only when no requested block is outstanding, and one by         *)
(* SEEK_SET only before the end of the chain.                              *)
SeekLands ==
  stage = "open" =>
    \A whence \in Whence, o \in -ChainLength..ChainLength :
      LET now == ChainBefore(current) + chain[current].pos
          want == IF whence = "set" THEN o ELSE IF whence = "cur" THEN now + o ELSE ChainLength + o
          legal == want \in 0..ChainLength /\ (IF whence = "set" THEN want < ChainLength ELSE Drained)
      IN  (legal /\ want # now) =>
            \E t \in SeekTarget(o, whence) :
              t.move /\ ChainBefore(t.file) + Sought(chain[t.file], t.offset, whence).pos = want

(* A file is left only when the backend has finished it, though an update  *)
(* of the chain may bring the next one while the last bytes of this one    *)
(* are still to come: the watch signal, which LIVETV_WATCH takes down and  *)
(* DONE_RECORDING puts up again, keeps the next file away until then.  It  *)
(* fails when a break is not announced, when two breaks are under way, and *)
(* when what is left from another stream reaches this one.                 *)
NoTailLost == ~early

(* The files of a chain are different programmes, in the order they were   *)
(* recorded: none is played twice, whatever updates come twice or late.    *)
ChainInOrder ==
  \A i, j \in DOMAIN chain : i < j => chain[i].program < chain[j].program

(* An event that names the recorder finds its chain.  It may find none     *)
(* between SetRecorder() and SpawnLiveTV(), and the null pointer is used:  *)
(* a DONE_RECORDING of the stream closed before is such an event.          *)
EventsFindChain == crashed => stage = "assigned"

(* The watch signal a read waits for at the end of the chain cannot come   *)
(* while it waits: the read holds the lock the event thread needs.         *)
WaitsInVain == [][stage = "waiting" => UNCHANGED <<watch, chain>>]_liveTVVars

(* The file of the current programme gets into the chain, after a break as *)
(* well, unless a connection failed or a DONE_RECORDING was ignored.       *)
Lagging == stage = "open" /\ live /\ ~HasUrl(Len(programs))
ChainCatchesUp == Lagging ~> (~Lagging \/ misses > 0 \/ crashed)

(* The chain is played file by file, each to its end, and a seek in it goes*)
(* where it should.                                                        *)
ChainPlayed ==
  /\ SeekLands
  /\ NoTailLost
  /\ ChainInOrder
  /\ EventsFindChain

(* The chain grows with the backend's, but not under a read that waits for *)
(* it.                                                                     *)
ChainFollows ==
  /\ WaitsInVain
  /\ ChainCatchesUp
==============================================================================
