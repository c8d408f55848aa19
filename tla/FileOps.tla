------------------------------- MODULE FileOps ------------------------------
(***************************************************************************)
(* FileOps of the MythTV client (addons/pvr.mythtv.cmyth/src/fileOps.cpp): *)
(* a thread that copies icons, previews and artwork from the backend into  *)
(* a cache directory.  XBMC's threads ask for local names and queue jobs;  *)
(* the player's thread suspends the copying thread for as long as a stream *)
(* is open; the cache is emptied from time to time.  The thread itself is  *)
(* that of Thread.tla, taken here by what CreateThread, IsStopped and the  *)
(* timed wait of StopThread do.                                            *)
(***************************************************************************)
EXTENDS Integers, Sequences, SequencesExt

CONSTANTS
  Image,     \* remote names of channel icons and previews
  Artwork,   \* remote names in a storage group
  MaxQueue,  \* bound: jobs in the queue
  MaxCleans, \* bound: rounds of CleanCache
  MaxPlays   \* bound: streams opened

File == Image \cup Artwork
None == "none"

ASSUME FileAssumption ==
  /\ None \notin File /\ Image \cap Artwork = {}
  /\ MaxQueue \in Nat

VARIABLES
  queue,     \* m_jobQueue, the names of the files
  delayed,   \* jobQueueDelayed, the worker's own
  job,       \* the job the worker has
  worker,    \* where the thread is
  stop,      \* m_bStop
  event,     \* m_queueContent.m_bSignaled
  remote,    \* each file on the backend: absent, still empty, or ready
  cached,    \* the files in the cache directory
  known,     \* the names in m_icons and m_preview
  listed,    \* m_StorageGroupFileList, once it was read
  asking,    \* GetChannelIconPath or GetPreviewIconPath: [file, found]
  player,    \* the thread that opens and closes streams
  dropped,   \* history: files whose copy failed
  overtaken, \* history: files found in the cache just before it was emptied
  expired,   \* history: a Suspend gave up waiting
  cleans, plays

fileOpsVars == <<queue, delayed, job, worker, stop, event, remote, cached, known,
                 listed, asking, player, dropped, overtaken, expired, cleans, plays>>

jobVars == <<queue, delayed, job>>
diskVars == <<cached, known, listed>>
historyVars == <<dropped, overtaken, expired>>
boundVars == <<cleans, plays>>

FileOpsTypeOK ==
  /\ queue \in Seq(File) /\ Len(queue) <= MaxQueue /\ delayed \in Seq(File)
  /\ job \in File \cup {None}
  /\ worker \in {"none", "waits", "looks", "copies", "delays", "cleans"}
  /\ stop \in BOOLEAN /\ event \in BOOLEAN /\ expired \in BOOLEAN
  /\ remote \in [File -> {"absent", "empty", "ready"}]
  /\ cached \subseteq File /\ known \subseteq Image
  /\ listed \in [read : BOOLEAN, names : SUBSET Artwork]
  /\ asking \in [file : File \cup {None}, found : BOOLEAN]
  /\ player \in {"none", "idle", "stops", "playing", "gone"}
  /\ dropped \subseteq File /\ overtaken \subseteq Image

Room == Len(queue) + Len(delayed) + (IF job = None THEN 0 ELSE 1) < MaxQueue

NoRequest == [file |-> None, found |-> FALSE]

FileOpsInit ==
  /\ queue = <<>> /\ delayed = <<>> /\ job = None
  /\ worker = "none" /\ stop = FALSE /\ event = FALSE
  /\ remote = [f \in File |-> "absent"]
  /\ cached = {} /\ known = {} /\ listed = [read |-> FALSE, names |-> {}]
  /\ asking = NoRequest /\ player = "none"
  /\ dropped = {} /\ overtaken = {} /\ expired = FALSE
  /\ cleans = 0 /\ plays = 0

\* The constructor.
Construct ==
  /\ player = "none"
  /\ worker' = "waits" /\ player' = "idle"
  /\ UNCHANGED <<jobVars, stop, event, remote, diskVars, asking, historyVars, boundVars>>

-----------------------------------------------------------------------------
(* XBMC's threads ask for a local name                                     *)

AskForImage(f) ==
  /\ player \notin {"none", "gone"} /\ asking = NoRequest
  /\ f \notin known
  /\ asking' = [file |-> f, found |-> f \in cached]
  /\ UNCHANGED <<jobVars, worker, stop, event, remote, diskVars, player, historyVars, boundVars>>

\* The job under Lock(); the name of the file without.
QueueImage ==
  /\ asking.file # None /\ ~asking.found
  /\ Room
  /\ queue' = Append(queue, asking.file) /\ event' = TRUE
  /\ asking' = [file |-> asking.file, found |-> TRUE]
  /\ UNCHANGED <<delayed, job, worker, stop, remote, diskVars, player, historyVars, boundVars>>

RememberName ==
  /\ asking.file # None /\ asking.found
  /\ known' = known \cup {asking.file}
  /\ asking' = NoRequest
  /\ UNCHANGED <<jobVars, worker, stop, event, remote, cached, listed, player,
                 historyVars, boundVars>>

\* The list of the storage group is read once: now is always 0, so that it
\* never gets old.  A missing file is queued again at each call.
GetArtworkPath(f) ==
  /\ player \notin {"none", "gone"}
  /\ listed' = IF listed.read THEN listed
               ELSE [read |-> TRUE, names |-> {g \in Artwork : remote[g] # "absent"}]
  /\ IF f \in listed'.names \ cached
     THEN Room /\ queue' = Append(queue, f) /\ event' = TRUE
     ELSE UNCHANGED <<queue, event>>
  /\ UNCHANGED <<delayed, job, worker, stop, remote, cached, known, asking, player,
                 historyVars, boundVars>>

-----------------------------------------------------------------------------
(* Process                                                                 *)

\* m_queueContent was signalled, or 10 seconds are over.
WorkerWakes ==
  /\ worker = "waits"
  /\ worker' = "looks" /\ event' = FALSE
  /\ UNCHANGED <<jobVars, stop, remote, diskVars, asking, player, historyVars, boundVars>>

TakeJob ==
  /\ worker = "looks" /\ queue # <<>> /\ ~stop
  /\ job' = Head(queue) /\ queue' = Tail(queue)
  /\ worker' = "copies"
  /\ UNCHANGED <<delayed, stop, event, remote, diskVars, asking, player, historyVars, boundVars>>

\* The file is copied; a copy that fails is deleted and not tried again.
CopyFile ==
  /\ worker = "copies" /\ remote[job] = "ready"
  /\ \/ cached' = cached \cup {job} /\ UNCHANGED dropped
     \/ cached' = cached \ {job} /\ dropped' = dropped \cup {job}
  /\ job' = None /\ worker' = "looks"
  /\ UNCHANGED <<queue, delayed, stop, event, remote, known, listed, asking, player,
                 overtaken, expired, boundVars>>

DelayJob ==
  /\ worker = "copies" /\ remote[job] # "ready"
  /\ delayed' = Append(delayed, job)
  /\ job' = None /\ worker' = "looks"
  /\ UNCHANGED <<queue, stop, event, remote, diskVars, asking, player, historyVars, boundVars>>

NoMoreJobs ==
  /\ worker = "looks" /\ (queue = <<>> \/ stop)
  /\ worker' = "delays"
  /\ UNCHANGED <<jobVars, stop, event, remote, diskVars, asking, player, historyVars, boundVars>>

Requeue ==
  /\ worker = "delays"
  /\ queue' = queue \o delayed /\ delayed' = <<>>
  /\ worker' = "cleans"
  /\ UNCHANGED <<job, stop, event, remote, diskVars, asking, player, historyVars, boundVars>>

\* CleanCache that leaves the names in the maps.
EmptiedOnlyDisk ==
  /\ cached' = {} /\ UNCHANGED known
  /\ overtaken' = overtaken \cup
       (IF asking.found /\ asking.file \in cached THEN {asking.file} ELSE {})

\* CleanCache: the directories and the names; a name found in the cache just
\* before is still going to be remembered.
Emptied ==
  /\ cached' = {} /\ known' = {}
  /\ overtaken' = overtaken \cup
       (IF asking.found /\ asking.file \in cached THEN {asking.file} ELSE {})

EndOfRound ==
  /\ worker = "cleans"
  /\ \/ UNCHANGED <<cached, known, overtaken, cleans>>
     \/ cleans < MaxCleans /\ cleans' = cleans + 1 /\ Emptied
  /\ worker' = IF stop THEN "none" ELSE "waits"
  /\ UNCHANGED <<jobVars, stop, event, remote, listed, asking, player, dropped, expired, plays>>

-----------------------------------------------------------------------------
(* The player suspends and resumes                                         *)

Stopping ==
  /\ stop' = TRUE /\ event' = TRUE

SuspendStarts ==
  /\ player = "idle" /\ worker # "none"
  /\ plays < MaxPlays /\ plays' = plays + 1
  /\ Stopping
  /\ player' = "stops"
  /\ UNCHANGED <<jobVars, worker, remote, diskVars, asking, historyVars, cleans>>

\* StopThread() returns when the thread has ended, or after five seconds.
SuspendEnds ==
  /\ player = "stops"
  /\ expired' = (expired \/ worker # "none")
  /\ player' = "playing"
  /\ UNCHANGED <<jobVars, worker, stop, event, remote, diskVars, asking, dropped,
                 overtaken, boundVars>>

\* Resume that creates the thread only when there are jobs.
ResumeForJobs ==
  /\ player = "playing"
  /\ player' = "idle"
  /\ IF stop /\ worker = "none" /\ queue # <<>>
     THEN worker' = "waits" /\ stop' = FALSE ELSE UNCHANGED <<worker, stop>>
  /\ UNCHANGED <<jobVars, event, remote, diskVars, asking, historyVars, boundVars>>

\* Resume: CreateThread does nothing while the thread has not ended yet, and
\* m_bStop then stays as it is.
Resume ==
  /\ player = "playing"
  /\ player' = "idle"
  /\ IF stop /\ worker = "none"
     THEN worker' = "waits" /\ stop' = FALSE ELSE UNCHANGED <<worker, stop>>
  /\ UNCHANGED <<jobVars, event, remote, diskVars, asking, historyVars, boundVars>>

\* ~FileOps, up to its second StopThread.
DestroyStarts ==
  /\ player = "idle" /\ asking = NoRequest
  /\ Emptied /\ Stopping
  /\ player' = "gone"
  /\ UNCHANGED <<jobVars, worker, remote, listed, asking, dropped, expired, boundVars>>

RemoteChanges ==
  /\ player # "none"
  /\ \E f \in File :
       \/ remote[f] = "absent" /\ remote' = [remote EXCEPT ![f] = "empty"]
       \/ remote[f] = "empty" /\ remote' = [remote EXCEPT ![f] = "ready"]
  /\ UNCHANGED <<jobVars, worker, stop, event, diskVars, asking, player, historyVars, boundVars>>

FileOpsNext ==
  \/ Construct
  \/ \E f \in Image : AskForImage(f)
  \/ QueueImage \/ RememberName
  \/ \E f \in Artwork : GetArtworkPath(f)
  \/ WorkerWakes \/ TakeJob \/ CopyFile \/ DelayJob \/ NoMoreJobs \/ Requeue \/ EndOfRound
  \/ SuspendStarts \/ SuspendEnds \/ Resume \/ DestroyStarts
  \/ RemoteChanges

FileOpsSpec == FileOpsInit /\ [][FileOpsNext]_fileOpsVars

\* The thread runs, the player comes out of Suspend, and the backend makes
\* the files it is asked for; nobody has to close a stream.  SF: the queue is
\* not filled so fast that the inner loop never ends, which would leave the
\* delayed jobs where they are.
FileOpsFairness ==
  /\ WF_fileOpsVars(WorkerWakes) /\ WF_fileOpsVars(TakeJob)
  /\ WF_fileOpsVars(CopyFile) /\ WF_fileOpsVars(DelayJob)
  /\ SF_fileOpsVars(NoMoreJobs) /\ WF_fileOpsVars(Requeue)
  /\ WF_fileOpsVars(EndOfRound) /\ WF_fileOpsVars(SuspendEnds)
  /\ WF_fileOpsVars(RemoteChanges)

-----------------------------------------------------------------------------
(* Properties                                                              *)

Pending(f) == f = job \/ f \in Range(queue) \/ f \in Range(delayed)

(* A name that was given out and will not be asked for again is that of a  *)
(* file in the cache, or of one a job is on its way for: through the local *)
(* list of delayed jobs, through a stop and a new thread, and through the  *)
(* emptying of the cache.  The exceptions are a copy that failed, and a    *)
(* cache emptied between the test for the file and the remembering of its  *)
(* name: those images stay missing until the cache is emptied again.       *)
KnownIsCachedOrComing ==
  \A f \in known : f \in cached \/ Pending(f) \/ f \in dropped \/ f \in overtaken

(* While a stream is open no job uses the backend connection, unless the   *)
(* five seconds of a Suspend were not enough for the job under way.        *)
QuietWhilePlaying ==
  player = "playing" => worker # "copies" \/ expired

(* When no stream is open there is a thread again, sooner or later, and it *)
(* copies what is asked for: a job ends with the file in the cache, or     *)
(* with a copy that failed.  Not so after a Suspend that gave up: a Resume *)
(* before the thread has ended leaves no thread and nothing that would     *)
(* start one before another stream is closed.                              *)
JobsServed ==
  \A f \in File :
    (f \in Range(queue)) ~> (f \in cached \cup dropped \/ player # "idle" \/ expired)

(* The names XBMC was given lead to files, and filling the cache leaves a  *)
(* playback alone.                                                         *)
CacheKept ==
  /\ KnownIsCachedOrComing
  /\ QuietWhilePlaying
=============================================================================
