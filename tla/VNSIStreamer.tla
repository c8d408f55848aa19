---------------------------- MODULE VNSIStreamer ----------------------------
(***************************************************************************)
(* One client of the VNSI server inside VDR and its cLiveStreamer          *)
(* (addons/pvr.vdr.vnsi/vdr-plugin-vnsiserver: vnsiclient.c, receiver.c).  *)
(* Three threads share the streamer without a lock: the client's, which    *)
(* makes and deletes it, VDR's section handler, which runs cLivePatFilter  *)
(* and replaces the demuxers when the programme changes, and the           *)
(* streamer's own, which demultiplexes and sends.                          *)
(*                                                                         *)
(* From VDR: Cancel(n) asks a thread to stop, waits n seconds for it and   *)
(* then cancels it; detaching a receiver calls its Activate(false),        *)
(* attaching it Activate(true); detaching a filter waits for its Process().*)
(***************************************************************************)
EXTENDS Naturals, FiniteSets

CONSTANTS
  Programme, \* what a PMT may announce: sets of streams, "video" among them or not
  MaxOpens,  \* bound: channels opened
  MaxTables  \* bound: PMT versions seen

ASSUME StreamerAssumption ==
  /\ \A p \in Programme : p # {} /\ IsFiniteSet(p)
  /\ MaxOpens \in Nat /\ MaxTables \in Nat

VARIABLES
  clientAt,    \* where the client's thread is
  isStreaming, \* m_isStreaming
  streamer,    \* m_Streamer points to one that streams
  audioOnly,   \* m_IsAudioOnly
  streams,     \* m_Streams: what its demuxers are for
  edition,     \* history: how often m_Streams was built
  rebuilt,     \* history: by the filter, since the channel was opened
  ready,       \* m_streamReady
  startup,     \* m_startup
  change,      \* m_requestStreamChange
  receiver,    \* m_Receiver is there, attached
  filterAt,    \* where cLivePatFilter::Process is, or "none"
  announced,   \* the PMT it works on
  isRunning,     \* Running() of the streamer's thread
  threadAt,    \* where that thread is
  told,        \* the edition the client was told last
  opens, tables,
  overlap      \* history: the filter was at work while the streamer was deleted

threadVars == <<startup, isRunning, threadAt, told>>
demuxerVars == <<audioOnly, streams, edition, rebuilt, ready>>
clientVars == <<clientAt, isStreaming, streamer, opens>>
filterVars == <<receiver, filterAt, announced, tables>>
streamerVars == <<clientVars, demuxerVars, change, filterVars, threadVars, overlap>>

Deleting == clientAt \in {"cancels", "detaches"}
Crashed == ~streamer /\ threadAt # "none"

StreamerTypeOK ==
  /\ clientAt \in {"reads", "opens", "cancels", "detaches", "ended"}
  /\ filterAt \in {"none", "idle", "detaches", "builds", "attaches", "requests"}
  /\ threadAt \in {"none", "starts", "loops", "tells", "told", "sends"}
  /\ told <= edition /\ opens <= MaxOpens /\ tables <= MaxTables

StreamerInit ==
  /\ clientAt = "reads" /\ isStreaming = FALSE /\ streamer = FALSE
  /\ audioOnly = FALSE /\ streams = {} /\ edition = 0 /\ rebuilt = FALSE /\ ready = FALSE
  /\ startup = TRUE /\ change = FALSE
  /\ receiver = FALSE /\ filterAt = "none" /\ announced = {}
  /\ isRunning = FALSE /\ threadAt = "none" /\ told = 0
  /\ opens = 0 /\ tables = 0 /\ overlap = FALSE

-----------------------------------------------------------------------------
(* The client's thread                                                     *)

\* processChannelStream_Open when nothing is streamed.  A radio channel has
\* no video demuxer to declare it ready and is ready at once.
StartChannelStreaming(known) ==
  /\ clientAt = "reads" /\ ~isStreaming
  /\ opens < MaxOpens /\ opens' = opens + 1
  /\ streamer' = TRUE /\ isStreaming' = TRUE
  /\ streams' = known /\ edition' = edition + 1 /\ rebuilt' = FALSE
  /\ audioOnly' = ("video" \notin known) /\ ready' = ("video" \notin known)
  /\ startup' = TRUE /\ change' = FALSE
  /\ filterAt' = "idle"
  /\ UNCHANGED <<clientAt, receiver, announced, tables, isRunning, threadAt, told, overlap>>

\* A request to close or to open another channel, or the end of the
\* connection: StopChannelStreaming, ~cLiveStreamer up to Detach(m_Receiver).
StopChannelStreaming ==
  /\ clientAt = "reads" /\ isStreaming
  /\ clientAt' = "cancels" /\ isStreaming' = FALSE
  /\ isRunning' = FALSE
  /\ overlap' = (overlap \/ filterAt # "idle")
  /\ UNCHANGED <<streamer, opens, demuxerVars, change, filterVars, startup, threadAt, told>>

\* Detach of the receiver, if there is one, has waited for the thread.
DetachReceiver ==
  /\ clientAt = "cancels" /\ (receiver => threadAt = "none")
  /\ clientAt' = "detaches"
  /\ receiver' = FALSE
  /\ UNCHANGED <<isStreaming, streamer, opens, demuxerVars, change, filterAt, announced, tables,
                 threadVars, overlap>>

\* Detach of the filter; the demuxers, the receiver and the streamer go.
DeleteStreamer ==
  /\ clientAt = "detaches" /\ filterAt = "idle"
  /\ clientAt' = "reads" /\ streamer' = FALSE
  /\ filterAt' = "none" /\ receiver' = FALSE
  /\ UNCHANGED <<isStreaming, opens, demuxerVars, change, announced, tables, threadVars, overlap>>

\* The connection is closed, and nothing streams any more.
ClientEnds ==
  /\ clientAt = "reads" /\ ~streamer
  /\ clientAt' = "ended"
  /\ UNCHANGED <<isStreaming, streamer, opens, demuxerVars, change, filterVars, threadVars, overlap>>

-----------------------------------------------------------------------------
(* cLivePatFilter::Process                                                 *)

\* A PMT with a stream that has no demuxer: all of them are replaced.  If
\* there is a receiver, it is detached and the thread told to stop.
NewStreams(p) ==
  /\ filterAt = "idle" /\ tables < MaxTables /\ tables' = tables + 1
  /\ ~(p \subseteq streams)
  /\ announced' = p
  /\ filterAt' = IF receiver THEN "detaches" ELSE "builds"
  /\ isRunning' = (isRunning /\ ~receiver)
  /\ overlap' = (overlap \/ Deleting)
  /\ UNCHANGED <<clientVars, demuxerVars, change, receiver, startup, threadAt, told>>

Detached ==
  /\ filterAt = "detaches" /\ threadAt = "none"
  /\ filterAt' = "builds" /\ receiver' = FALSE
  /\ UNCHANGED <<clientVars, demuxerVars, change, announced, tables, threadVars, overlap>>

Build ==
  /\ filterAt = "builds"
  /\ streams' = announced /\ edition' = edition + 1 /\ rebuilt' = TRUE
  /\ ready' = FALSE
  /\ filterAt' = "attaches"
  /\ UNCHANGED <<clientVars, audioOnly, change, receiver, announced, tables, threadVars, overlap>>

\* The new receiver is attached and starts the thread again.
Attach ==
  /\ filterAt = "attaches"
  /\ receiver' = TRUE /\ isRunning' = TRUE /\ threadAt' = "starts"
  /\ filterAt' = "requests"
  /\ UNCHANGED <<clientVars, demuxerVars, change, announced, tables, startup, told, overlap>>

RequestStreamChange ==
  /\ filterAt = "requests"
  /\ change' = TRUE
  /\ filterAt' = "idle"
  /\ UNCHANGED <<clientVars, demuxerVars, receiver, announced, tables, threadVars, overlap>>

\* A PMT of what is demultiplexed anyway: the first one attaches a receiver.
KnownStreams(p) ==
  /\ filterAt = "idle" /\ tables < MaxTables /\ tables' = tables + 1
  /\ p \subseteq streams /\ ~receiver
  /\ receiver' = TRUE /\ isRunning' = TRUE /\ threadAt' = "starts"
  /\ overlap' = (overlap \/ Deleting)
  /\ UNCHANGED <<clientVars, demuxerVars, change, filterAt, announced, startup, told>>

-----------------------------------------------------------------------------
(* cLiveStreamer::Action, a thread of its own                              *)

\* m_startup is left as it was.
ActionResumes ==
  /\ threadAt = "starts"
  /\ threadAt' = "loops"
  /\ UNCHANGED <<clientVars, demuxerVars, change, filterVars, startup, isRunning, told, overlap>>

ActionStarts ==
  /\ threadAt = "starts"
  /\ threadAt' = "loops"
  /\ startup' = TRUE
  /\ UNCHANGED <<clientVars, demuxerVars, change, filterVars, isRunning, told, overlap>>

\* The stop request is seen, or the receiver is attached no more.
ActionEnds ==
  /\ threadAt = "loops" /\ ~isRunning
  /\ threadAt' = "none"
  /\ UNCHANGED <<clientVars, demuxerVars, change, filterVars, startup, isRunning, told, overlap>>

\* Five seconds after Activate(false) the thread still waits for its socket.
ThreadCancelled ==
  /\ threadAt \in {"tells", "sends"} /\ ~isRunning
  /\ filterAt = "detaches" \/ (clientAt = "cancels" /\ receiver)
  /\ threadAt' = "none"
  /\ UNCHANGED <<clientVars, demuxerVars, change, filterVars, startup, isRunning, told, overlap>>

\* A video demuxer has found the size of the picture.
SetReady ==
  /\ threadAt = "loops" /\ "video" \in streams /\ ~ready
  /\ ready' = TRUE
  /\ UNCHANGED <<clientVars, audioOnly, streams, edition, rebuilt, change, filterVars,
                 threadVars, overlap>>

StartsUp ==
  /\ threadAt = "loops" /\ isRunning /\ startup /\ ready /\ streams # {}
  /\ change' = TRUE /\ startup' = FALSE
  /\ UNCHANGED <<clientVars, demuxerVars, filterVars, isRunning, threadAt, told, overlap>>

\* A demuxer has a packet: buffered at the start, else sent.
PacketComplete ==
  /\ threadAt = "loops" /\ isRunning /\ ~startup
  /\ threadAt' = IF change THEN "tells" ELSE "sends"
  /\ UNCHANGED <<clientVars, demuxerVars, change, filterVars, startup, isRunning, told, overlap>>

SendStreamChange ==
  /\ threadAt = "tells"
  /\ told' = edition
  /\ threadAt' = "told"
  /\ UNCHANGED <<clientVars, demuxerVars, change, filterVars, startup, isRunning, overlap>>

ChangeSent ==
  /\ threadAt = "told"
  /\ change' = FALSE
  /\ threadAt' = "sends"
  /\ UNCHANGED <<clientVars, demuxerVars, filterVars, startup, isRunning, told, overlap>>

SendStreamPacket ==
  /\ threadAt = "sends"
  /\ threadAt' = "loops"
  /\ UNCHANGED <<clientVars, demuxerVars, change, filterVars, startup, isRunning, told, overlap>>

-----------------------------------------------------------------------------
StreamerNext ==
  /\ ~Crashed
  /\ \/ \E p \in Programme : StartChannelStreaming(p) \/ NewStreams(p) \/ KnownStreams(p)
     \/ StopChannelStreaming \/ DetachReceiver \/ DeleteStreamer \/ ClientEnds
     \/ Detached \/ Build \/ Attach \/ RequestStreamChange
     \/ ActionStarts \/ ActionEnds \/ ThreadCancelled \/ SetReady \/ StartsUp
     \/ PacketComplete \/ SendStreamChange \/ ChangeSent \/ SendStreamPacket

StreamerSpec == StreamerInit /\ [][StreamerNext]_streamerVars

-----------------------------------------------------------------------------
(* Properties                                                              *)

(* A packet goes out under the number of a stream the client was told of:  *)
(* also when the demuxers are replaced, although the filter asks for the   *)
(* change to be sent only after it has started the thread, and while the   *)
(* streamer is deleted.                                                    *)
StreamsTold == threadAt = "sends" => told = edition

(* The demuxers are not replaced under the thread that uses them, not even *)
(* when the filter finds no receiver because the streamer is being         *)
(* deleted.                                                                *)
RebuiltInPeace == filterAt = "builds" => threadAt = "none"

(* A streamer is not deleted while its thread runs, unless a PMT came      *)
(* between the detaching of the receiver and of the filter: then the       *)
(* filter starts the thread again, and nobody stops it.                    *)
DeletedInPeace == Crashed => overlap

(* A radio channel whose PMT announces anything its channel entry lacks    *)
(* falls silent: the filter takes m_streamReady away, which only a video   *)
(* demuxer gives back, and no packet leaves the buffers again.             *)
RadioSilent ==
  audioOnly /\ rebuilt /\ "video" \notin streams => threadAt \notin {"tells", "told", "sends"}

(* A client is told of the streams before it gets their packets, and       *)
(* nothing is replaced or deleted under the thread that uses it.           *)
StreamsInPeace ==
  /\ StreamsTold
  /\ RebuiltInPeace
  /\ DeletedInPeace
  /\ RadioSilent
=============================================================================
