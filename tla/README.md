# TLA+ for the XBMC PVR add-ons

The repository holds the PVR add-ons of XBMC: each is a client of one television
back-end, loaded into XBMC, called by several of its threads, and most run a thread of
their own that listens to the back-end. Their difficulty lies there: calls that wait for
answers another thread reads, connections that break and are restored, threads that are
stopped while they are busy. This directory models that part in TLA+, checks it with TLC
on small instances and proves what matters most with TLAPS for all of them.

Paths below are relative to `src/`. `PROJECT.json` maps every definition to the lines it
stands for and lists the components, runs, hazards and theorems.

    tlc -workers 2 -config MCHTSPData.cfg MCHTSPData.tla    # a run
    tlapm HTSPDataProofs.tla                                # the proofs of a module

## The system

| component | state | operations | hard parts | what makes it correct |
|---|---|---|---|---|
| platform library, `lib/platform`: `CThread`, `CCondition`, `CEvent`, `CMutex`, sockets, buffers | stop and running flags of a thread; signalled flag and number of waiters of an event | `CreateThread`, `StopThread`, `Sleep`; `Wait`, `Signal`, `Broadcast` | wake-ups between a test and a wait, spurious ones, time-outs, re-use of a thread object | no wake-up is lost, one handler per object, a stopped thread is gone |
| `CHTSPConnection`, `addons/pvr.hts` (tvheadend) | socket, `m_bIsConnected`, queue of messages set aside | `Connect` (greeting, authentication), `ReadMessage`, `ReadResult`, `TransmitMessage`, `Close` | replies among pushed updates, full queue, time-outs that look like messages, failure in the middle of the handshake, close by another thread | messages come out in order and once; a usable connection has been greeted and authenticated; `ReadResult` returns |
| `CHTSPData` | table of requests by sequence number; channels, tags, recordings; life cycle flags | API calls (`ReadResult`), `Process()`, `Open`, `Close`, destructor | late replies, an event deleted while it is signalled, unlocked insertion, reconnection, destruction under a running thread | a call gets its own reply or a time-out; no deadlock in `Open`; reconnection; the session outlives the thread |
| `CHTSPDemux` | current subscription, streams | `Open`, `Read`, `SwitchChannel`, `Abort` | half-failed switch, packets of the old subscription | a packet belongs to the current subscription and stream table |
| VNSI client, `addons/pvr.vdr.vnsi/src` | table of requests by serial number, a socket, the position in a recording, the streams of live TV | requests, `Process()`, reconnection; open, read, seek; open, switch, `Read`, `Abort` | requests made from inside `Process()`, an unlocked counter, a node erased without the lock; messages of two channels around an answer | a call gets its own reply; nothing is left in the table; the bytes are those at the position; a packet is of the channel and the stream it is played as |
| VNSI server, `vdr-plugin-vnsiserver` | clients, one streamer each with receiver, filter, demuxers and thread; a player of recordings | start and stop of a stream, a new PMT, blocks of a recording | three threads and no lock; a recording that grows while it is read | nothing is replaced or deleted under the thread that uses it; the client knows the streams |
| MythTV client, `addons/pvr.mythtv.cmyth`, with `lib/cmyth` | file cache with its job queue; the chain of files of live TV; the list of recordings, the playback mode | queue, copy, delay, `Suspend`, `Resume`, clean; spawn, read, seek, chain and watch events; list events and fetches | stopping a thread that waits; a programme that ends under a reader; events late or held back | names lead to files; each programme is played to its end and once; the list is up to date |
| NextPVR, `addons/pvr.nextpvr` | ring buffer, one streaming socket | open, read, seek, position; requests of other threads | wrap-around and the full buffer, a stream that ends in a read, offsets that do not fit their format | no byte is lost or doubled; calls end |
| Vu+, `addons/pvr.vuplus` | timers as a mirror of the box's, channels and groups with a file, positions in recordings | update thread, API calls, store and load | lists merged in another order than fetched; requests that fail half-way; a start without the box; XBMC killed while a file is written | the mirror converges; ids are places; positions are kept |
| DVBViewer, `addons/pvr.dvbviewer` | timers and update flags | update thread, commands, switches | a flag cleared after it was set again; a list that does not come | each request for an update is followed by one |
| MediaPortal, `addons/pvr.mediaportal.tvserver`, with `lib/tsreader` | current channel, time-shift, reader; the index of buffer files | open, switch, close; refresh, read, seek, zap | a server that goes away, or carries out what it does not answer; files added and removed while the index is read | client and server agree on what is played; the stream is read in order |
| ForTheRecord (Argus), `addons/pvr.fortherecord.argus` | the server's live stream in hand, the reader, the keep-alive thread | open, switch, close; keep alive | a thread that is stopped and started with the stream, a request that takes longer than `StopThread` waits, a stream without a file name, an object without a lock | a stream that is watched is kept alive; none is forgotten; the object is cleared with nobody reading it |
| DVBLink, Njoy, demo | lists | one request at a time | few: blocking calls in order | - |

The add-ons share `lib/platform` and nothing else. Inside one add-on XBMC's threads call
the API functions of `client.cpp`; these use the object that owns the connection, whose
background thread derives from `CThread`; the thread calls back into XBMC (`PVR->Trigger...`)
and wakes API threads through events and conditions. A back-end is at the other end of a
TCP session.

The vendored libraries (TinyXML, jsoncpp, xmlParser, libhts' message format,
libdvblinkremote) and the API headers under `xbmc/` are left alone.

## What is modelled

**`Thread`** is `CThread` of `lib/platform/threads/threads.h`. The sections run under
`m_threadMutex` are the actions; between two of them the mutex is free. `m_bStop`,
`m_bRunning` and `m_bStopped` are the members; `handler` says what each thread given out by
`pthread_create` does (a slot is used again when the thread is gone); `pc`, `mode` and `ret`
describe the owners' calls; `woken` holds the blocked owners that have been woken and will
test their predicate again. A broadcast reaches those who are blocked at that moment.
Anyone may be woken without cause, and a wait with a time-out may end whenever its
predicate does not hold. `CCondition` is modelled inside it. What `Process()` does is left
open: it sleeps, returns by itself, or sees the stop request.

**`Session`** is what a user of `CHTSPConnection` relies on, stated without sockets and
queues: the server's messages come out in order and none twice; a reply somebody waits for
may be taken out of turn; only a break loses messages, and it loses the latest.

**`HTSPConnection`** is `HTSPConnection.cpp`. `m_mutex` is held for a whole socket
operation, so `Write` and `ReadSocket` are steps; it is not held between the `IsConnected`
test and the write, nor across `ReadResult`. The thread that reads (`pc`, `call`, `res`, the
local `queue`) runs `Connect`, with greeting and authentication, requests of its own and
`ReadMessage`; other threads only transmit. A socket reads a message, times out, breaks in
the middle of one, or finds its peer gone; the server closes the connection or resets it,
which loses what was not read; the first write to a peer that has gone still succeeds, as
TCP has it. `greeted` is the connection whose greeting and, with a user name, authentication
(`Auth`) came to an end that lets `Connect` go on. Messages carry an id, a sequence number and a kind; wording,
challenge and digest are left out. `KeepsPromise` says that all this implements `Session`
under the mapping: the inbox is the queues without the empty maps, then the socket.

**`HTSPData`** is the control part of `HTSPData.cpp`, with the creation and destruction
in `client.cpp`, on top of `Session` (`S == INSTANCE Session`, its actions used as the
session's). Each API thread runs `ReadResult`: number, unlocked insertion, transmission,
wait, clean-up under the lock. `Process()` is its loop (`ppc`): leave, reconnect, read,
dispatch a reply or apply an update, and its last section. The owner (`opc`) opens,
waits and destroys. `mutex` is `m_mutex`, recursive in the code but never waited on at a
depth of two. `CreateThread` and `StopThread` are used in the form `Thread` has shown: the
first returns when it sees `m_bRunning`, the second when the thread is gone or after five
seconds.

**`HTSPDemux`** is `HTSPDemux.cpp`, one object from `OpenLiveStream` to `CloseLiveStream`,
on top of `Session` as well. The player makes one call at a time (`pc`, `target`, `asked`):
`Open` and `SwitchChannel` send their requests (`Transmit`) and get an answer (`Answered`)
or none (`GivesUp`: the queue of the connection is full or the session breaks); `Read` hands
out what it finds (`pkt`). A start is parsed an entry at a time, since `Abort` may set the
counter in between from another thread; what the player has been told of the streams is
`view`. `selected` is the channel of the last call that succeeded, `doubtful` the
subscription numbers the server may or may not have accepted. The server serves any number
of subscriptions, and may serve two of the same number. The player looks at the streams when
`Read` tells it that they changed, as `xbmc/xbmc_pvr_dll.h` has it, and reads on only then.

The unlocked insertion of line 118 is a data race on a `std::map`. The model gives a race
these outcomes: a search misses the node, an insertion or a removal is lost. That a tree
might be corrupted so that the process stops is beyond it.

**`HTSPTables`** is what `Process()` does with the messages `HTSPData` only counts: the
`Parse...` handlers on `m_channels`, `m_tags` and `m_recordings`, the triggers they fire
(`toFetch`) and the lists XBMC fetches (`copies`), with the server (`onServer`, `wire`) and
its outages. A field of a channel is compared as the code compares it, one after the other
(`LastFieldChanged`). `GetChannelGroups` walks `m_tags` without the mutex and is a step for
each index, which inserts a tag that is not there.

**`Event`** is `CEvent` of `mutex.h`: flag, kind of signal and count of waiters, where the
flag is set under the mutex and the condition is notified after it is released.

**VNSI.** `VNSIData` is the table of requests of the client: each thread counts
(`loaded`, `serial`: the increment of the counter is two steps, for it has no lock),
inserts a node, sends, waits and erases it, `Process()` reads, delivers and, when the
connection is lost, logs in and makes a request of its own. A node erased without `m_mutex`
after a failed transmission races with what others do under it (`adrift`).
`VNSIStreamer` is one client of the plugin with its `cLiveStreamer`: the client's thread
(`clientAt`), VDR's section handler with the filter (`filterAt`) and the streamer's own
thread (`threadAt`). VDR's `Cancel`, attach and detach are external.
`VNSIRecording` puts `cVNSIRecording` and `cRecPlayer` together; `recFiles` grow while
they are read, `segments` is what `scan()` saw.
`VNSIDemux` is `cVNSIDemux` with its own session, and the other end of `VNSIStreamer`: the
answers of `cVNSIClient` and the messages of the streamer go through one `pipe`, and the
server numbers the streams of each channel from the first one on. The player reads, opens
and switches (`demuxAt`); `StreamChange` fills an entry in three steps, because `Abort` comes
from another thread and resets the counter it uses.
`GetBlock` of `VNSIRecording` is the code's recursion counted in rounds, so that it can be
proved about.

**MythTV.** `FileOps` is `fileOps.cpp`: the queue, the worker's local list of delayed jobs,
the thread as `Thread` has it, and XBMC's three kinds of question. `LiveTV` is `livetv.c` with
the parts of the client that call it: `programs` are the backend's files, `chain` the
client's list of them, `events` what is on its way to the event thread, whose handlers take
the lock a waiting read holds. `MythRecordings` is the path from a list event to the
fetch, with the playback mode that shuts it.

**NextPVR.** `RingBuffer` is `CRingBuffer` as operators on a record; `NextPVR` is the
reader on top of it. A byte is the stream it belongs to and its offset, so that one lost, doubled
or out of place is seen. A seek goes to any offset (`Target`, which may be below zero and behind
the end); the request holds what `%d` makes of its low half (`Formatted`, `Span` standing for
2^32), and to a `Range` that is none the server answers with all there is or nothing
(`ServedFrom`). What the page of an error holds is not modelled.

**Vu+ and DVBViewer.** `VuTimers` is `TimerUpdates` with its callers, who fetch and merge
without a common lock; the merge is one step. `VuChannels` is the start and the first round
of `Process()` with both checks and the file; `Box` gives what the box may offer, before and
after. `VuRecordings` is `GetRecordings` location by location, and the file of positions through
restarts. Storing the list and clearing it are two steps, for XBMC sets positions from another
thread; the file may not open (`Trouble`), and XBMC may be killed at any time, also between
the truncation of the file and the end of its writing (`Killed`). `forgotten` are the recordings
whose position one of these lost, until it is set again. `DvbUpdates` is the loop of the
DVBViewer thread with its two flags. A list of timers that does not come hangs it in
`RemoveNullChars` (`ListMissing`); the same loop hangs `GetRecordings` (line 810), which is not
modelled.

**MediaPortal.** `MPLive` is `OpenLiveStream`, `SwitchChannel`, `CloseLiveStream` and
`OpenRecordedStream` with the settings that choose their paths (`setup`); what a call does
is a function from the members to those it may leave (`mp`), since the calls come from one
thread. The server knows a client by its host, so that a time-shift outlives a connection; it may
carry out a request and not be heard (`NotTuned`), and nobody looks at its answer to `StopTimeshift`
(`Stopped`). `unsure` says that nothing was heard of the time-shift since. `TsBuffer` is
`MultiFileReader`: the server writes, begins and removes files and rewrites the index between
any two looks of the reader (`refreshAt`). Each call refreshes first: a read, a seek
(`BeginSeek`, then `SetFilePointer` in the refreshed bounds), a zap (`BeginZap`, then
`OnChannelChange` at the refreshed end) and `GetFileSize`; opening refreshes and then seeks to
the start, which refreshes again (`Rewound`). The step back to the position some servers send with a zap
(`TSReader.cpp:323`) is left out.

Two modules hold what several of these share: `Filter` (`Only(list, S)`, the part of a
sequence that is in a set) and `Sums`.

**ForTheRecord.** `ArgusLive` is `_OpenLiveStream`, which switches as well, and
`CloseLiveStream`, with the requests they make and the waits for the thread as steps of their own
(`argusAt`); `CKeepAliveThread::Process` (`keeper`), which reads `g_current_livestream`
(`current`) in one step and may take long over its request; and the streams the server keeps
(`liveStreams`), which it ends when no thread asks for them. An answer without the name of a file
(`TuneNameless`) fails the call after the object was assigned; on Linux and Darwin a prefix
makes every name one, and it is an answer like the others.

## Runs

| run | what it asks | bounds |
|---|---|---|
| `MCThread` | `NoLostWakeups`, `HandlersInTurn`; `CallsReturn` under fairness | one owner, two slots for handlers, all three kinds of `iWaitMs`. One owner that waits is how every add-on uses the class. Two slots allow an old and a new handler to coexist, if the code let them |
| `MCThreadZero` | violated: `StopThread(0)` waits, as `threads.h:108` says | the same with `CreateThread(false)` |
| `MCHTSPConnection` | `QueueSetAside`, `UsableMeansGreeted`, `ResultReturns`, `KeepsPromise` | two connections (so that a message of the first is read on the second), a queue of two (so that it fills), four numbers and four messages, one more sender |
| `MCHTSPData` | `OwnReply`, `EventAlive`, `TableClean`, `SessionOutlivesThread` | two API threads (symmetric), three requests, so that one thread asks again while the other waits; two messages, one death of the server |
| `MCHTSPDataLive` | `CallsReturn`, `Reconnects` | one API thread, two requests, three messages (the synchronisation, an answer taken by the handshake, one more), one death |
| `MCHTSPDemux` | `PacketsInView` | one subscription, four pushed messages (started twice, with packets of both), four streams, one of no known type, a table of two, so that a list overflows it |
| `MCHTSPDemuxSwitch` | `PacketsOfChannel`, `StreamsOfSubscription` | two switches (five requests), so that a number of unknown fate is used again and its packets arrive; two pushed messages; one stream |
| `MCHTSPDemuxSignal` | violated: `SignalOfStream`, the signal status is that of the open stream, as `xbmc/xbmc_pvr_dll.h:397` says | the same with one switch |
| `MCDvbHang` | violated: `EpgFlagServed`, an update after each switch, as `changelog.txt:18` of the add-on says | one caller, two switches |
| `MCVuPositions` | violated: `PositionsStored`, the position is stored when XBMC is told so, as `xbmc/xbmc_pvr_dll.h:274` says | as `MCStructures`, with no kill and a file that can be written |
| `MCAddons` | `StreamIntact`, `CallsEnd` (`NextPVR`); `CacheKept`, `JobsServed` (`FileOps`); `TimersTold`, `MirrorConverges` (`VuTimers`); `ChainPlayed`, `ChainFollows` (`LiveTV`) | a ring buffer of five for receives of two, so that every offset of the wrap-around and the full buffer occur; two streams of five bytes; seeks to -1, 0, 2, 4, 6 and 9 with a `Span` of eight: below zero, inside, where `%d` would write a sign, behind the end, and where the offset begins again. Two files, a queue of two, one emptying of the cache, one playback. Three timers, two changes of the box's list, one failed fetch: enough to merge an older list last. Three programmes in two sessions, one failed connection, one seek |
| `MCStructures` | `InOrder` (`Session`), `SignalsReach` (`Event`), `ListsFollow` (`HTSPTables`), `RepliesFound` (`VNSIData`), `StreamsInPeace` (`VNSIStreamer`), `RecordingRead` (`VNSIRecording`), `DemuxFollows` (`VNSIDemux`), `RecordingsKnown` (`MythRecordings`), `ChannelsKept` (`VuChannels`), `PositionsKept` (`VuRecordings`), `UpdatesFollow` (`DvbUpdates`), `LiveFollowsServer` (`MPLive`), `BufferInOrder` (`TsBuffer`), `StreamInHand` (`ArgusLive`) | five messages around a break; three waiters, two signallers, two time-outs; one channel and one entry, tags 1 and 3 (a gap in the ids), an outage; two threads besides `Process()`, four requests, two lost connections; two openings, three versions of a PMT; three files of two bytes, of which one at least is kept; two channels opened or switched to, three messages, a table of two for a channel of three streams; three changes of a list, two playbacks; three states of a box; three recordings in two locations, kills and a file that does not open; three commands and three switches; six calls with one outage and any answer lost, under all settings; four requests to tune and a recording |

`MCAddons` and `MCStructures` check many components at once and each behaviour is one component's
(`part`): they share nothing, so their product would show nothing more. A property of theirs
is the conjunction of what one component must keep; its parts are named and explained
in the component's module. They have 0.3 and 7.1 million distinct states and take some two
to three minutes each. Both switch the deadlock check off, because a component stops when its bounds
are used up, or when the program ends with an exception; so do `MCDvbHang` and `MCVuPositions`,
which are about one of the components each. In all other runs it is on:
`HTSPData` ends in `Deleted`, which is where the add-on ends, and so does `HTSPDemux`; the
others never stop.

`TypeOK` is proved for `Thread`, `HTSPConnection`, `HTSPData`, `Session` and `HTSPDemux`, where it
says that no index leaves a table.

For each property of a passing run a variant of one definition stands in the modules
(`NoBroadcast`, `LockSkipped`, `DeliverNewest`, ...): a plausible mistake of the code. With
the variant in place of the definition the property fails, so it does say something
about the code. Examples: `delete` without the lock breaks `EventAlive`; the last section
of `Process()` without the lock breaks `CallsReturn`; not queueing empty maps would let
`ReadResult` wait for ever.

### What the runs show

* `CreateThread` can block for ever if the handler ends before the owner gets the mutex
  again: `CallsReturn` of `Thread` has this case as an explicit exception. That of `HTSPData` shows that
  `CHTSPData` is safe from it, but only because `Process()` takes `m_mutex` at its end,
  which `Open()` still holds.
* `ReadResult` of the connection has no time-out of its own. A silent server makes it
  collect empty maps until the queue is full: it returns, after a thousand time-outs.
* `Close()` does not clear the queue: messages of the old connection are delivered after
  reconnecting, but before the new ones, so the order holds.
* No connection is left open whose greeting or authentication failed (`UsableMeansGreeted`), with
  one reservation: the authentication may take the reply to another thread's request for its own. That
  request then times out, and no other call gets a wrong reply.
* A reply that comes after its request timed out is dropped, even when the same thread
  waits for another already.
* With `MCThreadZero`: the interface of `StopThread` promises to wait with 0, and does not
  if the handler has not reached its first section yet. No add-on here creates a thread
  without waiting for it, so none is affected.
* A switch that fails half-way does no harm to the next one, with one exception. If
  `subscribe` was sent and no answer came, the next attempt uses its number again; should
  the server serve both, the player gets packets of two channels under one number.
  `PacketsOfChannel` has this case as an explicit exception (`doubtful`), and without it
  the run finds the behaviour.
* `Abort` may get lost or truncate the table of streams, but never makes it overflow or mix
  two subscriptions.
* With `MCHTSPDemuxSignal`: the signal status of the old channel is reported after a switch.
  Two more deviations of `CHTSPDemux` from the interface of XBMC are seen in the model and have no
  run: the identifier of a channel is reported in place of its number until the first switch
  (`HTSPDemux.cpp:48`), and a `Read` on a broken session returns the empty packet that means
  "no packet yet" (line 104).

What the runs of the other components show:

* **`CEvent`**: a wait that times out stays counted for ever; after it no broadcast is ever
  spent, so the next `Wait` returns at once (`BroadcastIsSpent` has the exception). The add-ons
  only ever broadcast events that are waited for once, so none meets it.
* **`HTSPTables`**: the tables are never cleared, so what the server removes during an outage
  stays. A channel message that names a changed field before an unchanged one triggers
  nothing (`HTSPData.cpp:865`); a recording already over when it is first heard of reaches
  the list only with the next trigger (line 1008). The unlocked walk finds every tag all the
  same.
* **`VNSIData`**: the request `OnReconnect` makes from `Process()` is never answered
  (`VNSIData.cpp:68`): each reconnection waits for the whole time-out. The unlocked erasure
  (line 87) and the unlocked counter are the only ways to a wrong reply or a lost node.
* **`VNSIStreamer`**: a client is told of the streams before it gets their packets, and the
  demuxers are not replaced under the thread that uses them, however the three threads
  overlap. A PMT that comes between the detaching of the receiver and of the filter
  starts the thread of a streamer that is being deleted (`receiver.c:569`). A radio channel
  whose PMT differs from VDR's entry falls silent (`receiver.c:431`).
* **`VNSIDemux`**: a switch is clean because the server answers between the two streamers
  (`receiver.c:821`) and the client discards up to the answer: if the answer came after the
  first stream change, the new channel would have no streams. A switch the server refuses
  leaves nothing streamed, while `CurrentChannel()` still names the channel before. A message
  that stalls for a second loses its framing (`VNSISession.cpp:348`), and nothing notices.
* **`VNSIRecording`**: the length and the sizes of files are those of one scan; a file that
  grew after it and was not the last shifts all later positions.
* **`FileOps`**: a `Resume` before the thread of an expired `Suspend` has ended leaves no thread
  until the next playback ends (`fileOps.cpp:203`). A name remembered just as the cache is
  emptied stays without its file (line 87). The list of a storage group is never fetched
  again, because its age is computed from `now = 0` (line 122).
* **`LiveTV`**: a read at the end of the chain waits for a signal that only a thread that needs
  its lock could give (`livetv.c:896`); it comes back after its time-out. A `DONE_RECORDING`
  of the last stream between `SetRecorder` and `SpawnLiveTV` uses a null pointer (line 532).
  `SEEK_SET` beyond the last byte and `SEEK_CUR` with a block outstanding land elsewhere (1131,
  1153). Two breaks at once skip a programme.
* **`MythRecordings`**: a list event during playback is discarded, and nothing makes up for it
  when playback ends (`pvrclient-mythtv.cpp:463`); a fetch that falls into a playback brings
  an empty list and no error.
* **`NextPVR`**: a read whose stream has ended loops for ever (`pvrclient-nextpvr.cpp:1350`), a
  recording's with `m_mutex` held; `CallsEnd` has it as its exception. The buffer is not
  cleared by a seek: the bytes from before are read first, and the position says otherwise. It
  also says otherwise after a seek beyond 2^31, whose offset `%d` writes as another number or a
  negative one (line 1256), and after one to a place the recording does not have, which nobody
  checks (line 1376): `PositionAhead` has these as its exception (`astray`), until the next request.
* **`VuTimers`**: a client index never names another timer than the one shown, though lists may
  be merged late. The loop that erases skips the first place (`VuData.cpp:143`), which a later
  update puts right. The index of a timer that is gone makes `at()` throw (line 1616).
* **`VuChannels`**: with the check of groups off, all channels of the groups from the file are
  dropped. The count that a failed request leaves behind (line 720) does no harm, because
  nothing counts the groups of the file. **`VuRecordings`**: a start without the box loses all
  positions, since the destructor stores an empty list (line 1008); `MCVuPositions` shows it
  against the interface. A position is also lost when a location fails after another answered,
  when it is set between the storing of the list and the restoring, when the file does not open,
  and when XBMC is killed before it is stored. A kill while the file is rewritten loses all.
  In no other case is one lost, and what is lost is kept again once XBMC sets it again.
* **`DvbUpdates`**: a switch of channel between the trigger and the clearing of the flag goes
  unnoticed (`DvbData.cpp:180`). `MCDvbHang`: a list of timers that does not come is the empty string,
  on which `RemoveNullChars` never ends (line 1047), with `m_mutex` held: from then on nothing is
  updated, and every call that takes the mutex waits.
* **`MPLive`**: closing while the server is away leaves channel and reader behind
  (`pvrclient-mediaportal.cpp:1483`); with rtsp a reader that is used again keeps its old URL.
  If the answer to `TimeshiftChannel` is lost (line 1279), the server may have started a time-shift
  the client takes for none: `m_bTimeShiftStarted` stays false, closing does nothing (line 1486),
  and the card is busy until a channel is opened and closed again. The answer to `StopTimeshift`
  is not looked at (line 1493), with the same effect. In both cases `unsure` is the exception;
  failures that the server does answer, at any stage, do no harm.
* **`TsBuffer`**: a reader paused for longer than the buffer begins to count at zero again
  while its own position stays (`MultiFileReader.cpp:367`). A read whose refresh fails after a zap goes
  on with the old list, and may come over bytes from before the zap (`failed` is the exception
  for it). Otherwise nothing is skipped or read twice, however the index changes under the
  reader.
* **`ArgusLive`**: the thread is stopped before the stream is forgotten, so the object is
  never cleared under it unless `StopThread` gave up after its five seconds; then it is not
  replaced either (`pvrclient-fortherecord.cpp:1167`), runs out, and the server ends the stream
  that is watched. A switch assigns the object with the thread running
  (`fortherecordrpc.cpp:626`). No stream is forgotten unless a request fails,
  with one exception: one whose file the server does not name stays in the object and on the
  server, no close ends it (`pvrclient-fortherecord.cpp:1152`, `1330`), and its tuner is held until the
  server lets it expire or the next tune takes it over. Only builds for other systems than Linux and Darwin
  meet it.

## Fairness

`Thread`: a thread that can run is run (weak fairness of the handler's steps and of a
woken owner's). Nothing makes `Process()` return but a stop request, and no owner need
call. A sleep ends because its time-out does.

`HTSPConnection`: `WF(ReaderCall)`. Every socket operation of the reader has a time-out, so
each step of a call ends, whatever the server does. The server owes nothing.

`DvbUpdates` in `MCDvbHang`: `WF(Loop)`, since the thread's sleeps are of seconds and nothing holds
`m_mutex` for ever but the thread itself.

`HTSPData`: weak fairness of each thread's steps, for the same reason (`event->Wait` and
socket operations have time-outs). Steps that need `m_mutex` get strong fairness: the mutex
is free again and again, and POSIX does not starve a waiter for ever on the schedulers the
add-ons run on. `Reconnects` assumes as well that a handshake tried again and again
succeeds at some time (`SF(HandshakeDone)`): without it no client could promise anything.

The parts of `MCAddons`: each thread that can go on does. `NextPVR`: `SF(Locked)` for the mutex,
as above; the server closes a stream it has sent to its end and answers a request or closes.
`FileOps`: nobody has to close a stream; `SF(NoMoreJobs)` says that jobs do not come so fast
that the inner loop never ends, which would leave the delayed ones where they are. `VuTimers`:
a thread inside `TimerUpdates` comes out, as each request has a time-out. `LiveTV`: a wait ends
by its time-out, the backend finishes the file of a programme that is over, and the lock,
which every read lets go, comes to the event thread (strong fairness). `MCStructures` asks for
nothing and assumes nothing.

## Proofs

TLAPS proves these for every value of the constants (any number of threads, requests,
messages, files and channels) from the assumptions named in the modules only, which TLC
evaluates in the runs. These say what the constants are (numbers that are
not negative, finite sets, a size that is not zero, a value that is in no other set):
`ThreadAssumption`, `MessageAssumption`, `ConnectionAssumption`, `DataAssumption`,
`DemuxAssumption` (of both demuxers), `TablesAssumption`, `JunkAssumption`, `StreamAssumption`,
`EventAssumption`, `DvbAssumption`, `MythRecordingsAssumption`, `MPLiveAssumption`,
`ArgusAssumption`, `StreamerAssumption`, `VNSIAssumption`, `FileAssumption`, `BoxAssumption`,
`DirectoryAssumption`, `RecordingAssumption`, `TsBufferAssumption`, `LiveTVAssumption`.

Each safety invariant the passing runs check is proved.

* `ThreadProofs`:
  - `TypeCorrect`, and `WakeupsKept` for any number of owners.
    `NoLostWakeups` is inductive with the types. `HandlersTakeTurns` holds for a
    single owner that always waits (`SoleOwner`); the invariant is `Solo`: a handler that has
    not started keeps its owner in `CreateThread`, and `m_bRunning` says whether a
    handler is beyond that point. Without it a stale `m_bStopped` could not be excluded;
  - `StreamAgreed` (`StreamInHand` of `ArgusLive`). Between an answer to a
    tune and what follows it the members are not one stream's (`InStep`); a thread told to stop is
    waited for, or the wait was given up (`KeeperInHand`); until then the stream is kept on the
    server (`Kept`), and nobody reads the object that is cleared (`ClearedInPeace`);
  - `StreamedInPeace` (`StreamsInPeace` of `VNSIStreamer`): the filter starts
    the thread last and takes the receiver away before it builds (`StreamerParts`), the thread
    tells the client of a change before it sends (`ToldInTime`), and as long as no PMT
    overlaps the deletion the filter rests while the streamer is deleted (`DeletedAlone`);
  - `VNSIRepliesFound` (`RepliesFound` of `VNSIData`), as long as no two increments of the
    counter overlap (`raced`): until then numbers belong to one thread (`Numbers`), a
    reply to its thread (`RepliesOwned`), a node is there as long as somebody waits for it
    (`NodesThere`);
  - `FilesKept` (`CacheKept` of `FileOps`): a name XBMC may ask for is cached, or its job
    is in the queue, delayed, or with the worker, unless it was dropped or overtaken by the
    emptying of the cache (`NamesCovered`); there is no worker while a playback has suspended it
    (`Quiet`).
* `SessionProofs`: `Ordered`, the order of the messages.
* `SequenceLemmas` holds what the others cite about sequences, sets and sums: `RemoveAt`, prefixes and
  tails, `Only`, `FlattenSeq`, `SetToSeq`, `SumTo`. Where such a fact needs induction
  it goes by the least number for which it would fail.
* `HTSPDataProofs`:
  - `TypeCorrect`, one lemma for each part of `TypeOK`;
  - `RepliesMatch` (`OwnReply`): a number belongs to one thread (`Unique`); whatever is on
    its way that bears the number of a thread's last call is about that call (`Answers`);
    so is what the thread has been handed (`Delivered`). It rests on numbers never being
    used twice: the wrap after 2^32 requests is excluded by `MaxSeq`;
  - `EventsAlive` and `TableStaysClean`: mutual exclusion of the sections under `m_mutex`
    (`Exclusion`) and the node's life;
  - `ThreadGoneFirst` (`SessionOutlivesThread`), by the invariant `Life`, which relates the
    owner's and the thread's positions;
  - `MessagesInOrder`: the messages `Process()` has still to read are newer than those it has
    read, and in order. `HTSPData` is written with the actions of `Session` (the lemma `SessionUsed`
    says so), so the theorem `Ordered` about that module carries over; that the code of the
    connection keeps `Session` is what `PromiseKept` shows;
  - `ListsKept` (`ListsFollow` of `HTSPTables`): the messages on the wire turn each entry
    of the tables into the server's (`Carries`), but for what the server removed during an
    outage (`LinkHolds`); a partial message about a channel comes when the channel is
    known (`KnownFirst`), and a recording is heard of as scheduled before anything else
    (`ScheduledFirst`); the walk over the tags has made room for every index behind it
    and sent every tag there (`WalkHolds`). With these, each list of XBMC is the table, or a
    fetch of it has been triggered.
* `HTSPDemuxProofs`, every property the passing runs of `HTSPDemux` check:
  - `TypeCorrect`, again by parts. That `FillEntry` and `CountEntry` stay inside `m_Streams`
    needs `count <= slot` between the two: `Abort()` only ever lowers the counter;
  - `OwnStreams` (`StreamsOfSubscription`): a start that is being parsed is a current one
    (`Own`), since no call can begin before `Read()` has returned;
  - `StreamsKnown` (`PacketsInView`): what the player was told is what is in the table,
    except while a start is parsed and until the player has looked (`InView`);
  - `RightChannel` (`PacketsOfChannel`): a number is bound to a channel by a subscribe
    request on its way, a subscription that is served, or a message still to be read
    (`Bound`). Only sending a request binds a number (`BoundOrigin`). `Bindings` says that
    the current number is bound to the current channel alone, and the next one to nothing
    before it is asked for; `Fate`, which a refused request needs, that a number is
    not served before its request is answered, nor after the answer is no. `InTurn` keeps
    requests and answers apart by their sequence numbers. A number of a request whose answer
    never came is excluded (`doubtful`): with it the property is false.
* `HTSPConnectionProofs`: `TypeCorrect`; `QueueKept` (`QueueSetAside`), inductive as it stands;
  `GreetedFirst` (`UsableMeansGreeted`), by `Greeted`: whenever a call is not in the middle of
  the greeting or the authentication, a connection that is up has been let in. The socket may close, and another
  thread may close it, at any step. `PromiseKept` (`KeepsPromise`): the connection implements
  `Session`. A step delivers the oldest message, takes a reply, breaks or restores the session, or
  is not to be seen (`Delivered`, `Taken`, `Broken`, `Restored`, `Unseen`); the invariant says that the
  messages of the local queue, the member's and the socket's follow each other as they were
  sent (`Sent`, `Pushed`), which makes removing one of them removing it from the inbox.
* `StreamProofs`, about what is read from streams, recordings and buffers:
  - `CRingBuffer` is a bounded queue, for every size. `Consistent` is the
    invariant of its pointers (the write pointer is the place behind the newest byte, around
    the end): `CreateEmpty` establishes it, `WriteAppends` and `ReadTakesOldest` keep it, and say
    what becomes of the contents;
  - `NothingLost` (`NoByteLost` of `NextPVR`): the buffer and what is still on the socket are the bytes the
    server sent, in order, by these three facts. `StreamsIntact` (`StreamIntact`) is about
    the position as well, for any number of streams and any targets of seeks. Each opening may
    leave a byte of its answer in the buffer, so that after enough of them without a read it is full
    and the first byte of the next is lost: that request, like one for an offset that cannot be
    written or is not there, is `astray`;
  - `StreamsFollow` (`DemuxFollows` of `VNSIDemux`): what is in the pipe is in the order in which
    the server opened the channels, and a packet is played as the stream it is;
  - `RecordingAsOnDisk` (`RecordingRead`): `Scanned` relates the files seen to the files that have grown
    since, and the rounds of `GetBlock` go by induction;
  - `BufferKept` (`BufferInOrder` of `TsBuffer`): the reader's list is a row the index once had
    (`Lists`, `Row`: files one behind the other, each but the last with its whole length or
    gone); what a refresh has seen of the index was there, and the index has only gone
    on since (`Look`); the bytes from the position on are those not yet read, and what is
    before it was read, removed, or of the channel before the zap (`PlaceKnown`), whatever
    refreshes a seek or a zap makes on its way;
  - `ProgrammesPlayed` (`ChainPlayed` of `LiveTV`), with four parts: what the stages of XBMC's
    thread have to do with the recorder and the chain (`Opened`), the order and the
    positions of the files (`FilesInOrder`), how many breaks are under way (`Announced`: unless
    there was a mishap at most one, sent with its `LIVETV_WATCH`, so that the signal is down,
    or about to go down before the chain is updated, until the file of the programme before is
    finished; hence all files of the chain but the last are), and `NoTailLost` itself. That a
    seek lands is arithmetic: each file begins where the one before ends (`ChainOffsets`),
    and both searches of `cmyth_livetv_chain_seek` find the file (`RelativeLands`,
    `AbsoluteLands`).
* `NotificationProofs`:
  - `SignalsArrive` (`SignalsReach`) for any number of waiters and signallers. It is for
    events that reset themselves, as all of the repository do: without `m_bAutoReset` one
    `Signal()` may leave all waiters but one blocked with the flag set. `Counts` relates
    the counter to the waiters (equal, unless one timed out), `InForce` keeps everybody awake
    while a broadcast is in force;
  - `FlagsServed` (`UpdatesFollow`), with what holds between asking and clearing
    (`AskedBeforeClearing`);
  - `ListKnown` (`RecordingsKnown`), inductive with the types of the events and of the stream;
  - `LiveServed` (`LiveFollowsServer` of `MPLive`), under all settings. Unless the
    client is unsure of it, there is no time-shift on the server that the client takes for none
    (`Sure`, `Freed`), and that of the current channel is what the reader reads (`Served`); an answer to
    `TimeshiftChannel` or `StopTimeshift` that is good makes the client sure again;
  - `PositionsSurvive` (`PositionsKept` of `VuRecordings`), by what the list and the file each tell of
    a recording that is not forgotten (`ListTells`, `FileTells`): the file, unless the position was set since it
    was written (`UnsavedListed`); and `ChannelsAgree` (`ChannelsKept` of
    `VuChannels`), for any box;
  - `TimersNamed` (`TimersTold` of `VuTimers`): no two timers of the mirror have one index
    (`NamedOnce`), whatever lists are merged in whatever order. A lemma says what each pass of the
    merge does to the mirror.

Only model-checked: liveness (`CallsReturn`, `Reconnects`, `ResultReturns`, `CallsEnd`,
`JobsServed`, `MirrorConverges`, `ChainFollows`), since TLAPS has no `ENABLED` and no fairness
here.

## Not modelled, and why

* Bytes of a message. A read of its size that times out after some of its four bytes loses
  the framing (`os-socket.h:233`); the models deal in whole messages. The same holds of what
  a stream carries: codecs, packets and tables are data.
* The channel scan of VNSI. `cVNSIChannelScan::Open` (`VNSIChannelScan.cpp:76`) calls
  `cVNSIData::Open` but never `Login`, where the thread that reads the answers is created
  (`VNSIData.cpp:46`): each request of the dialog times out, so there is no run of it to model.
* The fields of channels, timers and recordings that only travel from a back-end to XBMC, and
  EPGs, which no add-on keeps.
* Memory that is leaked or freed with the wrong function: no property is about it. `librefmem`
  is a count and a function to call at zero; the models assume that no object is used after
  its release, except where a module says so (`VNSIStreamer`, `VNSIData`, `LiveTV`).
* What a data race on a container may do beyond the outcomes named (`HTSPData`, `HTSPTables`,
  `VNSIData`, `VuTimers`).
* DVBLink, Njoy and demo: calls one at a time that forward to a server. The older copy of
  `tsreader` in the ForTheRecord add-on, which refreshes, seeks and zaps as the other does.
* `SyncedBuffer`: no add-on uses it.
* Wording, logging, notifications, settings, file formats.
* Most lines of the repository are vendored parsers, protocol formatting, generated
  tables and API headers. Those are not modelled; of the rest it is the control of the
  components above.

`PROJECT.json` gives the reason for each component that is `not_modelled`, and what is missing
of those `partly` modelled.

## Plan

Done, in this order: `Thread`, `Session`, `HTSPConnection`, `HTSPData`, `HTSPDemux` with their
proofs; `Event` and `FileOps`; `HTSPTables`; `VNSIData`, `VNSIStreamer`, `VNSIRecording`,
`VNSIDemux`; `RingBuffer` and `NextPVR`; `VuTimers`, `VuChannels`, `VuRecordings`, `DvbUpdates`; `LiveTV`, `MythRecordings`;
`TsBuffer`, `MPLive`, `ArgusLive`; the proofs about all of them.

Left:

1. Timers and schedules of the MythTV client.
2. The framing of messages under partial reads, as a module below `HTSPConnection`.
