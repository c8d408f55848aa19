---------------------------- MODULE MCStructures -----------------------------
(* The components whose questions are about safety alone.  They share      *)
(* nothing; part says which one a behaviour is about.                      *)
EXTENDS Session, Event, VuChannels, VuRecordings, VNSIData, VNSIStreamer, VNSIRecording,
        VNSIDemux, TsBuffer, MPLive, ArgusLive, HTSPTables, DvbUpdates, MythRecordings

VARIABLE part

structureVars ==
  <<vars, eventVars, vuChannelVars, vuRecordingVars, vnsiVars, streamerVars, recordingVars,
    vnsiDemuxVars, tsBufferVars, mpVars, argusVars, tablesVars, dvbVars, mythRecVars, part>>

(* A server that sends five messages at most, replies and others.          *)
MCMessage == [id : 1..5, reply : BOOLEAN]

(* A box before and after a channel was renamed to a name that XML has to  *)
(* escape, a bouquet came, and two bouquets changed places.                *)
MCBox ==
  {[groups |-> <<"fav">>,
    services |-> [g \in {"fav", "sat", Radio} |->
      IF g = "fav" THEN <<"a", "with &">> ELSE <<>>]],
   [groups |-> <<"fav", "sat">>,
    services |-> [g \in {"fav", "sat", Radio} |->
      IF g = "fav" THEN <<"a">> ELSE IF g = "sat" THEN <<"b">> ELSE <<"r">>]],
   [groups |-> <<"sat", "fav">>,
    services |-> [g \in {"fav", "sat", Radio} |->
      IF g = "fav" THEN <<"a", "b">> ELSE IF g = "sat" THEN <<"c">> ELSE <<>>]]}

MCLocation == <<"hdd", "usb">>
MCDirectory == [r \in Recording |-> IF r = "r3" THEN "usb" ELSE "hdd"]

\* A video channel, a radio channel, and one with another sound besides.
MCProgramme == {{"video", "a1"}, {"a1"}, {"a1", "a2"}}

\* A channel with and without a picture, and one with more streams than the
\* client takes; the same numbers stand for other streams.
MCStreamLists == [c \in VnsiChannel |->
  IF c = "c1" THEN {<<"mpeg2", "mp2">>, <<"mp2">>} ELSE {<<"h264", "ac3", "ac3">>}]

\* The fields of a channel; an icon in between is treated like these.
MCFieldOrder == <<"name", "number">>

StructuresInit ==
  /\ Init /\ EventInit /\ VuChannelsInit /\ VuRecordingsInit /\ VNSIInit /\ StreamerInit
  /\ RecordingInit /\ VNSIDemuxInit /\ TsBufferInit /\ MPLiveInit /\ ArgusInit
  /\ TablesInit /\ DvbInit /\ MythRecordingsInit
  /\ part \in {"session", "event", "channels", "recordings", "vnsi", "streamer", "playing",
               "demux", "tsbuffer", "mplive", "argus", "tables", "dvb", "mythrec"}
  \* One beginning is enough for the parts that rest.
  /\ part # "channels" =>
       vuBox = (CHOOSE b \in Box : TRUE) /\ ~checks.groups /\ ~checks.channels
  /\ part # "recordings" => stored = {}
  /\ part # "mplive" => ~setup.rtsp /\ ~setup.fast /\ ~setup.windows

OnePartMoves ==
  \/ part = "session" /\ Next
  \/ part = "event" /\ EventNext
  \/ part = "channels" /\ VuChannelsNext
  \/ part = "recordings" /\ VuRecordingsNext
  \/ part = "vnsi" /\ VNSINext
  \/ part = "streamer" /\ StreamerNext
  \/ part = "playing" /\ RecordingNext
  \/ part = "demux" /\ VNSIDemuxNext
  \/ part = "tsbuffer" /\ TsBufferNext
  \/ part = "mplive" /\ MPLiveNext
  \/ part = "argus" /\ ArgusNext
  \/ part = "tables" /\ TablesNext
  \/ part = "dvb" /\ DvbNext
  \/ part = "mythrec" /\ MythRecordingsNext

TheOthersRest ==
  /\ IF part = "session" THEN TRUE ELSE UNCHANGED vars
  /\ IF part = "event" THEN TRUE ELSE UNCHANGED eventVars
  /\ IF part = "channels" THEN TRUE ELSE UNCHANGED vuChannelVars
  /\ IF part = "recordings" THEN TRUE ELSE UNCHANGED vuRecordingVars
  /\ IF part = "vnsi" THEN TRUE ELSE UNCHANGED vnsiVars
  /\ IF part = "streamer" THEN TRUE ELSE UNCHANGED streamerVars
  /\ IF part = "playing" THEN TRUE ELSE UNCHANGED recordingVars
  /\ IF part = "demux" THEN TRUE ELSE UNCHANGED vnsiDemuxVars
  /\ IF part = "tsbuffer" THEN TRUE ELSE UNCHANGED tsBufferVars
  /\ IF part = "mplive" THEN TRUE ELSE UNCHANGED mpVars
  /\ IF part = "argus" THEN TRUE ELSE UNCHANGED argusVars
  /\ IF part = "tables" THEN TRUE ELSE UNCHANGED tablesVars
  /\ IF part = "dvb" THEN TRUE ELSE UNCHANGED dvbVars
  /\ IF part = "mythrec" THEN TRUE ELSE UNCHANGED mythRecVars

StructuresNext == OnePartMoves /\ TheOthersRest /\ UNCHANGED part

StructuresSpec == StructuresInit /\ [][StructuresNext]_structureVars
==============================================================================
