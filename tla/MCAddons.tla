------------------------------ MODULE MCAddons ------------------------------
(* The components of several add-ons whose questions are about what must   *)
(* happen in the end.  They share nothing, and no program has two of them  *)
(* beyond its own: part says which one a behaviour is about.               *)
EXTENDS NextPVR, FileOps, VuTimers, LiveTV

MCByte == [stream : 0..MaxStreams, off : -1..MaxBytes]
MCJunk == [stream |-> 0, off |-> 0]

\* Before the beginning, at it, inside, where %d would write a sign, behind the
\* end, and where the offset begins again.
MCTarget == {-1, 0, 2, 4, 6, 9}

VARIABLE part

addonVars == <<nextPVRVars, fileOpsVars, vuTimerVars, liveTVVars, part>>

AddonsInit ==
  /\ NextPVRInit /\ FileOpsInit /\ VuTimersInit /\ LiveTVInit
  /\ part \in {"nextpvr", "fileops", "vutimers", "livetv"}

AddonsNext ==
  /\ \/ part = "nextpvr" /\ NextPVRNext /\ UNCHANGED <<fileOpsVars, vuTimerVars, liveTVVars>>
     \/ part = "fileops" /\ FileOpsNext /\ UNCHANGED <<nextPVRVars, vuTimerVars, liveTVVars>>
     \/ part = "vutimers" /\ VuTimersNext /\ UNCHANGED <<nextPVRVars, fileOpsVars, liveTVVars>>
     \/ part = "livetv" /\ LiveTVNext /\ UNCHANGED <<nextPVRVars, fileOpsVars, vuTimerVars>>
  /\ UNCHANGED part

\* Nothing is owed by a component before its first step.
AddonsSpec ==
  /\ AddonsInit /\ [][AddonsNext]_addonVars
  /\ NextPVRFairness /\ FileOpsFairness /\ VuTimersFairness /\ LiveTVFairness
=============================================================================
