----------------------------- MODULE MCHTSPData -----------------------------
(* Two threads of XBMC call the add-on at the same time; which is which    *)
(* makes no difference to an invariant.  The liveness run has one thread.  *)
EXTENDS HTSPData, TLC

SameThreads == Permutations(Api)
=============================================================================
