------------------------------ MODULE MCThread ------------------------------
(* One owner that always waits in CreateThread, as every add-on here does. *)
EXTENDS Thread
=============================================================================
