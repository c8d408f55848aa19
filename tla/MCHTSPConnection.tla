-------------------------- MODULE MCHTSPConnection --------------------------
(* The connection of CHTSPData: one reader, and one API thread that sends. *)
EXTENDS HTSPConnection
=============================================================================
