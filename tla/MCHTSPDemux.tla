---------------------------- MODULE MCHTSPDemux -----------------------------
(* Two channels whose numbers are not their identifiers, four streams one *)
(* of which is of no known type, and a list longer than the table.         *)
EXTENDS HTSPDemux

MCChannels == {[iUniqueId |-> 1, iChannelNumber |-> 2], [iUniqueId |-> 2, iChannelNumber |-> 1]}
MCLists == {<<1>>, <<4, 2, 1, 3>>}
MCShortLists == {<<1>>}
=============================================================================
