------------------------------ MODULE Session -------------------------------
(***************************************************************************)
(* What an add-on relies on when it talks to its back-end over one TCP     *)
(* session: the messages of the server come out in the order the server    *)
(* sent them, none twice; a reply somebody waits for may be taken out of   *)
(* turn; and only a broken connection loses messages, the latest ones.     *)
(***************************************************************************)
EXTENDS Naturals, Sequences, SequencesExt

CONSTANT Message  (* records with a number id and a flag reply             *)

ASSUME MessageAssumption ==
  \A m \in Message : m.id \in Nat \ {0} /\ m.reply \in BOOLEAN

VARIABLES
  link,      (* the client takes the session to be up                      *)
  inbox,     (* sent by the server, not yet handed to the add-on           *)
  lastSent,  (* id of the server's latest message                          *)
  lastRead   (* id of the latest message handed out in turn                *)

vars == <<link, inbox, lastSent, lastRead>>

Init == link = FALSE /\ inbox = <<>> /\ lastSent = 0 /\ lastRead = 0

Arrive(m) ==
  /\ link /\ m.id > lastSent
  /\ inbox' = Append(inbox, m)
  /\ lastSent' = m.id
  /\ UNCHANGED <<link, lastRead>>

(* Deliver with a plausible mistake, for a mutation run.                   *)
DeliverNewest ==
  /\ inbox # <<>>
  /\ lastRead' = inbox[Len(inbox)].id
  /\ inbox' = SubSeq(inbox, 1, Len(inbox) - 1)
  /\ UNCHANGED <<link, lastSent>>

Deliver ==
  /\ inbox # <<>>
  /\ lastRead' = Head(inbox).id
  /\ inbox' = Tail(inbox)
  /\ UNCHANGED <<link, lastSent>>

TakeReply(i) ==
  /\ link /\ inbox[i].reply
  /\ inbox' = RemoveAt(inbox, i)
  /\ UNCHANGED <<link, lastSent, lastRead>>

Up ==
  /\ ~link
  /\ link' = TRUE
  /\ UNCHANGED <<inbox, lastSent, lastRead>>

(* The connection breaks behind the n-th message; the client may not know. *)
Break(n) ==
  /\ link
  /\ link' \in {link, FALSE}
  /\ inbox' = SubSeq(inbox, 1, n)
  /\ UNCHANGED <<lastSent, lastRead>>

Next ==
  \/ \E m \in Message : Arrive(m)
  \/ \E i \in 1..Len(inbox) : TakeReply(i)
  \/ \E n \in 0..Len(inbox) : Break(n)
  \/ Deliver \/ Up

Spec == Init /\ [][Next]_vars

-----------------------------------------------------------------------------
TypeOK ==
  /\ link \in BOOLEAN
  /\ inbox \in Seq(Message)
  /\ lastSent \in Nat /\ lastRead \in Nat

(* The messages still to come are all newer than the one read last, and in *)
(* the order they were sent.                                               *)
InOrder ==
  /\ \A i \in 1..Len(inbox) : lastRead < inbox[i].id /\ inbox[i].id <= lastSent
  /\ \A i, j \in 1..Len(inbox) : i < j => inbox[i].id < inbox[j].id
  /\ lastRead <= lastSent
=============================================================================
