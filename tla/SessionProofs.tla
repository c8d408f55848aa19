---------------------------- MODULE SessionProofs ----------------------------
(***************************************************************************)
(* The order of the messages of a session, for every set of messages and   *)
(* any length of the inbox.                                                *)
(***************************************************************************)
EXTENDS Session, SequenceLemmas, TLAPS

-----------------------------------------------------------------------------
(* Every step of the session leaves its variables in their types.          *)
THEOREM TypeCorrect == Spec => []TypeOK
<1>1. Init => TypeOK
  <2>1. <<>> \in Seq(Message)
    OBVIOUS
  <2>2. Init => link \in BOOLEAN
    BY Zenon DEF Init
  <2>3. Init => inbox \in Seq(Message)
    BY <2>1 DEF Init
  <2>4. Init => lastSent \in Nat /\ lastRead \in Nat
    BY DEF Init
  <2>. QED  BY <2>2, <2>3, <2>4, Zenon DEF TypeOK
<1>2. TypeOK /\ [Next]_vars => TypeOK'
  <2>. SUFFICES ASSUME TypeOK, [Next]_vars PROVE TypeOK'
    OBVIOUS
  <2>. USE DEF TypeOK
  <2>1. ASSUME NEW m \in Message, Arrive(m) PROVE TypeOK'
    BY <2>1, MessageAssumption DEF Arrive
  <2>2. ASSUME NEW i \in 1..Len(inbox), TakeReply(i) PROVE TypeOK'
    BY <2>2, RemoveAtProperties DEF TakeReply
  <2>3. ASSUME NEW n \in 0..Len(inbox), Break(n) PROVE TypeOK'
    BY <2>3, PrefixProperties DEF Break
  <2>4. CASE Deliver
    <3>1. Head(inbox) \in Message /\ Tail(inbox) \in Seq(Message)
      BY <2>4 DEF Deliver
    <3>. QED  BY <2>4, <3>1, MessageAssumption DEF Deliver
  <2>5. CASE Up
    BY <2>5 DEF Up
  <2>6. CASE UNCHANGED vars
    BY <2>6 DEF vars
  <2>. QED  BY <2>1, <2>2, <2>3, <2>4, <2>5, <2>6 DEF Next
<1>. QED  BY <1>1, <1>2, PTL DEF Spec

(***************************************************************************)
(* Messages come out in the order in which the server sent them: the inbox *)
(* is always sorted and newer than what has been read.  Replies taken out  *)
(* of turn, broken connections and reconnections do not disturb that.      *)
(***************************************************************************)
THEOREM Ordered == Spec => []InOrder
<1>1. Init => InOrder
  BY DEF Init, InOrder
<1>2. TypeOK /\ InOrder /\ [Next]_vars => InOrder'
  <2>. SUFFICES ASSUME TypeOK, InOrder, [Next]_vars PROVE InOrder'
    OBVIOUS
  <2>. USE DEF TypeOK, InOrder
  <2>0. \A i \in 1..Len(inbox) : inbox[i] \in Message /\ inbox[i].id \in Nat
    BY MessageAssumption
  <2>1. ASSUME NEW m \in Message, Arrive(m) PROVE InOrder'
    <3>1. /\ Len(inbox') = Len(inbox) + 1
          /\ inbox'[Len(inbox) + 1] = m
          /\ \A k \in 1..Len(inbox) : inbox'[k] = inbox[k]
      BY <2>1 DEF Arrive
    <3>2. m.id \in Nat /\ m.id > lastSent /\ lastSent' = m.id /\ lastRead' = lastRead
      BY <2>1, MessageAssumption DEF Arrive
    <3>. QED  BY <3>1, <3>2, <2>0, SMTT(30)
  <2>2. ASSUME NEW i \in 1..Len(inbox), TakeReply(i) PROVE InOrder'
    <3>. DEFINE at(k) == IF k < i THEN k ELSE k + 1
    <3>1. inbox \in Seq(Message) /\ Len(inbox) \in Nat
      OBVIOUS
    <3>2. inbox' = RemoveAt(inbox, i) /\ lastSent' = lastSent /\ lastRead' = lastRead
      BY <2>2, Zenon DEF TakeReply
    <3>3. /\ Len(inbox') = Len(inbox) - 1
          /\ \A k \in 1..Len(inbox) - 1 :
               inbox'[k] = IF k < i THEN inbox[k] ELSE inbox[k + 1]
      <4>. HIDE DEF TypeOK, InOrder
      <4>. QED  BY <3>1, <3>2, RemoveAtProperties, Zenon
    <3>4. \A k \in 1..Len(inbox') : at(k) \in 1..Len(inbox) /\ inbox'[k] = inbox[at(k)]
      BY <3>1, <3>3
    <3>5. \A k, l \in 1..Len(inbox') : k < l => at(k) < at(l)
      BY <3>1, <3>3
    <3>. HIDE DEF at
    <3>6. \A k \in 1..Len(inbox') :
            lastRead < inbox'[k].id /\ inbox'[k].id <= lastSent
      BY <3>4
    <3>7. \A k, l \in 1..Len(inbox') : k < l => inbox'[k].id < inbox'[l].id
      BY <3>4, <3>5
    <3>. QED  BY <3>2, <3>6, <3>7
  <2>3. ASSUME NEW n \in 0..Len(inbox), Break(n) PROVE InOrder'
    <3>1. /\ Len(inbox') = n
          /\ \A k \in 1..n : inbox'[k] = inbox[k]
      BY <2>3, PrefixProperties DEF Break
    <3>. QED  BY <2>3, <3>1, <2>0 DEF Break
  <2>4. CASE Deliver
    <3>. DEFINE at(k) == k + 1
    <3>1. /\ Len(inbox') = Len(inbox) - 1
          /\ \A k \in 1..Len(inbox) - 1 : inbox'[k] = inbox[k + 1]
          /\ Len(inbox) \in Nat /\ Len(inbox) >= 1
      BY <2>4 DEF Deliver
    <3>2. lastRead' = inbox[1].id /\ lastSent' = lastSent
      BY <2>4 DEF Deliver
    <3>3. \A k \in 1..Len(inbox') :
            at(k) \in 1..Len(inbox) /\ 1 < at(k) /\ inbox'[k] = inbox[at(k)]
      BY <3>1
    <3>4. \A k, l \in 1..Len(inbox') : k < l => at(k) < at(l)
      BY <3>1
    <3>. HIDE DEF at
    <3>5. 1 \in 1..Len(inbox)
      BY <3>1
    <3>6. \A k \in 1..Len(inbox') :
            inbox[1].id < inbox'[k].id /\ inbox'[k].id <= lastSent
      BY <3>3, <3>5
    <3>7. \A k, l \in 1..Len(inbox') : k < l => inbox'[k].id < inbox'[l].id
      BY <3>3, <3>4
    <3>8. inbox[1].id <= lastSent
      BY <3>5
    <3>. QED  BY <3>2, <3>6, <3>7, <3>8
  <2>5. CASE Up
    BY <2>5 DEF Up
  <2>6. CASE UNCHANGED vars
    BY <2>6 DEF vars
  <2>. QED  BY <2>1, <2>2, <2>3, <2>4, <2>5, <2>6 DEF Next
<1>. QED  BY <1>1, <1>2, TypeCorrect, PTL DEF Spec
=============================================================================
