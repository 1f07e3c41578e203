---------------------------- MODULE EventStream -----------------------------
(***************************************************************************)
(* What a subscriber of GET /events may rely on: events are numbered in    *)
(* the order they are published, and each subscriber is given some of      *)
(* them, in that order, none twice and none before it was published.       *)
(* Events may be lost.  SSEBroker implements this (SSEBroker!Refines).     *)
(***************************************************************************)
EXTENDS Naturals

CONSTANT Clients

VARIABLES
  published,       \* how many events were published
  last,            \* per subscriber: the last event it was given, 0 for none
  written          \* per subscriber: how many events it was given

vars == <<published, last, written>>

Init ==
  /\ published = 0
  /\ last = [c \in Clients |-> 0] /\ written = [c \in Clients |-> 0]

Publish == published' = published + 1 /\ UNCHANGED <<last, written>>

Deliver(c) ==
  /\ \E e \in (last[c] + 1)..published : last' = [last EXCEPT ![c] = e]
  /\ written' = [written EXCEPT ![c] = written[c] + 1]
  /\ UNCHANGED published

Next == Publish \/ \E c \in Clients : Deliver(c)

Spec == Init /\ [][Next]_vars
=============================================================================
