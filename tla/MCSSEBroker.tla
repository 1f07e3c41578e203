---------------------------- MODULE MCSSEBroker -----------------------------
(* Small instances of SSEBroker: capacities of one or two are full after as *)
(* many sends, and two clients are enough for one to stall beside another.  *)
EXTENDS SSEBroker
=============================================================================
