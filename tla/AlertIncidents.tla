--------------------------- MODULE AlertIncidents ---------------------------
(***************************************************************************)
(* What the alert engine promises, without threshold map, engine cache,    *)
(* evaluation passes or restarts: an incident of a kind is either open or  *)
(* not, a new one is recorded only when none of that kind is open, and one *)
(* step opens or closes a single incident.  AlertEngine implements this    *)
(* (AlertEngine!Refines) as long as the database loses no write.           *)
(***************************************************************************)
EXTENDS Naturals

CONSTANT Kinds     \* the alert kinds: "cpu_pct", "disk_pct:/", "url_down:7", ...

VARIABLES
  open,            \* the kinds with an incident that is not resolved
  total            \* how many incidents were ever recorded

vars == <<open, total>>

Init == open = {} /\ total = 0

(* A breach of a kind with no open incident is recorded. *)
OpenIncident(k) ==
  /\ k \notin open
  /\ open' = open \cup {k}
  /\ total' = total + 1

(* The metric is back below its threshold. *)
CloseIncident(k) ==
  /\ k \in open
  /\ open' = open \ {k}
  /\ total' = total

Next == \E k \in Kinds : OpenIncident(k) \/ CloseIncident(k)

Spec == Init /\ [][Next]_vars
=============================================================================
