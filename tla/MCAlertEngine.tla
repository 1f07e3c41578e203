--------------------------- MODULE MCAlertEngine ----------------------------
(* Small instances of AlertEngine: one kind of each sort is enough, since a *)
(* kind only meets the others in the order of a pass and in the tables.     *)
EXTENDS AlertEngine

OneSys == {"cpu_pct"}
OneDisk == {"disk_pct:/"}
OneURL == {"url_down:1"}
None == {}
TwoPutters == {"p1", "p2"}
=============================================================================
