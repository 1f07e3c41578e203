---------------------------- MODULE MCUrlChecker ----------------------------
(* Small instances of UrlChecker. *)
EXTENDS UrlChecker, TLC

Symmetry == Permutations(Reqs)
=============================================================================
