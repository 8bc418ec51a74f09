----------------------------- MODULE MCShutdown -----------------------------
(* Two imports that each schedule one of two runs, which the user may also  *)
(* start, and one operation of each other kind.                             *)
EXTENDS Shutdown

CONSTANTS r2, r3, s1, a1, i1, i2

MCRunOf(i) == IF i = i1 THEN r2 ELSE r3
=============================================================================
