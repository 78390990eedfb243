----------------------------- MODULE MCReports ------------------------------
(* Instance of Reports: two workers, days of two minutes, a time zone that  *)
(* is a minute ahead of UTC and one that is unknown.                        *)
EXTENDS Reports, TLC

CONSTANTS w1, w2

SmallZones == {0, 1}
SmallTimes == {0, 1}
Symmetry == Permutations(Workers)
=============================================================================
