--------------------------- MODULE MCCbsSnapshot ---------------------------
(* Instances of CbsSnapshot for TLC.                                        *)
EXTENDS CbsSnapshot, TLC

CONSTANTS a, b, s1, s2, s3, c1, c2

Symmetry == Permutations({a, b}) \cup Permutations({s1, s2, s3}) \cup Permutations({c1, c2})
=============================================================================
