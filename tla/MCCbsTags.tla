------------------------------ MODULE MCCbsTags ------------------------------
(* Instances of CbsTags for TLC.                                            *)
EXTENDS CbsTags

CONSTANTS k1, k2, v1, d1, d2, d3
==============================================================================
