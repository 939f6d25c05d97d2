-------------------------- MODULE MCCbsController --------------------------
(* Instances of CbsController for TLC.                                      *)
EXTENDS CbsController, TLC

CONSTANTS c1, c2, d1, d2, n1, n2, nx, v1, vbad

\* One volume of one disk.
OneDisk == (v1 :> {d1})

\* One volume of two disks (devicemapper RAID or LVM), and a volume id without
\* the "disk-" prefix.
TwoDisks == (v1 :> {d1, d2}) @@ (vbad :> {})

Symmetry ==
    Permutations({c1, c2}) \cup Permutations({d1, d2}) \cup Permutations({n1, n2})
=============================================================================
