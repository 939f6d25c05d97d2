----------------------------- MODULE MCCbsNode -----------------------------
(* Instances of CbsNode for TLC.                                            *)
EXTENDS CbsNode, TLC

CONSTANTS p1, p2, c1, c2

\* A file system in either layout, a logical volume and a raw disk.
MCVolumes ==
    [kind : {"fs"}, oldLayout : BOOLEAN] \cup [kind : {"lvm", "block"}, oldLayout : {FALSE}]

Symmetry == Permutations({p1, p2}) \cup Permutations({c1, c2})
=============================================================================
