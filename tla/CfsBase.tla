------------------------------ MODULE CfsBase ------------------------------
(* What the controller server and the node servers of CFS name alike.       *)
EXTENDS Naturals, Sequences, FiniteSets

CONSTANTS
    Claims,        \* the names in CreateVolume, which are the ClientTokens
    FileSystems,   \* ids that the cloud can give; bounds their number
    Classes,       \* parameters that a storage class may have; a path is a sequence of
                   \* separators and names, the empty one where there is none
    None           \* no claim, file system, target or call
=============================================================================
