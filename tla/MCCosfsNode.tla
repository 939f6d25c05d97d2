----------------------------- MODULE MCCosfsNode -----------------------------
(* Instances of CosfsNode for TLC.                                          *)
EXTENDS CosfsNode, TLC

CONSTANTS t1, t2, v1, v2, v3, v4, v5, c1, c2, j1, j2

Cosfs(b, s) == [mounter |-> "cosfs", bucket |-> b, secret |-> s, properties |-> Unset]
Goosefs(s, p) == [mounter |-> "goosefs-lite", bucket |-> "b", secret |-> s,
                  properties |-> [k \in Keys |-> p]]

\* Two cosfs volumes of one bucket with secrets of their own, one of them by
\* default, two of goosefs-lite, and one that is refused.
MCOptions ==
    v1 :> Cosfs("b1", "s1") @@ v2 :> [Cosfs("b1", "s2") EXCEPT !.mounter = ""]
    @@ v3 :> Goosefs("s3", "long") @@ v4 :> Goosefs("s4", None)
    @@ v5 :> [Cosfs("b1", "s5") EXCEPT !.mounter = "unsupported"]

\* Two volumes of cosfs; or one of goosefs-lite, with which cosfs shares no file.
CosfsClaims == {t1 :> v1 @@ t2 :> v2, t1 :> v3 @@ t2 :> v5}

\* Two volumes of goosefs-lite.
GoosefsClaims == {t1 :> v3 @@ t2 :> v4}

OnePod == [t \in Targets |-> "p1"]

Symmetry == Permutations({c1, c2}) \cup Permutations({j1, j2})
==============================================================================
