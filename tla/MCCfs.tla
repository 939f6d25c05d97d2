------------------------------- MODULE MCCfs -------------------------------
(* A claim with pods on two nodes, one of them read-only, and classes that  *)
(* give or leave out the path and the version, a path that is refused and   *)
(* a class without subnet.                                                  *)
EXTENDS Cfs, TLC

CONSTANTS n1, f1, f2, r1, r2, c1, c2, t1, t2

MCClaims == {n1}
MCTargets == {t1, t2}
MCClaimOf == [t \in MCTargets |-> n1]
MCNodeOf == (t1 :> "a") @@ (t2 :> "b")
MCReadOnly == {t2}

Class(path, vers) == [vpc |-> TRUE, subnet |-> TRUE, path |-> path, vers |-> vers]

MCClasses ==
    {Class(<<>>, ""), Class(<<"/", "data">>, "3"), Class(<<"/", "data">>, "4"),
     Class(<<"data">>, ""), [Class(<<>>, "") EXCEPT !.subnet = FALSE]}

Symmetry == Permutations({f1, f2}) \cup Permutations({r1, r2}) \cup Permutations({c1, c2})
=============================================================================
