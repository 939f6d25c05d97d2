----------------------------- MODULE MCChdfsNode -----------------------------
(* Instances of ChdfsNode for TLC.                                          *)
EXTENDS ChdfsNode, TLC

CONSTANTS t1, t2, v2, w2, noUrl, badArgs, c1, c2, p1, p2

Valid(sub) == [url |-> TRUE, args |-> "valid", mountPoint |-> "f4m", subDir |-> sub]

\* A directory of a file system with two sets of other arguments, and volumes
\* that are refused.
MCOptions ==
    v2 :> Valid(<<"/", "a">>) @@ w2 :> Valid(<<"/", "a">>)
    @@ noUrl :> [Valid(<<"/">>) EXCEPT !.url = FALSE]
    @@ badArgs :> [Valid(<<"/">>) EXCEPT !.args = "invalid"]

\* Each pair at the targets in both orders, so that the targets are symmetric.
Both(v, w) == {t1 :> v @@ t2 :> w, t1 :> w @@ t2 :> v}

MCClaims == Both(v2, w2) \cup Both(noUrl, badArgs)

\* Slow processes, processes that end and abandoned calls are too much at once.
MCFaults == {{"slow", "abandon", "io", "restart"}, {"crash", "abandon", "io", "restart"},
             {"slow", "crash", "io", "restart"}}

Symmetry == Permutations({t1, t2}) \cup Permutations({c1, c2}) \cup Permutations({p1, p2})
==============================================================================
