----------------------------- MODULE MCCfsturbo -----------------------------
(* Instances of CfsturboDriver for TLC.                                     *)
EXTENDS CfsturboDriver, TLC

CONSTANTS v1, v2, k1, s1, c1, c2, c3, w1, w2, w3

\* Two volumes of one file system; the calls of one may overlap.
Shared == (v1 :> k1) @@ (v2 :> k1)
SharedSource == (v1 :> s1) @@ (v2 :> s1)
MCVolumeOf == (c1 :> v1) @@ (c2 :> v1) @@ (c3 :> v2)

\* One name, whose file system is at an address or at a host with a dash.
Class(host) == [fsid |-> <<"fs">>, host |-> host]
MCClasses == {Class(<<"ip">>), Class(<<"turbo", "-", "host">>), Class(<<>>)}
MCExports == {Class(<<"ip">>), Class(<<"turbo", "-", "host">>)}
MCPvNames == {<<"pvc", "-", "uid">>}

Symmetry == Permutations({c1, c2})
=============================================================================
