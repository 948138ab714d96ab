------------------------------ MODULE MCCache ------------------------------
(* Cache for TLC.  Bytes are small numbers; 1 and 2 are tenants, 3 a model,  *)
(* 4 a role, 5 and 6 contents.                                               *)
EXTENDS Cache, TLC

Says(c) == [role |-> <<4>>, content |-> c]
Query(t, msgs) == [tenant |-> <<t>>, model |-> <<3>>, messages |-> msgs]

\* Four queries of two tenants, two of them with the same messages.
FourQueries == {Query(1, <<Says(<<5>>)>>), Query(2, <<Says(<<5>>)>>),
                Query(1, <<Says(<<6>>)>>), Query(1, <<Says(<<5>>), Says(<<6>>)>>)}

CallerSymmetry == Permutations(Callers)
=============================================================================
