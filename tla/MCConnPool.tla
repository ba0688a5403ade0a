----------------------------- MODULE MCConnPool -----------------------------
(* A pool of three connections, two single and three nested calls: the      *)
(* nested calls alone can exhaust it.                                       *)
EXTENDS ConnPool

CONSTANTS s1, s2, n1, n2, n3

MCSingle == {s1, s2}
MCNested == {n1, n2, n3}
=============================================================================
