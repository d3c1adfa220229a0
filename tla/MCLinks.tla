------------------------------ MODULE MCLinks -------------------------------
(* Links with the constants TLC checks it for.                              *)
EXTENDS Links, TLC

Symmetry == Permutations(Ids) \cup Permutations(Hits) \cup Permutations(Calls)

\* Nothing reads what the log misses.
View == <<now, conns, links, held, pc, job, born, spent>>

=============================================================================
