---------------------------- MODULE MCTokenCache ----------------------------
(* TokenCache with the constants TLC checks it for.                         *)
EXTENDS TokenCache

Symmetry ==
    Permutations(Arcs) \cup Permutations(Ids) \cup Permutations(Calls)
    \cup Permutations(Grants \ Rotated)

\* A slot nobody refers to and a token nobody has are gone.
View ==
    <<now, rows, entries, [a \in Arcs |-> IF Unreferenced(a) THEN None ELSE slot[a]],
      queue, pc, job, live, written, floor, refused \cap InUse>>

=============================================================================
