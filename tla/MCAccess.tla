------------------------------ MODULE MCAccess ------------------------------
(* Access with the constants TLC checks it for.                             *)
EXTENDS Access, TLC

Symmetry == Permutations(Users) \cup Permutations(Conns) \cup Permutations(Tokens)
            \cup Permutations(Labels) \cup Permutations(Accounts)
            \cup Permutations(Requests)

=============================================================================
