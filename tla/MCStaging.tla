----------------------------- MODULE MCStaging ------------------------------
(* Staging with the constants TLC checks it for.                            *)
EXTENDS Staging, TLC

Symmetry == Permutations(Users) \cup Permutations(Tickets) \cup Permutations(Uploads)
            \cup Permutations(Holds) \cup Permutations(Requests)

\* The clock a request read matters until its last use of it.
ClockIsDone(p) == pc[p] = "read" \/ (pc[p] = "unlink" /\ job[p].then = "idle")

View == <<now, store, pc, pos, gone, history,
          [p \in Procs |-> IF ClockIsDone(p) THEN [job[p] EXCEPT !.at = 0] ELSE job[p]]>>

=============================================================================
