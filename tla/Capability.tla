----------------------------- MODULE Capability -----------------------------
(***************************************************************************)
(* What an id that is its own permission promises: it is drawn once, is good *)
(* for so many uses and no more, may stop being good at any time, and never  *)
(* comes back.  Links shows that download links keep it, with LINK_USES uses. *)
(***************************************************************************)
EXTENDS Naturals

CONSTANTS Ids, Uses, None

VARIABLE left  \* uses left of each id; 0 when it is spent, expired or gone

Init == left = [i \in Ids |-> None]

Draw(i) ==
    /\ left[i] = None
    /\ left' = [left EXCEPT ![i] = Uses]

Use(i) ==
    /\ left[i] # None
    /\ left[i] > 0
    /\ left' = [left EXCEPT ![i] = @ - 1]

\* Any number of ids end at once: a sweep, a restart, a connection that goes.
End ==
    \E S \in SUBSET {i \in Ids : left[i] # None} :
      left' = [i \in Ids |-> IF i \in S THEN 0 ELSE left[i]]

Next == End \/ \E i \in Ids : Draw(i) \/ Use(i)

Spec == Init /\ [][Next]_left

=============================================================================
