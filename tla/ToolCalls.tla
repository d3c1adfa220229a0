------------------------------ MODULE ToolCalls ------------------------------
(***************************************************************************)
(* What the tools of src/mcp share: the calls under way, each a handler that  *)
(* goes from one request to Google to the next, and the uploads staged for    *)
(* them (Staging is the store itself; here an upload is there or it is not).  *)
(***************************************************************************)
EXTENDS Integers, Sequences, FiniteSets, TLC

CONSTANTS Calls, Uploads, None

VARIABLES
    pc,        \* how far each call has come, or what it was answered
    op,        \* what it was asked for
    staged,    \* the uploads nobody has spent
    expired    \* history: those whose hour was up

calls == <<pc, op>>

\* What a call ends with: it did what was asked, it refused, or a request of
\* its failed, which Google may have carried out for all the server knows.
Answers == {"done", "refused", "failed"}

Under(c, tool, at) == op[c].tool = tool /\ pc[c] = at

Goto(c, to) == pc' = [pc EXCEPT ![c] = to] /\ UNCHANGED op

\* Staging::peek and Staging::sizes: the upload is there, and stays.
Waiting(uploads) == uploads \subseteq staged

\* Staging::take, of uploads that are there.
Spent(uploads) == staged' = staged \ uploads /\ UNCHANGED expired

Unspent == UNCHANGED <<staged, expired>>

\* The sweeper: an upload's hour is up.
Expire(u) ==
    /\ u \in staged
    /\ staged' = staged \ {u}
    /\ expired' = expired \cup {u}
    /\ UNCHANGED calls
=============================================================================
