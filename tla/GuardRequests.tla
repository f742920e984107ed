--------------------------- MODULE GuardRequests ---------------------------
(***************************************************************************)
(* ContainmentGuard with a history of its requests: which of the           *)
(* restrictions a request meets have been in force at every moment since   *)
(* it was made.  The history is kept beside the steps of the guard and     *)
(* restrains none of them.                                                 *)
(***************************************************************************)
EXTENDS ContainmentGuard

VARIABLE standing  \* history: the restrictions in force ever since t's request

requestVars == <<vars, standing>>

\* Restrictions in force at this moment.
InForce == {s \in DOMAIN table : clock < table[s]}

\* Thread t is between the question and the answer.
Asking(t) == call[t].op \in {"ask", "lookup"}

RequestInit == Init /\ standing = [t \in Thread |-> {}]

Watch ==
  standing' = [t \in Thread |->
                 CASE ~Asking(t)'              -> {}
                   [] Asking(t)' /\ Asking(t)  -> standing[t] \cap InForce'
                   [] Asking(t)' /\ ~Asking(t) -> Range(call[t].todo)' \cap InForce']

RequestSpec == RequestInit /\ [][Next /\ Watch]_requestVars

-----------------------------------------------------------------------------
\* A request is allowed only if each restriction that it meets was absent or over
\* at some moment between the question and the answer, although it is answered by
\* lookups in up to three maps, one lock after the other, each with a clock
\* reading made before its lock, while other threads install, roll back and evict
\* (guard.rs:115-185).
NothingLivePassed ==
  [][\A t \in Thread : Asking(t) /\ call'[t].op = "allowed" => standing[t] = {}]_requestVars
=============================================================================
