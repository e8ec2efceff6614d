---------------------------- MODULE ApiMutation -----------------------------
(***************************************************************************)
(* A request that a component sends with useApiMutation.  The server       *)
(* applies or refuses it in one step, handler and commit together, before  *)
(* the answer is on its way, and the answer may be lost: then the client   *)
(* sees an error for what was done.  Nothing is sent a second time by      *)
(* itself.  (get_db_session commits after the answer; what may happen in   *)
(* between is in ClientCache, Entry, DebtActions and PersonPicker.)        *)
(***************************************************************************)
EXTENDS Naturals

NoRequest == [stage |-> "none"]

Request(body) == [stage |-> "sent", body |-> body]

\* isPending of the hook.
IsPending(m) == m.stage # "none"

AtServer(m) == m.stage = "sent"
Done(m) == [m EXCEPT !.stage = "done"]
Declined(m) == [m EXCEPT !.stage = "declined"]

\* onSuccess, and onError: declined, or the answer (or the request) was lost.
AnsweredWell(m) == m.stage = "done"
AnsweredBadly(m) == IsPending(m)
=============================================================================
