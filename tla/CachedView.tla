----------------------------- MODULE CachedView -----------------------------
(***************************************************************************)
(* What a component of the client may expect of the data a query gives it: *)
(* an answer the server could have given at some time, never one from the  *)
(* future, and never one older than the answer shown before.  The screens  *)
(* (PaymentSheet, BulkSelection, EntryForms, ...) are modelled over this   *)
(* promise only; ClientCache shows that the query cache keeps it.          *)
(***************************************************************************)
EXTENDS Integers

VARIABLES
  truth,   \* version of the server's answer to the query
  view     \* version on the screen, or NoData

NoData == -1

Init == truth = 0 /\ view = NoData

Write == truth' = truth + 1 /\ UNCHANGED view

Show ==
  /\ view' \in 0 .. truth
  /\ view <= view'
  /\ UNCHANGED truth

\* An entry without an observer is collected after five minutes.
Forget == view' = NoData /\ UNCHANGED truth

Next == Write \/ Show \/ Forget

Spec == Init /\ [][Next]_<<truth, view>>
=============================================================================
