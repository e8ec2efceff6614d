------------------------------- MODULE BulkPay -------------------------------
(***************************************************************************)
(* The plans of the installments tab and the sheet in three steps that     *)
(* pays several of them at once.  The server keeps no payments of a plan:  *)
(* what is paid of it follows from the calendar.  The sheet sends the      *)
(* numbers of the plans as numbers of debts.                               *)
(***************************************************************************)
EXTENDS ApiMutation, FiniteSets

CONSTANTS
  Plan,      \* numbers of plans; debts are numbered on their own
  Monthly,   \* what a plan costs a month
  Tenure,    \* months of a plan
  Owed,      \* what is still owed of the debt with the same number, 0 without one
  MaxSends,  \* bound: batches sent
  MaxSheets  \* bound: openings of the sheet

ASSUME PlanAssumption ==
  /\ Plan \subseteq Nat /\ Monthly \in Nat \ {0} /\ Tenure \in Nat \ {0}
  /\ Owed \in [Plan -> Nat] /\ MaxSends \in Nat /\ MaxSheets \in Nat

VARIABLES
  plans,         \* at the server: their stored status, or deleted
  month,         \* months since the plans began
  owed,          \* what is owed of each debt
  offered,       \* the running plans the tab has loaded
  batch,         \* the sheet: open, step, items ticked, account, fee
  sending,       \* its request
  pay_log        \* counters of the bounds; history: batches booked and refused

pay_vars == <<plans, month, owed, offered, batch, sending, pay_log>>

\* compute_installment_status
MonthsPaid(p) == IF month < Tenure THEN month ELSE Tenure

Runs(p) == plans[p] = "active" /\ MonthsPaid(p) < Tenure

\* What useInstallments answers, and what the sheet lists of it.
Offer == {p \in Plan : Runs(p)}

ClosedBatch == [open |-> FALSE, step |-> 1, items |-> {}, account |-> FALSE, fee |-> 0]

PayInit ==
  /\ plans = [p \in Plan |-> "active"]
  /\ month = 0 /\ owed = Owed
  /\ offered = Offer
  /\ batch = ClosedBatch
  /\ sending = NoRequest
  /\ pay_log = [sends |-> 0, opened |-> 0, failed |-> {}, booked |-> {}]

-----------------------------------------------------------------------------
(* The sheet *)

OpenBatch ==
  /\ ~batch.open /\ offered # {} /\ pay_log.opened < MaxSheets
  /\ batch' = [batch EXCEPT !.open = TRUE]
  /\ pay_log' = [pay_log EXCEPT !.opened = @ + 1]
  /\ UNCHANGED <<plans, month, owed, offered, sending>>

\* handleClose: the sheet stays mounted, its state is reset by hand.
ResetBatchFaulty == [ClosedBatch EXCEPT !.step = batch.step]
ResetBatchFromZero == [ClosedBatch EXCEPT !.step = 0]
ResetBatch == ClosedBatch

CloseBatch ==
  /\ batch.open /\ batch' = ResetBatch
  /\ UNCHANGED <<plans, month, owed, offered, sending, pay_log>>

\* toggleItem: what is ticked stays ticked when the plan is no longer listed.
ToggleItem(p) ==
  /\ batch.open /\ batch.step = 1 /\ p \in offered
  /\ batch' = [batch EXCEPT !.items = IF p \in @ THEN @ \ {p} ELSE @ \cup {p}]
  /\ UNCHANGED <<plans, month, owed, offered, sending, pay_log>>

\* An account that is chosen can be replaced, not taken back.
FillBatch ==
  /\ batch.open /\ batch.step = 2
  /\ \/ batch' = [batch EXCEPT !.account = TRUE]
     \/ batch' = [batch EXCEPT !.fee = 1 - @]
  /\ UNCHANGED <<plans, month, owed, offered, sending, pay_log>>

\* The buttons: forward needs a ticked plan, then an account; back needs nothing.
GoToStep(s) ==
  /\ batch.open /\ s \in 1 .. 3
  /\ s = batch.step - 1 \/ s = batch.step + 1
  /\ s = 2 /\ batch.step = 1 => batch.items # {}
  /\ s = 3 => batch.account
  /\ batch' = [batch EXCEPT !.step = s]
  /\ UNCHANGED <<plans, month, owed, offered, sending, pay_log>>

ConfirmableFaulty == batch.open /\ batch.step = 3
Confirmable == batch.open /\ batch.step = 3 /\ ~IsPending(sending)

ConfirmBatch ==
  /\ Confirmable /\ pay_log.sends < MaxSends
  /\ sending' = Request([n |-> pay_log.sends + 1, opened |-> pay_log.opened,
                         items |-> batch.items, fee |-> batch.fee,
                         account |-> batch.account,
                         retry |-> pay_log.opened \in pay_log.failed])
  /\ pay_log' = [pay_log EXCEPT !.sends = @ + 1]
  /\ UNCHANGED <<plans, month, owed, offered, batch>>

-----------------------------------------------------------------------------
(* bulk_payment: one transaction over record_payment for each item *)

PaidItemsFaulty(items) == {p \in items : Monthly <= owed[p]}
PaidItems(items) == IF \A p \in items : Monthly <= owed[p] THEN items ELSE {}

ServeBatchPayment ==
  /\ AtServer(sending)
  /\ LET paid == PaidItems(sending.body.items)
     IN  /\ owed' = [p \in Plan |-> IF p \in paid THEN owed[p] - Monthly ELSE owed[p]]
         /\ sending' = IF paid = {} THEN Declined(sending) ELSE Done(sending)
         /\ pay_log' = IF paid = {} THEN pay_log
              ELSE [pay_log EXCEPT !.booked = @ \cup {[body |-> sending.body, paid |-> paid]}]
  /\ UNCHANGED <<plans, month, offered, batch>>

\* The callback closes the sheet, whoever has opened it since.
AnswerBatchPayment ==
  /\ \/ /\ AnsweredWell(sending) /\ batch' = ResetBatch
        /\ UNCHANGED pay_log
     \/ /\ AnsweredBadly(sending) /\ ~AtServer(sending)
        /\ pay_log' = [pay_log EXCEPT !.failed = @ \cup {sending.body.opened}]
        /\ UNCHANGED batch
  /\ sending' = NoRequest
  /\ UNCHANGED <<plans, month, owed, offered>>

-----------------------------------------------------------------------------
(* Plans and time *)

\* soft_delete_installment, complete_installment
EndPlan(p, status) ==
  /\ plans[p] \in {"active", "completed"} \ {status}
  /\ plans' = [plans EXCEPT ![p] = status]
  /\ UNCHANGED <<month, owed, offered, batch, sending, pay_log>>

NextMonth ==
  /\ month < Tenure /\ month' = month + 1
  /\ UNCHANGED <<plans, owed, offered, batch, sending, pay_log>>

RefetchPlans ==
  /\ offered' = Offer
  /\ UNCHANGED <<plans, month, owed, batch, sending, pay_log>>

PayNext ==
  \/ OpenBatch \/ CloseBatch \/ (\E p \in Plan : ToggleItem(p))
  \/ FillBatch
  \/ (\E s \in 1 .. 3 : GoToStep(s)) \/ ConfirmBatch
  \/ ServeBatchPayment \/ AnswerBatchPayment
  \/ (\E p \in Plan, s \in {"completed", "deleted"} : EndPlan(p, s)) \/ NextMonth \/ RefetchPlans

PaySpec == PayInit /\ [][PayNext]_pay_vars

-----------------------------------------------------------------------------
(* Properties *)

PayTypeOK ==
  /\ plans \in [Plan -> {"active", "completed", "deleted"}]
  /\ month \in 0 .. Tenure
  /\ \A p \in Plan : owed[p] \in 0 .. Owed[p]
  /\ offered \subseteq Plan
  /\ batch.step \in 1 .. 3 /\ batch.items \subseteq Plan
  /\ sending = NoRequest \/ sending.stage \in {"sent", "done", "declined"}

\* A batch that is sent has an account and at least one plan (the buttons of the
\* steps are disabled without): going back and forth, or closing the sheet in any
\* step and opening it again, does not lead round the checks.
NothingEmptyIsSent ==
  AtServer(sending) => sending.body.account /\ sending.body.items # {}

\* The payments of a batch are booked together or not at all: one debt that is
\* missing or paid undoes the payments already made in the loop (bulk_payment).
BatchIsAtomic ==
  \A b \in pay_log.booked : b.paid = b.body.items

\* What is confirmed once in a sheet is booked once, unless an error was shown
\* and the user confirms again (disabled={mutation.isPending}).
ConfirmedOnce ==
  \A a, b \in pay_log.booked :
    (a.body.opened = b.body.opened /\ a.body.n < b.body.n) => b.body.retry

\* The batch payment, through all three steps and a second opening of the sheet:
\* complete when it is sent, booked whole or not at all, and not twice unasked.
PayInvariant == PayTypeOK /\ NothingEmptyIsSent /\ BatchIsAtomic /\ ConfirmedOnce
=============================================================================
