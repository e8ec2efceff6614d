---------------------------- MODULE PaymentSheet ----------------------------
(***************************************************************************)
(* RecordPaymentForm for one debt, in its four hosts: the card of a loan   *)
(* ("loan_card"), the pages of a loan and of a personal debt and the tab   *)
(* of personal debts ("p2p_tab").  A date stands for the period of the     *)
(* schedule it falls into.  What the screen shows of the debt is a copy    *)
(* that a refetch replaces at some time after the server has changed.      *)
(***************************************************************************)
EXTENDS Amortization, ApiMutation, FiniteSets, FiniteSetsExt

CONSTANTS
  Loan,          \* the loans under test, with the same number of periods
  BankTx,        \* transactions of the linked account
  DateOf, Near,  \* transaction -> its period; the period whose due date is near
  Typed,         \* amounts the user types
  MaxOpened,     \* bound: openings of the sheet
  MaxElsewhere   \* bound: payments by other clients

ASSUME SheetAssumption ==
  /\ Loan # {} /\ Loan \subseteq LoanType
  /\ \A l, k \in Loan : l.num_periods = k.num_periods
  /\ "none" \notin BankTx
  /\ DateOf \in [BankTx -> Nat] /\ Near \in [BankTx -> Nat]
  /\ Typed \subseteq Nat \ {0}
  /\ MaxOpened \in Nat /\ MaxElsewhere \in Nat

Period == 1 .. (CHOOSE l \in Loan : TRUE).num_periods
Hosts == {"loan_card", "loan_detail", "p2p_detail", "p2p_tab"}

VARIABLES
  host, loan,   \* where the form is mounted, and the terms of the debt
  ledger,       \* the debt at the server
  seen,         \* the debt on the screen
  scheduleRef,  \* ref of the loan page: the periods its navbar button sees paid
  sheet,        \* the form
  payment,      \* the observer of useRecordPayment in the mounted form
  orphan,       \* a payment whose form was unmounted before the answer
  log           \* counters of the bounds; history: the last final payment offered

sheet_vars == <<host, loan, ledger, seen, scheduleRef, sheet, payment, orphan, log>>

None == "none"
IsLoan == host \in {"loan_card", "loan_detail"}
NoPrefill == [period |-> 1, amount |-> 0]
Blank == [open |-> FALSE, view |-> "manual", offer |-> "blank", prefill |-> NoPrefill,
          period |-> 0, amount |-> 0, account |-> None, touched |-> FALSE,
          base |-> {}]

\* total_paid_minor, the principal in it, the periods shown as paid, status,
\* the linked account; how often each transaction has been linked.
Fresh == [total |-> 0, principal |-> 0, paid |-> {}, status |-> "active",
          account |-> None, links |-> [t \in BankTx |-> 0]]

SheetInit ==
  /\ host = None /\ loan = CHOOSE l \in Loan : TRUE
  /\ ledger = Fresh /\ seen = Fresh /\ scheduleRef = {}
  /\ sheet = Blank /\ payment = NoRequest /\ orphan = NoRequest
  /\ log = [opened |-> 0, elsewhere |-> 0, final |-> "none"]

ScheduleOfLoan == [l \in Loan |-> GenerateSchedule(l)]
Due(i) == ScheduleOfLoan[loan][i].payment_minor
TotalWithInterest == loan.num_periods * PeriodicPayment(loan)
Unpaid(paid) == Period \ paid

\* remainingPayments of the loan page, from what is on the screen.
RemainingFaulty == Cardinality(Unpaid(seen.paid)) * PeriodicPayment(loan)
Remaining == IF seen.total > TotalWithInterest THEN 0 ELSE TotalWithInterest - seen.total

\* One of the hosts mounts with the debt loaded; personal debts bear no interest.
MountHost(h, l, account) ==
  /\ host = None
  /\ h \in {"p2p_detail", "p2p_tab"} => l.rate = 0 /\ account = None
  /\ host' = h /\ loan' = l
  /\ ledger' = [Fresh EXCEPT !.account = account]
  /\ seen' = ledger'
  /\ UNCHANGED <<scheduleRef, sheet, payment, orphan, log>>

-----------------------------------------------------------------------------
(* The server: record_payment, get_match_suggestions *)

\* The interest part of a payment dated in period i; one dated outside of the
\* schedule is taken for the first row.
RowAt(i) == ScheduleOfLoan[loan][IF i \in Period THEN i ELSE 1]
InterestPartFaulty(amount, i) ==
  IF loan.rate = 0 THEN 0 ELSE RowAt(i).interest_minor
InterestPart(amount, i) ==
  LET row == RowAt(i)
  IN  IF loan.rate = 0 \/ row.payment_minor = 0 THEN 0
      ELSE (amount * row.interest_minor + row.payment_minor \div 2) \div row.payment_minor

\* A loan shows the period of the payment as paid, a personal debt the
\* earliest of its splits that is not.
SettledBy(body) ==
  IF IsLoan THEN {body.period} \cap Period
  ELSE IF Unpaid(ledger.paid) = {} THEN {} ELSE {Min(Unpaid(ledger.paid))}

Accepted(body) ==
  LET rest == loan.principal_minor - ledger.principal
  IN  /\ rest > 0
      /\ loan.rate = 0 => body.amount <= rest
      /\ body.link # None => body.account = "linked"

Apply(body) ==
  LET principal == ledger.principal + body.amount - InterestPart(body.amount, body.period)
  IN  [ledger EXCEPT
         !.total = @ + body.amount,
         !.principal = principal,
         !.paid = @ \cup SettledBy(body),
         !.status = IF principal >= loan.principal_minor THEN "paid_off" ELSE @,
         !.links = [t \in BankTx |-> IF t = body.link THEN @[t] + 1 ELSE @[t]]]

\* Transactions near the due dates of the next three unpaid periods that ask for
\* something: only debits are looked at.
SuggestionsFaulty(debt) ==
  IF debt.account = None THEN {} ELSE {t \in BankTx : Near[t] \in Period}
Suggestions(debt) ==
  LET next == {i \in Unpaid(debt.paid) : Cardinality({j \in Unpaid(debt.paid) : j < i}) < 3}
  IN  IF debt.account = None THEN {}
      ELSE {t \in BankTx : Near[t] \in next /\ Due(Near[t]) > 0}

Outcome(m) == IF Accepted(m.body) THEN Done(m) ELSE Declined(m)

\* The server works on a payment, of the mounted form or of one that is gone.
Serve(m) ==
  /\ ledger' = IF Accepted(m.body) THEN Apply(m.body) ELSE ledger
  /\ log' = IF m.body.final = "no" THEN log
            ELSE [log EXCEPT !.final =
                    IF ~Accepted(m.body) THEN m.body.final
                    ELSE IF ledger'.status = "paid_off" THEN "completed"
                    ELSE "left open"]

ServePayment ==
  /\ \/ AtServer(payment) /\ Serve(payment) /\ payment' = Outcome(payment) /\ UNCHANGED orphan
     \/ AtServer(orphan) /\ Serve(orphan) /\ orphan' = Outcome(orphan) /\ UNCHANGED payment
  /\ UNCHANGED <<host, loan, seen, scheduleRef, sheet>>

\* Another client pays a period, or changes the linked account.
PayElsewhere(i) ==
  /\ host # None /\ log.elsewhere < MaxElsewhere
  /\ LET body == [period |-> i, amount |-> Due(i), account |-> "linked", link |-> None]
     IN  Due(i) > 0 /\ Accepted(body) /\ ledger' = Apply(body)
  /\ log' = [log EXCEPT !.elsewhere = @ + 1]
  /\ UNCHANGED <<host, loan, seen, scheduleRef, sheet, payment, orphan>>

RelinkElsewhere ==
  /\ host # None /\ IsLoan /\ log.elsewhere < MaxElsewhere
  /\ ledger' = [ledger EXCEPT !.account = IF @ = None THEN "linked" ELSE None]
  /\ log' = [log EXCEPT !.elsewhere = @ + 1]
  /\ UNCHANGED <<host, loan, seen, scheduleRef, sheet, payment, orphan>>

-----------------------------------------------------------------------------
(* The screen *)

\* The effects of the form when its host renders with another debt: the
\* fields are reset if a default has changed, the view follows the matches.
ResetsFaulty(old, new) == TRUE
Resets(old, new) == old.account # new.account

Rerendered(form, old, new) ==
  LET matched == IsLoan /\ Suggestions(new) # {}
      defaults == IF form.open /\ Resets(old, new)
                    THEN [form EXCEPT !.period = form.prefill.period,
                            !.amount = form.prefill.amount,
                            !.account = new.account, !.touched = FALSE]
                    ELSE form
  IN  IF form.open /\ Cardinality(Suggestions(old)) # Cardinality(Suggestions(new))
        THEN [defaults EXCEPT !.view = IF matched THEN "match" ELSE "manual"]
        ELSE defaults

\* scheduleRef.current = schedule, after every render with another schedule.
RefFaulty(debt) == IF debt.status = seen.status THEN scheduleRef ELSE debt.paid
Ref(debt) == debt.paid

Refetch ==
  /\ host # None
  /\ seen # ledger
  /\ seen' = ledger
  /\ sheet' = Rerendered(sheet, seen, ledger)
  /\ scheduleRef' = Ref(ledger)
  /\ UNCHANGED <<host, loan, ledger, payment, orphan, log>>

OpenSheet(offer, period, amount) ==
  /\ ~sheet.open
  /\ log.opened < MaxOpened
  /\ log' = [log EXCEPT !.opened = @ + 1]
  /\ sheet' = [open |-> TRUE,
               view |-> IF IsLoan /\ Suggestions(seen) # {} THEN "match" ELSE "manual",
               offer |-> offer, prefill |-> [period |-> period, amount |-> amount],
               period |-> period, amount |-> amount, account |-> seen.account,
               touched |-> FALSE, base |-> seen.paid]
  /\ UNCHANGED <<host, loan, ledger, seen, scheduleRef, payment, orphan>>

\* NextPaymentPreview of the card; the navbar button of the loan page, which
\* sees the schedule through the ref.
OfferNext ==
  \/ /\ host = "loan_card" /\ seen.status = "active"
     /\ Unpaid(seen.paid) # {}
     /\ LET i == Min(Unpaid(seen.paid)) IN OpenSheet("next", i, Due(i))
  \/ /\ host = "loan_detail" /\ seen.status = "active"
     /\ IF Unpaid(scheduleRef) = {}
          THEN OpenSheet("blank", 1, 0)
          ELSE LET i == Min(Unpaid(scheduleRef)) IN OpenSheet("next", i, Due(i))

\* "Record final payment & complete".  Without an unpaid row no date is offered.
OfferRest ==
  /\ host = "loan_detail" /\ seen.status = "active"
  /\ LET i == IF Unpaid(seen.paid) = {} THEN 1 ELSE Min(Unpaid(seen.paid))
     IN  OpenSheet("rest", i, Remaining)

\* The pages of personal debts offer nothing; the tab asks for a rest only.
OfferBlank ==
  /\ \/ host = "p2p_detail"
     \/ host = "p2p_tab" /\ seen.total < loan.principal_minor
  /\ OpenSheet("blank", 1, 0)

Edit ==
  /\ sheet.open /\ sheet.view = "manual"
  /\ \E i \in Period, a \in Typed, account \in {"linked", "other"} :
       /\ sheet' = [sheet EXCEPT !.period = i, !.amount = a, !.account = account,
                                 !.touched = TRUE]
       /\ sheet' # sheet
  /\ UNCHANGED <<host, loan, ledger, seen, scheduleRef, payment, orphan, log>>

SwitchView ==
  /\ sheet.open /\ IsLoan /\ Suggestions(seen) # {}
  /\ sheet' = [sheet EXCEPT !.view = IF @ = "match" THEN "manual" ELSE "match"]
  /\ UNCHANGED <<host, loan, ledger, seen, scheduleRef, payment, orphan, log>>

\* The tab unmounts the form with the state of the sheet, and its observer.
CloseSheet ==
  /\ sheet.open
  /\ sheet' = Blank
  /\ IF host = "p2p_tab" /\ IsPending(payment)
       THEN ~IsPending(orphan) /\ orphan' = payment /\ payment' = NoRequest
       ELSE UNCHANGED <<payment, orphan>>
  /\ UNCHANGED <<host, loan, ledger, seen, scheduleRef, log>>

-----------------------------------------------------------------------------
(* Sending, and the answers *)

\* final: the untouched offer of the rest, from a screen that is up to date or not.
Body(period, amount, account, link) ==
  [period |-> period, amount |-> amount, account |-> account, link |-> link,
   relinks |-> link # None /\ seen.links[link] > 0,
   final |-> IF sheet.offer # "rest" \/ sheet.touched \/ link # None THEN "no"
             ELSE IF seen = ledger THEN "fresh" ELSE "stale"]

\* disabled={mutation.isPending} of both views' buttons.
FormReady == sheet.open /\ ~IsPending(payment)

ConfirmMatch(t) ==
  /\ FormReady /\ sheet.view = "match"
  /\ IsLoan /\ t \in Suggestions(seen)
  /\ payment' = Request(Body(DateOf[t], Due(Near[t]),
                             IF seen.account # None THEN seen.account ELSE sheet.account, t))
  /\ UNCHANGED <<host, loan, ledger, seen, scheduleRef, sheet, orphan, log>>

SubmitPayment ==
  /\ FormReady /\ sheet.view = "manual"
  /\ sheet.amount > 0 /\ sheet.period > 0 /\ sheet.account # None
  /\ payment' = Request(Body(sheet.period, sheet.amount, sheet.account, None))
  /\ UNCHANGED <<host, loan, ledger, seen, scheduleRef, sheet, orphan, log>>

\* onSuccess closes whatever sheet is open; of an unmounted form nothing runs.
ClosedByFaulty(mounted) == Blank
ClosedBy(mounted) == IF mounted THEN Blank ELSE sheet

AnswerPayment ==
  /\ \/ /\ IsPending(payment) /\ payment' = NoRequest /\ UNCHANGED orphan
        /\ \/ AnsweredWell(payment) /\ sheet' = ClosedBy(TRUE)
           \/ AnsweredBadly(payment) /\ ~AtServer(payment) /\ UNCHANGED sheet
     \/ /\ IsPending(orphan) /\ ~AtServer(orphan) /\ orphan' = NoRequest /\ UNCHANGED payment
        /\ \/ AnsweredWell(orphan) /\ sheet' = ClosedBy(FALSE)
           \/ AnsweredBadly(orphan) /\ UNCHANGED sheet
  /\ UNCHANGED <<host, loan, ledger, seen, scheduleRef, log>>

SheetNext ==
  \/ \E h \in Hosts, l \in Loan, account \in {None, "linked"} : MountHost(h, l, account)
  \/ ServePayment \/ (\E i \in Period : PayElsewhere(i)) \/ RelinkElsewhere
  \/ Refetch \/ OfferNext \/ OfferRest \/ OfferBlank \/ Edit \/ SwitchView \/ CloseSheet
  \/ (\E t \in BankTx : ConfirmMatch(t)) \/ SubmitPayment \/ AnswerPayment

SheetSpec == SheetInit /\ [][SheetNext]_sheet_vars

-----------------------------------------------------------------------------
(* Properties *)

SheetTypeOK ==
  /\ host \in Hosts \cup {None} /\ loan \in Loan
  /\ \A debt \in {ledger, seen} :
       /\ debt.total \in Nat /\ debt.principal \in 0 .. debt.total
       /\ debt.paid \subseteq Period
       /\ debt.status \in {"active", "paid_off"} /\ debt.account \in {None, "linked"}
       /\ debt.links \in [BankTx -> Nat]
  /\ scheduleRef \subseteq Period
  /\ sheet.view \in {"match", "manual"} /\ sheet.offer \in {"blank", "next", "rest"}
  /\ sheet.period \in Period \cup {0} /\ sheet.amount \in Nat
  /\ sheet.account \in {None, "linked", "other"}
  /\ \A m \in {payment, orphan} :
       m.stage \in {"none", "sent", "done", "declined"} /\ (IsPending(m) => m.body.amount > 0)

\* What "Record payment" offers and the user leaves as it is never is a period
\* that the screen showed as paid when the sheet opened
\* (loan-detail-content.tsx, the ref that the navbar button reads).
OfferIsUnpaid ==
  (sheet.open /\ sheet.offer = "next" /\ ~sheet.touched) => sheet.period \notin sheet.base

\* A final payment that the server accepts for a loan without interest leaves
\* the loan complete, however old the screen it was offered on.
AcceptedRestCompletes == loan.rate = 0 => log.final # "left open"

\* A screen that shows a transaction as linked does not offer to link it again,
\* but for one dated in another period than the one it was matched to:
\* the period stays unpaid and the window of its due date still holds it.
RelinkedOnlyAcrossPeriods ==
  (IsPending(payment) /\ payment.body.relinks)
    => DateOf[payment.body.link] # Near[payment.body.link]

\* A refetch never takes what the user has typed, unless it brings another
\* linked account (record-payment-form.tsx, the reset effect).
TypingSurvivesRefetch ==
  [][(sheet.open /\ sheet'.open /\ sheet.touched /\ ~sheet'.touched)
       => seen'.account # seen.account]_sheet_vars

\* In the tab, where the form is unmounted with the sheet, a late answer never
\* closes the sheet the user has opened since (p2p-tab.tsx).
LateAnswerClosesNothing ==
  [][(sheet.open /\ ~sheet'.open /\ orphan' # orphan) => IsPending(orphan')]_sheet_vars

SheetInvariant ==
  SheetTypeOK /\ OfferIsUnpaid /\ AcceptedRestCompletes /\ RelinkedOnlyAcrossPeriods

\* The sheet, on a screen that lags behind the server: what it offers and what it
\* links is right for what the screen showed, a final payment completes the loan,
\* refetches leave what was typed and late answers what was opened since.
SheetPromises == []SheetInvariant /\ TypingSurvivesRefetch /\ LateAnswerClosesNothing
=============================================================================
