----------------------------- MODULE EntryForms -----------------------------
(***************************************************************************)
(* The sheets and dialogs in which something is created or edited.  Those  *)
(* of debts, installments and persons keep their fields and observers      *)
(* inside the sheet, which unmounts when it is closed; those of accounts,  *)
(* transactions and transfers keep them outside.  A value is the number of *)
(* the input that gave it, 0 is empty.                                     *)
(***************************************************************************)
EXTENDS ApiMutation, FiniteSets

CONSTANTS
  MaxInputs,  \* bound: inputs of the user and changes by other clients
  MaxOpens,   \* bound: openings of the sheet
  MaxSaves    \* bound: requests

ASSUME FormAssumption == MaxInputs \in Nat /\ MaxOpens \in Nat /\ MaxSaves \in Nat

\* The fields a form shows when it creates and when it edits; one name for inputs that
\* behave alike.  The notes of a transaction, sent only if there are any, are left out.
NewLoanFields == {"name", "institution", "principal", "tenure", "start", "account"}
EditedLoanFields == {"name", "institution", "account"}
NewInstallmentFields == {"name", "merchant", "total", "months", "start", "source"}
EditedInstallmentFields == {"name", "merchant"}
NewP2PFields == {"person", "account", "amount", "notes"}
EditedP2PFields == {"notes"}
PersonFields == [create |-> {"name", "phone", "notes"}, edit |-> {"name", "phone", "notes"}]
NewAccountFields == {"name", "institution", "opening"}
EditedAccountFields == {"name", "limit", "day"}
NewTransactionFields == {"account", "type", "description", "amount", "category"}
EditedTransactionFields == {"type", "description", "amount", "category"}
TransferFields == [create |-> {"from", "to", "amount", "description"}, edit |-> {}]

FieldsOf == [loan |-> [create |-> NewLoanFields, edit |-> EditedLoanFields],
             installment |-> [create |-> NewInstallmentFields,
                              edit |-> EditedInstallmentFields],
             p2p |-> [create |-> NewP2PFields, edit |-> EditedP2PFields],
             person |-> PersonFields, transfer |-> TransferFields,
             account |-> [create |-> NewAccountFields, edit |-> EditedAccountFields],
             transaction |-> [create |-> NewTransactionFields, edit |-> EditedTransactionFields]]

\* What an edit writes besides: the name of a personal debt as it was on the screen, and
\* nothing for the linked account of an installment, which only other clients set.
SentAlong == [n \in DOMAIN FieldsOf |-> IF n = "p2p" THEN {"name"} ELSE {}]
Cleared == [n \in DOMAIN FieldsOf |-> IF n = "installment" THEN {"linked account"} ELSE {}]

\* The early returns of the handlers that submit, and the required inputs.
LoanNeeds == [create |-> {"name", "principal", "tenure", "start"}, edit |-> {"name"}]
InstallmentNeeds == [create |-> {"name", "total", "months", "start", "source"},
                     edit |-> {"name"}]
P2PNeeds == [create |-> {"person", "account", "amount"}, edit |-> {}]
PersonNeeds == [create |-> {"name"}, edit |-> {"name"}]
NewAccountNeeds == {"name"}
EditedAccountNeeds == {"name"}
NewTransactionNeeds == {"account", "description", "amount"}
EditedTransactionNeeds == {"description", "amount"}
TransferNeeds == [create |-> {"from", "to", "amount"}, edit |-> {}]

NeedsOf == [loan |-> LoanNeeds, installment |-> InstallmentNeeds, p2p |-> P2PNeeds,
            person |-> PersonNeeds, transfer |-> TransferNeeds,
            account |-> [create |-> NewAccountNeeds, edit |-> EditedAccountNeeds],
            transaction |-> [create |-> NewTransactionNeeds, edit |-> EditedTransactionNeeds]]

FormName == DOMAIN FieldsOf
InsideSheet == {"loan", "installment", "p2p", "person"}
Modes == {"create", "edit"}

VARIABLES
  form,          \* which form, its mode, whether the list below it is empty
  entry,         \* what is edited, at the server
  entry_shown,   \* the same on the screen
  fields,        \* the sheet: open, values, fields touched, leaving for another page
  form_request,  \* the observer of the mounted form
  form_orphan,   \* a request whose form has been unmounted
  form_log       \* counters of the bounds; history: drafts of which the answer was bad,
                 \* what has been created

form_vars == <<form, entry, entry_shown, fields, form_request, form_orphan, form_log>>

Field == UNION {FieldsOf[f][m] \cup SentAlong[f] \cup Cleared[f] : f \in FormName, m \in Modes}
Empty == [f \in Field |-> 0]
NoSheet == [open |-> FALSE, draft |-> Empty, touched |-> {}, base |-> Empty, leaving |-> FALSE]

FormInit ==
  /\ form = [name |-> "none", mode |-> "create", first |-> FALSE]
  /\ entry = Empty /\ entry_shown = Empty
  /\ fields = NoSheet
  /\ form_request = NoRequest /\ form_orphan = NoRequest
  /\ form_log = [inputs |-> 0, opens |-> 0, saves |-> 0, lost |-> {}, created |-> {}]

Inside == form.name \in InsideSheet

MountForm(name, mode, first) ==
  /\ form.name = "none" /\ form_log.opens = 0
  /\ FieldsOf[name][mode] # {}
  /\ first => mode = "create" /\ name \in {"loan", "installment"}
  /\ form' = [name |-> name, mode |-> mode, first |-> first]
  /\ UNCHANGED <<entry, entry_shown, fields, form_request, form_orphan, form_log>>

-----------------------------------------------------------------------------
(* The sheet *)

\* The values at an opening: those on the screen for an edit; nothing in a
\* sheet that has been unmounted; else what was left there, but for the account
\* of a transaction.
OpenedDraftFaulty ==
  IF Inside THEN IF form.mode = "edit" THEN entry_shown ELSE Empty
  ELSE IF form.mode = "edit" /\ form_log.opens = 0 THEN entry_shown
  ELSE fields.draft
OpenedDraft ==
  IF form.mode = "edit" THEN entry_shown
  ELSE IF Inside THEN Empty
  ELSE IF form.name = "transaction" THEN [fields.draft EXCEPT !["account"] = 0]
  ELSE fields.draft

OpenForm ==
  /\ form.name # "none" /\ ~fields.open /\ form_log.opens < MaxOpens
  /\ fields' = [NoSheet EXCEPT !.open = TRUE, !.draft = OpenedDraft, !.base = entry_shown]
  /\ form_log' = [form_log EXCEPT !.opens = @ + 1]
  /\ UNCHANGED <<form, entry, entry_shown, form_request, form_orphan>>

\* What the sheet loses with its content, and the observer with it.
Unmounted(sheet) ==
  IF Inside THEN [NoSheet EXCEPT !.open = sheet.open] ELSE [sheet EXCEPT !.touched = {}]

AbandonFaulty ==
  IF IsPending(form_request)
    THEN ~IsPending(form_orphan) /\ form_orphan' = form_request /\ form_request' = NoRequest
    ELSE UNCHANGED <<form_request, form_orphan>>
Abandon ==
  IF Inside /\ IsPending(form_request)
    THEN ~IsPending(form_orphan) /\ form_orphan' = form_request /\ form_request' = NoRequest
    ELSE UNCHANGED <<form_request, form_orphan>>

CloseForm ==
  /\ fields.open
  /\ fields' = Unmounted([fields EXCEPT !.open = FALSE])
  /\ Abandon
  /\ UNCHANGED <<form, entry, entry_shown, form_log>>

Typing(touched, draft) ==
  /\ fields.open /\ form_log.inputs < MaxInputs
  /\ fields' = [fields EXCEPT !.touched = @ \cup touched, !.draft = draft]
  /\ form_log' = [form_log EXCEPT !.inputs = @ + 1]
  /\ UNCHANGED <<form, entry, entry_shown, form_request, form_orphan>>

\* The buttons of a transaction's type empty its category.
Emptied(f) == IF f = "type" THEN {"category"} ELSE {}

TypeInto(f) ==
  /\ form.name # "none" /\ f \in FieldsOf[form.name][form.mode]
  /\ Typing({f}, [g \in Field |-> IF g = f THEN form_log.inputs + 1
                                  ELSE IF g \in Emptied(f) THEN 0 ELSE fields.draft[g]])

\* The user fills what the form needs and is still empty.
FillIn ==
  /\ form.name # "none"
  /\ LET missing == {f \in NeedsOf[form.name][form.mode] : fields.draft[f] = 0}
     IN  /\ missing # {}
         /\ Typing(missing, [f \in Field |-> IF f \in missing THEN form_log.inputs + 1
                                             ELSE fields.draft[f]])

\* The first row of a list that was empty replaces the empty state and the form
\* in it by others; another list changes what the screen shows and nothing else.
RefetchedFaulty(sheet) ==
  IF sheet.open /\ form.mode = "edit" THEN [sheet EXCEPT !.draft = entry] ELSE sheet
Refetched(sheet) == sheet

RefetchEntry ==
  /\ entry_shown' = entry
  /\ fields' = Refetched(fields)
  /\ UNCHANGED <<form, entry, form_request, form_orphan, form_log>>

ListFills ==
  /\ form.first /\ form' = [form EXCEPT !.first = FALSE]
  /\ fields' = Unmounted(fields)
  /\ Abandon
  /\ UNCHANGED <<entry, entry_shown, form_log>>

ChangeEntry(f) ==
  /\ form.name # "none" /\ form.mode = "edit" /\ form_log.inputs < MaxInputs
  /\ f \in FieldsOf[form.name]["edit"] \cup SentAlong[form.name] \cup Cleared[form.name]
  /\ entry' = [entry EXCEPT ![f] = form_log.inputs + 1]
  /\ form_log' = [form_log EXCEPT !.inputs = @ + 1]
  /\ UNCHANGED <<form, entry_shown, fields, form_request, form_orphan>>

-----------------------------------------------------------------------------
(* Saving *)

SubmittableFaulty == fields.open
Submittable == fields.open /\ ~IsPending(form_request)

SubmitForm ==
  /\ form.name # "none" /\ Submittable
  /\ form.mode = "create" =>
       \A f \in NeedsOf[form.name]["create"] : fields.draft[f] # 0
  /\ form_log.saves < MaxSaves
  /\ form_log' = [form_log EXCEPT !.saves = @ + 1]
  /\ form_request' = Request([n |-> form_log.saves + 1, draft |-> fields.draft,
                              touched |-> fields.touched, base |-> fields.base,
                              retry |-> fields.draft \in form_log.lost \/ fields.leaving])
  /\ UNCHANGED <<form, entry, entry_shown, fields, form_orphan>>

\* An edit writes every field of the form, and more; the others keep their values.
Edited(draft) ==
  [f \in Field |-> IF f \in FieldsOf[form.name]["edit"] \cup SentAlong[form.name] THEN draft[f]
                  ELSE IF f \in Cleared[form.name] THEN 0 ELSE entry[f]]

ServeForm ==
  \E m \in {form_request, form_orphan} :
    /\ AtServer(m)
    /\ \/ m = form_request /\ form_request' = Done(m) /\ UNCHANGED form_orphan
       \/ m = form_orphan /\ form_orphan' = Done(m) /\ UNCHANGED form_request
    /\ IF form.mode = "edit"
         THEN entry' = Edited(m.body.draft) /\ UNCHANGED form_log
         ELSE /\ form_log' = [form_log EXCEPT !.created = @ \cup {m.body}]
              /\ UNCHANGED entry
    /\ UNCHANGED <<form, entry_shown, fields>>

\* Values a create form keeps after it has been saved.
Kept == IF form.name = "transaction" THEN {"account", "type"} ELSE {}

Saved ==
  [NoSheet EXCEPT !.draft = [f \in Field |-> IF f \in Kept THEN fields.draft[f] ELSE 0]]

\* A loan that starts in the past opens its page instead of closing the sheet,
\* which stays as it is until the page has changed.
AnswerForm ==
  /\ IsPending(form_request)
  /\ \/ /\ AnsweredWell(form_request)
        /\ \/ fields' = IF form.mode = "edit" THEN Unmounted([fields EXCEPT !.open = FALSE])
                        ELSE Saved
           \/ form.name = "loan" /\ form.mode = "create"
              /\ fields' = [fields EXCEPT !.leaving = TRUE]
        /\ UNCHANGED form_log
     \/ /\ AnsweredBadly(form_request) /\ ~AtServer(form_request)
        /\ form_log' = [form_log EXCEPT !.lost = @ \cup {form_request.body.draft}]
        /\ UNCHANGED fields
  /\ form_request' = NoRequest
  /\ UNCHANGED <<form, entry, entry_shown, form_orphan>>

\* Callbacks of mutate do not run for a form that is gone.
OrphanAnswered ==
  /\ IsPending(form_orphan) /\ ~AtServer(form_orphan)
  /\ form_orphan' = NoRequest
  /\ UNCHANGED <<form, entry, entry_shown, fields, form_request, form_log>>

LeaveForPage ==
  /\ fields.leaving
  /\ fields' = NoSheet
  /\ form' = [form EXCEPT !.name = "none"]
  /\ Abandon
  /\ UNCHANGED <<entry, entry_shown, form_log>>

FormNext ==
  \/ \E n \in FormName, m \in Modes, first \in BOOLEAN : MountForm(n, m, first)
  \/ OpenForm \/ CloseForm \/ FillIn \/ (\E f \in Field : TypeInto(f) \/ ChangeEntry(f))
  \/ RefetchEntry \/ ListFills
  \/ SubmitForm \/ ServeForm \/ AnswerForm \/ OrphanAnswered \/ LeaveForPage

FormSpec == FormInit /\ [][FormNext]_form_vars

-----------------------------------------------------------------------------
(* Properties *)

FormTypeOK ==
  /\ form.name \in FormName \cup {"none"} /\ form.mode \in Modes /\ form.first \in BOOLEAN
  /\ \A d \in {entry, entry_shown, fields.draft, fields.base} :
       d \in [Field -> 0 .. form_log.inputs]
  /\ fields.open \in BOOLEAN /\ fields.leaving \in BOOLEAN /\ fields.touched \subseteq Field
  /\ \A m \in {form_request, form_orphan} :
       m = NoRequest \/ (m.stage \in {"sent", "done"} /\ m.body.n \in 1 .. form_log.saves)
  /\ IsPending(form_orphan) => form.name \in InsideSheet \cup {"none"}

\* What was entered once is created once (disabled={isPending} of the forms,
\* resets after success), unless the user saves again after an error, or in the
\* sheet of a loan that is about to make way for the page of that loan.
CreatedOnce ==
  \A a, b \in form_log.created : (a.draft = b.draft /\ a.n < b.n) => b.retry

\* What an edit empties without the user having emptied it: the linked account of an
\* installment (the form sends null, update_installment writes it), and the category of a
\* transaction whose type was chosen.
EmptiedBy(f, touched) ==
  f \in Cleared[form.name] \/ \E g \in touched : f \in Emptied(g)

\* An edit sends every field of the form, and yet changes only what the user has
\* touched since the sheet was opened, if the screen was not behind the server:
\* no value of an earlier opening gets in, and what changes untouched is emptied with a
\* field that was touched, or the one field that every edit of an installment clears.
OnlyTouchedFieldsChange ==
  [][(AtServer(form_request) /\ form_request'.stage = "done" /\ form.mode = "edit")
       => \A f \in Field : \/ entry'[f] = entry[f]
                            \/ f \in form_request.body.touched
                            \/ (entry'[f] = 0 /\ EmptiedBy(f, form_request.body.touched))
                            \/ form_request.body.base[f] # entry[f]]_form_vars

\* What the user has typed into an open sheet stays until the user types or
\* closes, the form's own request is answered, or the form is replaced: a
\* refetch of the list or of the entry behind the sheet does not touch it.
TypedIsKept ==
  [][\A f \in fields.touched :
       (fields.open /\ fields'.open /\ fields'.draft[f] # fields.draft[f])
         => \/ form_log'.inputs # form_log.inputs
            \/ IsPending(form_request) /\ ~IsPending(form_request')
            \/ form' # form]_form_vars

\* The forms and what they create, with answers that come late or never.
FormInvariant == FormTypeOK /\ CreatedOnce

\* The fields of the forms, with refetches and changes by others behind them:
\* an edit changes what was touched, and what was typed stays.
FormPromises == OnlyTouchedFieldsChange /\ TypedIsKept
=============================================================================
