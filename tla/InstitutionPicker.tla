-------------------------- MODULE InstitutionPicker --------------------------
(***************************************************************************)
(* The form of a new account and the selector of an institution in it.     *)
(* The form keeps its fields outside the sheet; the selector, which can    *)
(* create an institution, is mounted only in an open sheet, for a type     *)
(* that has institutions, and awaits its request wherever it is by then.   *)
(* An institution stands for its type.                                     *)
(***************************************************************************)
EXTENDS FiniteSets, Naturals

CONSTANTS
  AccountKind,   \* types of accounts
  KindOf,        \* type of account -> type of its institution, or NoInstitution
  FirstKind,     \* the type a form begins with
  Preselected,   \* preselectedInstitution (no page passes one), or NoInstitution
  MaxDialogs,    \* bound: openings of the form
  MaxInstitutions,     \* bound: institutions created
  MaxAccounts    \* bound: accounts sent

NoInstitution == "no institution"
Institution == {KindOf[k] : k \in AccountKind} \ {NoInstitution}

ASSUME InstitutionAssumption ==
  /\ FirstKind \in AccountKind /\ AccountKind = DOMAIN KindOf
  /\ Preselected \in Institution \cup {NoInstitution}
  /\ MaxDialogs \in Nat /\ MaxInstitutions \in Nat /\ MaxAccounts \in Nat

VARIABLES
  dialog,       \* open, type, institution; history: how it was chosen, for which account
  selector,     \* whether its "other" form is shown
  others,       \* requests that create an institution, of the mounted selector or not
  new_account,  \* the request of the form
  accounts,     \* accounts at the server
  dialog_log    \* counters of the bounds

institution_vars == <<dialog, selector, others, new_account, accounts, dialog_log>>

NoAccountSent == [stage |-> "none", kind |-> FirstKind, institution |-> NoInstitution]

EmptyDialog(open) ==
  [open |-> open, kind |-> FirstKind, institution |-> Preselected, by |-> "page",
   nth |-> 0]

InstitutionInit ==
  /\ dialog = EmptyDialog(FALSE)
  /\ selector = [other |-> FALSE]
  /\ others = {} /\ new_account = NoAccountSent /\ accounts = {}
  /\ dialog_log = [opened |-> 0, others |-> 0, sent |-> 0, saved |-> 0]

Mounted == dialog.open /\ KindOf[dialog.kind] # NoInstitution

\* A selector that is no longer mounted loses its state and its observer, not
\* what awaits the answer.
Remount ==
  IF Mounted' THEN UNCHANGED <<selector, others>>
  ELSE /\ selector' = [other |-> FALSE]
       /\ others' = {[r EXCEPT !.own = FALSE] : r \in others}

OpenDialogOfAccount ==
  /\ ~dialog.open /\ dialog_log.opened < MaxDialogs
  /\ dialog' = [dialog EXCEPT !.open = TRUE]
  /\ dialog_log' = [dialog_log EXCEPT !.opened = @ + 1]
  /\ UNCHANGED <<selector, others, new_account, accounts>>

CloseDialogOfAccount ==
  /\ dialog.open
  /\ dialog' = [dialog EXCEPT !.open = FALSE]
  /\ Remount
  /\ UNCHANGED <<new_account, accounts, dialog_log>>

\* handleTypeChange
KeepsFaulty(old, new) == TRUE
Keeps(old, new) == KindOf[old] = KindOf[new] \/ Preselected # NoInstitution

ChangeType(k) ==
  /\ dialog.open /\ k # dialog.kind
  /\ dialog' = IF Keeps(dialog.kind, k) THEN [dialog EXCEPT !.kind = k]
               ELSE [dialog EXCEPT !.kind = k, !.institution = NoInstitution]
  /\ Remount
  /\ UNCHANGED <<new_account, accounts, dialog_log>>

\* A row of the list, or "change": the list is that of the type.
ChooseInstitution(i) ==
  /\ Mounted
  /\ \/ dialog.institution = NoInstitution /\ ~selector.other /\ i = KindOf[dialog.kind]
     \/ dialog.institution # NoInstitution /\ i = NoInstitution
  /\ dialog' = [dialog EXCEPT !.institution = i, !.by = "user", !.nth = dialog_log.saved]
  /\ UNCHANGED <<selector, others, new_account, accounts, dialog_log>>

ShowOther ==
  /\ Mounted /\ dialog.institution = NoInstitution
  /\ selector' = [selector EXCEPT !.other = ~@]
  /\ UNCHANGED <<dialog, others, new_account, accounts, dialog_log>>

\* handleCreateOther
CreateOther ==
  /\ Mounted /\ dialog.institution = NoInstitution /\ selector.other
  /\ \A r \in others : ~r.own
  /\ dialog_log.others < MaxInstitutions
  /\ others' = others \cup {[own |-> TRUE, institution |-> KindOf[dialog.kind],
                             nth |-> dialog_log.saved, done |-> FALSE]}
  /\ dialog_log' = [dialog_log EXCEPT !.others = @ + 1]
  /\ UNCHANGED <<dialog, selector, new_account, accounts>>

ServeOther(r) ==
  /\ ~r.done /\ others' = (others \ {r}) \cup {[r EXCEPT !.done = TRUE]}
  /\ UNCHANGED <<dialog, selector, new_account, accounts, dialog_log>>

\* onChange after the await: the form is set whatever it has become.
AnswerOther(r) ==
  /\ others' = others \ {r}
  /\ \/ /\ r.done
        /\ dialog' = [dialog EXCEPT !.institution = r.institution, !.nth = r.nth,
             !.by = IF KindOf[dialog.kind] = r.institution /\ dialog_log.saved = r.nth
                      THEN "user" ELSE "late"]
        /\ selector' = IF r.own THEN [selector EXCEPT !.other = FALSE]
                       ELSE selector
     \/ UNCHANGED <<dialog, selector>>
  /\ UNCHANGED <<new_account, accounts, dialog_log>>

-----------------------------------------------------------------------------
(* Saving *)

\* handleSubmit sends the institution also when its selector is not shown.
SaveAccount ==
  /\ dialog.open /\ new_account.stage = "none" /\ dialog_log.sent < MaxAccounts
  /\ new_account' = [stage |-> "sent", kind |-> dialog.kind, institution |-> dialog.institution]
  /\ dialog_log' = [dialog_log EXCEPT !.sent = @ + 1]
  /\ UNCHANGED <<dialog, selector, others, accounts>>

\* validate_institution
ValidInstitutionFaulty(kind, institution) == institution \in Institution \cup {NoInstitution}
ValidInstitution(kind, institution) == institution \in {NoInstitution, KindOf[kind]}

ServeAccount ==
  /\ new_account.stage = "sent"
  /\ LET a == [kind |-> new_account.kind, institution |-> new_account.institution]
     IN  IF ValidInstitution(a.kind, a.institution)
           THEN accounts' = accounts \cup {a} /\ new_account' = [new_account EXCEPT !.stage = "done"]
           ELSE new_account' = [new_account EXCEPT !.stage = "declined"] /\ UNCHANGED accounts
  /\ UNCHANGED <<dialog, selector, others, dialog_log>>

\* reset: the form closes with the fields of the next one.
ResetDialogFaulty == [EmptyDialog(FALSE) EXCEPT !.institution = dialog.institution,
                                                !.nth = dialog.nth, !.by = dialog.by]
ResetDialog == EmptyDialog(FALSE)

AnswerAccount ==
  /\ new_account.stage \in {"done", "declined"}
  /\ \/ /\ new_account.stage = "done" /\ dialog' = ResetDialog
        /\ dialog_log' = [dialog_log EXCEPT !.saved = @ + 1]
        /\ Remount
     \/ UNCHANGED <<dialog, selector, others, dialog_log>>
  /\ new_account' = NoAccountSent
  /\ UNCHANGED accounts

InstitutionNext ==
  \/ OpenDialogOfAccount \/ CloseDialogOfAccount \/ (\E k \in AccountKind : ChangeType(k))
  \/ (\E i \in Institution \cup {NoInstitution} : ChooseInstitution(i))
  \/ ShowOther \/ CreateOther \/ (\E r \in others : ServeOther(r) \/ AnswerOther(r))
  \/ SaveAccount \/ ServeAccount \/ AnswerAccount

InstitutionSpec == InstitutionInit /\ [][InstitutionNext]_institution_vars

-----------------------------------------------------------------------------
(* Properties *)

\* The institution in the form is of the type of the account, unless it is the
\* one of the page or an institution whose creation was answered after the type
\* had changed (handleTypeChange, "Reset institution when account type changes").
MismatchIsLate ==
  dialog.institution \in {NoInstitution, KindOf[dialog.kind]} \/ dialog.by # "user"

\* An institution chosen for one account is not in the form of the next one,
\* unless its creation was answered between the two.
NotCarriedOver ==
  (dialog.by = "user" /\ dialog.institution # NoInstitution) => dialog.nth = dialog_log.saved

\* Accounts have institutions of their own type, whatever the forms send.
AccountsMatchInstitutions ==
  \A a \in accounts : a.institution \in {NoInstitution, KindOf[a.kind]}

\* Institutions and accounts, with an institution that is created while the form
\* goes on: a mismatch is one of a late answer, stays in the form it came to, and
\* never gets into an account.
InstitutionInvariant == MismatchIsLate /\ NotCarriedOver /\ AccountsMatchInstitutions
=============================================================================
