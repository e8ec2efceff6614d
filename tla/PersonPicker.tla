---------------------------- MODULE PersonPicker -----------------------------
(***************************************************************************)
(* The form of a personal debt: it picks a person, or creates one in place *)
(* while the rest of the form goes on, or is opened for the person of an   *)
(* earlier debt; and it picks an account of the currency of the debt, which *)
(* stands for the account.  Elsewhere the person may be deleted, and a debt *)
(* marked paid, deleted or made active again.  The server reads in one     *)
(* statement, writes in another, and may answer before it commits; a       *)
(* person's number is taken when the row is written.                       *)
(***************************************************************************)
EXTENDS FiniteSets, Naturals

CONSTANTS
  Person,     \* all persons there can be, by number
  Known,      \* those the household has
  Owing,      \* those of them with a debt
  Elsewhere,  \* those another client is creating
  PageSize,   \* persons the form is given
  Currency,
  DefaultCurrency,
  MaxShows,   \* bound: openings of the form
  MaxDebts,   \* bound: debts sent
  MaxBirths   \* bound: persons created in place

ASSUME PersonAssumption ==
  /\ Person \subseteq Nat \ {0} /\ Known \subseteq Person /\ Owing \subseteq Known
  /\ Elsewhere \subseteq Person \ Known /\ PageSize \in Nat
  /\ DefaultCurrency \in Currency
  /\ MaxShows \in Nat /\ MaxDebts \in Nat /\ MaxBirths \in Nat

VARIABLES
  people,        \* at the server: "unborn", "pending" until committed, "active", "deleted",
                 \* "void" if rolled back
  listed_people, \* the persons the form lists
  debt_form,     \* the fields, and the number of the opening; history: by whom the person
                 \* was chosen in which opening, whether the currency was changed after the account
  births,        \* requests that create a person in place, and whether they have been answered
  new_debts,     \* requests that create a debt
  removals,      \* requests that delete a person
  debts_of,      \* debts at the server; history: whether a debt was made active after its
                 \* person had been deleted
  person_log     \* counters of the bounds; history: persons whose deletion overlapped with a
                 \* debt, persons whom a late commit pushed off the first page

person_vars == <<people, listed_people, debt_form, births, new_debts, removals, debts_of,
                 person_log>>

Nobody == 0
NoChoice == "no account"
Active == {p \in Person : people[p] = "active"}

\* list_persons by number: usePersons asks for the first page only.
FirstPage == {p \in Active : Cardinality({q \in Active : q < p}) < PageSize}

EmptyForm(open, nth) ==
  [open |-> open, nth |-> nth, person |-> Nobody, by |-> "user", from |-> nth, inline |-> FALSE,
   currency |-> DefaultCurrency, account |-> NoChoice, switched |-> FALSE]

PersonInit ==
  /\ people = [p \in Person |-> IF p \in Known THEN "active"
                                ELSE IF p \in Elsewhere THEN "pending" ELSE "unborn"]
  /\ listed_people = FirstPage
  /\ debt_form = EmptyForm(FALSE, 0)
  /\ births = [n : {0}, nth : {0}, stage : {"done"}, person : Elsewhere, heard : {TRUE}]
  /\ new_debts = {} /\ removals = {}
  /\ debts_of = [n : {MaxDebts}, person : Owing, by : {"user"}, named : {TRUE},
                 currency : {DefaultCurrency}, account : {DefaultCurrency}, switched : {FALSE},
                 status : {"active"}, revived : {FALSE}]
  /\ person_log = [births |-> 0, debts |-> 0, overlapped |-> {}, pushed |-> {}]

-----------------------------------------------------------------------------
(* The form *)

\* The content of the sheet mounts with empty fields and new observers, or with the
\* person of a debt on the screen, which may list debts that are over.
ShowForm(p) ==
  /\ ~debt_form.open /\ debt_form.nth < MaxShows
  /\ debt_form' = [EmptyForm(TRUE, debt_form.nth + 1) EXCEPT
                     !.person = p, !.by = IF p = Nobody THEN "user" ELSE "preselected"]
  /\ UNCHANGED <<people, listed_people, births, new_debts, removals, debts_of, person_log>>

HideForm ==
  /\ debt_form.open
  /\ debt_form' = EmptyForm(FALSE, debt_form.nth)
  /\ UNCHANGED <<people, listed_people, births, new_debts, removals, debts_of, person_log>>

\* handlePersonSelectChange: a person of the list, or "__add_new__", which keeps the
\* person chosen before.
SelectPerson(p) ==
  /\ debt_form.open
  /\ debt_form' = [debt_form EXCEPT !.person = p, !.by = "user", !.from = debt_form.nth,
                                    !.inline = FALSE]
  /\ UNCHANGED <<people, listed_people, births, new_debts, removals, debts_of, person_log>>

ExpandInline ==
  /\ debt_form.open /\ ~debt_form.inline
  /\ debt_form' = [debt_form EXCEPT !.inline = TRUE]
  /\ UNCHANGED <<people, listed_people, births, new_debts, removals, debts_of, person_log>>

CollapseInline ==
  /\ debt_form.open /\ debt_form.inline
  /\ debt_form' = [debt_form EXCEPT !.inline = FALSE]
  /\ UNCHANGED <<people, listed_people, births, new_debts, removals, debts_of, person_log>>

\* The accounts offered; changing the currency keeps the account.
OfferedFaulty(currency) == Currency
Offered(currency) == {currency}

SelectCurrency(c) ==
  /\ debt_form.open /\ c # debt_form.currency
  /\ debt_form' = [debt_form EXCEPT !.currency = c, !.switched = debt_form.account # NoChoice]
  /\ UNCHANGED <<people, listed_people, births, new_debts, removals, debts_of, person_log>>

SelectAccount(a) ==
  /\ debt_form.open /\ a \in Offered(debt_form.currency)
  /\ debt_form' = [debt_form EXCEPT !.account = a, !.switched = FALSE]
  /\ UNCHANGED <<people, listed_people, births, new_debts, removals, debts_of, person_log>>

\* isPending of the form's own mutation.
OfForm(requests) == {r \in requests : r.nth = debt_form.nth /\ ~r.heard}

\* handleInlinePersonSave
SavePerson ==
  /\ debt_form.open /\ debt_form.inline /\ OfForm(births) = {}
  /\ person_log.births < MaxBirths
  /\ births' = births \cup {[n |-> person_log.births, nth |-> debt_form.nth, stage |-> "sent",
                             person |-> Nobody, heard |-> FALSE]}
  /\ person_log' = [person_log EXCEPT !.births = @ + 1]
  /\ UNCHANGED <<people, listed_people, debt_form, new_debts, removals, debts_of>>

\* create_person: refused for the role, or written under the next number.
ServePerson(r) ==
  /\ r.stage = "sent"
  /\ \/ /\ births' = (births \ {r}) \cup {[r EXCEPT !.stage = "declined"]}
        /\ UNCHANGED people
     \/ \E p \in Person :
          /\ people[p] = "unborn" /\ \A q \in Person : people[q] = "unborn" => p <= q
          /\ people' = [people EXCEPT ![p] = "pending"]
          /\ births' = (births \ {r}) \cup {[r EXCEPT !.stage = "done", !.person = p]}
  /\ UNCHANGED <<listed_people, debt_form, new_debts, removals, debts_of, person_log>>

\* get_db_session: the transaction ends, well or with a rollback.
CommitPerson(r, done) ==
  /\ r.stage = "done"
  /\ people' = [people EXCEPT ![r.person] = IF done THEN "active" ELSE "void"]
  /\ person_log' = [person_log EXCEPT !.pushed = @ \cup (FirstPage \ FirstPage')]
  /\ births' = (births \ {r}) \cup (IF r.heard THEN {} ELSE {[r EXCEPT !.stage = "over"]})
  /\ UNCHANGED <<listed_people, debt_form, new_debts, removals, debts_of>>

\* The callback of mutate runs while the form is mounted that gave it; whatever
\* has been chosen there since is replaced.
HearsFaulty(r) == debt_form.open
Hears(r) == debt_form.open /\ r.nth = debt_form.nth

\* A request may fail on its way, there or back; one that was answered well has been
\* served.  What is still under way at the server goes on.
Heard(r, requests, goes_on) ==
  (requests \ {r}) \cup (IF r.stage \in goes_on THEN {[r EXCEPT !.heard = TRUE]} ELSE {})

AnswerPerson(r, well) ==
  /\ ~r.heard /\ (well => r.stage \in {"done", "over"})
  /\ births' = Heard(r, births, {"sent", "done"})
  /\ debt_form' = IF well /\ Hears(r)
       THEN [debt_form EXCEPT !.person = r.person, !.by = "inline", !.from = r.nth,
                              !.inline = FALSE]
       ELSE debt_form
  /\ UNCHANGED <<people, listed_people, new_debts, removals, debts_of, person_log>>

ListPeople ==
  /\ listed_people # FirstPage /\ listed_people' = FirstPage
  /\ UNCHANGED <<people, debt_form, births, new_debts, removals, debts_of, person_log>>

\* handleSubmit.  The name of the debt has the name of the person if the person
\* is listed, and no name if not.
SubmitDebt ==
  /\ debt_form.open /\ OfForm(new_debts) = {}
  /\ debt_form.person # Nobody /\ debt_form.account # NoChoice
  /\ person_log.debts < MaxDebts
  /\ new_debts' = new_debts \cup
       {[n |-> person_log.debts, nth |-> debt_form.nth, stage |-> "sent",
         heard |-> FALSE, person |-> debt_form.person, by |-> debt_form.by,
         named |-> debt_form.person \in listed_people,
         currency |-> debt_form.currency, account |-> debt_form.account,
         switched |-> debt_form.switched]}
  /\ person_log' = [person_log EXCEPT !.debts = @ + 1]
  /\ UNCHANGED <<people, listed_people, debt_form, births, removals, debts_of>>

-----------------------------------------------------------------------------
(* create_p2p_debt; mark_paid, soft_delete_debt, reactivate_debt; delete_person,   *)
(* has_active_debts, soft_delete_person                                         *)

FoundFaulty(p) == TRUE
Found(p) == people[p] = "active"

\* Transactions about a person that have read and not ended yet.
BeingDeleted(p) == \E s \in removals : s.person = p /\ s.stage = "read"
BeingOwed(p) ==
  \/ \E r \in new_debts : r.person = p /\ r.stage = "read"
  \/ \E d \in debts_of : d.person = p /\ d.status = "reviving"

Noted(p, overlaps) ==
  IF overlaps THEN [person_log EXCEPT !.overlapped = @ \cup {p}] ELSE person_log

ReadPerson(r) ==
  /\ r.stage = "sent"
  /\ new_debts' = (new_debts \ {r}) \cup
       {[r EXCEPT !.stage = IF Found(r.person) THEN "read" ELSE "declined"]}
  /\ person_log' = Noted(r.person, BeingDeleted(r.person))
  /\ UNCHANGED <<people, listed_people, debt_form, births, removals, debts_of>>

CommitDebt(r, done) ==
  /\ r.stage = "read"
  /\ debts_of' = IF done
       THEN debts_of \cup {[n |-> r.n, person |-> r.person, by |-> r.by, named |-> r.named,
                            currency |-> r.currency, account |-> r.account,
                            switched |-> r.switched, status |-> "active", revived |-> FALSE]}
       ELSE debts_of
  /\ new_debts' = (new_debts \ {r}) \cup (IF r.heard THEN {} ELSE {[r EXCEPT !.stage = "over"]})
  /\ UNCHANGED <<people, listed_people, debt_form, births, removals, person_log>>

\* Well answered, the form closes; refused or lost, it stays.
AnswerDebt(r, well) ==
  /\ ~r.heard /\ (well => r.stage \in {"read", "over"})
  /\ new_debts' = Heard(r, new_debts, {"sent", "read"})
  /\ debt_form' = IF well /\ Hears(r) THEN EmptyForm(FALSE, debt_form.nth) ELSE debt_form
  /\ UNCHANGED <<people, listed_people, births, removals, debts_of, person_log>>

\* Marked or found paid, or deleted, at once.
SettleDebt(d) ==
  /\ \E status \in {"paid", "deleted"} :
       /\ status = "paid" => d.status = "active"
       /\ d.status # "deleted"
       /\ debts_of' = (debts_of \ {d}) \cup {[d EXCEPT !.status = status]}
  /\ UNCHANGED <<people, listed_people, debt_form, births, new_debts, removals, person_log>>

\* reactivate_debt looks at the debt only, never at its person.
ReactivateDebt(d) ==
  /\ d.status = "paid"
  /\ debts_of' = (debts_of \ {d}) \cup
       {[d EXCEPT !.status = "reviving", !.revived = @ \/ people[d.person] = "deleted"]}
  /\ person_log' = Noted(d.person, BeingDeleted(d.person))
  /\ UNCHANGED <<people, listed_people, debt_form, births, new_debts, removals>>

CommitRevival(d, done) ==
  /\ d.status = "reviving"
  /\ debts_of' = (debts_of \ {d}) \cup {[d EXCEPT !.status = IF done THEN "active" ELSE "paid"]}
  /\ UNCHANGED <<people, listed_people, debt_form, births, new_debts, removals, person_log>>

RemovePerson(p) ==
  /\ people[p] = "active" /\ (\A r \in removals : r.person # p)
  /\ removals' = removals \cup {[person |-> p, stage |-> "sent"]}
  /\ UNCHANGED <<people, listed_people, debt_form, births, new_debts, debts_of, person_log>>

HasActiveDebtsFaulty(p) == FALSE
HasActiveDebts(p) == \E d \in debts_of : d.person = p /\ d.status = "active"

CheckDebts(r) ==
  /\ r.stage = "sent"
  /\ removals' = (removals \ {r}) \cup
                   (IF HasActiveDebts(r.person) THEN {} ELSE {[r EXCEPT !.stage = "read"]})
  /\ person_log' = Noted(r.person, BeingOwed(r.person))
  /\ UNCHANGED <<people, listed_people, debt_form, births, new_debts, debts_of>>

CommitRemoval(r, done) ==
  /\ r.stage = "read"
  /\ people' = IF done THEN [people EXCEPT ![r.person] = "deleted"] ELSE people
  /\ removals' = removals \ {r}
  /\ UNCHANGED <<listed_people, debt_form, births, new_debts, debts_of, person_log>>

PersonNext ==
  \/ HideForm \/ ExpandInline \/ CollapseInline \/ SavePerson \/ ListPeople \/ SubmitDebt
  \/ (\E p \in {Nobody} \cup {d.person : d \in debts_of} : ShowForm(p))
  \/ (\E p \in listed_people : SelectPerson(p))
  \/ (\E c \in Currency : SelectCurrency(c) \/ SelectAccount(c))
  \/ (\E r \in births : ServePerson(r) \/ \E well \in BOOLEAN :
        CommitPerson(r, well) \/ AnswerPerson(r, well))
  \/ (\E r \in new_debts : ReadPerson(r) \/ \E well \in BOOLEAN :
        CommitDebt(r, well) \/ AnswerDebt(r, well))
  \/ (\E d \in debts_of : SettleDebt(d) \/ ReactivateDebt(d) \/ \E well \in BOOLEAN :
        CommitRevival(d, well))
  \/ (\E p \in Person : RemovePerson(p))
  \/ (\E r \in removals : CheckDebts(r) \/ \E well \in BOOLEAN : CommitRemoval(r, well))

PersonSpec == PersonInit /\ [][PersonNext]_person_vars

-----------------------------------------------------------------------------
(* Properties *)

\* An active debt of a deleted person comes from a deletion that overlapped with the
\* creation or reactivation of a debt, each having read before the other wrote, or from
\* a paid debt that was made active after the deletion, which reactivate_debt does not
\* refuse; never from a creation and a deletion one after the other (has_active_debts).
DeletedHaveNoDebts ==
  \A d \in debts_of :
    d.status = "active" /\ people[d.person] = "deleted" =>
      d.person \in person_log.overlapped \/ d.revived

\* A debt whose own name has no name of its person comes only from a person who need
\* not be in the list: created in the form, taken from an earlier debt, or pushed off
\* the first page.  One who has been deleted since it was listed is refused.
NamelessAreExplained ==
  \A d \in debts_of :
    d.named \/ d.by \in {"inline", "preselected"} \/ d.person \in person_log.pushed

\* The account a debt moves is of the debt's currency, unless the currency was
\* changed after the account had been chosen.  (The server compares neither.)
AccountOfOwnCurrency ==
  \A d \in debts_of : d.account = d.currency \/ d.switched

\* The person in the form was chosen, created or given since the form was opened: a
\* late answer for a form that was closed does not fill the next one.
ChosenInThisForm ==
  debt_form.person # Nobody => debt_form.from = debt_form.nth

\* Persons and their debts, with a list that is out of date, a person created in
\* place and answered late or never, and deletions that overlap with creations.
PersonInvariant ==
  DeletedHaveNoDebts /\ NamelessAreExplained /\ ChosenInThisForm /\ AccountOfOwnCurrency
=============================================================================
