---------------------------- MODULE MCListScreens ----------------------------
(***************************************************************************)
(* The lists, forms and wizards of the client as one instance for TLC; a   *)
(* behaviour is one of one screen.                                         *)
(***************************************************************************)
EXTENDS BulkSelection, BulkPay, EntryForms, ImportWizard, PersonPicker, InstitutionPicker

VARIABLE screen

OwedOf == [p \in {1, 2} |-> p]

\* Statements that overlap in a row: parsed at once, after a mapping, not at all.
StatementRows == [june |-> {"r1", "bad"}, july |-> {"r1", "r2"}, scan |-> {}, xls |-> {}]
Unreadable == [june |-> {"bad"}, july |-> {}, scan |-> {}, xls |-> {}]
Layouts == [june |-> "known", july |-> "unknown", scan |-> "scanned", xls |-> "refused"]

Kinds == [bank_account |-> "bank", credit_card |-> "bank",
          digital_wallet |-> "digital_wallet_provider", cash_wallet |-> NoInstitution]

\* The debt of a person is explored with one thing moving at a time besides the debts:
\* the list, by deletions and by persons of another client; the person created in the
\* form; or the accounts, which share no field with the persons.
NoneCreatedInline == births' \subseteq births
OthersStay == \A p \in Elsewhere \cup Known : people'[p] = people[p]
OneCurrency == debt_form'.currency = DefaultCurrency

PersonScreensNext ==
  \/ screen = "person list" /\ PersonNext /\ OneCurrency /\ NoneCreatedInline
  \/ screen = "person inline" /\ PersonNext /\ OneCurrency /\ OthersStay
  \/ screen = "person account" /\ PersonNext /\ NoneCreatedInline /\ UNCHANGED <<people, removals>>

ListScreensInit ==
  /\ screen \in {"bulk", "bulk pay", "form", "import", "person list", "person inline",
                 "person account", "institution"}
  /\ BulkInit /\ PayInit /\ FormInit /\ ImportInit /\ PersonInit /\ InstitutionInit

ListScreensNext ==
  /\ UNCHANGED screen
  /\ \/ /\ screen = "bulk" /\ BulkNext
        /\ UNCHANGED <<pay_vars, form_vars, import_vars, person_vars, institution_vars>>
     \/ /\ screen = "bulk pay" /\ PayNext
        /\ UNCHANGED <<bulk_vars, form_vars, import_vars, person_vars, institution_vars>>
     \/ /\ screen = "form" /\ FormNext
        /\ UNCHANGED <<bulk_vars, pay_vars, import_vars, person_vars, institution_vars>>
     \/ /\ screen = "import" /\ ImportNext
        /\ UNCHANGED <<bulk_vars, pay_vars, form_vars, person_vars, institution_vars>>
     \/ /\ PersonScreensNext
        /\ UNCHANGED <<bulk_vars, pay_vars, form_vars, import_vars, institution_vars>>
     \/ /\ screen = "institution" /\ InstitutionNext
        /\ UNCHANGED <<bulk_vars, pay_vars, form_vars, import_vars, person_vars>>

ListScreensSpec ==
  /\ ListScreensInit
  /\ [][ListScreensNext]_<<screen, bulk_vars, pay_vars, form_vars, import_vars, person_vars,
                           institution_vars>>
=============================================================================
