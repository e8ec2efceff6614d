---------------------------- MODULE ClientHooks -----------------------------
(***************************************************************************)
(* The hooks of the client: which tables the endpoint behind each query    *)
(* reads, which ones the endpoint behind each mutation writes, and which   *)
(* queries a successful mutation invalidates.  A query stands for all keys *)
(* with its prefix, except the two whose endpoint reads other tables than  *)
(* the rest of their prefix: the match suggestions of a debt ("debts") and *)
(* the obligations of an account ("accounts").                             *)
(***************************************************************************)
EXTENDS TLC

-----------------------------------------------------------------------------
(* Queries *)

DebtQueries ==
     "debts"   :> {"debts", "debt_texts"}
  @@ "matches" :> {"debts", "transactions", "accounts"}

InstallmentQueries == "installments" :> {"installments"}
FinancingQuery == "financing_apps" :> {"installments", "accounts"}
PersonQueries == "persons" :> {"persons", "debts", "households"}
AccountQueries == "accounts" :> {"accounts", "transactions"}
NetWorthQuery == "net_worth" :> {"accounts", "transactions", "households"}
ObligationsQuery == "obligations" :> {"debts", "debt_texts", "installments"}
TransactionQueries == "transactions" :> {"transactions", "labels"}
SummaryQuery == "summary" :> {"transactions", "labels"}
TransferQueries == "transfers" :> {"transactions"}

DashboardQueries ==
  "dashboard" :> {"accounts", "transactions", "labels", "debts", "installments"}

InstitutionQueries ==
     "institutions"        :> {"institutions"}
  @@ "institution_summary" :> {"institutions", "accounts", "transactions"}

HouseholdQueries == "household_status" :> {"households"}

QueryReads ==
  DebtQueries @@ InstallmentQueries @@ FinancingQuery @@ PersonQueries @@ AccountQueries
    @@ NetWorthQuery @@ ObligationsQuery @@ TransactionQueries @@ SummaryQuery
    @@ TransferQueries @@ DashboardQueries @@ InstitutionQueries @@ HouseholdQueries

HookQuery == DOMAIN QueryReads

\* invalidateQueries matches by prefix.
Debts    == {"debts", "matches"}
Accounts == {"accounts", "obligations"}

-----------------------------------------------------------------------------
(* Mutations *)

Hook(writes, invalidates) == [writes |-> writes, invalidates |-> invalidates]

\* Two of the hooks without the invalidation of the debts themselves.
DebtHooksFaulty ==
  LET forgetful == Accounts \cup {"persons"}
  IN     "createDebt"    :> Hook({"debts", "transactions"}, forgetful)
      @@ "updateDebt"    :> Hook({"debt_texts"}, {"persons"})
      @@ [h \in {"deleteDebt", "recordPayment", "markPaid", "reactivate",
                 "pastPayments", "bulkPayment"} |->
            Hook({"debts", "transactions"}, Debts \cup forgetful)]
DebtHooks ==
     "createDebt"    :> Hook({"debts", "transactions"}, Debts \cup Accounts \cup {"persons"})
  @@ "updateDebt"    :> Hook({"debt_texts"}, Debts)
  @@ "deleteDebt"    :> Hook({"debts", "transactions"},
                             Debts \cup Accounts \cup {"persons", "transactions"})
  @@ "recordPayment" :> Hook({"debts", "transactions"}, Debts \cup Accounts \cup {"persons"})
  @@ "markPaid"      :> Hook({"debts"}, Debts \cup Accounts \cup {"persons"})
  @@ "reactivate"    :> Hook({"debts"}, Debts \cup Accounts \cup {"persons"})
  @@ "pastPayments"  :> Hook({"debts", "transactions"}, Debts \cup Accounts)
  @@ "bulkPayment"   :> Hook({"debts", "transactions"}, Debts \cup Accounts)

InstallmentHooks ==
     "createInstallment"   :> Hook({"installments"}, {"installments", "financing_apps"})
  @@ "updateInstallment"   :> Hook({"installments"}, {"installments"})
  @@ "deleteInstallment"   :> Hook({"installments"}, {"installments", "financing_apps"})
  @@ "completeInstallment" :> Hook({"installments"}, {"installments", "financing_apps"})

PersonHooks ==
  [h \in {"createPerson", "updatePerson", "deletePerson"} |-> Hook({"persons"}, {"persons"})]

TransactionHooks ==
     "createTransaction" :> Hook({"transactions"}, Accounts \cup {"transactions"})
  @@ "updateTransaction" :> Hook({"transactions"}, Accounts \cup {"transactions"})
  @@ "deleteTransaction" :> Hook({"transactions"}, Accounts \cup {"transactions"})
  @@ "bulkDelete"        :> Hook({"transactions"}, Accounts \cup {"transactions"})
  @@ "bulkCategorize"    :> Hook({"labels"}, {"transactions"})

TransferHooks ==
  [h \in {"createTransfer", "deleteTransfer"} |->
     Hook({"transactions", "accounts"}, Accounts \cup {"transfers"})]

AccountHooks ==
     "createAccount" :> Hook({"accounts", "transactions"}, Accounts \cup {"net_worth"})
  @@ "updateAccount" :> Hook({"accounts"}, Accounts \cup {"net_worth"})
  @@ "deleteAccount" :> Hook({"accounts", "transactions"}, Accounts \cup {"net_worth"})

ImportHooks ==
  "commitImport" :> Hook({"transactions"}, Accounts \cup {"transactions"})

HouseholdHooks ==
     "createHousehold" :> Hook({"households"}, {"household_status"})
  @@ "updateSettings"  :> Hook({"households"}, Accounts \cup {"dashboard", "net_worth"})

InstitutionHooks ==
  "createInstitution" :> Hook({"institutions"}, {"institutions"})

Hooks ==
  DebtHooks @@ InstallmentHooks @@ PersonHooks @@ TransactionHooks @@ TransferHooks
    @@ AccountHooks @@ ImportHooks @@ HouseholdHooks @@ InstitutionHooks

HookMutation == DOMAIN Hooks

HookAffects ==
  [h \in HookMutation |-> {q \in HookQuery : QueryReads[q] \cap Hooks[h].writes # {}}]
HookInvalidates == [h \in HookMutation |-> Hooks[h].invalidates]

-----------------------------------------------------------------------------
(* Screens *)

\* What a page has mounted, and the mutations that it or its dialogs issue.
Page(shows, issues) == [shows |-> shows, issues |-> issues]

AccountsPage ==
  Page({"accounts", "net_worth", "institutions"},
       {"createAccount", "updateAccount", "deleteAccount", "createInstitution",
        "createTransfer"})
BankPage == Page({"institution_summary"}, {"updateAccount", "deleteAccount"})
AccountPage ==
  Page({"accounts", "transactions", "obligations"},
       {"createTransaction", "updateTransaction", "deleteTransaction", "bulkDelete",
        "bulkCategorize", "createTransfer"})
TransactionsPage ==
  Page({"transactions"},
       {"createTransaction", "updateTransaction", "deleteTransaction", "bulkDelete",
        "bulkCategorize"})
TransfersPage == Page({"transfers"}, {"createTransfer", "deleteTransfer"})

LoansTab ==
  Page({"debts", "matches"}, {"createDebt", "updateDebt", "deleteDebt", "recordPayment"})
P2PTab ==
  Page({"debts", "persons", "matches"},
       {"createDebt", "updateDebt", "deleteDebt", "recordPayment", "createPerson"})
InstallmentsTab ==
  Page({"installments"},
       {"createInstallment", "updateInstallment", "deleteInstallment", "bulkPayment"})
LoanPage ==
  Page({"debts", "matches"},
       {"markPaid", "reactivate", "deleteDebt", "updateDebt", "recordPayment",
        "pastPayments"})
P2PPage ==
  Page({"debts", "matches", "persons"},
       {"markPaid", "deleteDebt", "updateDebt", "recordPayment"})

PeoplePage == Page({"persons"}, {"createPerson", "updatePerson", "deletePerson"})
ImportPage == Page({}, {"commitImport"})
DashboardPage ==
  Page({"net_worth", "dashboard", "transactions", "debts", "installments"},
       {"updateSettings"})
OnboardingPage == Page({}, {"createHousehold", "createAccount"})

\* The command palette of the shell has the accounts mounted on every page but
\* the onboarding.
ShellPages ==
  {AccountsPage, BankPage, AccountPage, TransactionsPage, TransfersPage, LoansTab, P2PTab,
   InstallmentsTab, LoanPage, P2PPage, PeoplePage, ImportPage, DashboardPage}
Pages == {OnboardingPage} \cup {[p EXCEPT !.shows = @ \cup {"accounts"}] : p \in ShellPages}

\* Where a mutation is issued, what is on the screen.
ScreenOf ==
  [h \in HookMutation |-> UNION {p.shows : p \in {q \in Pages : h \in q.issues}}]

\* What the hooks leave unmarked on those screens.
Forgotten ==
  [h \in HookMutation |->
     CASE h = "createTransfer" -> {"net_worth", "transactions"}
       [] h \in {"updateAccount", "deleteAccount"} -> {"institution_summary"}
       [] OTHER -> {}]
=============================================================================
