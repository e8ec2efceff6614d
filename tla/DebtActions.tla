---------------------------- MODULE DebtActions -----------------------------
(***************************************************************************)
(* Completing, reactivating and deleting a debt from the list of debts and *)
(* from its own page.  Going from one page to the other unmounts the       *)
(* observers: what they have sent goes on, but the buttons of the new page *)
(* know nothing of it and its callbacks run no more.  A command is answered *)
(* before its transaction is committed, and it may fail: on its way, at    *)
(* the server, at the commit, or only for the answer that is lost.         *)
(***************************************************************************)
EXTENDS Naturals, FiniteSets, FiniteSetsExt

CONSTANTS
  MaxCommands,  \* bound: commands of the user
  MaxVisits,    \* bound: pages visited
  MaxForeign    \* bound: payments by other clients

ASSUME ActionsAssumption ==
  MaxCommands \in Nat /\ MaxVisits \in Nat \ {0} /\ MaxForeign \in Nat

VARIABLES
  kind,      \* "loan" or "p2p"
  page,      \* "debts", "detail", or "none" before the first visit
  visit,     \* number of the visit: the observers live as long
  debt,      \* the debt as committed at the server: status, payments made, exists
  shown,     \* the debt on the screen
  dialog,    \* the dialog that is open
  commands,  \* the requests under way: "sent", "done" and not committed, "declined" or
             \* "over"; heard: the client has its answer, or an error for want of one
  told       \* history: commands given, the status asked last and by which, whether one
             \* was given on a screen or in a dialog behind the server, payments by others

action_vars == <<kind, page, visit, debt, shown, dialog, commands, told>>

Active == [status |-> "active", payments |-> 0, exists |-> TRUE]

ActionsInit ==
  /\ kind = "loan" /\ page = "none" /\ visit = 0
  /\ debt = Active /\ shown = Active
  /\ dialog = "none" /\ commands = {}
  /\ told = [given |-> 0, last |-> "active", by |-> 0, blind |-> FALSE, foreign |-> 0]

\* The links of the cards and rows; the breadcrumb back.
Visit(k, p) ==
  /\ visit < MaxVisits
  /\ kind' = (IF page = "none" THEN k ELSE kind) /\ k = kind'
  /\ p # page /\ shown.exists
  /\ page' = p /\ visit' = visit + 1 /\ dialog' = "none"
  /\ UNCHANGED <<debt, shown, commands, told>>

\* The commands about the status, and the status each asks for.
StatusCommand == {"paid", "reactivate"}
Asked(c) == IF c = "paid" THEN "paid_off" ELSE "active"

\* Observers by command: both deletions share one.
ObserverOf(c) == IF c \in {"delete", "purge"} THEN "delete" ELSE c

\* disabled={...isPending}
PendingFaulty(c) == FALSE
Pending(c) ==
  \E r \in commands :
    ~r.heard /\ r.visit = visit /\ ObserverOf(r.command) = ObserverOf(c)

\* Behind the server: the screen, the dialog, or a user who has the answer to a
\* command (or no hope of one) that is not at its end.
BehindServer(c) ==
  \/ shown # debt
  \/ c \in StatusCommand /\ shown.status = Asked(c)
  \/ \E r \in commands : r.heard

Send(c) ==
  /\ told.given < MaxCommands
  /\ ~Pending(c)
  /\ commands' = commands \cup {[n |-> told.given + 1, command |-> c, visit |-> visit,
                                 stage |-> "sent", heard |-> FALSE, before |-> told.last]}
  /\ told' = [told EXCEPT !.given = @ + 1, !.blind = @ \/ BehindServer(c),
                 !.last = IF c \in StatusCommand THEN Asked(c) ELSE @,
                 !.by = IF c \in StatusCommand THEN told.given + 1 ELSE @]

OpenDialog(d) ==
  /\ dialog = "none" /\ shown.exists
  /\ page # "none"
  /\ d # "delete" => page = "detail" /\ kind = "loan"
  /\ d = "complete" => shown.status = "active"
  /\ d = "reactivate" => shown.status = "paid_off"
  /\ dialog' = d
  /\ UNCHANGED <<kind, page, visit, debt, shown, commands, told>>

CancelDialog ==
  /\ dialog # "none" /\ dialog' = "none"
  /\ UNCHANGED <<kind, page, visit, debt, shown, commands, told>>

\* "Complete as-is"; the page of a personal debt has a button without dialog.
MarkDebtPaid ==
  /\ \/ dialog = "complete"
     \/ page = "detail" /\ kind = "p2p" /\ shown.status = "active"
  /\ Send("paid")
  /\ dialog' = "none"
  /\ UNCHANGED <<kind, page, visit, debt, shown>>

ReactivateDebt ==
  /\ dialog = "reactivate"
  /\ Send("reactivate")
  /\ dialog' = "none"
  /\ UNCHANGED <<kind, page, visit, debt, shown>>

\* With or without the transactions, asked for loans with payments on the
\* screen.  The card of a loan keeps its dialog until the answer.
DeleteDebtOf(c) ==
  /\ dialog = "delete"
  /\ c = "purge" => kind = "loan" /\ shown.payments > 0
  /\ Send(c)
  /\ dialog' = IF page = "debts" /\ kind = "loan" THEN dialog ELSE "none"
  /\ UNCHANGED <<kind, page, visit, debt, shown>>

-----------------------------------------------------------------------------
(* The server, other clients, the refetch *)

Effect(c) ==
  IF c \in StatusCommand THEN [debt EXCEPT !.status = Asked(c)]
  ELSE [debt EXCEPT !.exists = FALSE]

\* Only a debt that is paid off can be reactivated.
Granted(c) == debt.exists /\ (c = "reactivate" => debt.status = "paid_off")

\* A request goes on in another stage; one that is heard of is not kept when it is
\* at its end.
GoesOn(r, stage) ==
  commands' = (commands \ {r}) \cup
                (IF r.heard /\ stage # "done" THEN {} ELSE {[r EXCEPT !.stage = stage]})

\* The handler reads what is committed; where nothing changes, nothing is written.
ServeCommand(r) ==
  /\ r.stage = "sent"
  /\ GoesOn(r, IF ~Granted(r.command) THEN "declined"
               ELSE IF Effect(r.command) = debt THEN "over" ELSE "done")
  /\ UNCHANGED <<kind, page, visit, debt, shown, dialog, told>>

\* The code after the yield of get_db_session.
CommitCommand(r) ==
  /\ r.stage = "done"
  /\ debt' = Effect(r.command)
  /\ GoesOn(r, "over")
  /\ UNCHANGED <<kind, page, visit, shown, dialog, told>>

\* A request that does not arrive, is refused (401, 403), ends in an error at the
\* server, or is rolled back when it should be committed: what was asked before
\* counts again.
FailCommand(r) ==
  /\ r.stage \in {"sent", "done"}
  /\ GoesOn(r, IF r.stage = "sent" THEN "declined" ELSE "over")
  /\ told' = IF r.command \in StatusCommand /\ r.n = told.by
               THEN [told EXCEPT !.last = r.before, !.by = 0] ELSE told
  /\ UNCHANGED <<kind, page, visit, debt, shown, dialog>>

\* A payment by another client, which may pay the debt off.
ForeignPayment(status) ==
  /\ debt.exists /\ told.foreign < MaxForeign
  /\ debt' = [debt EXCEPT !.payments = @ + 1, !.status = status]
  /\ told' = [told EXCEPT !.foreign = @ + 1]
  /\ UNCHANGED <<kind, page, visit, shown, dialog, commands>>

\* The navbar actions and buttons are those of the new status; a debt that is
\* gone turns the page into an error, without a dialog.
StillOpenFaulty == dialog
StillOpen == IF debt.exists THEN dialog ELSE "none"

RefetchDebt ==
  /\ page # "none" /\ shown # debt
  /\ shown' = debt
  /\ dialog' = StillOpen
  /\ UNCHANGED <<kind, page, visit, debt, commands, told>>

\* Callbacks of mutate run while their component is mounted: the page of the
\* debt leaves for the list, the card of a loan closes its dialog.
CallbackRunsFaulty(r) == TRUE
CallbackRuns(r) == r.visit = visit

\* The success of a command that is carried out, committed or not, or the error of
\* one that is declined, or of any whose connection is lost.
AnswerCommand(r, well) ==
  /\ ~r.heard /\ (well => r.stage \in {"done", "over"})
  /\ commands' = (commands \ {r}) \cup
                   (IF r.stage \in {"sent", "done"} THEN {[r EXCEPT !.heard = TRUE]} ELSE {})
  /\ IF well /\ ObserverOf(r.command) = "delete" /\ CallbackRuns(r)
       THEN /\ dialog' = "none" /\ page' = "debts"
            /\ visit' = IF page = "detail" THEN visit + 1 ELSE visit
       ELSE UNCHANGED <<page, visit, dialog>>
  /\ UNCHANGED <<kind, debt, shown, told>>

ActionsNext ==
  \/ \E k \in {"loan", "p2p"}, p \in {"debts", "detail"} : Visit(k, p)
  \/ (\E d \in {"complete", "reactivate", "delete"} : OpenDialog(d)) \/ CancelDialog
  \/ MarkDebtPaid \/ ReactivateDebt \/ (\E c \in {"delete", "purge"} : DeleteDebtOf(c))
  \/ \E r \in commands :
       \/ ServeCommand(r) \/ CommitCommand(r) \/ FailCommand(r)
       \/ \E well \in BOOLEAN : AnswerCommand(r, well)
  \/ (\E s \in {debt.status, "paid_off"} : ForeignPayment(s)) \/ RefetchDebt

ActionsSpec == ActionsInit /\ [][ActionsNext]_action_vars

-----------------------------------------------------------------------------
(* Properties *)

ActionsTypeOK ==
  /\ kind \in {"loan", "p2p"} /\ page \in {"none", "debts", "detail"}
  /\ visit \in 0 .. MaxVisits + MaxCommands
  /\ \A d \in {debt, shown} :
       /\ d.status \in {"active", "paid_off"} /\ d.payments \in 0 .. MaxForeign
       /\ d.exists \in BOOLEAN
  /\ dialog \in {"none", "complete", "reactivate", "delete"}
  /\ dialog # "none" => shown.exists /\ page # "none"
  /\ commands \subseteq [n : 1 .. MaxCommands, visit : 1 .. visit,
                         command : {"paid", "reactivate", "delete", "purge"},
                         stage : {"sent", "done", "declined", "over"}, heard : BOOLEAN,
                         before : {"active", "paid_off"}]

\* A user who stays on one page, alone, and acts on what the server has, gets the
\* status of the last command that did not fail: the page never has a second
\* completion under way that could undo a reactivation, and neither a lost answer
\* nor a commit after the answer turns the order round.  (Behind the server a user
\* acts, too, who has a success that is not committed, or an error for a command
\* that is carried out after all: what is asked for then can be undone by it.)
LastCommandWins ==
  (visit = 1 /\ ~told.blind /\ told.foreign = 0 /\ commands = {} /\ debt.exists)
    => debt.status = told.last

\* A deletion that is answered after the user has gone elsewhere does not take
\* the user to the list (loan-detail-content.tsx and p2p-detail-content.tsx
\* push from the callback of mutate, not from the hook's).
NoPushFromElsewhere ==
  [][\A r \in commands \ commands' : r.visit # visit => page' = page]_action_vars

ActionsInvariant == ActionsTypeOK /\ LastCommandWins

\* The actions on a debt, with observers that know nothing of each other: the last
\* command of a user who is alone wins if it does not fail, and none takes the user
\* away from a page visited since.
ActionsPromises == []ActionsInvariant /\ NoPushFromElsewhere
=============================================================================
