-------------------------------- MODULE Entry --------------------------------
(***************************************************************************)
(* How a user gets in: signing up, signing in, the routing of every page   *)
(* through the proxy, and the onboarding that creates the household.  The  *)
(* first request of a user without household provisions one.  Nothing in   *)
(* the database keeps a user from having two: each request decides by what *)
(* it read when it began, and its transaction is committed by the code     *)
(* after the yield of get_db_session, once the answer has been sent: the   *)
(* page may go on before the household is there, or when it never will be. *)
(***************************************************************************)
EXTENDS Naturals, Sequences, FiniteSets

CONSTANTS
  Tab,        \* tabs of the user's browser; they share the session
  MaxVisits,  \* bound: addresses the user enters, and signing out
  MaxCalls    \* bound: requests to the API

ASSUME EntryAssumption == MaxVisits \in Nat /\ MaxCalls \in Nat

VARIABLES
  user,     \* at the identity provider: "unknown", "registered", "confirmed"
  session,  \* the browser has a session
  tab,      \* per tab: page, its loading, address asked for, step, busy, error
  calls,    \* requests to the API that are under way; heard: its page has the answer
            \* or has given it up, or does nothing with it
  homes,    \* households of the user in the order of their commits, with how they
            \* came about and how many there were when their request began
  entry_log \* counters of the bounds; the pages whose creation was not committed

entry_vars == <<user, session, tab, calls, homes, entry_log>>

Nowhere == "nowhere"
PublicRoutes == {"/", "/login", "/signup"}
Protected == {"/dashboard", "/onboarding"}   \* the other pages are routed as /dashboard
Address == PublicRoutes \cup Protected

Fresh(page) ==
  [page |-> page, load |-> 0, going |-> Nowhere, step |-> 1, busy |-> FALSE, error |-> FALSE]

EntryInit ==
  /\ user = "unknown" /\ session = FALSE
  /\ tab = [t \in Tab |-> Fresh("/")]
  /\ calls = {} /\ homes = <<>>
  /\ entry_log = [visits |-> 0, calls |-> 0, undone |-> {}]

-----------------------------------------------------------------------------
(* Routing *)

Visit(t, address) ==
  /\ entry_log.visits < MaxVisits /\ tab[t].going = Nowhere
  /\ tab' = [tab EXCEPT ![t].going = address]
  /\ entry_log' = [entry_log EXCEPT !.visits = @ + 1]
  /\ UNCHANGED <<user, session, calls, homes>>

\* Where an address leads, with what household-status says.
RoutedFaulty(address, has_household) ==
  CASE ~session /\ address \notin PublicRoutes -> "/login"
    [] session /\ address \in {"/login", "/signup"} -> "/dashboard"
    [] session /\ ~has_household /\ address # "/onboarding" -> "/onboarding"
    [] session /\ address = "/onboarding" -> "/dashboard"
    [] OTHER -> address
Routed(address, has_household) ==
  CASE ~session /\ address \notin PublicRoutes -> "/login"
    [] session /\ address \in {"/login", "/signup"} -> "/dashboard"
    [] session /\ ~has_household /\ address # "/onboarding" -> "/onboarding"
    [] session /\ has_household /\ address = "/onboarding" -> "/dashboard"
    [] OTHER -> address

\* The proxy redirects or lets through, and lets through when it gets no answer
\* about the household.
Route(t) ==
  /\ tab[t].going # Nowhere
  /\ LET address == tab[t].going
     IN  \E to \in {Routed(address, homes # <<>>)} \cup
                   (IF session /\ address \notin {"/login", "/signup"} THEN {address} ELSE {}) :
           tab' = [tab EXCEPT ![t] =
                     IF to = address THEN [Fresh(to) EXCEPT !.load = entry_log.visits]
                     ELSE [tab[t] EXCEPT !.going = to]]
  /\ UNCHANGED <<user, session, calls, homes, entry_log>>

-----------------------------------------------------------------------------
(* Signing up, in and out *)

At(t, page) == tab[t].page = page /\ tab[t].going = Nowhere

\* Each form's button is disabled until the answer.
Submit(t) ==
  /\ tab[t].step = 1 /\ ~tab[t].busy
  /\ tab' = [tab EXCEPT ![t].busy = TRUE, ![t].error = FALSE]
  /\ UNCHANGED <<user, session, calls, homes, entry_log>>

SubmitLogin(t) == At(t, "/login") /\ Submit(t)
SubmitSignUp(t) == At(t, "/signup") /\ Submit(t)

SignUpAnswered(t) ==
  /\ At(t, "/signup") /\ tab[t].step = 1 /\ tab[t].busy
  /\ \/ /\ user = "unknown" /\ user' = "registered"
        /\ tab' = [tab EXCEPT ![t].step = 2]                 \* the confirmation; stays busy
     \/ /\ tab' = [tab EXCEPT ![t].busy = FALSE, ![t].error = TRUE]
        /\ UNCHANGED user
  /\ UNCHANGED <<session, calls, homes, entry_log>>

ResendConfirmation(t) ==
  /\ At(t, "/signup") /\ tab[t].step = 2
  /\ tab' \in {[tab EXCEPT ![t].error = e] : e \in BOOLEAN}
  /\ UNCHANGED <<user, session, calls, homes, entry_log>>

FollowConfirmation ==
  /\ user = "registered" /\ user' = "confirmed"
  /\ UNCHANGED <<session, tab, calls, homes, entry_log>>

SignInAnswered(t) ==
  /\ At(t, "/login") /\ tab[t].busy
  /\ \/ /\ user = "confirmed" /\ session' = TRUE
        /\ tab' = [tab EXCEPT ![t].going = "/dashboard"]     \* stays busy
     \/ /\ tab' = [tab EXCEPT ![t].busy = FALSE, ![t].error = TRUE]
        /\ UNCHANGED session
  /\ UNCHANGED <<user, calls, homes, entry_log>>

\* SIGNED_OUT reaches every tab that listens.
SignOut(t) ==
  /\ At(t, "/dashboard") /\ session /\ session' = FALSE
  /\ entry_log.visits < MaxVisits
  /\ entry_log' = [entry_log EXCEPT !.visits = @ + 1]
  /\ tab' = [u \in Tab |-> IF tab[u].page \in Protected /\ tab[u].going = Nowhere
                             THEN [tab[u] EXCEPT !.going = "/login"] ELSE tab[u]]
  /\ UNCHANGED <<user, calls, homes>>

-----------------------------------------------------------------------------
(* Onboarding and requests *)

Call(t, kind, account) ==
  /\ entry_log.calls < MaxCalls /\ session
  /\ calls' = calls \cup {[n |-> entry_log.calls + 1, tab |-> t,
                           load |-> tab[t].load, kind |-> kind,
                           account |-> account, saw |-> 0, stage |-> "sent",
                           heard |-> kind = "query"]}
  /\ entry_log' = [entry_log EXCEPT !.calls = @ + 1]

\* Steps 1 to 3 go forward and back by their buttons, disabled while step 3 is busy.
OnboardingStep(t, s) ==
  /\ At(t, "/onboarding") /\ ~tab[t].busy /\ tab[t].step < 4
  /\ s \in {tab[t].step - 1, tab[t].step + 1} \cap (1 .. 3)
  /\ tab' = [tab EXCEPT ![t].step = s]
  /\ UNCHANGED <<user, session, calls, homes, entry_log>>

\* "Next" with an account, or "skip" without.
CreatableFaulty(t) == At(t, "/onboarding") /\ tab[t].step = 3
Creatable(t) == At(t, "/onboarding") /\ tab[t].step = 3 /\ ~tab[t].busy

CreateHousehold(t, account) ==
  /\ Creatable(t) /\ Call(t, "create", account)
  /\ tab' = [tab EXCEPT ![t].busy = TRUE, ![t].error = FALSE]
  /\ UNCHANGED <<user, session, homes>>

\* The queries of the pages run in parallel, with the user's household.
QueryPage(t) ==
  /\ At(t, "/dashboard") /\ Call(t, "query", FALSE)
  /\ UNCHANGED <<user, session, tab, homes>>

\* create_household refuses a user who had one; any other request provisions one
\* for a user who had none.
RefusedFaulty(kind, saw) == FALSE
Refused(kind, saw) == kind = "create" /\ saw > 0

\* The handler runs: what it does follows from the households it reads first, and
\* nobody sees it before the commit.  A refused creation is rolled back.
BeginCall(c) ==
  /\ c.stage = "sent"
  /\ LET stage == IF Refused(c.kind, Len(homes)) THEN "declined" ELSE "done"
         begun == [c EXCEPT !.stage = stage, !.saw = Len(homes)]
     IN  calls' = (calls \ {c}) \cup (IF c.heard /\ stage = "declined" THEN {} ELSE {begun})
  /\ UNCHANGED <<user, session, tab, homes, entry_log>>

Provisions(c) == c.kind = "create" \/ c.saw = 0

\* The page that a request came from.
PageOf(c) == [tab |-> c.tab, load |-> c.load]

\* The transaction ends, before the page has its answer or after, and may fail.
CommitCall(c) ==
  /\ c.stage = "done"
  /\ \/ /\ homes' = IF Provisions(c) THEN Append(homes, [by |-> c.kind, saw |-> c.saw])
                                     ELSE homes
        /\ UNCHANGED entry_log
     \/ /\ entry_log' = IF c.kind = "create"
                           THEN [entry_log EXCEPT !.undone = @ \cup {PageOf(c)}]
                           ELSE entry_log
        /\ UNCHANGED homes
  /\ calls' = (calls \ {c}) \cup (IF c.heard THEN {} ELSE {[c EXCEPT !.stage = "over"]})
  /\ UNCHANGED <<user, session, tab>>

\* A refused or lost creation stops in step 3, whoever created the household; the
\* account may fail.
AfterCreateFaulty(c, well) == "done"
AfterCreate(c, well) == IF ~well THEN "error" ELSE IF c.account THEN "account" ELSE "done"

AfterCall(c, well) == IF c.kind = "create" THEN AfterCreate(c, well) ELSE "done"

\* The page that sent the request is there still and goes on with its answer.
Waits(c) == At(c.tab, "/onboarding") /\ tab[c.tab].load = c.load

\* What is left of a request when its page has the answer or has lost the
\* connection: it may not have been served yet (one that never arrives is never
\* begun), or not be committed.
Rest(c) == IF c.stage \in {"sent", "done"} THEN {[c EXCEPT !.heard = TRUE]} ELSE {}

\* The account is created with the household of its own request, which need not
\* see the one just created.
ForAccount(c) == [c EXCEPT !.kind = "account", !.saw = 0, !.stage = "sent"]

AnswerCall(c, well) ==
  /\ ~c.heard /\ (well => c.stage \in {"done", "over"})
  /\ LET rest == (calls \ {c}) \cup Rest(c)
     IN  \/ ~Waits(c) /\ calls' = rest /\ UNCHANGED tab
         \/ /\ Waits(c) /\ AfterCall(c, well) = "account" /\ UNCHANGED tab
            /\ calls' = rest \cup {ForAccount(c)}
         \/ /\ Waits(c) /\ AfterCall(c, well) = "done" /\ calls' = rest
            /\ tab' = [tab EXCEPT ![c.tab].busy = FALSE, ![c.tab].error = FALSE,
                                  ![c.tab].step = 4]
         \/ /\ Waits(c) /\ AfterCall(c, well) = "error" /\ calls' = rest
            /\ tab' = [tab EXCEPT ![c.tab].busy = FALSE, ![c.tab].error = TRUE,
                                  ![c.tab].step = 3]
  /\ UNCHANGED <<user, session, homes, entry_log>>

GoToDashboard(t) ==
  /\ At(t, "/onboarding") /\ tab[t].step = 4
  /\ tab' = [tab EXCEPT ![t].going = "/dashboard"]
  /\ UNCHANGED <<user, session, calls, homes, entry_log>>

EntryNext ==
  \/ \E t \in Tab :
       \/ (\E a \in Address : Visit(t, a)) \/ Route(t)
       \/ SubmitLogin(t) \/ SubmitSignUp(t) \/ SignUpAnswered(t) \/ ResendConfirmation(t)
       \/ SignInAnswered(t) \/ SignOut(t)
       \/ (\E s \in 1 .. 3 : OnboardingStep(t, s)) \/ GoToDashboard(t)
       \/ (\E account \in BOOLEAN : CreateHousehold(t, account)) \/ QueryPage(t)
  \/ FollowConfirmation
  \/ \E c \in calls : BeginCall(c) \/ CommitCall(c) \/ (\E well \in BOOLEAN : AnswerCall(c, well))

\* Redirects are followed by the browser without the user.
RedirectsFollowed == \A t \in Tab : WF_entry_vars(Route(t))

EntrySpec == EntryInit /\ [][EntryNext]_entry_vars /\ RedirectsFollowed

-----------------------------------------------------------------------------
(* Properties *)

EntryTypeOK ==
  /\ user \in {"unknown", "registered", "confirmed"} /\ session \in BOOLEAN
  /\ session => user = "confirmed"
  /\ \A t \in Tab :
       /\ tab[t].page \in Address /\ tab[t].going \in Address \cup {Nowhere}
       /\ tab[t].step \in 1 .. (IF tab[t].page = "/onboarding" THEN 4 ELSE 2)
       /\ tab[t].busy \in BOOLEAN /\ tab[t].error \in BOOLEAN
  /\ \A c \in calls : c.stage \in {"sent", "done", "declined", "over"}
  /\ \A i \in DOMAIN homes : homes[i].by \in {"create", "query", "account"}

\* Every address leads to a page: the rules of the proxy never send the browser
\* round in a circle, whatever the household is when each of them is applied.
RedirectsEnd ==
  \A t \in Tab : tab[t].going # Nowhere ~> tab[t].going = Nowhere

\* A user who gets to the end of the onboarding has the household chosen there,
\* and one that was provisioned before stops the onboarding (409), it does not pass
\* for the one that was chosen -- but for the commit, which comes after the answer:
\* it is under way, or it has failed and only this page was told of a success.
Chosen(page) ==
  \/ \E i \in DOMAIN homes : homes[i].by = "create"
  \/ \E c \in calls : c.kind = "create" /\ c.stage = "done" /\ PageOf(c) = page
  \/ page \in entry_log.undone

OnboardedIntoChosen ==
  \A t \in Tab : (At(t, "/onboarding") /\ tab[t].step = 4)
                   => Chosen([tab |-> t, load |-> tab[t].load])

\* A user gets a second household only from transactions that overlapped, an
\* answered one that is not committed included: never from a request that began
\* when there was a household already.
SecondOnlyFromOverlap ==
  \A i \in DOMAIN homes : homes[i].saw = 0

\* One loading of the onboarding page sends one creation at a time ("Next",
\* "skip" and "back" are disabled, isStep3Loading): it waits for an answer, or the
\* loss of it, before it sends another.
CreatesOneAtATime ==
  \A c, d \in calls :
    (PageOf(c) = PageOf(d) /\ ~c.heard /\ ~d.heard /\ c.kind = "create" /\ d.kind = "create")
      => c = d

\* Claim: a user has one household (create_household "Raises ValueError if user
\* already has one", get_household_id "Auto-provisions on first login").
OneHousehold == Len(homes) <= 1

\* The way in, whatever the tabs do beside each other: pages and sessions belong
\* together, the onboarding ends in the household chosen there if its commit does
\* not fail, and a second household takes transactions that overlapped.
EntryInvariant ==
  EntryTypeOK /\ OnboardedIntoChosen /\ SecondOnlyFromOverlap /\ CreatesOneAtATime
=============================================================================
