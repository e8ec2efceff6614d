-------------------------- MODULE DebtScreensProofs --------------------------
(***************************************************************************)
(* Proofs about the screens of a debt, for any loans, transactions, visits *)
(* and numbers of requests.                                                *)
(***************************************************************************)
EXTENDS PaymentSheet, DebtActions, PastPayments, AmortizationProofs, FiniteSetTheorems

-----------------------------------------------------------------------------
(* Completing, reactivating and deleting *)

DebtShown == [status : {"active", "paid_off"}, payments : Nat, exists : BOOLEAN]
Command == [n : 1 .. MaxCommands, visit : Nat,
            command : {"paid", "reactivate", "delete", "purge"},
            stage : {"sent", "done", "declined", "over"}, heard : BOOLEAN,
            before : {"active", "paid_off"}]
Told == [given : 0 .. MaxCommands, last : {"active", "paid_off"}, by : 0 .. MaxCommands,
         blind : BOOLEAN, foreign : 0 .. MaxForeign]

ActionTypes ==
  /\ kind \in {"loan", "p2p"} /\ page \in {"none", "debts", "detail"} /\ visit \in Nat
  /\ debt \in DebtShown /\ shown \in DebtShown
  /\ dialog \in {"none", "complete", "reactivate", "delete"}
  /\ commands \subseteq Command /\ IsFiniteSet(commands)
  /\ \A r \in commands : r.visit \in 1 .. visit
  /\ told \in Told

\* The page changes by a visit or by the answer to a deletion, which is one of the
\* commands given and is waited for.
Awaited(cs) == {r \in cs : ~r.heard}
VisitsCounted ==
  /\ Cardinality(Awaited(commands)) <= told.given
  /\ visit + Cardinality(Awaited(commands)) <= MaxVisits + told.given

DialogsOnPage ==
  /\ page # "none" => visit >= 1
  /\ dialog # "none" => shown.exists /\ page # "none"
  /\ debt.payments <= told.foreign /\ shown.payments <= told.foreign

\* A command about the status that is not at its end asks for another status than the
\* debt has, as the screen shows it; it is the only one, the last one, and was given
\* when the debt had the status asked for before.  When there is none, the debt has the
\* status asked for last.
Open(r) == r.stage \in {"sent", "done"} /\ r.command \in StatusCommand
StatusKnown(cs, now, sh, last, by) ==
  /\ \A r \in cs : Open(r) =>
       /\ now.status # Asked(r.command) /\ sh.status = now.status
       /\ last = Asked(r.command) /\ by = r.n /\ (now.exists => r.before = now.status)
       /\ \A q \in cs : Open(q) => q = r
  /\ now.exists /\ (\A r \in cs : ~Open(r)) => now.status = last

Alone == visit <= 1 /\ ~told.blind /\ told.foreign = 0

ActionsInductive ==
  /\ ActionTypes /\ VisitsCounted /\ DialogsOnPage
  /\ Alone => StatusKnown(commands, debt, shown, told.last, told.by)

\* No page, no dialog, no command: the invariant of the debt's commands holds.
LEMMA ActionsStart == ActionsInit => ActionsInductive
<1> SUFFICES ASSUME ActionsInit PROVE ActionsInductive
  OBVIOUS
<1>1. /\ kind = "loan" /\ page = "none" /\ visit = 0 /\ debt = Active /\ shown = Active
      /\ dialog = "none" /\ commands = {}
      /\ told = [given |-> 0, last |-> "active", by |-> 0, blind |-> FALSE, foreign |-> 0]
  BY DEF ActionsInit
<1>2. Active \in DebtShown /\ Active.status = "active" /\ Active.payments = 0
  BY DEF Active, DebtShown
<1>3. IsFiniteSet({}) /\ Cardinality({}) = 0
  BY FS_EmptySet
<1>4. ActionTypes
  BY <1>1, <1>2, <1>3, ActionsAssumption DEF ActionTypes, Told
<1>5. VisitsCounted /\ DialogsOnPage
  <2>1. Awaited(commands) = {}
    BY <1>1 DEF Awaited
  <2> QED
    BY <1>1, <1>2, <1>3, <2>1, ActionsAssumption DEF VisitsCounted, DialogsOnPage
<1>6. StatusKnown(commands, debt, shown, told.last, told.by)
  BY <1>1, <1>2 DEF StatusKnown
<1> QED
  BY <1>4, <1>5, <1>6 DEF ActionsInductive

\* A finite set grows by at most one when an element is added.
LEMMA OneMore ==
  ASSUME NEW S, IsFiniteSet(S), NEW e
  PROVE  /\ IsFiniteSet(S \cup {e}) /\ Cardinality(S \cup {e}) <= Cardinality(S) + 1
         /\ Cardinality(S) \in Nat /\ Cardinality(S \cup {e}) \in Nat
<1>1. /\ IsFiniteSet(S \cup {e})
      /\ Cardinality(S \cup {e}) = IF e \in S THEN Cardinality(S) ELSE Cardinality(S) + 1
  BY FS_AddElement
<1>2. Cardinality(S) \in Nat
  BY FS_CardinalityType
<1> QED
  BY <1>1, <1>2

\* The requests whose answer is waited for can be counted.
LEMMA AwaitedFinite ==
  ASSUME NEW cs, IsFiniteSet(cs)
  PROVE  IsFiniteSet(Awaited(cs)) /\ Cardinality(Awaited(cs)) \in Nat
<1>1. Awaited(cs) \subseteq cs
  BY DEF Awaited
<1>2. IsFiniteSet(Awaited(cs))
  BY <1>1, FS_Subset
<1> QED
  BY <1>2, FS_CardinalityType

\* A request gives way to what is left of it.
LEMMA AwaitedAfter ==
  ASSUME NEW cs, IsFiniteSet(cs), NEW r \in cs, NEW x, NEW D \in SUBSET {x},
         r.heard => x.heard
  PROVE  /\ IsFiniteSet((cs \ {r}) \cup D)
         /\ Cardinality(Awaited(cs)) \in Nat
         /\ Cardinality(Awaited((cs \ {r}) \cup D)) \in Nat
         /\ Cardinality(Awaited((cs \ {r}) \cup D)) <= Cardinality(Awaited(cs))
         /\ ~r.heard /\ x.heard =>
              Cardinality(Awaited((cs \ {r}) \cup D)) + 1 = Cardinality(Awaited(cs))
<1>1. IsFiniteSet(cs \ {r}) /\ IsFiniteSet(Awaited(cs)) /\ Cardinality(Awaited(cs)) \in Nat
  BY FS_RemoveElement, AwaitedFinite
<1>2. D = {} \/ D = {x}
  OBVIOUS
<1>3. IsFiniteSet((cs \ {r}) \cup D)
  <2> DEFINE rest == cs \ {r}
  <2>1. IsFiniteSet(rest) /\ IsFiniteSet(rest \cup {x})
    <3>1. IsFiniteSet(rest)
      BY <1>1
    <3> HIDE DEF rest
    <3> QED
      BY <3>1, OneMore
  <2>2. rest \cup {} = rest
    OBVIOUS
  <2> QED
    BY <1>2, <2>1, <2>2
<1> DEFINE aw == Awaited(cs)
           less == aw \ {r}
           after == Awaited((cs \ {r}) \cup D)
<1>4. CASE r.heard
  <2>1. after = aw
    BY <1>2, <1>4 DEF Awaited
  <2> QED
    BY <1>1, <1>3, <1>4, <2>1
<1>5. CASE ~r.heard
  <2>1. r \in aw
    BY <1>5 DEF Awaited
  <2>2. /\ IsFiniteSet(less) /\ Cardinality(less) = Cardinality(aw) - 1
        /\ Cardinality(less) \in Nat
    <3>1. IsFiniteSet(less) /\ Cardinality(less) = Cardinality(aw) - 1
      <4>1. IsFiniteSet(aw)
        BY <1>1
      <4> HIDE DEF aw
      <4> QED
        BY <2>1, <4>1, FS_RemoveElement
    <3> QED
      BY <3>1, FS_CardinalityType
  <2>3. after = less \/ (after = less \cup {x} /\ ~x.heard)
    BY <1>2 DEF Awaited
  <2>4. Cardinality(less \cup {x}) <= Cardinality(less) + 1 /\ Cardinality(less \cup {x}) \in Nat
    <3> HIDE DEF less
    <3> QED
      BY <2>2, OneMore
  <2>5. x.heard => after = less
    BY <1>2 DEF Awaited
  <2> HIDE DEF less, after
  <2>6. Cardinality(after) \in Nat /\ Cardinality(after) <= Cardinality(aw)
    <3>1. CASE after = less
      BY <1>1, <2>2, <3>1
    <3>2. CASE after = less \cup {x}
      <4>1. Cardinality(after) <= (Cardinality(aw) - 1) + 1 /\ Cardinality(aw) \in Nat
        BY <1>1, <2>2, <2>4, <3>2
      <4> QED
        BY <2>4, <3>2, <4>1
    <3> QED
      BY <2>3, <3>1, <3>2
  <2>7. x.heard => Cardinality(after) + 1 = Cardinality(aw)
    BY <1>1, <2>2, <2>5
  <2> QED
    BY <1>1, <1>3, <2>6, <2>7 DEF after
<1> QED
  BY <1>4, <1>5

\* What is known of the status stays when a request goes on, and no command about it
\* is left when the one there is comes to its end.
LEMMA KnownAfter ==
  ASSUME NEW cs, NEW r \in cs, NEW x, NEW D \in SUBSET {x}, NEW now, NEW sh, NEW last, NEW by,
         StatusKnown(cs, now, sh, last, by),
         x.n = r.n, x.command = r.command, x.before = r.before
  PROVE  /\ (Open(x) /\ x \in D <=> Open(r)) =>
              StatusKnown((cs \ {r}) \cup D, now, sh, last, by)
         /\ Open(r) /\ ~Open(x) => \A q \in (cs \ {r}) \cup D : ~Open(q)
<1>1. ASSUME Open(x) /\ x \in D <=> Open(r)
      PROVE  StatusKnown((cs \ {r}) \cup D, now, sh, last, by)
  <2>1. ASSUME NEW q \in (cs \ {r}) \cup D, Open(q)
        PROVE  /\ now.status # Asked(q.command) /\ sh.status = now.status
               /\ last = Asked(q.command) /\ by = q.n /\ (now.exists => q.before = now.status)
               /\ \A z \in (cs \ {r}) \cup D : Open(z) => z = q
    <3>1. CASE q \in cs \ {r}
      <4>1. ~Open(r)
        BY <2>1, <3>1 DEF StatusKnown
      <4>2. \A z \in D : ~Open(z)
        BY <1>1, <4>1
      <4> QED
        BY <2>1, <3>1, <4>2 DEF StatusKnown
    <3>2. CASE q = x /\ x \in D
      <4>1. Open(r)
        BY <1>1, <2>1, <3>2
      <4>2. \A z \in cs \ {r} : ~Open(z)
        BY <4>1 DEF StatusKnown
      <4> QED
        BY <3>2, <4>1, <4>2 DEF StatusKnown
    <3> QED
      BY <3>1, <3>2
  <2>2. ASSUME now.exists, \A q \in (cs \ {r}) \cup D : ~Open(q) PROVE now.status = last
    <3>1. \A q \in cs : ~Open(q)
      BY <1>1, <2>2
    <3> QED
      BY <2>2, <3>1 DEF StatusKnown
  <2> QED
    BY <2>1, <2>2 DEF StatusKnown
<1>2. ASSUME Open(r), ~Open(x) PROVE \A q \in (cs \ {r}) \cup D : ~Open(q)
  BY <1>2 DEF StatusKnown
<1> QED
  BY <1>1, <1>2

\* A command is given.
LEMMA SendStep ==
  ASSUME ActionsInductive, NEW c \in {"paid", "reactivate", "delete", "purge"}, Send(c),
         page # "none", UNCHANGED <<kind, page, visit, debt, shown>>,
         dialog' \in {"none", dialog}
  PROVE  ActionsInductive'
<1> DEFINE new == [n |-> told.given + 1, command |-> c, visit |-> visit, stage |-> "sent",
                   heard |-> FALSE, before |-> told.last]
<1>1. /\ ActionTypes /\ VisitsCounted /\ DialogsOnPage
      /\ Alone => StatusKnown(commands, debt, shown, told.last, told.by)
  BY DEF ActionsInductive
<1>2. /\ told.given < MaxCommands /\ ~Pending(c) /\ commands' = commands \cup {new}
      /\ told' = [told EXCEPT !.given = @ + 1, !.blind = @ \/ BehindServer(c),
                    !.last = IF c \in StatusCommand THEN Asked(c) ELSE @,
                    !.by = IF c \in StatusCommand THEN told.given + 1 ELSE @]
  BY DEF Send
<1>3. PICK blind \in BOOLEAN : blind = (told.blind \/ BehindServer(c))
  OBVIOUS
<1>4. PICK last : last = IF c \in StatusCommand THEN Asked(c) ELSE told.last
  OBVIOUS
<1> DEFINE given == told.given + 1
<1>5. PICK by : by = IF c \in StatusCommand THEN given ELSE told.by
  OBVIOUS
<1>6. told' = [told EXCEPT !.given = given, !.blind = blind, !.last = last, !.by = by]
  BY <1>2, <1>3, <1>4, <1>5
<1>7. /\ given \in 0 .. MaxCommands /\ given \in 1 .. MaxCommands /\ by \in 0 .. MaxCommands
      /\ last \in {"active", "paid_off"} /\ MaxCommands \in Nat
  BY <1>1, <1>2, <1>4, <1>5, ActionsAssumption DEF ActionTypes, Told, Asked
<1>8. /\ new \in Command /\ new.visit = visit /\ new.command = c /\ new.stage = "sent"
      /\ new.n = given /\ new.before = told.last /\ new.heard = FALSE /\ visit >= 1
  BY <1>1, <1>7 DEF ActionTypes, Command, DialogsOnPage, Told
<1>9. given = told.given + 1
  OBVIOUS
<1> HIDE DEF new, given
<1>10. /\ told' \in Told
       /\ told'.given = given /\ told'.blind = blind /\ told'.last = last /\ told'.by = by
       /\ told'.foreign = told.foreign
  BY <1>1, <1>3, <1>6, <1>7 DEF ActionTypes, Told
<1>11. /\ IsFiniteSet(commands') /\ Cardinality(Awaited(commands)) \in Nat
       /\ Cardinality(Awaited(commands')) \in Nat
       /\ Cardinality(Awaited(commands')) <= Cardinality(Awaited(commands)) + 1
  <2>1. IsFiniteSet(commands')
    BY <1>1, <1>2, OneMore DEF ActionTypes
  <2>3. IsFiniteSet(Awaited(commands))
    BY <1>1, AwaitedFinite DEF ActionTypes
  <2>4. Awaited(commands') = Awaited(commands) \cup {new}
    BY <1>2, <1>8 DEF Awaited
  <2> QED
    BY <2>1, <2>3, <2>4, OneMore
<1>12. ActionTypes'
  BY <1>1, <1>2, <1>8, <1>10, <1>11 DEF ActionTypes
<1>13. VisitsCounted'
  <2>1. visit \in Nat /\ told.given \in Nat /\ MaxVisits \in Nat
    BY <1>1, ActionsAssumption DEF ActionTypes, Told
  <2> QED
    BY <1>1, <1>9, <1>10, <1>11, <2>1 DEF VisitsCounted
<1>14. DialogsOnPage'
  BY <1>1, <1>10 DEF DialogsOnPage
<1>15. ASSUME visit <= 1, ~blind, told.foreign = 0
       PROVE  StatusKnown(commands', debt, shown, last, by)
  <2>1. /\ Alone /\ shown = debt /\ (c \in StatusCommand => shown.status # Asked(c))
        /\ \A r \in commands : ~r.heard
    BY <1>3, <1>15 DEF BehindServer, Alone
  <2>2. \A r \in commands : r.visit = visit
    BY <1>1, <1>8, <1>15 DEF ActionTypes, Command
  <2>3. StatusKnown(commands, debt, shown, told.last, told.by)
    BY <1>1, <2>1
  <2>4. CASE c \in StatusCommand
    <3>1. ASSUME NEW r \in commands, Open(r) PROVE FALSE
      <4>1. debt.status # Asked(r.command) /\ r.command \in StatusCommand
        BY <2>3, <3>1 DEF StatusKnown, Open
      <4>2. r.command # c
        BY <1>2, <2>1, <2>2 DEF Pending
      <4> QED
        BY <1>1, <2>1, <2>4, <4>1, <4>2 DEF StatusCommand, Asked, ActionTypes, DebtShown
    <3>2. last = Asked(c) /\ by = new.n
      BY <1>4, <1>5, <1>8, <2>4
    <3>3. debt.exists => new.before = debt.status
      BY <1>8, <2>3, <3>1 DEF StatusKnown
    <3>4. Open(new)
      BY <1>8, <2>4 DEF Open
    <3> QED
      BY <1>2, <1>8, <2>1, <2>4, <3>1, <3>2, <3>3, <3>4 DEF StatusKnown
  <2>5. CASE c \notin StatusCommand
    <3>1. last = told.last /\ by = told.by /\ ~Open(new)
      BY <1>4, <1>5, <1>8, <2>5 DEF Open
    <3> QED
      BY <1>2, <2>3, <3>1 DEF StatusKnown
  <2> QED
    BY <2>4, <2>5
<1>16. (Alone => StatusKnown(commands, debt, shown, told.last, told.by))'
  BY <1>10, <1>15 DEF Alone, StatusKnown, Open
<1> QED
  BY <1>12, <1>13, <1>14, <1>16 DEF ActionsInductive

\* What a request leaves behind is a request, unless it is at its end.
LEMMA GoesOnTo ==
  ASSUME ActionsInductive, NEW r \in commands, NEW stage \in {"done", "declined", "over"},
         GoesOn(r, stage)
  PROVE  \E x \in Command, D \in SUBSET Command :
           /\ commands' = (commands \ {r}) \cup D /\ D \subseteq {x}
           /\ x.n = r.n /\ x.visit = r.visit /\ x.command = r.command /\ x.before = r.before
           /\ x.stage = stage /\ (r.heard => x.heard) /\ (stage = "done" => x \in D)
<1>1. r \in Command
  BY DEF ActionsInductive, ActionTypes
<1> DEFINE x == [r EXCEPT !.stage = stage]
           D == IF r.heard /\ stage # "done" THEN {} ELSE {x}
<1>2. /\ x \in Command /\ x.n = r.n /\ x.visit = r.visit /\ x.command = r.command
      /\ x.before = r.before /\ x.stage = stage /\ x.heard = r.heard
  BY <1>1 DEF Command
<1>3. /\ commands' = (commands \ {r}) \cup D /\ D \in SUBSET {x} /\ (stage = "done" => x \in D)
  BY DEF GoesOn
<1> HIDE DEF x, D
<1>4. x \in Command
  BY <1>2
<1>5. D \in SUBSET Command
  BY <1>3, <1>4
<1> QED
  BY <1>2, <1>3, <1>4, <1>5

\* The server's side of a request: what has to be looked at is the status.
LEMMA RequestStep ==
  ASSUME ActionsInductive, NEW r \in commands, NEW stage \in {"done", "declined", "over"},
         GoesOn(r, stage), debt' \in DebtShown, debt'.payments = debt.payments,
         UNCHANGED <<kind, page, visit, shown, dialog>>,
         told' \in Told, told'.given = told.given, told'.foreign = told.foreign,
         told'.blind = told.blind,
         Alone => StatusKnown(commands', debt', shown, told'.last, told'.by)
  PROVE  ActionsInductive'
<1>1. ActionTypes /\ VisitsCounted /\ DialogsOnPage
  BY DEF ActionsInductive
<1>2. PICK x \in Command, D \in SUBSET Command :
        /\ commands' = (commands \ {r}) \cup D /\ D \subseteq {x}
        /\ x.visit = r.visit /\ (r.heard => x.heard)
  BY GoesOnTo
<1>3. /\ IsFiniteSet(commands') /\ Cardinality(Awaited(commands)) \in Nat
      /\ Cardinality(Awaited(commands')) \in Nat
      /\ Cardinality(Awaited(commands')) <= Cardinality(Awaited(commands))
  BY <1>1, <1>2, AwaitedAfter DEF ActionTypes
<1>4. ActionTypes'
  BY <1>1, <1>2, <1>3 DEF ActionTypes
<1>5. VisitsCounted'
  <2>1. visit \in Nat /\ told.given \in Nat /\ MaxVisits \in Nat
    BY <1>1, ActionsAssumption DEF ActionTypes, Told
  <2> QED
    BY <1>1, <1>3, <2>1 DEF VisitsCounted
<1>6. DialogsOnPage'
  BY <1>1 DEF DialogsOnPage
<1>7. (Alone => StatusKnown(commands, debt, shown, told.last, told.by))'
  BY DEF Alone, StatusKnown, Open
<1> QED
  BY <1>4, <1>5, <1>6, <1>7 DEF ActionsInductive

\* The handler: what is carried out waits for its commit.
LEMMA ServeStep ==
  ASSUME ActionsInductive, NEW r \in commands, ServeCommand(r)
  PROVE  ActionsInductive'
<1>1. ActionTypes /\ (Alone => StatusKnown(commands, debt, shown, told.last, told.by))
  BY DEF ActionsInductive
<1>2. PICK stage \in {"done", "declined", "over"} :
        /\ GoesOn(r, stage)
        /\ stage = "declined" => ~Granted(r.command)
        /\ stage = "over" => Granted(r.command) /\ Effect(r.command) = debt
        /\ r.stage = "sent" /\ UNCHANGED <<kind, page, visit, debt, shown, dialog, told>>
  BY DEF ServeCommand
<1>3. PICK x \in Command, D \in SUBSET Command :
        /\ commands' = (commands \ {r}) \cup D /\ D \subseteq {x}
        /\ x.n = r.n /\ x.visit = r.visit /\ x.command = r.command /\ x.before = r.before
        /\ x.stage = stage /\ (stage = "done" => x \in D)
  BY <1>2, GoesOnTo
<1>4. ASSUME Alone PROVE StatusKnown(commands', debt, shown, told.last, told.by)
  <2>1. StatusKnown(commands, debt, shown, told.last, told.by)
    BY <1>1, <1>4
  <2>2. CASE stage = "done" \/ ~Open(r)
    <3>1. Open(x) /\ x \in D <=> Open(r)
      BY <1>2, <1>3, <2>2 DEF Open
    <3> QED
      BY <1>3, <2>1, <3>1, KnownAfter
  <2>3. CASE stage # "done" /\ Open(r)
    <3>1. \A q \in commands' : ~Open(q)
      <4>1. ~Open(x)
        BY <1>2, <1>3, <2>3 DEF Open
      <4> QED
        BY <1>3, <2>1, <2>3, <4>1, KnownAfter
    <3>2. debt.status # Asked(r.command) /\ r.command \in StatusCommand /\ debt \in DebtShown
      BY <1>1, <2>1, <2>3 DEF StatusKnown, Open, ActionTypes
    <3>3. stage # "over"
      BY <1>2, <3>2 DEF Effect, DebtShown
    <3>4. ~debt.exists
      BY <1>2, <2>3, <3>2, <3>3 DEF Granted, Asked, DebtShown
    <3> QED
      BY <3>1, <3>4 DEF StatusKnown
  <2> QED
    BY <2>2, <2>3
<1>5. debt' \in DebtShown /\ told' \in Told
  BY <1>1, <1>2 DEF ActionTypes
<1> QED
  BY <1>2, <1>4, <1>5, RequestStep

\* The commit: the debt has the status asked for, or is gone.
LEMMA CommitStep ==
  ASSUME ActionsInductive, NEW r \in commands, CommitCommand(r)
  PROVE  ActionsInductive'
<1>1. /\ ActionTypes /\ (Alone => StatusKnown(commands, debt, shown, told.last, told.by))
      /\ r \in Command
  BY DEF ActionsInductive, ActionTypes
<1>2. /\ r.stage = "done" /\ debt' = Effect(r.command) /\ GoesOn(r, "over")
      /\ UNCHANGED <<kind, page, visit, shown, dialog, told>>
  BY DEF CommitCommand
<1>3. /\ debt' \in DebtShown /\ debt'.payments = debt.payments
      /\ r.command \in StatusCommand => debt'.status = Asked(r.command)
      /\ r.command \notin StatusCommand => debt'.status = debt.status /\ ~debt'.exists
  BY <1>1, <1>2 DEF ActionTypes, DebtShown, Effect, Asked
<1>4. PICK x \in Command, D \in SUBSET Command :
        /\ commands' = (commands \ {r}) \cup D /\ D \subseteq {x}
        /\ x.n = r.n /\ x.command = r.command /\ x.before = r.before /\ x.stage = "over"
  BY <1>2, GoesOnTo
<1>5. ~Open(x) /\ (Open(r) <=> r.command \in StatusCommand)
  BY <1>2, <1>4 DEF Open
<1>6. ASSUME Alone PROVE StatusKnown(commands', debt', shown, told.last, told.by)
  <2>1. StatusKnown(commands, debt, shown, told.last, told.by)
    BY <1>1, <1>6
  <2>2. CASE Open(r)
    <3>1. \A q \in commands' : ~Open(q)
      BY <1>4, <1>5, <2>1, <2>2, KnownAfter
    <3>2. debt'.status = told.last
      BY <1>3, <1>5, <2>1, <2>2 DEF StatusKnown
    <3> QED
      BY <3>1, <3>2 DEF StatusKnown
  <2>3. CASE ~Open(r)
    <3>1. StatusKnown(commands', debt, shown, told.last, told.by)
      BY <1>4, <1>5, <2>1, <2>3, KnownAfter
    <3> QED
      BY <1>3, <1>5, <2>3, <3>1 DEF StatusKnown
  <2> QED
    BY <2>2, <2>3
<1>7. told' \in Told
  BY <1>1, <1>2 DEF ActionTypes
<1> QED
  BY <1>2, <1>3, <1>6, <1>7, RequestStep

\* A failure: the status asked for before counts again, and the debt has it.
LEMMA FailStep ==
  ASSUME ActionsInductive, NEW r \in commands, FailCommand(r)
  PROVE  ActionsInductive'
<1>1. /\ ActionTypes /\ (Alone => StatusKnown(commands, debt, shown, told.last, told.by))
      /\ r \in Command /\ told \in Told
  BY DEF ActionsInductive, ActionTypes
<1>2. PICK stage \in {"declined", "over"} :
        /\ r.stage \in {"sent", "done"} /\ GoesOn(r, stage)
        /\ told' = IF r.command \in StatusCommand /\ r.n = told.by
                     THEN [told EXCEPT !.last = r.before, !.by = 0] ELSE told
        /\ UNCHANGED <<kind, page, visit, debt, shown, dialog>>
  BY DEF FailCommand
<1>3. PICK x \in Command, D \in SUBSET Command :
        /\ commands' = (commands \ {r}) \cup D /\ D \subseteq {x}
        /\ x.n = r.n /\ x.command = r.command /\ x.before = r.before /\ x.stage = stage
  BY <1>2, GoesOnTo
<1>4. ~Open(x) /\ (Open(r) <=> r.command \in StatusCommand)
  BY <1>2, <1>3 DEF Open
<1>5. /\ told' \in Told /\ told'.given = told.given /\ told'.foreign = told.foreign
      /\ told'.blind = told.blind
      /\ r.command \in StatusCommand /\ r.n = told.by => told'.last = r.before
      /\ r.command \notin StatusCommand => told' = told
  <2>1. CASE told' = told /\ ~(r.command \in StatusCommand /\ r.n = told.by)
    BY <1>1, <2>1
  <2>2. CASE r.command \in StatusCommand /\ told' = [told EXCEPT !.last = r.before, !.by = 0]
    <3>1. r.before \in {"active", "paid_off"} /\ 0 \in 0 .. MaxCommands
      BY <1>1, ActionsAssumption DEF Command
    <3> QED
      BY <1>1, <2>2, <3>1 DEF Told
  <2> QED
    BY <1>2, <2>1, <2>2
<1>6. ASSUME Alone PROVE StatusKnown(commands', debt, shown, told'.last, told'.by)
  <2>1. StatusKnown(commands, debt, shown, told.last, told.by)
    BY <1>1, <1>6
  <2>2. CASE Open(r)
    <3>1. \A q \in commands' : ~Open(q)
      BY <1>3, <1>4, <2>1, <2>2, KnownAfter
    <3>2. debt.exists => debt.status = told'.last
      BY <1>4, <1>5, <2>1, <2>2 DEF StatusKnown
    <3> QED
      BY <3>1, <3>2 DEF StatusKnown
  <2>3. CASE ~Open(r)
    <3>1. StatusKnown(commands', debt, shown, told.last, told.by)
      BY <1>3, <1>4, <2>1, <2>3, KnownAfter
    <3> QED
      BY <1>4, <1>5, <2>3, <3>1
  <2> QED
    BY <2>2, <2>3
<1>7. debt' \in DebtShown
  BY <1>1, <1>2 DEF ActionTypes
<1> QED
  BY <1>2, <1>5, <1>6, <1>7, RequestStep

\* The answer to a command, or its loss: after a deletion the page may change.
LEMMA AnswerStep ==
  ASSUME ActionsInductive, NEW r \in commands, NEW well \in BOOLEAN, AnswerCommand(r, well)
  PROVE  ActionsInductive'
<1>1. /\ ActionTypes /\ VisitsCounted /\ DialogsOnPage /\ r \in Command
      /\ Alone => StatusKnown(commands, debt, shown, told.last, told.by)
  BY DEF ActionsInductive, ActionTypes
<1> DEFINE x == [r EXCEPT !.heard = TRUE]
           D == IF r.stage \in {"sent", "done"} THEN {x} ELSE {}
<1>2. /\ ~r.heard /\ UNCHANGED <<kind, debt, shown, told>>
      /\ \/ /\ r.visit = visit /\ dialog' = "none" /\ page' = "debts"
            /\ visit' = IF page = "detail" THEN visit + 1 ELSE visit
         \/ UNCHANGED <<page, visit, dialog>>
  BY DEF AnswerCommand, CallbackRuns
<1>3. /\ x \in Command /\ x.n = r.n /\ x.visit = r.visit /\ x.command = r.command
      /\ x.before = r.before /\ x.stage = r.stage /\ x.heard
  BY <1>1 DEF Command
<1>4. /\ commands' = (commands \ {r}) \cup D /\ D \in SUBSET {x}
      /\ r.stage \in {"sent", "done"} => x \in D
  BY DEF AnswerCommand
<1> HIDE DEF x, D
<1>5. /\ IsFiniteSet(commands') /\ Cardinality(Awaited(commands)) \in Nat
      /\ Cardinality(Awaited(commands')) \in Nat
      /\ Cardinality(Awaited(commands')) + 1 = Cardinality(Awaited(commands))
  BY <1>1, <1>2, <1>3, <1>4, AwaitedAfter DEF ActionTypes
<1>6. visit \in Nat /\ visit' \in Nat /\ visit <= visit' /\ visit' <= visit + 1
      /\ (visit # 0 => visit' # 0) /\ 1 .. visit \subseteq 1 .. visit'
  BY <1>1, <1>2 DEF ActionTypes
<1>7. ActionTypes'
  BY <1>1, <1>2, <1>3, <1>4, <1>5, <1>6 DEF ActionTypes
<1>8. VisitsCounted'
  <2>1. told.given \in Nat /\ MaxVisits \in Nat /\ told' = told
    BY <1>1, <1>2, ActionsAssumption DEF ActionTypes, Told
  <2>2. /\ visit + Cardinality(Awaited(commands)) <= MaxVisits + told.given
        /\ Cardinality(Awaited(commands)) <= told.given
    BY <1>1 DEF VisitsCounted
  <2>3. /\ visit' + Cardinality(Awaited(commands')) <= MaxVisits + told.given
        /\ Cardinality(Awaited(commands')) <= told.given
    BY <1>5, <1>6, <2>1, <2>2
  <2> QED
    BY <2>1, <2>3 DEF VisitsCounted, Awaited
<1>9. visit >= 1
  BY <1>1 DEF ActionTypes
<1>10. DialogsOnPage'
  BY <1>1, <1>2, <1>6, <1>9 DEF DialogsOnPage
<1>11. ASSUME Alone PROVE StatusKnown(commands', debt, shown, told.last, told.by)
  <2>1. Open(x) /\ x \in D <=> Open(r)
    BY <1>3, <1>4 DEF Open
  <2>2. StatusKnown(commands, debt, shown, told.last, told.by)
    BY <1>1, <1>11
  <2> QED
    BY <1>3, <1>4, <2>1, <2>2, KnownAfter
<1>12. (Alone => StatusKnown(commands, debt, shown, told.last, told.by))'
  BY <1>2, <1>6, <1>11 DEF Alone, StatusKnown, Open
<1> QED
  BY <1>7, <1>8, <1>10, <1>12 DEF ActionsInductive

\* Other clients pay, the screen catches up, the user moves about.
LEMMA AroundStep ==
  ASSUME ActionsInductive, UNCHANGED commands,
         \/ \E k \in {"loan", "p2p"}, p \in {"debts", "detail"} : Visit(k, p)
         \/ (\E d \in {"complete", "reactivate", "delete"} : OpenDialog(d)) \/ CancelDialog
         \/ (\E s \in {debt.status, "paid_off"} : ForeignPayment(s)) \/ RefetchDebt
  PROVE  ActionsInductive'
<1>1. /\ ActionTypes /\ VisitsCounted /\ DialogsOnPage
      /\ Alone => StatusKnown(commands, debt, shown, told.last, told.by)
  BY DEF ActionsInductive
<1>2. Cardinality(Awaited(commands)) \in Nat
  BY <1>1, AwaitedFinite DEF ActionTypes
<1>3. ASSUME NEW k \in {"loan", "p2p"}, NEW p \in {"debts", "detail"}, Visit(k, p)
      PROVE  ActionsInductive'
  <2>1. /\ visit < MaxVisits /\ kind' \in {"loan", "p2p"} /\ page' = p /\ visit' = visit + 1
        /\ dialog' = "none" /\ UNCHANGED <<debt, shown, commands, told>>
    BY <1>1, <1>3 DEF Visit, ActionTypes
  <2>2. visit \in Nat /\ 1 .. visit \subseteq 1 .. visit + 1
    BY <1>1 DEF ActionTypes
  <2>3. ActionTypes'
    BY <1>1, <2>1, <2>2 DEF ActionTypes
  <2>4. VisitsCounted'
    BY <1>1, <1>2, <2>1, <2>2, ActionsAssumption DEF VisitsCounted, ActionTypes, Told
  <2>5. DialogsOnPage'
    BY <1>1, <2>1, <2>2 DEF DialogsOnPage
  <2>6. (Alone => StatusKnown(commands, debt, shown, told.last, told.by))'
    BY <1>1, <2>1, <2>2 DEF Alone, StatusKnown, Open
  <2> QED
    BY <2>3, <2>4, <2>5, <2>6 DEF ActionsInductive
<1>4. CASE (\E d \in {"complete", "reactivate", "delete"} : OpenDialog(d)) \/ CancelDialog
  <2>1. /\ UNCHANGED <<kind, page, visit, debt, shown, commands, told>>
        /\ dialog' \in {"none", "complete", "reactivate", "delete"}
        /\ dialog' # "none" => shown.exists /\ page # "none"
    BY <1>4 DEF OpenDialog, CancelDialog
  <2>2. ActionTypes' /\ VisitsCounted' /\ DialogsOnPage'
    BY <1>1, <2>1 DEF ActionTypes, VisitsCounted, DialogsOnPage
  <2>3. (Alone => StatusKnown(commands, debt, shown, told.last, told.by))'
    BY <1>1, <2>1 DEF Alone, StatusKnown, Open
  <2> QED
    BY <2>2, <2>3 DEF ActionsInductive
<1>5. ASSUME NEW s \in {debt.status, "paid_off"}, ForeignPayment(s) PROVE ActionsInductive'
  <2> DEFINE payments == debt.payments + 1
             foreign == told.foreign + 1
  <2>1. /\ told.foreign < MaxForeign
        /\ debt' = [debt EXCEPT !.payments = payments, !.status = s]
        /\ told' = [told EXCEPT !.foreign = foreign]
        /\ UNCHANGED <<kind, page, visit, shown, dialog, commands>>
    BY <1>5 DEF ForeignPayment
  <2>2. /\ payments \in Nat /\ foreign \in 0 .. MaxForeign /\ foreign # 0
        /\ payments <= foreign /\ shown.payments <= foreign
        /\ s \in {"active", "paid_off"}
    BY <1>1, <2>1, ActionsAssumption DEF ActionTypes, DebtShown, DialogsOnPage, Told
  <2> HIDE DEF payments, foreign
  <2>3. debt' \in DebtShown /\ debt'.payments = payments
    BY <1>1, <2>1, <2>2 DEF ActionTypes, DebtShown
  <2>4. told' \in Told /\ told'.foreign = foreign /\ told'.given = told.given
    BY <1>1, <2>1, <2>2 DEF ActionTypes, Told
  <2>5. ActionTypes' /\ VisitsCounted'
    BY <1>1, <2>1, <2>3, <2>4 DEF ActionTypes, VisitsCounted
  <2>6. DialogsOnPage'
    BY <1>1, <2>1, <2>2, <2>3, <2>4 DEF DialogsOnPage
  <2>7. ~Alone'
    BY <2>2, <2>4 DEF Alone
  <2> QED
    BY <2>5, <2>6, <2>7 DEF ActionsInductive
<1>6. CASE RefetchDebt
  <2>1. /\ shown' = debt /\ dialog' = (IF debt.exists THEN dialog ELSE "none")
        /\ UNCHANGED <<kind, page, visit, debt, commands, told>>
    BY <1>6 DEF RefetchDebt, StillOpen
  <2>2. ActionTypes' /\ VisitsCounted' /\ DialogsOnPage'
    BY <1>1, <2>1 DEF ActionTypes, VisitsCounted, DialogsOnPage
  <2>3. (Alone => StatusKnown(commands, debt, shown, told.last, told.by))'
    BY <1>1, <2>1 DEF Alone, StatusKnown, Open
  <2> QED
    BY <2>2, <2>3 DEF ActionsInductive
<1> QED
  BY <1>3, <1>4, <1>5, <1>6

\* Every step of the page, its dialogs and its requests keeps it.
LEMMA ActionsStep ==
  ASSUME ActionsInductive, [ActionsNext]_action_vars
  PROVE  ActionsInductive'
<1>1. CASE MarkDebtPaid \/ ReactivateDebt \/ \E c \in {"delete", "purge"} : DeleteDebtOf(c)
  <2>1. PICK c \in {"paid", "reactivate", "delete", "purge"} :
          /\ Send(c) /\ UNCHANGED <<kind, page, visit, debt, shown>>
          /\ dialog' \in {"none", dialog} /\ (dialog # "none" \/ page = "detail")
    BY <1>1 DEF MarkDebtPaid, ReactivateDebt, DeleteDebtOf
  <2>2. page # "none"
    BY <2>1 DEF ActionsInductive, DialogsOnPage
  <2> QED
    BY <2>1, <2>2, SendStep
<1>2. CASE \E r \in commands :
             \/ ServeCommand(r) \/ CommitCommand(r) \/ FailCommand(r)
             \/ \E well \in BOOLEAN : AnswerCommand(r, well)
  BY <1>2, ServeStep, CommitStep, FailStep, AnswerStep
<1>3. CASE \/ \E k \in {"loan", "p2p"}, p \in {"debts", "detail"} : Visit(k, p)
           \/ (\E d \in {"complete", "reactivate", "delete"} : OpenDialog(d)) \/ CancelDialog
           \/ (\E s \in {debt.status, "paid_off"} : ForeignPayment(s)) \/ RefetchDebt
  <2>1. UNCHANGED commands
    BY <1>3 DEF Visit, OpenDialog, CancelDialog, ForeignPayment, RefetchDebt
  <2> QED
    BY <1>3, <2>1, AroundStep
<1>4. CASE UNCHANGED action_vars
  BY <1>4 DEF action_vars, ActionsInductive, ActionTypes, VisitsCounted, DialogsOnPage,
              Alone, StatusKnown, Open
<1> QED
  BY <1>1, <1>2, <1>3, <1>4 DEF ActionsNext

\* It holds in all reachable states.
LEMMA ActionsAlways == ActionsSpec => []ActionsInductive
BY ActionsStart, ActionsStep, PTL DEF ActionsSpec

\* A user who stays on one page, alone, and acts on what the server has gets the
\* status of the last command that did not fail, and a deletion answered late takes nobody away from a page
\* visited since, for any number of commands, visits and payments by others.
THEOREM ActionsKeepPromises == ActionsSpec => ActionsPromises
<1>1. ActionsInductive => ActionsInvariant
  <2> SUFFICES ASSUME ActionsInductive PROVE ActionsInvariant
    OBVIOUS
  <2>1. ActionTypes /\ VisitsCounted /\ DialogsOnPage
    BY DEF ActionsInductive
  <2>2. Cardinality(Awaited(commands)) \in Nat
    BY <2>1, AwaitedFinite DEF ActionTypes
  <2>3. visit \in 0 .. MaxVisits + MaxCommands
    BY <2>1, <2>2, ActionsAssumption DEF ActionTypes, VisitsCounted, Told
  <2>4. \A d \in {debt, shown} :
          /\ d.status \in {"active", "paid_off"} /\ d.payments \in 0 .. MaxForeign
          /\ d.exists \in BOOLEAN
    BY <2>1, ActionsAssumption DEF ActionTypes, DialogsOnPage, DebtShown, Told
  <2>5. commands \subseteq [n : 1 .. MaxCommands, visit : 1 .. visit,
                            command : {"paid", "reactivate", "delete", "purge"},
                            stage : {"sent", "done", "declined", "over"}, heard : BOOLEAN,
                            before : {"active", "paid_off"}]
    BY <2>1 DEF ActionTypes, Command
  <2>6. ActionsTypeOK
    BY <2>1, <2>3, <2>4, <2>5 DEF ActionTypes, DialogsOnPage, ActionsTypeOK
  <2>7. LastCommandWins
    BY DEF ActionsInductive, Alone, StatusKnown, LastCommandWins
  <2> QED
    BY <2>6, <2>7 DEF ActionsInvariant
<1>2. ActionsSpec => NoPushFromElsewhere
  <2> DEFINE Stays == \A r \in commands \ commands' : r.visit # visit => page' = page
  <2>1. ASSUME [ActionsNext]_action_vars PROVE [Stays]_action_vars
    <3> SUFFICES ASSUME ActionsNext, NEW r \in commands \ commands', r.visit # visit
                 PROVE  page' = page
      BY <2>1
    <3>1. CASE \E q \in commands : ServeCommand(q) \/ CommitCommand(q) \/ FailCommand(q)
      BY <3>1 DEF ServeCommand, CommitCommand, FailCommand
    <3>2. ASSUME NEW q \in commands, NEW well \in BOOLEAN, AnswerCommand(q, well)
          PROVE  page' = page
      <4>1. q = r
        BY <3>2 DEF AnswerCommand
      <4> QED
        BY <3>2, <4>1 DEF AnswerCommand, CallbackRuns
    <3>3. CASE MarkDebtPaid \/ ReactivateDebt \/ \E c \in {"delete", "purge"} : DeleteDebtOf(c)
      BY <3>3 DEF MarkDebtPaid, ReactivateDebt, DeleteDebtOf
    <3>4. CASE \/ \E k \in {"loan", "p2p"}, p \in {"debts", "detail"} : Visit(k, p)
               \/ (\E d \in {"complete", "reactivate", "delete"} : OpenDialog(d))
               \/ CancelDialog
               \/ (\E s \in {debt.status, "paid_off"} : ForeignPayment(s)) \/ RefetchDebt
      BY <3>4 DEF Visit, OpenDialog, CancelDialog, ForeignPayment, RefetchDebt
    <3> QED
      BY <3>1, <3>2, <3>3, <3>4 DEF ActionsNext
  <2> QED
    BY <2>1, PTL DEF ActionsSpec, NoPushFromElsewhere
<1> QED
  BY <1>1, <1>2, ActionsAlways, PTL DEF ActionsPromises

-----------------------------------------------------------------------------
(* The banner of past payments *)

Queries == {"debt", "schedule", "accounts"}
DebtRecord == [due : 0 .. Cardinality(Row), pays : [Row -> Nat], linked : BOOLEAN,
               cutoff : 0 .. Cardinality(Row)]

PastTypes ==
  /\ past_loan \in PastLoan /\ past_debt \in DebtRecord
  /\ past_seen \in [Queries -> DebtRecord]
  /\ past_banner \in [setup : BOOLEAN, up : BOOLEAN, checked : SUBSET Row, base : Nat]
  /\ past_log.batches \in 0 .. MaxBatches /\ past_log.changes \in 0 .. MaxChanges
  /\ past_log = [batches |-> past_log.batches, changes |-> past_log.changes,
                 last |-> past_log.last]
  /\ past_log.last = [warned |-> past_log.last.warned, moved |-> past_log.last.moved,
                      alone |-> past_log.last.alone]
  /\ IsPending(past_request) =>
       /\ past_request = [stage |-> past_request.stage, body |-> past_request.body]
       /\ past_request.body.rows \subseteq Row /\ past_request.body.base \in Nat

\* A row is paid by a batch or by somebody else; a batch at the server has been
\* counted and is not recorded yet.
PaysCounted ==
  \A i \in Row :
    /\ past_debt.pays[i] <= past_log.batches + past_log.changes
    /\ AtServer(past_request) => past_debt.pays[i] < past_log.batches + past_log.changes
    /\ \A query \in Queries : past_seen[query].pays[i] <= past_debt.pays[i]

\* Nothing is on the screen, or sent, before the loan is there.
OpenedFirst ==
  /\ past_debt # NoDebt => past_debt.due >= 1
  /\ past_debt = NoDebt => ~past_banner.setup /\ ~past_banner.up /\ ~IsPending(past_request)

Paid(d) == \E i \in Row : d.pays[i] > 0

\* The banner is up while there are rows to tick and nothing has been paid, as the
\* screen knows; once it has gone it does not come back.
BannerKnown(banner, copies, d) ==
  /\ banner.up => /\ banner.setup /\ Overdue(copies["schedule"]) # {}
                  /\ ~Paid(copies["debt"])
  /\ banner.setup /\ ~banner.up =>
       /\ Paid(d)
       /\ Paid(copies["debt"]) \/ (Overdue(copies["schedule"]) = {} /\ Overdue(d) = {})

\* As long as nobody else has changed the loan, the rows that are due and the day
\* of the opening are on the screen as the server has them.
Unmoved(banner, copies, d, changes) ==
  /\ banner.base <= changes
  /\ banner.up /\ banner.base = changes =>
       /\ \A query \in Queries : copies[query].due = d.due /\ copies[query].cutoff = d.cutoff
       /\ \A i \in banner.checked : i <= d.due

\* What rows of the schedule of a loan add up to, and what the server takes from the
\* account for them.
SumRows(l, rows) == MapThenSumSet(LAMBDA i : PastSchedule[l][i].payment_minor, rows)
Impact(l, rows, cutoff) == SumRows(l, {i \in rows : i >= cutoff})

BatchKnown(request, l, d, changes) ==
  /\ IsPending(request) =>
       /\ request.body.base <= changes
       /\ request.body.current => request.body.again = {}
  /\ AtServer(request) /\ request.body.current /\ request.body.base = changes =>
       request.body.warned = Impact(l, request.body.rows, d.cutoff)

PastInductive ==
  /\ PastTypes /\ PaysCounted /\ OpenedFirst
  /\ BannerKnown(past_banner, past_seen, past_debt)
  /\ Unmoved(past_banner, past_seen, past_debt, past_log.changes)
  /\ BatchKnown(past_request, past_loan, past_debt, past_log.changes) /\ WarnedIsMoved

\* The rows are the numbers from 1 to their number.
LEMMA RowFacts ==
  /\ IsFiniteSet(Row) /\ Cardinality(Row) \in Nat \ {0} /\ Row = 1 .. Cardinality(Row)
<1> DEFINE n == (CHOOSE l \in PastLoan : TRUE).num_periods
<1>1. n \in Nat \ {0}
  BY PastAssumption DEF LoanType
<1>2. Row = 1 .. n
  BY DEF Row
<1> HIDE DEF n
<1>3. IsFiniteSet(1 .. n) /\ Cardinality(1 .. n) = n
  BY <1>1, FS_Interval
<1> QED
  BY <1>1, <1>2, <1>3

\* What has been paid is 0 exactly when no row has a payment.
LEMMA TotalPaidZero ==
  ASSUME NEW d \in DebtRecord
  PROVE  TotalPaid(d) = 0 <=> ~Paid(d)
<1> DEFINE w == d.pays
           Sums(f) == f = [s \in SUBSET Row |->
                            IF s = {} THEN 0
                            ELSE LET p == CHOOSE q \in s : TRUE
                                 IN  d.pays[p] + f[s \ {p}]]
           iter == CHOOSE sums : Sums(sums)
           total == CHOOSE g : AreSums(w, g, Row)
<1>1. TotalPaid(d) = iter[Row]
  BY DEF TotalPaid, MapThenSumSet, MapThenFoldSet
<1>2. ASSUME NEW f PROVE Sums(f) <=> AreSums(w, f, Row)
  BY DEF AreSums, SumStep, Pick
<1>3. AreSums(w, total, Row)
  BY RowFacts, SumsDefined
<1> HIDE DEF Sums, total
<1>4. Sums(iter)
  BY <1>2, <1>3
<1> HIDE DEF iter
<1>5. AreSums(w, iter, Row)
  BY <1>2, <1>4
<1>6. iter[Row] = total[Row]
  <2>1. IsFiniteSet(Row) /\ Row \in SUBSET Row
    BY RowFacts
  <2>2. \A s \in SUBSET Row : iter[s] = total[s]
    BY <1>3, <1>5, <2>1, SumsAgree
  <2> QED
    BY <2>1, <2>2
<1>7. TotalPaid(d) = Total(w, Row)
  BY <1>1, <1>6 DEF Total, total
<1>8. \A i \in Row : w[i] \in Nat
  BY DEF DebtRecord
<1> HIDE DEF w
<1>9. Total(w, Row) \in Nat /\ \A i \in Row : w[i] <= Total(w, Row)
  BY <1>8, RowFacts, TotalNatural
<1>10. (\A i \in Row : w[i] = 0) => Total(w, Row) = 0
  BY RowFacts, TotalZero
<1>11. Paid(d) <=> \E i \in Row : w[i] > 0
  BY DEF Paid, w
<1> QED
  BY <1>7, <1>8, <1>9, <1>10, <1>11

\* The banner is shown for an unpaid debt that has overdue rows, until it is
\* dismissed.
LEMMA ShownMeans ==
  ASSUME NEW copies \in [Queries -> DebtRecord], NEW setup \in BOOLEAN
  PROVE  Shown(copies, setup) <=>
           setup /\ Overdue(copies["schedule"]) # {} /\ ~Paid(copies["debt"])
<1>1. copies["debt"] \in DebtRecord
  BY DEF Queries
<1>2. TotalPaid(copies["debt"]) = 0 <=> ~Paid(copies["debt"])
  BY <1>1, TotalPaidZero
<1> QED
  BY <1>2 DEF Shown

\* A row that is due and not overdue has been paid.
LEMMA OverdueNone ==
  ASSUME NEW d \in DebtRecord, d.due >= 1, Overdue(d) = {}
  PROVE  Paid(d)
<1>1. 1 \in Row /\ 1 <= d.due
  BY RowFacts DEF DebtRecord
<1>2. d.pays[1] # 0 /\ d.pays[1] \in Nat
  BY <1>1 DEF Overdue, DebtRecord
<1> QED
  BY <1>1, <1>2 DEF Paid

\* Before a loan is opened the invariant of the banner holds.
LEMMA PastStart == PastInit => PastInductive
<1> SUFFICES ASSUME PastInit PROVE PastInductive
  OBVIOUS
<1>1. /\ past_loan = (CHOOSE l \in PastLoan : TRUE) /\ past_debt = NoDebt
      /\ past_seen = [query \in {"debt", "schedule", "accounts"} |-> NoDebt]
      /\ past_banner = NoBanner /\ past_request = NoRequest
      /\ past_log = [batches |-> 0, changes |-> 0,
                     last |-> [warned |-> 0, moved |-> 0, alone |-> FALSE]]
  BY DEF PastInit
<1>2. NoDebt \in DebtRecord /\ \A i \in Row : NoDebt.pays[i] = 0
  BY RowFacts DEF NoDebt, DebtRecord
<1>3. ~IsPending(past_request) /\ ~AtServer(past_request)
  BY <1>1 DEF NoRequest, IsPending, AtServer
<1>4. past_banner = [setup |-> FALSE, up |-> FALSE, checked |-> {}, base |-> 0]
  BY <1>1 DEF NoBanner
<1>5. PastTypes
  <2>1. past_loan \in PastLoan
    BY <1>1, PastAssumption
  <2>2. past_seen \in [Queries -> DebtRecord]
    BY <1>1, <1>2 DEF Queries
  <2>3. past_banner \in [setup : BOOLEAN, up : BOOLEAN, checked : SUBSET Row, base : Nat]
    BY <1>4
  <2> QED
    BY <1>1, <1>2, <1>3, <2>1, <2>2, <2>3, PastAssumption DEF PastTypes
<1>6. PaysCounted
  BY <1>1, <1>2, <1>3 DEF PaysCounted, Queries
<1>7. OpenedFirst
  BY <1>1, <1>3, <1>4 DEF OpenedFirst
<1>8. BannerKnown(past_banner, past_seen, past_debt)
  BY <1>4 DEF BannerKnown
<1>9. Unmoved(past_banner, past_seen, past_debt, past_log.changes)
  BY <1>1, <1>4 DEF Unmoved
<1>10. BatchKnown(past_request, past_loan, past_debt, past_log.changes) /\ WarnedIsMoved
  BY <1>1, <1>3 DEF BatchKnown, WarnedIsMoved
<1> QED
  BY <1>5, <1>6, <1>7, <1>8, <1>9, <1>10 DEF PastInductive

\* Opening the page of a loan takes copies of the debt as it is.
LEMMA OpenSetupStep ==
  ASSUME PastInductive, NEW l \in PastLoan, NEW due \in Row, NEW linked \in BOOLEAN,
         NEW cutoff \in {0} \cup Row, OpenSetup(l, due, linked, cutoff)
  PROVE  PastInductive'
<1> DEFINE d == [due |-> due, pays |-> [i \in Row |-> 0], linked |-> linked,
                 cutoff |-> cutoff]
           copies == [query \in Queries |-> d]
<1>1. PastTypes /\ PaysCounted /\ OpenedFirst /\ WarnedIsMoved
  BY DEF PastInductive
<1>2. DOMAIN past_seen = Queries
  BY <1>1 DEF PastTypes
<1>3. /\ past_debt = NoDebt /\ past_loan' = l /\ past_debt' = d /\ past_seen' = copies
      /\ past_banner' = [setup |-> TRUE, up |-> Shown(copies, TRUE), checked |-> Overdue(d),
                         base |-> past_log.changes]
      /\ past_request' = past_request /\ past_log' = past_log
  BY <1>2 DEF OpenSetup
<1>4. d \in DebtRecord /\ d.due >= 1 /\ d # NoDebt /\ ~Paid(d) /\ d.due \in Row
  BY RowFacts DEF DebtRecord, Paid, NoDebt
<1>5. \A i \in Row : d.pays[i] = 0
  OBVIOUS
<1> HIDE DEF d
<1>6. copies \in [Queries -> DebtRecord] /\ copies["schedule"] = d /\ copies["debt"] = d
  BY <1>4 DEF Queries
<1>7. \A query \in Queries : copies[query] = d
  OBVIOUS
<1> HIDE DEF copies
<1>8. Overdue(d) # {} /\ Overdue(d) \subseteq Row /\ \A i \in Overdue(d) : i <= d.due
  BY <1>4, OverdueNone DEF Overdue
<1>9. Shown(copies, TRUE) = TRUE
  BY <1>4, <1>6, <1>8, ShownMeans DEF Shown
<1>10. past_banner' = [setup |-> TRUE, up |-> TRUE, checked |-> Overdue(d),
                       base |-> past_log.changes]
  BY <1>3, <1>9
<1>11. ~IsPending(past_request) /\ ~AtServer(past_request)
  BY <1>1, <1>3 DEF OpenedFirst, IsPending, AtServer
<1>12. ~IsPending(past_request') /\ ~AtServer(past_request')
  BY <1>3, <1>11
<1>13. past_log.changes \in Nat /\ past_log.batches \in Nat
  BY <1>1 DEF PastTypes
<1>14. PastTypes'
  <2>1. past_banner' \in [setup : BOOLEAN, up : BOOLEAN, checked : SUBSET Row, base : Nat]
    BY <1>8, <1>10, <1>13
  <2> QED
    BY <1>1, <1>3, <1>4, <1>6, <1>12, <2>1 DEF PastTypes
<1>15. PaysCounted'
  BY <1>3, <1>5, <1>7, <1>12, <1>13 DEF PaysCounted
<1>16. OpenedFirst'
  BY <1>3, <1>4 DEF OpenedFirst
<1>17. BannerKnown(past_banner', copies, d)
  BY <1>4, <1>6, <1>8, <1>10 DEF BannerKnown
<1>18. Unmoved(past_banner', copies, d, past_log.changes)
  BY <1>7, <1>8, <1>10, <1>13 DEF Unmoved
<1>19. BatchKnown(past_request', l, d, past_log.changes)
  BY <1>12 DEF BatchKnown, IsPending, AtServer
<1>20. WarnedIsMoved'
  BY <1>1, <1>3 DEF WarnedIsMoved
<1> QED
  BY <1>3, <1>14, <1>15, <1>16, <1>17, <1>18, <1>19, <1>20 DEF PastInductive

\* A refetch brings one copy up to date.
LEMMA RefetchSetupStep ==
  ASSUME PastInductive, NEW query \in Queries, RefetchSetup(query)
  PROVE  PastInductive'
<1> DEFINE copies == [past_seen EXCEPT ![query] = past_debt]
           gone == [setup |-> past_banner.setup, up |-> FALSE, checked |-> {}, base |-> 0]
<1>1. /\ PastTypes /\ PaysCounted /\ OpenedFirst /\ WarnedIsMoved
      /\ BatchKnown(past_request, past_loan, past_debt, past_log.changes)
      /\ BannerKnown(past_banner, past_seen, past_debt)
      /\ Unmoved(past_banner, past_seen, past_debt, past_log.changes)
  BY DEF PastInductive
<1>2. /\ past_seen[query] # past_debt /\ past_seen' = copies
      /\ past_banner' = Redrawn(copies, past_banner.setup)
      /\ UNCHANGED <<past_loan, past_debt, past_request, past_log>>
  BY DEF RefetchSetup
<1>3. /\ past_debt \in DebtRecord /\ past_seen \in [Queries -> DebtRecord]
      /\ past_banner \in [setup : BOOLEAN, up : BOOLEAN, checked : SUBSET Row, base : Nat]
      /\ past_log.changes \in Nat /\ past_log.batches \in Nat
  BY <1>1 DEF PastTypes
<1>4. /\ copies \in [Queries -> DebtRecord]
      /\ \A q \in Queries : copies[q] = past_debt \/ copies[q] = past_seen[q]
  BY <1>3
<1> HIDE DEF copies
<1>5. /\ copies["schedule"] = past_debt \/ copies["schedule"] = past_seen["schedule"]
      /\ copies["debt"] = past_debt \/ copies["debt"] = past_seen["debt"]
  BY <1>4 DEF Queries
<1>6. Shown(copies, past_banner.setup) <=>
        past_banner.setup /\ Overdue(copies["schedule"]) # {} /\ ~Paid(copies["debt"])
  <2>1. past_banner.setup \in BOOLEAN
    BY <1>3
  <2> QED
    BY <1>4, <2>1, ShownMeans
<1>7. Shown(copies, past_banner.setup) => past_banner.up
  BY <1>1, <1>5, <1>6 DEF BannerKnown
<1>8. \/ Shown(copies, past_banner.setup) /\ past_banner.up /\ past_banner' = past_banner
      \/ ~Shown(copies, past_banner.setup) /\ past_banner' = gone
  BY <1>2, <1>7 DEF Redrawn, NoBanner
<1>9. gone \in [setup : BOOLEAN, up : BOOLEAN, checked : SUBSET Row, base : Nat]
      /\ ~gone.up /\ gone.base = 0 /\ gone.setup = past_banner.setup
  BY <1>3
<1> HIDE DEF gone
<1>10. PastTypes'
  BY <1>1, <1>2, <1>3, <1>4, <1>8, <1>9 DEF PastTypes
<1>11. PaysCounted'
  BY <1>1, <1>2, <1>4, <1>3 DEF PaysCounted, DebtRecord
<1>12. OpenedFirst'
  BY <1>1, <1>2, <1>8, <1>9 DEF OpenedFirst
<1>13. BannerKnown(past_banner', copies, past_debt)
  <2>1. CASE Shown(copies, past_banner.setup)
    BY <1>6, <1>8, <2>1 DEF BannerKnown
  <2>2. CASE ~Shown(copies, past_banner.setup)
    <3>1. past_banner' = gone
      BY <1>8, <2>2
    <3>2. ASSUME past_banner.setup
          PROVE  /\ Paid(past_debt)
                 /\ Paid(copies["debt"])
                      \/ (Overdue(copies["schedule"]) = {} /\ Overdue(past_debt) = {})
      <4>1. past_debt # NoDebt
        BY <1>1, <3>2 DEF OpenedFirst
      <4>2. Overdue(past_debt) = {} => Paid(past_debt)
        BY <1>1, <1>3, <4>1, OverdueNone DEF OpenedFirst
      <4> QED
        BY <1>1, <1>5, <1>6, <2>2, <3>2, <4>2 DEF BannerKnown
    <3> QED
      BY <1>9, <3>1, <3>2 DEF BannerKnown
  <2> QED
    BY <2>1, <2>2
<1>14. Unmoved(past_banner', copies, past_debt, past_log.changes)
  <2>1. CASE past_banner' = past_banner
    BY <1>1, <1>4, <2>1 DEF Unmoved
  <2>2. CASE past_banner' = gone
    BY <1>3, <1>9, <2>2 DEF Unmoved
  <2> QED
    BY <1>8, <2>1, <2>2
<1>15. BatchKnown(past_request', past_loan', past_debt', past_log'.changes)
  BY <1>1, <1>2
<1>16. WarnedIsMoved'
  BY <1>1, <1>2 DEF WarnedIsMoved
<1> QED
  BY <1>2, <1>10, <1>11, <1>12, <1>13, <1>14, <1>15, <1>16 DEF PastInductive

\* Ticking a row, and leaving the banner.
LEMMA TickStep ==
  ASSUME PastInductive,
         \/ \E i \in Row : ToggleRow(i)
         \/ SkipSetup
  PROVE  PastInductive'
<1>1. /\ PastTypes /\ PaysCounted /\ OpenedFirst /\ WarnedIsMoved
      /\ BatchKnown(past_request, past_loan, past_debt, past_log.changes)
      /\ BannerKnown(past_banner, past_seen, past_debt)
      /\ Unmoved(past_banner, past_seen, past_debt, past_log.changes)
  BY DEF PastInductive
<1>2. /\ past_banner.up /\ past_banner.setup
      /\ UNCHANGED <<past_loan, past_debt, past_seen, past_request, past_log>>
  BY <1>1 DEF ToggleRow, SkipSetup, BannerKnown
<1>3. /\ past_banner \in [setup : BOOLEAN, up : BOOLEAN, checked : SUBSET Row, base : Nat]
      /\ past_seen \in [Queries -> DebtRecord] /\ past_log.changes \in Nat
  BY <1>1 DEF PastTypes
<1>4. CASE past_banner' = [setup |-> FALSE, up |-> FALSE, checked |-> {}, base |-> 0]
  <2>1. PastTypes'
    <3>1. past_banner' \in [setup : BOOLEAN, up : BOOLEAN, checked : SUBSET Row, base : Nat]
      BY <1>4
    <3> QED
      BY <1>1, <1>2, <3>1 DEF PastTypes
  <2>2. PaysCounted' /\ WarnedIsMoved'
    BY <1>1, <1>2 DEF PaysCounted, WarnedIsMoved
  <2>3. OpenedFirst'
    BY <1>1, <1>2, <1>4 DEF OpenedFirst
  <2>4. BannerKnown(past_banner', past_seen, past_debt)
    BY <1>4 DEF BannerKnown
  <2>5. Unmoved(past_banner', past_seen, past_debt, past_log.changes)
    BY <1>3, <1>4 DEF Unmoved
  <2> QED
    BY <1>1, <1>2, <2>1, <2>2, <2>3, <2>4, <2>5 DEF PastInductive
<1>5. CASE \E i \in Row : ToggleRow(i)
  <2>1. PICK i \in Row : ToggleRow(i)
    BY <1>5
  <2>2. PICK ticks \in SUBSET Row :
          /\ past_banner' = [past_banner EXCEPT !.checked = ticks]
          /\ ticks \subseteq past_banner.checked \cup {i}
    <3> DEFINE ticks == IF i \in past_banner.checked THEN past_banner.checked \ {i}
                        ELSE past_banner.checked \cup {i}
    <3>1. past_banner' = [past_banner EXCEPT !.checked = ticks]
      BY <2>1 DEF ToggleRow
    <3>2. ticks \in SUBSET Row /\ ticks \subseteq past_banner.checked \cup {i}
      BY <1>3
    <3> HIDE DEF ticks
    <3> QED
      BY <3>1, <3>2
  <2>3. i <= past_seen["schedule"].due
    BY <2>1 DEF ToggleRow, Overdue
  <2>4. /\ past_banner' \in [setup : BOOLEAN, up : BOOLEAN, checked : SUBSET Row, base : Nat]
        /\ past_banner'.setup = past_banner.setup /\ past_banner'.up = past_banner.up
        /\ past_banner'.base = past_banner.base /\ past_banner'.checked = ticks
    BY <1>3, <2>2
  <2>5. PastTypes'
    BY <1>1, <1>2, <2>4 DEF PastTypes
  <2>6. PaysCounted' /\ WarnedIsMoved'
    BY <1>1, <1>2 DEF PaysCounted, WarnedIsMoved
  <2>7. OpenedFirst'
    BY <1>1, <1>2, <2>4 DEF OpenedFirst
  <2>8. BannerKnown(past_banner', past_seen, past_debt)
    BY <1>1, <2>4 DEF BannerKnown
  <2>9. Unmoved(past_banner', past_seen, past_debt, past_log.changes)
    <3>1. "schedule" \in Queries
      BY DEF Queries
    <3>2. ASSUME past_banner.base = past_log.changes, NEW k \in ticks PROVE k <= past_debt.due
      BY <1>1, <1>2, <2>2, <2>3, <3>1, <3>2 DEF Unmoved
    <3> QED
      BY <1>1, <2>4, <3>2 DEF Unmoved
  <2> QED
    BY <1>1, <1>2, <2>5, <2>6, <2>7, <2>8, <2>9 DEF PastInductive
<1> QED
  BY <1>4, <1>5 DEF SkipSetup, NoBanner

\* A batch is confirmed with the rows the screen shows.
LEMMA ConfirmSetupStep ==
  ASSUME PastInductive, ConfirmSetup
  PROVE  PastInductive'
<1> DEFINE body == [rows |-> past_banner.checked, warned |-> Warned,
                    current |-> Current, base |-> past_banner.base,
                    again |-> {i \in past_banner.checked : past_debt.pays[i] > 0}]
           offered == past_banner.checked \cap Overdue(past_seen["schedule"])
           after == {i \in offered : AfterCutoff(i, past_seen["accounts"].cutoff)}
           all == {i \in past_banner.checked : i >= past_debt.cutoff}
           batches == past_log.batches + 1
<1>1. /\ PastTypes /\ PaysCounted /\ OpenedFirst /\ WarnedIsMoved
      /\ BannerKnown(past_banner, past_seen, past_debt)
      /\ Unmoved(past_banner, past_seen, past_debt, past_log.changes)
  BY DEF PastInductive
<1>2. /\ past_banner.up /\ ~IsPending(past_request) /\ past_log.batches < MaxBatches
      /\ past_request' = [stage |-> "sent", body |-> body]
      /\ past_log' = [past_log EXCEPT !.batches = batches]
      /\ UNCHANGED <<past_loan, past_debt, past_seen, past_banner>>
  BY DEF ConfirmSetup, Request
<1>3. /\ past_banner \in [setup : BOOLEAN, up : BOOLEAN, checked : SUBSET Row, base : Nat]
      /\ past_seen \in [Queries -> DebtRecord] /\ past_log.changes \in Nat
      /\ past_debt \in DebtRecord /\ past_log.batches \in 0 .. MaxBatches
  BY <1>1 DEF PastTypes
<1>4. Warned = SumRows(past_loan, after)
  BY DEF Warned, RowOf, SumRows
<1>5. ASSUME Current
      PROVE  /\ \A i \in Row : past_debt.pays[i] = 0
             /\ past_banner.base = past_log.changes => after = all
  <2>1. \A query \in Queries : past_seen[query] = past_debt
    BY <1>3, <1>5 DEF Current
  <2>2. /\ past_seen["schedule"] = past_debt /\ past_seen["accounts"] = past_debt
        /\ past_seen["debt"] = past_debt
    BY <2>1 DEF Queries
  <2>3. \A i \in Row : past_debt.pays[i] = 0
    BY <1>1, <1>2, <1>3, <2>2 DEF BannerKnown, Paid, DebtRecord
  <2>4. past_banner.base = past_log.changes => offered = past_banner.checked
    BY <1>1, <1>2, <1>3, <2>2, <2>3 DEF Unmoved, Overdue
  <2>5. \A i \in Row : AfterCutoff(i, past_seen["accounts"].cutoff) <=> i >= past_debt.cutoff
    BY <2>2 DEF AfterCutoff
  <2> QED
    BY <1>3, <2>3, <2>4, <2>5
<1>6. /\ body.rows = past_banner.checked /\ body.warned = SumRows(past_loan, after)
      /\ body.current = Current /\ body.base = past_banner.base
      /\ body.again = {i \in past_banner.checked : past_debt.pays[i] > 0}
  BY <1>4
<1> HIDE DEF body, offered, after
<1>7. /\ IsPending(past_request') /\ past_request'.body = body
      /\ past_request' = [stage |-> past_request'.stage, body |-> past_request'.body]
  BY <1>2 DEF IsPending
<1>8. /\ past_log'.batches = batches /\ past_log'.changes = past_log.changes
      /\ past_log'.last = past_log.last
      /\ past_log' = [batches |-> batches, changes |-> past_log.changes,
                      last |-> past_log.last]
  BY <1>1, <1>2 DEF PastTypes
<1>9. batches \in 0 .. MaxBatches /\ batches = past_log.batches + 1
  BY <1>2, <1>3, PastAssumption
<1> HIDE DEF batches
<1>10. PastTypes'
  BY <1>1, <1>2, <1>3, <1>6, <1>7, <1>8, <1>9 DEF PastTypes
<1>11. PaysCounted'
  <2>1. \A i \in Row : past_debt.pays[i] \in Nat
    BY <1>3 DEF DebtRecord
  <2> QED
    BY <1>1, <1>2, <1>3, <1>8, <1>9, <2>1 DEF PaysCounted
<1>12. OpenedFirst'
  BY <1>1, <1>2 DEF OpenedFirst
<1>13. body.current => body.again = {}
  BY <1>3, <1>5, <1>6
<1>14. body.current /\ body.base = past_log.changes =>
         body.warned = Impact(past_loan, body.rows, past_debt.cutoff)
  BY <1>5, <1>6 DEF Impact
<1>15. BatchKnown(past_request', past_loan, past_debt, past_log.changes)
  BY <1>1, <1>6, <1>7, <1>13, <1>14 DEF BatchKnown, Unmoved
<1>16. WarnedIsMoved'
  BY <1>1, <1>8 DEF WarnedIsMoved
<1> QED
  BY <1>1, <1>2, <1>8, <1>10, <1>11, <1>12, <1>15, <1>16 DEF PastInductive

\* The answer to a batch that was booked takes the banner away.
LEMMA AnswerSetupStep ==
  ASSUME PastInductive, AnswerSetup
  PROVE  PastInductive'
<1> DEFINE gone == [setup |-> FALSE, up |-> FALSE, checked |-> {}, base |-> 0]
<1>1. /\ PastTypes /\ PaysCounted /\ OpenedFirst /\ WarnedIsMoved
      /\ BannerKnown(past_banner, past_seen, past_debt)
      /\ Unmoved(past_banner, past_seen, past_debt, past_log.changes)
  BY DEF PastInductive
<1>2. /\ past_request' = NoRequest /\ past_banner' \in {gone, past_banner}
      /\ UNCHANGED <<past_loan, past_debt, past_seen, past_log>>
  BY DEF AnswerSetup, NoBanner
<1>3. ~IsPending(past_request') /\ ~AtServer(past_request')
  BY <1>2 DEF NoRequest, IsPending, AtServer
<1>4. gone \in [setup : BOOLEAN, up : BOOLEAN, checked : SUBSET Row, base : Nat]
      /\ ~gone.setup /\ ~gone.up /\ gone.base = 0
  OBVIOUS
<1> HIDE DEF gone
<1>5. PastTypes'
  BY <1>1, <1>2, <1>3, <1>4 DEF PastTypes
<1>6. PaysCounted' /\ WarnedIsMoved'
  BY <1>1, <1>2, <1>3 DEF PaysCounted, WarnedIsMoved
<1>7. OpenedFirst'
  BY <1>1, <1>2, <1>3, <1>4 DEF OpenedFirst
<1>8. BannerKnown(past_banner', past_seen, past_debt)
  BY <1>1, <1>2, <1>4 DEF BannerKnown
<1>9. Unmoved(past_banner', past_seen, past_debt, past_log.changes)
  <2>1. past_log.changes \in Nat
    BY <1>1 DEF PastTypes
  <2> QED
    BY <1>1, <1>2, <1>4, <2>1 DEF Unmoved
<1>10. BatchKnown(past_request', past_loan, past_debt, past_log.changes)
  BY <1>3 DEF BatchKnown
<1> QED
  BY <1>2, <1>5, <1>6, <1>7, <1>8, <1>9, <1>10 DEF PastInductive

\* What may become of a debt when rows are paid, or it is edited before that.
Grown(d, e) ==
  /\ e \in DebtRecord /\ e.due >= 1
  /\ \A i \in Row : e.pays[i] \in {d.pays[i], d.pays[i] + 1}
  /\ Paid(d) => e.due = d.due

\* What is known of the banner stays true of a debt that has grown.
LEMMA StillGone ==
  ASSUME NEW d \in DebtRecord, NEW e, Grown(d, e), NEW banner, NEW copies,
         BannerKnown(banner, copies, d)
  PROVE  BannerKnown(banner, copies, e)
<1>1. \A i \in Row : d.pays[i] \in Nat /\ e.pays[i] \in Nat /\ e.pays[i] >= d.pays[i]
  BY DEF Grown, DebtRecord
<1>2. Paid(d) => Paid(e)
  BY <1>1 DEF Paid
<1>3. Paid(d) /\ Overdue(d) = {} => Overdue(e) = {}
  BY <1>1 DEF Overdue, Grown
<1> QED
  BY <1>2, <1>3 DEF BannerKnown

\* The server books the rows of a batch, or refuses all of them.
LEMMA ServeSetupStep ==
  ASSUME PastInductive, ServeSetup
  PROVE  PastInductive'
<1> DEFINE body == past_request.body
           rows == body.rows
           d == [past_debt EXCEPT !.pays =
                   [i \in Row |-> IF i \in rows THEN past_debt.pays[i] + 1
                                  ELSE past_debt.pays[i]]]
           alone == body.current /\ body.base = past_log.changes
           last == [warned |-> body.warned, moved |-> Impact(past_loan, rows, past_debt.cutoff),
                    alone |-> alone]
<1>1. /\ PastTypes /\ PaysCounted /\ OpenedFirst /\ WarnedIsMoved
      /\ BatchKnown(past_request, past_loan, past_debt, past_log.changes)
      /\ BannerKnown(past_banner, past_seen, past_debt)
      /\ Unmoved(past_banner, past_seen, past_debt, past_log.changes)
  BY DEF PastInductive
<1>2. /\ past_debt \in DebtRecord /\ past_log.changes \in Nat /\ past_log.batches \in Nat
      /\ past_seen \in [Queries -> DebtRecord]
  BY <1>1 DEF PastTypes
<1>3. AtServer(past_request) /\ UNCHANGED <<past_loan, past_seen, past_banner>>
  BY DEF ServeSetup
<1>4. /\ IsPending(past_request) /\ past_debt # NoDebt
      /\ past_request = [stage |-> past_request.stage, body |-> body]
      /\ rows \subseteq Row /\ body.base \in Nat
  BY <1>1, <1>3 DEF PastTypes, OpenedFirst, AtServer, IsPending
<1>5. CASE past_request' = Declined(past_request) /\ UNCHANGED <<past_debt, past_log>>
  <2>1. past_request' = [stage |-> "declined", body |-> body]
    BY <1>4, <1>5 DEF Declined
  <2> HIDE DEF body
  <2>2. /\ IsPending(past_request') /\ ~AtServer(past_request') /\ past_request'.body = body
        /\ past_request' = [stage |-> past_request'.stage, body |-> past_request'.body]
    BY <2>1 DEF IsPending, AtServer
  <2>3. PastTypes'
    BY <1>1, <1>3, <1>4, <1>5, <2>2 DEF PastTypes
  <2>4. PaysCounted' /\ WarnedIsMoved'
    BY <1>1, <1>3, <1>5, <2>2 DEF PaysCounted, WarnedIsMoved
  <2>5. OpenedFirst'
    BY <1>1, <1>3, <1>4, <1>5 DEF OpenedFirst
  <2>6. BatchKnown(past_request', past_loan, past_debt, past_log.changes)
    BY <1>1, <1>4, <2>2 DEF BatchKnown, body
  <2> QED
    BY <1>1, <1>3, <1>5, <2>3, <2>4, <2>5, <2>6 DEF PastInductive
<1>6. CASE /\ past_debt' = d /\ past_request' = Done(past_request)
           /\ past_log' = [past_log EXCEPT !.last = last]
  <2>1. past_request' = [stage |-> "done", body |-> body]
    BY <1>4, <1>6 DEF Done
  <2>2. /\ IsPending(past_request') /\ ~AtServer(past_request') /\ past_request'.body = body
        /\ past_request' = [stage |-> past_request'.stage, body |-> past_request'.body]
    <3> HIDE DEF body
    <3> QED
      BY <2>1 DEF IsPending, AtServer
  <2>3. d \in DebtRecord /\ d.due = past_debt.due /\ d.cutoff = past_debt.cutoff
    BY <1>2 DEF DebtRecord
  <2>4. \A i \in Row : /\ d.pays[i] \in {past_debt.pays[i], past_debt.pays[i] + 1}
                       /\ past_debt.pays[i] \in Nat
    BY <1>2 DEF DebtRecord
  <2>5. Grown(past_debt, d)
    BY <1>1, <1>4, <2>3, <2>4 DEF Grown, OpenedFirst
  <2>6. alone => last.warned = last.moved
    BY <1>1, <1>3, <1>4 DEF BatchKnown
  <2>7. /\ last = [warned |-> last.warned, moved |-> last.moved, alone |-> last.alone]
        /\ last.alone <=> alone
    OBVIOUS
  <2> HIDE DEF d, last, alone
  <2>8. /\ past_log'.batches = past_log.batches /\ past_log'.changes = past_log.changes
        /\ past_log'.last = last
        /\ past_log' = [batches |-> past_log.batches, changes |-> past_log.changes,
                        last |-> last]
    BY <1>1, <1>6 DEF PastTypes
  <2>9. PastTypes'
    <3> HIDE DEF body
    <3> QED
      BY <1>1, <1>3, <1>4, <1>6, <2>2, <2>3, <2>7, <2>8 DEF PastTypes
  <2>10. PaysCounted'
    BY <1>1, <1>2, <1>3, <1>6, <2>2, <2>4, <2>8 DEF PaysCounted, DebtRecord
  <2>11. OpenedFirst'
    <3>1. d.due >= 1 /\ NoDebt.due = 0
      BY <2>5 DEF Grown, NoDebt
    <3> QED
      BY <1>6, <3>1 DEF OpenedFirst
  <2>12. BannerKnown(past_banner, past_seen, d)
    BY <1>1, <1>2, <2>5, StillGone
  <2>13. Unmoved(past_banner, past_seen, d, past_log.changes)
    BY <1>1, <2>3 DEF Unmoved
  <2>14. BatchKnown(past_request', past_loan, d, past_log.changes)
    BY <1>1, <1>4, <2>2 DEF BatchKnown
  <2>15. WarnedIsMoved'
    BY <2>6, <2>7, <2>8 DEF WarnedIsMoved
  <2> QED
    BY <1>3, <1>6, <2>8, <2>9, <2>10, <2>11, <2>12, <2>13, <2>14, <2>15 DEF PastInductive
<1>7. Impact(past_loan, rows, past_debt.cutoff) =
        MapThenSumSet(LAMBDA i : RowOf(i).payment_minor, {i \in rows : AffectsBalance(i)})
  BY DEF Impact, SumRows, RowOf, AffectsBalance
<1> QED
  <2>1. \/ past_request' = Declined(past_request) /\ UNCHANGED <<past_debt, past_log>>
        \/ /\ past_debt' = d /\ past_request' = Done(past_request)
           /\ past_log' = [past_log EXCEPT !.last =
                [warned |-> body.warned,
                 moved |-> MapThenSumSet(LAMBDA i : RowOf(i).payment_minor,
                                         {i \in rows : AffectsBalance(i)}),
                 alone |-> alone]]
    BY DEF ServeSetup
  <2> QED
    BY <1>5, <1>6, <1>7, <2>1

\* Another client pays a row, or edits a debt without payments.
LEMMA ChangeSetupStep ==
  ASSUME PastInductive, ChangeSetup
  PROVE  PastInductive'
<1> DEFINE changes == past_log.changes + 1
<1>1. /\ PastTypes /\ PaysCounted /\ OpenedFirst /\ WarnedIsMoved
      /\ BatchKnown(past_request, past_loan, past_debt, past_log.changes)
      /\ BannerKnown(past_banner, past_seen, past_debt)
      /\ Unmoved(past_banner, past_seen, past_debt, past_log.changes)
  BY DEF PastInductive
<1>2. /\ past_debt \in DebtRecord /\ past_log.changes \in 0 .. MaxChanges
      /\ past_log.batches \in Nat /\ past_seen \in [Queries -> DebtRecord]
      /\ past_banner.base \in Nat /\ MaxChanges \in Nat
  BY <1>1, PastAssumption DEF PastTypes
<1>3. /\ past_debt # NoDebt /\ past_log.changes < MaxChanges
      /\ past_log' = [past_log EXCEPT !.changes = changes]
      /\ UNCHANGED <<past_loan, past_seen, past_banner, past_request>>
  BY DEF ChangeSetup
<1>4. changes \in 0 .. MaxChanges /\ changes = past_log.changes + 1
  BY <1>2, <1>3
<1> HIDE DEF changes
<1>5. /\ past_log'.batches = past_log.batches /\ past_log'.changes = changes
      /\ past_log'.last = past_log.last
      /\ past_log' = [batches |-> past_log.batches, changes |-> changes,
                      last |-> past_log.last]
  BY <1>1, <1>3 DEF PastTypes
<1>6. Grown(past_debt, past_debt')
  <2>1. past_debt.due >= 1
    BY <1>1, <1>3 DEF OpenedFirst
  <2>2. ASSUME NEW i \in Row, past_debt' = [past_debt EXCEPT !.pays[i] = @ + 1]
        PROVE  Grown(past_debt, past_debt')
    BY <1>2, <2>1, <2>2 DEF Grown, DebtRecord
  <2>3. TotalPaid(past_debt) = 0 => ~Paid(past_debt)
    BY <1>2, TotalPaidZero
  <2>4. ASSUME ~Paid(past_debt), NEW due \in Row,
               past_debt' = [past_debt EXCEPT !.due = due]
        PROVE  Grown(past_debt, past_debt')
    <3>1. due \in 0 .. Cardinality(Row) /\ due >= 1
      BY RowFacts
    <3> QED
      BY <1>2, <2>4, <3>1 DEF Grown, DebtRecord
  <2>5. ASSUME ~Paid(past_debt), NEW cutoff \in Row,
               past_debt' = [past_debt EXCEPT !.cutoff = cutoff]
        PROVE  Grown(past_debt, past_debt')
    <3>1. cutoff \in 0 .. Cardinality(Row)
      BY RowFacts
    <3> QED
      BY <1>2, <2>1, <2>5, <3>1 DEF Grown, DebtRecord
  <2>6. ASSUME past_debt' = [past_debt EXCEPT !.linked = ~@]
        PROVE  Grown(past_debt, past_debt')
    <3>1. PICK linked \in BOOLEAN : linked = ~past_debt.linked
      BY <1>2 DEF DebtRecord
    <3>2. past_debt' = [past_debt EXCEPT !.linked = linked]
      BY <2>6, <3>1
    <3> QED
      BY <1>2, <2>1, <3>2 DEF Grown, DebtRecord
  <2> QED
    BY <2>2, <2>3, <2>4, <2>5, <2>6 DEF ChangeSetup
<1>7. past_debt' \in DebtRecord /\ past_debt'.due >= 1
  BY <1>6 DEF Grown
<1>8. PastTypes'
  BY <1>1, <1>3, <1>4, <1>5, <1>7 DEF PastTypes
<1>9. PaysCounted'
  <2>1. \A i \in Row : /\ past_debt'.pays[i] \in {past_debt.pays[i], past_debt.pays[i] + 1}
                       /\ past_debt.pays[i] \in Nat
                       /\ \A query \in Queries : past_seen[query].pays[i] \in Nat
    BY <1>2, <1>6 DEF Grown, DebtRecord
  <2> QED
    BY <1>1, <1>2, <1>3, <1>4, <1>5, <2>1 DEF PaysCounted
<1>10. OpenedFirst'
  <2>1. NoDebt.due = 0
    BY DEF NoDebt
  <2> QED
    BY <1>7, <2>1 DEF OpenedFirst
<1>11. BannerKnown(past_banner, past_seen, past_debt')
  BY <1>1, <1>2, <1>6, StillGone
<1>12. Unmoved(past_banner, past_seen, past_debt', changes)
  BY <1>1, <1>2, <1>4 DEF Unmoved
<1>13. BatchKnown(past_request, past_loan, past_debt', changes)
  <2>1. IsPending(past_request) => past_request.body.base \in Nat
    BY <1>1 DEF PastTypes
  <2> QED
    BY <1>1, <1>2, <1>4, <2>1 DEF BatchKnown, IsPending, AtServer
<1>14. WarnedIsMoved'
  BY <1>1, <1>5 DEF WarnedIsMoved
<1> QED
  BY <1>3, <1>5, <1>8, <1>9, <1>10, <1>11, <1>12, <1>13, <1>14 DEF PastInductive

\* What the invariant says beyond the types.
LEMMA PastHolds == PastInductive => PastInvariant
<1> SUFFICES ASSUME PastInductive PROVE PastInvariant
  OBVIOUS
<1>1. /\ PastTypes /\ PaysCounted /\ WarnedIsMoved
      /\ BatchKnown(past_request, past_loan, past_debt, past_log.changes)
      /\ BannerKnown(past_banner, past_seen, past_debt)
  BY DEF PastInductive
<1>2. past_debt \in DebtRecord /\ past_seen \in [Queries -> DebtRecord]
      /\ past_log.batches \in 0 .. MaxBatches /\ past_log.changes \in 0 .. MaxChanges
  BY <1>1 DEF PastTypes
<1>3. ASSUME NEW d \in DebtRecord, \A i \in Row : d.pays[i] <= past_debt.pays[i]
      PROVE  /\ d.due \in 0 .. Cardinality(Row) /\ d.cutoff \in 0 .. Cardinality(Row)
             /\ d.pays \in [Row -> 0 .. MaxBatches + MaxChanges] /\ d.linked \in BOOLEAN
  <2>1. ASSUME NEW i \in Row PROVE d.pays[i] \in 0 .. MaxBatches + MaxChanges
    <3>1. d.pays[i] \in Nat /\ past_debt.pays[i] \in Nat /\ d.pays[i] <= past_debt.pays[i]
      BY <1>2, <1>3 DEF DebtRecord
    <3>2. past_debt.pays[i] <= past_log.batches + past_log.changes
      BY <1>1 DEF PaysCounted
    <3> QED
      BY <1>2, <3>1, <3>2, PastAssumption
  <2> QED
    BY <2>1 DEF DebtRecord
<1>4. \A i \in Row : past_debt.pays[i] <= past_debt.pays[i]
  BY <1>2 DEF DebtRecord
<1>5. \A query \in Queries : \A i \in Row : past_seen[query].pays[i] <= past_debt.pays[i]
  BY <1>1 DEF PaysCounted
<1>6. TotalPaid(past_seen["debt"]) = 0 <=> ~Paid(past_seen["debt"])
  BY <1>2, TotalPaidZero DEF Queries
<1>7. PastTypeOK
  <2>1. ASSUME NEW d \in {past_debt} \cup {past_seen[query] : query \in DOMAIN past_seen}
        PROVE  d \in DebtRecord /\ \A i \in Row : d.pays[i] <= past_debt.pays[i]
    BY <1>2, <1>4, <1>5
  <2>2. past_loan \in PastLoan /\ past_banner.checked \subseteq Row
    BY <1>1 DEF PastTypes
  <2>3. past_banner.up => past_banner.setup /\ TotalPaid(past_seen["debt"]) = 0
    BY <1>1, <1>6 DEF BannerKnown
  <2> QED
    BY <1>3, <2>1, <2>2, <2>3 DEF PastTypeOK
<1>8. BatchRepeatsNothing
  BY <1>1 DEF BatchKnown, BatchRepeatsNothing
<1> QED
  BY <1>1, <1>7, <1>8 DEF PastInvariant

\* For any loans, number of periods, batches and changes by others: a batch of past
\* payments confirmed on a screen that is up to date repeats no payment, and the
\* change of the balance that the banner warns of is the one the server makes
\* unless somebody else has changed the loan since the banner mounted
\* (setup-past-payments.tsx, bulk_record_past_payments).
THEOREM PastPaymentsKept == PastSpec => []PastInvariant
<1>1. PastInductive /\ [PastNext]_past_vars => PastInductive'
  <2> SUFFICES ASSUME PastInductive, [PastNext]_past_vars PROVE PastInductive'
    OBVIOUS
  <2>1. CASE UNCHANGED past_vars
    <3>1. /\ past_loan' = past_loan /\ past_debt' = past_debt /\ past_seen' = past_seen
          /\ past_banner' = past_banner /\ past_request' = past_request
          /\ past_log' = past_log
      BY <2>1 DEF past_vars
    <3>2. PastTypes' /\ PaysCounted' /\ OpenedFirst' /\ WarnedIsMoved'
      BY <3>1 DEF PastInductive, PastTypes, PaysCounted, OpenedFirst, WarnedIsMoved
    <3> QED
      BY <3>1, <3>2 DEF PastInductive
  <2>2. CASE PastNext
    <3>1. DOMAIN past_seen = Queries
      BY DEF PastInductive, PastTypes
    <3> QED
      BY <2>2, <3>1, OpenSetupStep, RefetchSetupStep, TickStep, ConfirmSetupStep,
         AnswerSetupStep, ServeSetupStep, ChangeSetupStep DEF PastNext
  <2> QED
    BY <2>1, <2>2
<1> QED
  BY <1>1, PastStart, PastHolds, PTL DEF PastSpec

-----------------------------------------------------------------------------
(* The sheet that records a payment *)

LoanHosts == {"loan_card", "loan_detail"}
SheetDebt == [total : Nat, principal : Nat, paid : SUBSET Period,
              status : {"active", "paid_off"}, account : {None, "linked"},
              links : [BankTx -> Nat]]
SheetForm == [open : BOOLEAN, view : {"match", "manual"}, offer : {"blank", "next", "rest"},
              prefill : [period : Period, amount : Nat], period : Period \cup {0},
              amount : Nat, account : {None, "linked", "other"}, touched : BOOLEAN,
              base : SUBSET Period]
SheetBody == [period : Nat, amount : Nat \ {0}, account : {None, "linked", "other"},
              link : BankTx \cup {None}, relinks : BOOLEAN, final : {"no", "fresh", "stale"}]
SheetRequest == {NoRequest} \cup [stage : {"sent", "done", "declined"}, body : SheetBody]

SheetTypes ==
  /\ host \in Hosts \cup {None} /\ loan \in Loan
  /\ ledger \in SheetDebt /\ ledger.principal <= ledger.total
  /\ seen \in SheetDebt /\ seen.principal <= seen.total
  /\ sheet \in SheetForm /\ payment \in SheetRequest /\ orphan \in SheetRequest
  /\ log = [opened |-> log.opened, elsewhere |-> log.elsewhere, final |-> log.final]

\* A linked transaction settles the period it is dated in, on the pages of loans.
LinkedPaid(h, d) ==
  \A t \in BankTx : d.links[t] > 0 =>
    h \in LoanHosts /\ (DateOf[t] \in Period => DateOf[t] \in d.paid)

\* What the screen has of the debt, and what the ref of the page has, is what the
\* server has had; without interest every payment is principal.
CopiesKnown(h, l, d, s, ref) ==
  /\ l.rate = 0 => d.principal = d.total
  /\ s.total <= d.total /\ ref = s.paid
  /\ LinkedPaid(h, d) /\ LinkedPaid(h, s)

\* What is offered in the sheet stays behind the fields and comes back with a reset.
FormKnown(f, l, d) ==
  f.open =>
    /\ f.offer = "next" => f.prefill.period \notin f.base
    /\ ~f.touched => f.period = f.prefill.period /\ f.amount = f.prefill.amount
    /\ f.offer = "rest" /\ l.rate = 0 =>
         f.prefill.amount = 0 \/ f.prefill.amount + d.total >= l.principal_minor

\* A final payment asks for no less than what is owed now.
RequestKnown(m, h, l, d) ==
  IsPending(m) =>
    /\ m.body.link # None => h \in LoanHosts /\ m.body.period = DateOf[m.body.link]
    /\ m.body.relinks => DateOf[m.body.link] # Near[m.body.link]
    /\ AtServer(m) /\ m.body.final # "no" /\ l.rate = 0 =>
         m.body.amount + d.total >= l.principal_minor

MountedFirst ==
  host = None =>
    /\ ledger = Fresh /\ seen = Fresh /\ ~sheet.open
    /\ payment = NoRequest /\ orphan = NoRequest /\ log.final = "none"

SheetInductive ==
  /\ SheetTypes /\ MountedFirst /\ AcceptedRestCompletes
  /\ CopiesKnown(host, loan, ledger, seen, scheduleRef)
  /\ FormKnown(sheet, loan, ledger)
  /\ RequestKnown(payment, host, loan, ledger)
  /\ RequestKnown(orphan, host, loan, ledger)

\* A schedule of a loan is sound, and without interest its payments cover the
\* principal.
LEMMA LoanFacts ==
  ASSUME NEW l \in Loan
  PROVE  /\ l \in LoanType /\ Period = 1 .. l.num_periods /\ 1 \in Period
         /\ Period \subseteq Nat \ {0}
         /\ \A i \in Period : SoundRow(l, ScheduleOfLoan[l][i])
         /\ l.num_periods * PeriodicPayment(l) \in Nat
         /\ l.rate = 0 => l.num_periods * PeriodicPayment(l) >= l.principal_minor
<1>1. l \in LoanType
  BY SheetAssumption
<1>2. Period = 1 .. l.num_periods
  <2>1. (CHOOSE k \in Loan : TRUE) \in Loan
    BY SheetAssumption
  <2> DEFINE k == CHOOSE k \in Loan : TRUE
  <2> HIDE DEF k
  <2>2. k.num_periods = l.num_periods
    BY <2>1, SheetAssumption DEF k
  <2> QED
    BY <2>2 DEF Period, k
<1>3. l.num_periods \in Nat \ {0} /\ l.principal_minor \in Nat /\ PeriodicPayment(l) \in Nat
  BY <1>1, PaymentCoversInterest DEF LoanType
<1>4. \A i \in 1 .. l.num_periods : SoundRow(l, ScheduleOfLoan[l][i])
  BY <1>1, ScheduleSound DEF ScheduleOfLoan
<1>5. ASSUME l.rate = 0 PROVE l.num_periods * PeriodicPayment(l) >= l.principal_minor
  <2> DEFINE payment_minor == CeilDiv(l.principal_minor, l.num_periods)
  <2>1. PeriodicPayment(l) = payment_minor
    BY <1>5 DEF PeriodicPayment
  <2>2. payment_minor \in Nat /\ l.principal_minor <= payment_minor * l.num_periods
    BY <1>3, CeilDivLeast
  <2> HIDE DEF payment_minor
  <2> QED
    BY <1>3, <2>1, <2>2
<1>6. l.num_periods * PeriodicPayment(l) \in Nat
  BY <1>3
<1> QED
  BY <1>1, <1>2, <1>3, <1>4, <1>5, <1>6

\* The earliest of some periods is one of them.
LEMMA EarliestPeriod ==
  ASSUME NEW periods \in SUBSET Period, periods # {}
  PROVE  Min(periods) \in periods
<1>1. periods \subseteq Nat
  BY LoanFacts, SheetAssumption
<1>2. \E i \in periods : \A k \in periods : i <= k
  BY <1>1, LeastNatural
<1> QED
  BY <1>2 DEF Min

\* Before a page is mounted the invariant of the payment sheet holds.
LEMMA SheetStart == SheetInit => SheetInductive
<1> SUFFICES ASSUME SheetInit PROVE SheetInductive
  OBVIOUS
<1>1. /\ host = None /\ loan = (CHOOSE l \in Loan : TRUE) /\ ledger = Fresh /\ seen = Fresh
      /\ scheduleRef = {} /\ sheet = Blank /\ payment = NoRequest /\ orphan = NoRequest
      /\ log = [opened |-> 0, elsewhere |-> 0, final |-> "none"]
  BY DEF SheetInit
<1>2. loan \in Loan
  BY <1>1, SheetAssumption
<1>3. /\ Fresh \in SheetDebt /\ Fresh.total = 0 /\ Fresh.principal = 0 /\ Fresh.paid = {}
      /\ \A t \in BankTx : Fresh.links[t] = 0
  BY DEF Fresh, SheetDebt
<1>4. Blank \in SheetForm /\ ~Blank.open
  BY <1>2, LoanFacts DEF Blank, SheetForm, NoPrefill, None
<1>5. ~IsPending(NoRequest)
  BY DEF NoRequest, IsPending
<1>6. SheetTypes
  BY <1>1, <1>2, <1>3, <1>4 DEF SheetTypes, SheetRequest
<1>7. MountedFirst /\ AcceptedRestCompletes
  BY <1>1, <1>4 DEF MountedFirst, AcceptedRestCompletes
<1>8. CopiesKnown(host, loan, ledger, seen, scheduleRef)
  BY <1>1, <1>3 DEF CopiesKnown, LinkedPaid
<1>9. FormKnown(sheet, loan, ledger)
  BY <1>1, <1>4 DEF FormKnown
<1>10. RequestKnown(payment, host, loan, ledger) /\ RequestKnown(orphan, host, loan, ledger)
  BY <1>1, <1>5 DEF RequestKnown
<1> QED
  BY <1>6, <1>7, <1>8, <1>9, <1>10 DEF SheetInductive

\* A host mounts with a debt that nothing has been paid of.
LEMMA MountStep ==
  ASSUME SheetInductive, NEW h \in Hosts, NEW l \in Loan, NEW account \in {None, "linked"},
         MountHost(h, l, account)
  PROVE  SheetInductive'
<1> DEFINE d == [Fresh EXCEPT !.account = account]
<1>1. SheetTypes /\ MountedFirst /\ AcceptedRestCompletes
      /\ CopiesKnown(host, loan, ledger, seen, scheduleRef)
  BY DEF SheetInductive
<1>2. /\ host = None /\ host' = h /\ loan' = l /\ ledger' = d /\ seen' = d
      /\ UNCHANGED <<scheduleRef, sheet, payment, orphan, log>>
  BY DEF MountHost
<1>3. /\ scheduleRef = Fresh.paid /\ ~sheet.open /\ payment = NoRequest
      /\ orphan = NoRequest /\ log.final = "none"
  BY <1>1, <1>2 DEF MountedFirst, CopiesKnown
<1>4. /\ d \in SheetDebt /\ d.total = 0 /\ d.principal = 0 /\ d.paid = {} /\ Fresh.paid = {}
      /\ \A t \in BankTx : d.links[t] = 0
  BY DEF Fresh, SheetDebt
<1> HIDE DEF d
<1>5. ~IsPending(NoRequest) /\ h # None
  BY DEF NoRequest, IsPending, Hosts, None
<1>6. SheetTypes'
  BY <1>1, <1>2, <1>4 DEF SheetTypes
<1>7. MountedFirst' /\ AcceptedRestCompletes'
  BY <1>2, <1>3, <1>5 DEF MountedFirst, AcceptedRestCompletes
<1>8. CopiesKnown(h, l, d, d, scheduleRef)
  BY <1>3, <1>4 DEF CopiesKnown, LinkedPaid
<1>9. FormKnown(sheet, l, d)
  BY <1>3 DEF FormKnown
<1>10. RequestKnown(payment, h, l, d) /\ RequestKnown(orphan, h, l, d)
  BY <1>3, <1>5 DEF RequestKnown
<1> QED
  BY <1>2, <1>6, <1>7, <1>8, <1>9, <1>10 DEF SheetInductive

\* The interest part of a payment is within the payment.
LEMMA InterestWithin ==
  ASSUME loan \in Loan, NEW amount \in Nat, NEW i \in Nat
  PROVE  InterestPart(amount, i) \in 0 .. amount /\ (loan.rate = 0 => InterestPart(amount, i) = 0)
<1> DEFINE row == RowAt(i)
           interest == row.interest_minor
           payment_minor == row.payment_minor
<1>1. SoundRow(loan, row)
  BY LoanFacts DEF RowAt
<1>2. interest \in Nat /\ payment_minor \in Nat /\ interest <= payment_minor
  BY <1>1 DEF SoundRow
<1> HIDE DEF row
<1>3. InterestPart(amount, i) =
        IF loan.rate = 0 \/ payment_minor = 0 THEN 0
        ELSE (amount * interest + payment_minor \div 2) \div payment_minor
  BY DEF InterestPart, row
<1> HIDE DEF interest, payment_minor
<1>4. payment_minor # 0 =>
        (amount * interest + payment_minor \div 2) \div payment_minor \in 0 .. amount
  BY <1>2, ShareWithin
<1> QED
  BY <1>3, <1>4

\* What a payment that is accepted makes of the debt.
LEMMA ApplyStep ==
  ASSUME SheetInductive, NEW body, Accepted(body), body.amount \in Nat, body.period \in Nat,
         body.link \in BankTx \cup {None},
         body.link # None => host \in LoanHosts /\ body.period = DateOf[body.link]
  PROVE  LET d == Apply(body)
         IN  /\ d \in SheetDebt /\ d.principal <= d.total
             /\ d.total = ledger.total + body.amount
             /\ loan.rate = 0 => d.principal = d.total
             /\ LinkedPaid(host, d)
             /\ d.principal >= loan.principal_minor => d.status = "paid_off"
<1> DEFINE interest == InterestPart(body.amount, body.period)
           principal == ledger.principal + body.amount - interest
           total == ledger.total + body.amount
           paid == ledger.paid \cup SettledBy(body)
           status == IF principal >= loan.principal_minor THEN "paid_off" ELSE ledger.status
           links == [t \in BankTx |-> IF t = body.link THEN ledger.links[t] + 1
                                      ELSE ledger.links[t]]
           d == [total |-> total, principal |-> principal, paid |-> paid, status |-> status,
                 account |-> ledger.account, links |-> links]
<1>1. /\ loan \in Loan /\ ledger \in SheetDebt /\ ledger.principal <= ledger.total
      /\ loan.rate = 0 => ledger.principal = ledger.total
      /\ LinkedPaid(host, ledger)
  BY DEF SheetInductive, SheetTypes, CopiesKnown
<1>2. /\ ledger.total \in Nat /\ ledger.principal \in Nat /\ ledger.paid \in SUBSET Period
      /\ ledger.status \in {"active", "paid_off"} /\ ledger.account \in {None, "linked"}
      /\ ledger.links \in [BankTx -> Nat]
      /\ ledger = [total |-> ledger.total, principal |-> ledger.principal,
                   paid |-> ledger.paid, status |-> ledger.status,
                   account |-> ledger.account, links |-> ledger.links]
  BY <1>1 DEF SheetDebt
<1>3. Apply(body) = d
  <2>1. Apply(body) = [ledger EXCEPT !.total = total, !.principal = principal,
                         !.paid = paid, !.status = status, !.links = links]
    BY DEF Apply
  <2> HIDE DEF total, principal, paid, status, links
  <2> QED
    BY <1>2, <2>1
<1>4. interest \in 0 .. body.amount /\ (loan.rate = 0 => interest = 0)
  BY <1>1, InterestWithin
<1> HIDE DEF interest
<1>5. /\ total \in Nat /\ principal \in Nat /\ principal <= total
      /\ loan.rate = 0 => principal = total
  BY <1>1, <1>2, <1>4
<1>6. SettledBy(body) \subseteq Period
        /\ (host \in LoanHosts => SettledBy(body) = {body.period} \cap Period)
  <2>1. Unpaid(ledger.paid) \subseteq Period
    BY DEF Unpaid
  <2>2. Unpaid(ledger.paid) # {} => Min(Unpaid(ledger.paid)) \in Period
    BY <2>1, EarliestPeriod
  <2> QED
    BY <2>2 DEF SettledBy, IsLoan, LoanHosts
<1>7. paid \in SUBSET Period /\ links \in [BankTx -> Nat] /\ status \in {"active", "paid_off"}
  BY <1>2, <1>6
<1>8. ASSUME NEW t \in BankTx, links[t] > 0
      PROVE  host \in LoanHosts /\ (DateOf[t] \in Period => DateOf[t] \in paid)
  <2>1. CASE t = body.link
    <3>1. body.link # None
      BY <2>1, SheetAssumption DEF None
    <3> QED
      BY <1>6, <2>1, <3>1
  <2>2. CASE t # body.link
    <3>1. ledger.links[t] > 0
      BY <1>2, <1>8, <2>2
    <3> QED
      BY <1>1, <3>1 DEF LinkedPaid
  <2> QED
    BY <2>1, <2>2
<1>9. principal >= loan.principal_minor => status = "paid_off"
  OBVIOUS
<1> HIDE DEF total, principal, paid, status, links
<1>10. /\ d \in SheetDebt /\ d.total = total /\ d.principal = principal /\ d.status = status
       /\ d.links = links /\ d.paid = paid
  BY <1>2, <1>5, <1>7 DEF SheetDebt
<1> HIDE DEF d
<1>11. LinkedPaid(host, d)
  BY <1>8, <1>10 DEF LinkedPaid
<1>12. d.total = ledger.total + body.amount
  BY <1>10 DEF total
<1> QED
  BY <1>3, <1>5, <1>9, <1>10, <1>11, <1>12

\* What is known of forms and requests stays known when more is paid.
LEMMA MoreIsPaid ==
  ASSUME NEW d \in SheetDebt, NEW e \in SheetDebt, d.total <= e.total, loan \in Loan
  PROVE  /\ \A f \in SheetForm : FormKnown(f, loan, d) => FormKnown(f, loan, e)
         /\ \A m \in SheetRequest :
              RequestKnown(m, host, loan, d) => RequestKnown(m, host, loan, e)
<1>1. d.total \in Nat /\ e.total \in Nat /\ loan.principal_minor \in Nat
  BY LoanFacts DEF SheetDebt, LoanType
<1>2. ASSUME NEW f \in SheetForm, FormKnown(f, loan, d) PROVE FormKnown(f, loan, e)
  <2>1. f.prefill.amount \in Nat
    BY DEF SheetForm
  <2> QED
    BY <1>1, <1>2, <2>1 DEF FormKnown
<1>3. ASSUME NEW m \in SheetRequest, RequestKnown(m, host, loan, d)
      PROVE  RequestKnown(m, host, loan, e)
  <2>1. IsPending(m) => m.body.amount \in Nat
    BY DEF SheetRequest, SheetBody, IsPending, NoRequest
  <2> QED
    BY <1>1, <1>3, <2>1 DEF RequestKnown, IsPending, AtServer
<1> QED
  BY <1>2, <1>3

\* A debt at the server that has grown, with the copies and requests as they are.
LEMMA GrownDebt ==
  ASSUME SheetInductive, NEW d \in SheetDebt, d.principal <= d.total, ledger.total <= d.total,
         loan.rate = 0 => d.principal = d.total, LinkedPaid(host, d)
  PROVE  /\ CopiesKnown(host, loan, d, seen, scheduleRef) /\ FormKnown(sheet, loan, d)
         /\ RequestKnown(payment, host, loan, d) /\ RequestKnown(orphan, host, loan, d)
<1>1. SheetTypes /\ CopiesKnown(host, loan, ledger, seen, scheduleRef)
      /\ FormKnown(sheet, loan, ledger)
      /\ RequestKnown(payment, host, loan, ledger) /\ RequestKnown(orphan, host, loan, ledger)
  BY DEF SheetInductive
<1>2. /\ ledger \in SheetDebt /\ loan \in Loan /\ sheet \in SheetForm /\ seen \in SheetDebt
      /\ payment \in SheetRequest /\ orphan \in SheetRequest
  BY <1>1 DEF SheetTypes
<1>3. seen.total <= d.total
  <2>1. seen.total \in Nat /\ ledger.total \in Nat /\ d.total \in Nat
    BY <1>2 DEF SheetDebt
  <2> QED
    BY <1>1, <2>1 DEF CopiesKnown
<1>4. CopiesKnown(host, loan, d, seen, scheduleRef)
  BY <1>1, <1>3 DEF CopiesKnown
<1>5. /\ FormKnown(sheet, loan, d)
      /\ RequestKnown(payment, host, loan, d) /\ RequestKnown(orphan, host, loan, d)
  BY <1>1, <1>2, MoreIsPaid
<1> QED
  BY <1>4, <1>5

\* The server books one payment: totals grow, and a final payment of a loan
\* without interest completes it.
LEMMA ServeOne ==
  ASSUME SheetInductive, NEW m \in SheetRequest, RequestKnown(m, host, loan, ledger),
         AtServer(m), Serve(m), UNCHANGED loan
  PROVE  /\ ledger' \in SheetDebt /\ ledger'.principal <= ledger'.total
         /\ ledger.total <= ledger'.total
         /\ loan.rate = 0 => ledger'.principal = ledger'.total
         /\ LinkedPaid(host, ledger')
         /\ Outcome(m) \in SheetRequest /\ RequestKnown(Outcome(m), host, loan, ledger')
         /\ AcceptedRestCompletes'
         /\ log' = [opened |-> log'.opened, elsewhere |-> log'.elsewhere, final |-> log'.final]
<1> DEFINE body == m.body
           granted == Accepted(body)
<1>1. SheetTypes /\ AcceptedRestCompletes
      /\ CopiesKnown(host, loan, ledger, seen, scheduleRef)
  BY DEF SheetInductive
<1>2. /\ loan \in Loan /\ ledger \in SheetDebt /\ ledger.principal <= ledger.total
      /\ log = [opened |-> log.opened, elsewhere |-> log.elsewhere, final |-> log.final]
  BY <1>1 DEF SheetTypes
<1>3. m = [stage |-> "sent", body |-> body] /\ body \in SheetBody /\ IsPending(m)
  BY DEF SheetRequest, AtServer, IsPending, NoRequest
<1>4. /\ body.period \in Nat /\ body.amount \in Nat \ {0} /\ body.link \in BankTx \cup {None}
      /\ body.final \in {"no", "fresh", "stale"}
  BY <1>3 DEF SheetBody
<1>5. /\ body.link # None => host \in LoanHosts /\ body.period = DateOf[body.link]
      /\ body.final # "no" /\ loan.rate = 0 => body.amount + ledger.total >= loan.principal_minor
  BY <1>3 DEF RequestKnown
<1>6. /\ ledger' = IF granted THEN Apply(body) ELSE ledger
      /\ log' = IF body.final = "no" THEN log
                ELSE [log EXCEPT !.final =
                        IF ~granted THEN body.final
                        ELSE IF ledger'.status = "paid_off" THEN "completed"
                        ELSE "left open"]
  BY DEF Serve
<1>7. granted => LET d == Apply(body)
                 IN  /\ d \in SheetDebt /\ d.principal <= d.total
                     /\ d.total = ledger.total + body.amount
                     /\ loan.rate = 0 => d.principal = d.total
                     /\ LinkedPaid(host, d)
                     /\ d.principal >= loan.principal_minor => d.status = "paid_off"
  BY <1>4, <1>5, ApplyStep
<1>8. /\ Outcome(m) = [stage |-> IF granted THEN "done" ELSE "declined", body |-> body]
  <2> HIDE DEF body
  <2> QED
    BY <1>3 DEF Outcome, Done, Declined, body
<1> HIDE DEF body, granted
<1>9. /\ ledger' \in SheetDebt /\ ledger'.principal <= ledger'.total
      /\ loan.rate = 0 => ledger'.principal = ledger'.total
      /\ LinkedPaid(host, ledger')
      /\ granted => ledger'.total = ledger.total + body.amount
      /\ granted /\ ledger'.principal >= loan.principal_minor => ledger'.status = "paid_off"
      /\ ~granted => ledger' = ledger
  BY <1>1, <1>2, <1>6, <1>7 DEF CopiesKnown
<1>10. ledger.total \in Nat /\ ledger'.total \in Nat /\ ledger'.principal \in Nat
  BY <1>2, <1>9 DEF SheetDebt
<1>11. ledger.total <= ledger'.total
  BY <1>4, <1>9, <1>10
<1>12. /\ Outcome(m) \in SheetRequest /\ ~AtServer(Outcome(m)) /\ Outcome(m).body = body
       /\ IsPending(Outcome(m))
  BY <1>3, <1>8 DEF SheetRequest, AtServer, IsPending
<1>13. RequestKnown(Outcome(m), host, loan, ledger')
  BY <1>3, <1>12 DEF RequestKnown, body
<1>14. log'.final = IF body.final = "no" THEN log.final
                    ELSE IF ~granted THEN body.final
                    ELSE IF ledger'.status = "paid_off" THEN "completed" ELSE "left open"
  BY <1>2, <1>6
<1>15. ASSUME loan.rate = 0, body.final # "no", granted PROVE ledger'.status = "paid_off"
  <2>1. ledger'.principal = ledger.total + body.amount
    BY <1>9, <1>15
  <2>2. ledger'.principal >= loan.principal_minor
    BY <1>4, <1>5, <1>10, <1>15, <2>1
  <2> QED
    BY <1>9, <1>15, <2>2
<1>16. AcceptedRestCompletes'
  BY <1>1, <1>4, <1>14, <1>15 DEF AcceptedRestCompletes
<1>17. log' = [opened |-> log'.opened, elsewhere |-> log'.elsewhere, final |-> log'.final]
  BY <1>2, <1>6
<1> QED
  BY <1>9, <1>11, <1>12, <1>13, <1>16, <1>17

\* Serving the request of the sheet, or one left behind, keeps the invariant.
LEMMA ServePaymentStep ==
  ASSUME SheetInductive, ServePayment
  PROVE  SheetInductive'
<1>1. /\ SheetTypes /\ MountedFirst
      /\ RequestKnown(payment, host, loan, ledger) /\ RequestKnown(orphan, host, loan, ledger)
  BY DEF SheetInductive
<1>2. UNCHANGED <<host, loan, seen, scheduleRef, sheet>>
  BY DEF ServePayment
<1>3. payment \in SheetRequest /\ orphan \in SheetRequest
  BY <1>1 DEF SheetTypes
<1>4. PICK m \in {payment, orphan} :
        /\ AtServer(m) /\ Serve(m)
        /\ payment' \in {payment, Outcome(m)} /\ orphan' \in {orphan, Outcome(m)}
  BY DEF ServePayment
<1>5. m \in SheetRequest /\ RequestKnown(m, host, loan, ledger)
  BY <1>1, <1>3
<1>6. /\ ledger' \in SheetDebt /\ ledger'.principal <= ledger'.total
      /\ ledger.total <= ledger'.total
      /\ loan.rate = 0 => ledger'.principal = ledger'.total
      /\ LinkedPaid(host, ledger')
      /\ Outcome(m) \in SheetRequest /\ RequestKnown(Outcome(m), host, loan, ledger')
      /\ AcceptedRestCompletes'
      /\ log' = [opened |-> log'.opened, elsewhere |-> log'.elsewhere, final |-> log'.final]
  BY <1>2, <1>4, <1>5, ServeOne
<1>7. /\ CopiesKnown(host, loan, ledger', seen, scheduleRef) /\ FormKnown(sheet, loan, ledger')
      /\ RequestKnown(payment, host, loan, ledger') /\ RequestKnown(orphan, host, loan, ledger')
  BY <1>6, GrownDebt
<1>8. host # None
  BY <1>1, <1>4 DEF MountedFirst, AtServer, NoRequest
<1>9. SheetTypes'
  BY <1>1, <1>2, <1>3, <1>4, <1>6 DEF SheetTypes
<1>10. MountedFirst'
  BY <1>2, <1>8 DEF MountedFirst
<1>11. RequestKnown(payment', host, loan, ledger') /\ RequestKnown(orphan', host, loan, ledger')
  BY <1>4, <1>6, <1>7
<1> QED
  BY <1>2, <1>6, <1>7, <1>9, <1>10, <1>11 DEF SheetInductive

\* Other clients pay a period, or change the linked account.
LEMMA ElsewhereStep ==
  ASSUME SheetInductive,
         \/ \E i \in Period : PayElsewhere(i)
         \/ RelinkElsewhere
  PROVE  SheetInductive'
<1>1. /\ SheetTypes /\ MountedFirst /\ AcceptedRestCompletes
      /\ CopiesKnown(host, loan, ledger, seen, scheduleRef)
  BY DEF SheetInductive
<1>2. /\ host # None /\ UNCHANGED <<host, loan, seen, scheduleRef, sheet, payment, orphan>>
      /\ log' = [log EXCEPT !.elsewhere = @ + 1]
  BY DEF PayElsewhere, RelinkElsewhere
<1>3. /\ loan \in Loan /\ ledger \in SheetDebt /\ ledger.principal <= ledger.total
      /\ log = [opened |-> log.opened, elsewhere |-> log.elsewhere, final |-> log.final]
  BY <1>1 DEF SheetTypes
<1>4. log'.final = log.final
      /\ log' = [opened |-> log'.opened, elsewhere |-> log'.elsewhere, final |-> log'.final]
  BY <1>2, <1>3
<1>5. /\ ledger' \in SheetDebt /\ ledger'.principal <= ledger'.total
      /\ ledger.total <= ledger'.total
      /\ loan.rate = 0 => ledger'.principal = ledger'.total
      /\ LinkedPaid(host, ledger')
  <2>1. CASE RelinkElsewhere
    <3>1. PICK account \in {None, "linked"} : ledger' = [ledger EXCEPT !.account = account]
      BY <2>1 DEF RelinkElsewhere
    <3>2. /\ ledger' \in SheetDebt /\ ledger'.total = ledger.total
          /\ ledger'.principal = ledger.principal /\ ledger'.links = ledger.links
          /\ ledger'.paid = ledger.paid /\ ledger.total \in Nat
      BY <1>3, <3>1 DEF SheetDebt
    <3> QED
      BY <1>1, <1>3, <3>2 DEF CopiesKnown, LinkedPaid
  <2>2. CASE \E i \in Period : PayElsewhere(i)
    <3>1. PICK i \in Period : PayElsewhere(i)
      BY <2>2
    <3> DEFINE body == [period |-> i, amount |-> Due(i), account |-> "linked", link |-> None]
    <3>2. Accepted(body) /\ ledger' = Apply(body)
      BY <3>1 DEF PayElsewhere
    <3>3. Due(i) \in Nat /\ i \in Nat
      BY <1>3, LoanFacts DEF Due, SoundRow
    <3>4. body.amount = Due(i) /\ body.period = i /\ body.link = None
      OBVIOUS
    <3> HIDE DEF body
    <3>5. /\ body.amount \in Nat /\ body.period \in Nat /\ body.link \in BankTx \cup {None}
          /\ (body.link # None => host \in LoanHosts /\ body.period = DateOf[body.link])
      BY <3>3, <3>4
    <3>6. /\ ledger' \in SheetDebt /\ ledger'.principal <= ledger'.total
          /\ ledger'.total = ledger.total + body.amount
          /\ loan.rate = 0 => ledger'.principal = ledger'.total
          /\ LinkedPaid(host, ledger')
      BY <3>2, <3>5, ApplyStep
    <3>7. ledger.total \in Nat
      BY <1>3 DEF SheetDebt
    <3> QED
      BY <3>5, <3>6, <3>7
  <2> QED
    BY <2>1, <2>2
<1>6. /\ CopiesKnown(host, loan, ledger', seen, scheduleRef) /\ FormKnown(sheet, loan, ledger')
      /\ RequestKnown(payment, host, loan, ledger') /\ RequestKnown(orphan, host, loan, ledger')
  BY <1>5, GrownDebt
<1>7. SheetTypes'
  BY <1>1, <1>2, <1>4, <1>5 DEF SheetTypes
<1>8. MountedFirst'
  BY <1>2 DEF MountedFirst
<1>9. AcceptedRestCompletes'
  BY <1>1, <1>2, <1>4 DEF AcceptedRestCompletes
<1> QED
  BY <1>2, <1>6, <1>7, <1>8, <1>9 DEF SheetInductive

\* A form that its host renders again keeps the offer; it loses what was typed only
\* when the linked account changes, and has the offer in its fields then.
LEMMA RerenderedForm ==
  ASSUME loan \in Loan, NEW f \in SheetForm, NEW old \in SheetDebt, NEW new \in SheetDebt
  PROVE  LET g == Rerendered(f, old, new)
         IN  /\ g \in SheetForm /\ g.open = f.open /\ g.offer = f.offer
             /\ g.prefill = f.prefill /\ g.base = f.base
             /\ ~g.touched => \/ ~f.touched /\ g.period = f.period /\ g.amount = f.amount
                              \/ g.period = f.prefill.period /\ g.amount = f.prefill.amount
             /\ f.open /\ f.touched /\ ~g.touched => new.account # old.account
<1> DEFINE reset == [f EXCEPT !.period = f.prefill.period, !.amount = f.prefill.amount,
                              !.account = new.account, !.touched = FALSE]
           defaults == IF f.open /\ Resets(old, new) THEN reset ELSE f
<1>1. new.account \in {None, "linked"} /\ f.prefill.period \in Period /\ f.prefill.amount \in Nat
  BY DEF SheetDebt, SheetForm
<1>2. /\ reset \in SheetForm /\ reset.open = f.open /\ reset.offer = f.offer
      /\ reset.prefill = f.prefill /\ reset.base = f.base /\ ~reset.touched
      /\ reset.period = f.prefill.period /\ reset.amount = f.prefill.amount
  BY <1>1 DEF SheetForm
<1> HIDE DEF reset
<1>3. /\ defaults \in SheetForm /\ defaults.open = f.open /\ defaults.offer = f.offer
      /\ defaults.prefill = f.prefill /\ defaults.base = f.base
      /\ ~defaults.touched =>
           \/ ~f.touched /\ defaults.period = f.period /\ defaults.amount = f.amount
           \/ defaults.period = f.prefill.period /\ defaults.amount = f.prefill.amount
      /\ f.open /\ f.touched /\ ~defaults.touched => new.account # old.account
  BY <1>2 DEF Resets
<1>4. \E view \in {"match", "manual"} :
        Rerendered(f, old, new) \in {defaults, [defaults EXCEPT !.view = view]}
  BY DEF Rerendered, reset
<1>5. PICK view \in {"match", "manual"} :
        Rerendered(f, old, new) \in {defaults, [defaults EXCEPT !.view = view]}
  BY <1>4
<1> HIDE DEF defaults
<1> DEFINE h == [defaults EXCEPT !.view = view]
<1>6. /\ h \in SheetForm /\ h.open = defaults.open /\ h.offer = defaults.offer
      /\ h.prefill = defaults.prefill /\ h.base = defaults.base
      /\ h.touched = defaults.touched /\ h.period = defaults.period
      /\ h.amount = defaults.amount
  BY <1>3 DEF SheetForm
<1> HIDE DEF h
<1>7. Rerendered(f, old, new) \in {defaults, h}
  BY <1>5 DEF h
<1> DEFINE g == Rerendered(f, old, new)
<1> HIDE DEF g
<1>8. g = defaults \/ g = h
  BY <1>7 DEF g
<1>9. /\ g \in SheetForm /\ g.open = f.open /\ g.offer = f.offer
      /\ g.prefill = f.prefill /\ g.base = f.base
      /\ ~g.touched => \/ ~f.touched /\ g.period = f.period /\ g.amount = f.amount
                       \/ g.period = f.prefill.period /\ g.amount = f.prefill.amount
      /\ f.open /\ f.touched /\ ~g.touched => new.account # old.account
  BY <1>3, <1>6, <1>8
<1> QED
  BY <1>9 DEF g

\* A refetch brings what the page has seen up to date and leaves the form alone.
LEMMA RefetchStep ==
  ASSUME SheetInductive, Refetch
  PROVE  SheetInductive'
<1> DEFINE g == Rerendered(sheet, seen, ledger)
<1>1. /\ SheetTypes /\ MountedFirst /\ AcceptedRestCompletes
      /\ CopiesKnown(host, loan, ledger, seen, scheduleRef) /\ FormKnown(sheet, loan, ledger)
      /\ RequestKnown(payment, host, loan, ledger) /\ RequestKnown(orphan, host, loan, ledger)
  BY DEF SheetInductive
<1>2. /\ host # None /\ seen' = ledger /\ sheet' = g /\ scheduleRef' = ledger.paid
      /\ UNCHANGED <<host, loan, ledger, payment, orphan, log>>
  BY DEF Refetch, Ref
<1>3. /\ loan \in Loan /\ ledger \in SheetDebt /\ ledger.principal <= ledger.total
      /\ seen \in SheetDebt /\ sheet \in SheetForm
  BY <1>1 DEF SheetTypes
<1>4. /\ g \in SheetForm /\ g.open = sheet.open /\ g.offer = sheet.offer
      /\ g.prefill = sheet.prefill /\ g.base = sheet.base
      /\ ~g.touched => \/ ~sheet.touched /\ g.period = sheet.period /\ g.amount = sheet.amount
                       \/ g.period = sheet.prefill.period /\ g.amount = sheet.prefill.amount
  BY <1>3, RerenderedForm
<1> HIDE DEF g
<1>5. SheetTypes'
  BY <1>1, <1>2, <1>3, <1>4 DEF SheetTypes
<1>6. MountedFirst' /\ AcceptedRestCompletes'
  BY <1>1, <1>2 DEF MountedFirst, AcceptedRestCompletes
<1>7. CopiesKnown(host, loan, ledger, ledger, ledger.paid)
  <2>1. ledger.total \in Nat
    BY <1>3 DEF SheetDebt
  <2> QED
    BY <1>1, <2>1 DEF CopiesKnown
<1>8. FormKnown(g, loan, ledger)
  BY <1>1, <1>4 DEF FormKnown
<1> QED
  BY <1>1, <1>2, <1>5, <1>6, <1>7, <1>8 DEF SheetInductive

\* A step that touches the form and the counters only.
LEMMA FormStep ==
  ASSUME SheetInductive, host # None, sheet' \in SheetForm, FormKnown(sheet', loan, ledger),
         UNCHANGED <<host, loan, ledger, seen, scheduleRef>>,
         payment' \in SheetRequest, RequestKnown(payment', host, loan, ledger),
         orphan' \in SheetRequest, RequestKnown(orphan', host, loan, ledger),
         log' = [opened |-> log'.opened, elsewhere |-> log'.elsewhere, final |-> log'.final],
         log'.final = log.final
  PROVE  SheetInductive'
<1>1. /\ SheetTypes /\ MountedFirst /\ AcceptedRestCompletes
      /\ CopiesKnown(host, loan, ledger, seen, scheduleRef)
  BY DEF SheetInductive
<1>2. SheetTypes'
  BY <1>1 DEF SheetTypes
<1>3. MountedFirst' /\ AcceptedRestCompletes'
  BY <1>1 DEF MountedFirst, AcceptedRestCompletes
<1> QED
  BY <1>1, <1>2, <1>3 DEF SheetInductive

\* A sheet that is opened offers no settled period and no amount short of the
\* rest.
LEMMA OpenOne ==
  ASSUME SheetInductive, host # None, NEW offer \in {"blank", "next", "rest"},
         NEW period \in Period, NEW amount \in Nat, OpenSheet(offer, period, amount),
         offer = "next" => period \notin seen.paid,
         offer = "rest" /\ loan.rate = 0 =>
           amount = 0 \/ amount + ledger.total >= loan.principal_minor
  PROVE  SheetInductive'
<1> DEFINE view == IF IsLoan /\ Suggestions(seen) # {} THEN "match" ELSE "manual"
           f == [open |-> TRUE, view |-> view, offer |-> offer,
                 prefill |-> [period |-> period, amount |-> amount], period |-> period,
                 amount |-> amount, account |-> seen.account, touched |-> FALSE,
                 base |-> seen.paid]
<1>1. /\ SheetTypes
      /\ RequestKnown(payment, host, loan, ledger) /\ RequestKnown(orphan, host, loan, ledger)
  BY DEF SheetInductive
<1>2. /\ sheet' = f /\ log' = [log EXCEPT !.opened = @ + 1]
      /\ UNCHANGED <<host, loan, ledger, seen, scheduleRef, payment, orphan>>
  BY DEF OpenSheet
<1>3. /\ seen \in SheetDebt /\ payment \in SheetRequest /\ orphan \in SheetRequest
      /\ log = [opened |-> log.opened, elsewhere |-> log.elsewhere, final |-> log.final]
  BY <1>1 DEF SheetTypes
<1>4. view \in {"match", "manual"}
  OBVIOUS
<1> HIDE DEF view
<1>5. f \in SheetForm
  BY <1>3, <1>4 DEF SheetForm, SheetDebt
<1>6. FormKnown(f, loan, ledger)
  BY DEF FormKnown
<1>7. log' = [opened |-> log'.opened, elsewhere |-> log'.elsewhere, final |-> log'.final]
      /\ log'.final = log.final
  BY <1>2, <1>3
<1> HIDE DEF f
<1> QED
  BY <1>1, <1>2, <1>3, <1>5, <1>6, <1>7, FormStep

\* All three ways to open the sheet do so.
LEMMA OfferStep ==
  ASSUME SheetInductive, OfferNext \/ OfferRest \/ OfferBlank
  PROVE  SheetInductive'
<1>1. /\ SheetTypes /\ CopiesKnown(host, loan, ledger, seen, scheduleRef)
  BY DEF SheetInductive
<1>2. loan \in Loan /\ seen \in SheetDebt /\ ledger \in SheetDebt
  BY <1>1 DEF SheetTypes
<1>3. host # None
  BY DEF OfferNext, OfferRest, OfferBlank, None
<1>4. 1 \in Period /\ \A i \in Period : Due(i) \in Nat
  BY <1>2, LoanFacts DEF Due, SoundRow
<1>5. scheduleRef = seen.paid
  BY <1>1 DEF CopiesKnown
<1>6. Unpaid(seen.paid) # {} =>
        Min(Unpaid(seen.paid)) \in Period /\ Min(Unpaid(seen.paid)) \notin seen.paid
  BY EarliestPeriod DEF Unpaid
<1>7. CASE OfferNext
  <2> DEFINE i == Min(Unpaid(seen.paid))
  <2>1. \/ OpenSheet("blank", 1, 0)
        \/ Unpaid(seen.paid) # {} /\ OpenSheet("next", i, Due(i))
    BY <1>5, <1>7 DEF OfferNext
  <2>2. CASE OpenSheet("blank", 1, 0)
    BY <1>3, <1>4, <2>2, OpenOne
  <2>3. CASE Unpaid(seen.paid) # {} /\ OpenSheet("next", i, Due(i))
    <3>1. i \in Period /\ i \notin seen.paid
      BY <1>6, <2>3
    <3> HIDE DEF i
    <3> QED
      BY <1>3, <1>4, <2>3, <3>1, OpenOne
  <2> QED
    BY <2>1, <2>2, <2>3
<1>8. CASE OfferRest
  <2> DEFINE i == IF Unpaid(seen.paid) = {} THEN 1 ELSE Min(Unpaid(seen.paid))
             total == loan.num_periods * PeriodicPayment(loan)
  <2>1. OpenSheet("rest", i, Remaining)
    BY <1>8 DEF OfferRest
  <2>2. i \in Period
    BY <1>4, <1>6
  <2>3. total \in Nat /\ (loan.rate = 0 => total >= loan.principal_minor)
    BY <1>2, LoanFacts
  <2>4. seen.total \in Nat /\ ledger.total \in Nat /\ seen.total <= ledger.total
        /\ loan.principal_minor \in Nat
    BY <1>1, <1>2, LoanFacts DEF SheetDebt, CopiesKnown, LoanType
  <2>5. Remaining = IF seen.total > total THEN 0 ELSE total - seen.total
    BY DEF Remaining, TotalWithInterest
  <2> HIDE DEF i, total
  <2>6. Remaining \in Nat
        /\ (loan.rate = 0 =>
              Remaining = 0 \/ Remaining + ledger.total >= loan.principal_minor)
    BY <2>3, <2>4, <2>5
  <2> QED
    BY <1>3, <2>1, <2>2, <2>6, OpenOne
<1>9. CASE OfferBlank
  BY <1>3, <1>4, <1>9, OpenOne DEF OfferBlank
<1> QED
  BY <1>7, <1>8, <1>9

\* What the sheet and the requests say of where they are mounted.
LEMMA FormParts ==
  ASSUME SheetInductive
  PROVE  /\ loan \in Loan /\ ledger \in SheetDebt /\ seen \in SheetDebt /\ sheet \in SheetForm
         /\ payment \in SheetRequest /\ orphan \in SheetRequest
         /\ log = [opened |-> log.opened, elsewhere |-> log.elsewhere, final |-> log.final]
         /\ FormKnown(sheet, loan, ledger)
         /\ RequestKnown(payment, host, loan, ledger) /\ RequestKnown(orphan, host, loan, ledger)
         /\ sheet.open \/ IsPending(payment) \/ IsPending(orphan) => host # None
<1>1. SheetTypes /\ MountedFirst
  BY DEF SheetInductive
<1>2. ~IsPending(NoRequest)
  BY DEF NoRequest, IsPending
<1> QED
  BY <1>1, <1>2 DEF SheetInductive, SheetTypes, MountedFirst

\* A blank form and the absence of a request are known and promise nothing.
LEMMA NothingAsked ==
  /\ Blank \in SheetForm /\ ~Blank.open /\ FormKnown(Blank, loan, ledger)
  /\ NoRequest \in SheetRequest /\ ~IsPending(NoRequest)
  /\ RequestKnown(NoRequest, host, loan, ledger)
<1>1. (CHOOSE l \in Loan : TRUE) \in Loan
  BY SheetAssumption
<1>2. 1 \in Period
  BY <1>1, LoanFacts
<1>3. Blank \in SheetForm /\ ~Blank.open
  BY <1>2 DEF Blank, SheetForm, NoPrefill, None
<1>4. NoRequest \in SheetRequest /\ ~IsPending(NoRequest)
  BY DEF NoRequest, IsPending, SheetRequest
<1> QED
  BY <1>3, <1>4 DEF FormKnown, RequestKnown

\* Typing and switching the view keep the invariant.
LEMMA TypingStep ==
  ASSUME SheetInductive, Edit \/ SwitchView
  PROVE  SheetInductive'
<1>1. /\ sheet \in SheetForm /\ FormKnown(sheet, loan, ledger)
      /\ payment \in SheetRequest /\ RequestKnown(payment, host, loan, ledger)
      /\ orphan \in SheetRequest /\ RequestKnown(orphan, host, loan, ledger)
      /\ log = [opened |-> log.opened, elsewhere |-> log.elsewhere, final |-> log.final]
  BY FormParts
<1>2. /\ sheet.open
      /\ UNCHANGED <<host, loan, ledger, seen, scheduleRef, payment, orphan, log>>
  BY DEF Edit, SwitchView
<1>3. host # None
  BY <1>2, FormParts
<1>4. sheet' \in SheetForm /\ FormKnown(sheet', loan, ledger)
  <2>1. CASE Edit
    <3>1. PICK i \in Period, a \in Typed, account \in {"linked", "other"} :
            sheet' = [sheet EXCEPT !.period = i, !.amount = a, !.account = account,
                                   !.touched = TRUE]
      BY <2>1 DEF Edit
    <3>2. a \in Nat
      BY SheetAssumption
    <3>3. /\ sheet' \in SheetForm /\ sheet'.open = sheet.open /\ sheet'.offer = sheet.offer
          /\ sheet'.prefill = sheet.prefill /\ sheet'.base = sheet.base /\ sheet'.touched
      BY <1>1, <3>1, <3>2 DEF SheetForm
    <3> QED
      BY <1>1, <3>3 DEF FormKnown
  <2>2. CASE SwitchView
    <3>1. \E view \in {"match", "manual"} : sheet' = [sheet EXCEPT !.view = view]
      BY <2>2 DEF SwitchView
    <3>2. /\ sheet' \in SheetForm /\ sheet'.open = sheet.open /\ sheet'.offer = sheet.offer
          /\ sheet'.prefill = sheet.prefill /\ sheet'.base = sheet.base
          /\ sheet'.touched = sheet.touched /\ sheet'.period = sheet.period
          /\ sheet'.amount = sheet.amount
      BY <1>1, <3>1 DEF SheetForm
    <3> QED
      BY <1>1, <3>2 DEF FormKnown
  <2> QED
    BY <2>1, <2>2
<1> QED
  BY <1>1, <1>2, <1>3, <1>4, FormStep

\* Closing the sheet leaves its request behind.
LEMMA CloseSheetStep ==
  ASSUME SheetInductive, CloseSheet
  PROVE  SheetInductive'
<1>1. /\ payment \in SheetRequest /\ RequestKnown(payment, host, loan, ledger)
      /\ orphan \in SheetRequest /\ RequestKnown(orphan, host, loan, ledger)
      /\ log = [opened |-> log.opened, elsewhere |-> log.elsewhere, final |-> log.final]
  BY FormParts
<1>2. /\ sheet.open /\ sheet' = Blank
      /\ UNCHANGED <<host, loan, ledger, seen, scheduleRef, log>>
      /\ \/ orphan' = payment /\ payment' = NoRequest
         \/ UNCHANGED <<payment, orphan>>
  BY DEF CloseSheet
<1>3. host # None
  BY <1>2, FormParts
<1>4. /\ payment' \in SheetRequest /\ RequestKnown(payment', host, loan, ledger)
      /\ orphan' \in SheetRequest /\ RequestKnown(orphan', host, loan, ledger)
  BY <1>1, <1>2, NothingAsked
<1> QED
  BY <1>1, <1>2, <1>3, <1>4, NothingAsked, FormStep

\* An answer closes only the sheet that asked.
LEMMA AnswerPaymentStep ==
  ASSUME SheetInductive, AnswerPayment
  PROVE  SheetInductive'
<1>1. /\ sheet \in SheetForm /\ FormKnown(sheet, loan, ledger)
      /\ payment \in SheetRequest /\ RequestKnown(payment, host, loan, ledger)
      /\ orphan \in SheetRequest /\ RequestKnown(orphan, host, loan, ledger)
      /\ log = [opened |-> log.opened, elsewhere |-> log.elsewhere, final |-> log.final]
  BY FormParts
<1>2. /\ IsPending(payment) \/ IsPending(orphan)
      /\ sheet' = Blank \/ sheet' = sheet
      /\ \/ payment' = NoRequest /\ orphan' = orphan
         \/ orphan' = NoRequest /\ payment' = payment
      /\ UNCHANGED <<host, loan, ledger, seen, scheduleRef, log>>
  BY DEF AnswerPayment, ClosedBy
<1>3. host # None
  BY <1>2, FormParts
<1>4. /\ payment' \in SheetRequest /\ RequestKnown(payment', host, loan, ledger)
      /\ orphan' \in SheetRequest /\ RequestKnown(orphan', host, loan, ledger)
      /\ sheet' \in SheetForm /\ FormKnown(sheet', loan, ledger)
  BY <1>1, <1>2, NothingAsked
<1> QED
  BY <1>1, <1>2, <1>3, <1>4, FormStep


\* A payment that is sent from the mounted form.
LEMMA SubmitStep ==
  ASSUME SheetInductive, SubmitPayment \/ \E t \in BankTx : ConfirmMatch(t)
  PROVE  SheetInductive'
<1>1. /\ sheet \in SheetForm /\ FormKnown(sheet, loan, ledger)
      /\ orphan \in SheetRequest /\ RequestKnown(orphan, host, loan, ledger)
      /\ loan \in Loan /\ seen \in SheetDebt /\ ledger \in SheetDebt
      /\ log = [opened |-> log.opened, elsewhere |-> log.elsewhere, final |-> log.final]
  BY FormParts
<1>2. /\ sheet.open
      /\ UNCHANGED <<host, loan, ledger, seen, scheduleRef, sheet, orphan, log>>
  BY DEF SubmitPayment, ConfirmMatch, FormReady
<1>3. host # None
  BY <1>2, FormParts
<1>4. LinkedPaid(host, seen)
  BY DEF SheetInductive, CopiesKnown
<1>5. \A body : LET m == Request(body)
                IN  m.stage = "sent" /\ m.body = body
                    /\ (body \in SheetBody => m \in SheetRequest)
  BY DEF Request, SheetRequest
<1>6. sheet.offer \in {"blank", "next", "rest"} /\ sheet.touched \in BOOLEAN
  BY <1>1 DEF SheetForm
<1>7. payment' \in SheetRequest /\ RequestKnown(payment', host, loan, ledger)
  <2>1. CASE SubmitPayment
    <3> DEFINE body == Body(sheet.period, sheet.amount, sheet.account, None)
    <3>1. payment' = Request(body) /\ sheet.amount > 0
      BY <2>1 DEF SubmitPayment
    <3>2. /\ sheet.period \in Nat /\ sheet.amount \in Nat \ {0}
          /\ sheet.account \in {None, "linked", "other"}
      <4>1. sheet.period \in Period \cup {0} /\ sheet.amount \in Nat
        BY <1>1 DEF SheetForm
      <4>2. Period \subseteq Nat
        BY <1>1, LoanFacts
      <4> QED
        BY <1>1, <3>1, <4>1, <4>2 DEF SheetForm
    <3>3. /\ body \in SheetBody /\ ~body.relinks /\ body.link = None
          /\ body.amount = sheet.amount
          /\ body.final # "no" => sheet.offer = "rest" /\ ~sheet.touched
      BY <3>2 DEF Body, SheetBody
    <3> HIDE DEF body
    <3>4. body.final # "no" /\ loan.rate = 0 =>
            body.amount + ledger.total >= loan.principal_minor
      BY <1>1, <1>2, <3>2, <3>3 DEF FormKnown
    <3>5. payment' \in SheetRequest /\ payment'.body = body
      BY <1>5, <3>1, <3>3
    <3> QED
      BY <3>3, <3>4, <3>5 DEF RequestKnown
  <2>2. ASSUME NEW t \in BankTx, ConfirmMatch(t)
        PROVE  payment' \in SheetRequest /\ RequestKnown(payment', host, loan, ledger)
    <3> DEFINE account == IF seen.account # None THEN seen.account ELSE sheet.account
               body == Body(DateOf[t], Due(Near[t]), account, t)
    <3>1. payment' = Request(body) /\ IsLoan /\ t \in Suggestions(seen)
      BY <2>2 DEF ConfirmMatch
    <3>2. Near[t] \in Period /\ Near[t] \notin seen.paid /\ Due(Near[t]) > 0
      BY <3>1 DEF Suggestions, Unpaid
    <3>3. Due(Near[t]) \in Nat \ {0}
      BY <1>1, <3>2, LoanFacts DEF Due, SoundRow
    <3>4. DateOf[t] \in Nat /\ t # None /\ account \in {None, "linked", "other"}
      BY <1>1, SheetAssumption DEF None, SheetDebt, SheetForm
    <3>5. /\ body.period = DateOf[t] /\ body.link = t /\ body.final = "no"
          /\ body.relinks = (seen.links[t] > 0)
          /\ body \in SheetBody
      BY <3>3, <3>4 DEF Body, SheetBody
    <3> HIDE DEF account, body
    <3>6. body.relinks => DateOf[t] # Near[t]
      BY <1>4, <3>2, <3>5 DEF LinkedPaid
    <3>7. payment' \in SheetRequest /\ payment'.body = body
      BY <1>5, <3>1, <3>5
    <3> QED
      BY <3>1, <3>5, <3>6, <3>7 DEF RequestKnown, IsLoan, LoanHosts
  <2> QED
    BY <2>1, <2>2
<1> QED
  BY <1>1, <1>2, <1>3, <1>7, FormStep

\* Every step of the payment sheet keeps its invariant.
LEMMA SheetStep ==
  ASSUME SheetInductive, SheetNext
  PROVE  SheetInductive'
<1>1. \/ \E h \in Hosts, l \in Loan, account \in {None, "linked"} : MountHost(h, l, account)
      \/ ServePayment
      \/ (\E i \in Period : PayElsewhere(i)) \/ RelinkElsewhere
      \/ Refetch
      \/ OfferNext \/ OfferRest \/ OfferBlank
      \/ Edit \/ SwitchView
      \/ CloseSheet
      \/ SubmitPayment \/ \E t \in BankTx : ConfirmMatch(t)
      \/ AnswerPayment
  BY DEF SheetNext
<1>2. CASE \E h \in Hosts, l \in Loan, account \in {None, "linked"} : MountHost(h, l, account)
  BY <1>2, MountStep
<1>3. CASE ServePayment
  BY <1>3, ServePaymentStep
<1>4. CASE (\E i \in Period : PayElsewhere(i)) \/ RelinkElsewhere
  BY <1>4, ElsewhereStep
<1>5. CASE Refetch
  BY <1>5, RefetchStep
<1>6. CASE OfferNext \/ OfferRest \/ OfferBlank
  BY <1>6, OfferStep
<1>7. CASE Edit \/ SwitchView
  BY <1>7, TypingStep
<1>8. CASE CloseSheet
  BY <1>8, CloseSheetStep
<1>9. CASE SubmitPayment \/ \E t \in BankTx : ConfirmMatch(t)
  BY <1>9, SubmitStep
<1>10. CASE AnswerPayment
  BY <1>10, AnswerPaymentStep
<1> QED
  BY <1>1, <1>2, <1>3, <1>4, <1>5, <1>6, <1>7, <1>8, <1>9, <1>10

\* The invariant that is proved implies the one that the run checks.
LEMMA SheetHolds == SheetInductive => SheetInvariant
<1> SUFFICES ASSUME SheetInductive PROVE SheetInvariant
  OBVIOUS
<1>1. /\ SheetTypes /\ AcceptedRestCompletes
      /\ CopiesKnown(host, loan, ledger, seen, scheduleRef) /\ FormKnown(sheet, loan, ledger)
      /\ RequestKnown(payment, host, loan, ledger)
  BY DEF SheetInductive
<1>2. SheetTypeOK
  <2>1. ASSUME NEW d \in SheetDebt, d.principal <= d.total
        PROVE  /\ d.total \in Nat /\ d.principal \in 0 .. d.total /\ d.paid \subseteq Period
               /\ d.status \in {"active", "paid_off"} /\ d.account \in {None, "linked"}
               /\ d.links \in [BankTx -> Nat]
    BY <2>1 DEF SheetDebt
  <2>2. ASSUME NEW m \in SheetRequest
        PROVE  /\ m.stage \in {"none", "sent", "done", "declined"}
               /\ IsPending(m) => m.body.amount > 0
    BY DEF SheetRequest, NoRequest, IsPending, SheetBody
  <2>3. scheduleRef \subseteq Period
    BY <1>1 DEF SheetTypes, CopiesKnown, SheetDebt
  <2>4. /\ sheet.view \in {"match", "manual"} /\ sheet.offer \in {"blank", "next", "rest"}
        /\ sheet.period \in Period \cup {0} /\ sheet.amount \in Nat
        /\ sheet.account \in {None, "linked", "other"}
    BY <1>1 DEF SheetTypes, SheetForm
  <2> QED
    BY <1>1, <2>1, <2>2, <2>3, <2>4 DEF SheetTypes, SheetTypeOK
<1>3. OfferIsUnpaid
  BY <1>1 DEF FormKnown, OfferIsUnpaid
<1>4. RelinkedOnlyAcrossPeriods
  BY <1>1 DEF RequestKnown, RelinkedOnlyAcrossPeriods
<1> QED
  BY <1>1, <1>2, <1>3, <1>4 DEF SheetInvariant

\* Of all steps only a refetch takes what was typed from an open form.
LEMMA TypingSurvives ==
  ASSUME SheetInductive, SheetNext, sheet.open, sheet'.open, sheet.touched, ~sheet'.touched
  PROVE  seen'.account # seen.account
<1>1. loan \in Loan /\ ledger \in SheetDebt /\ seen \in SheetDebt /\ sheet \in SheetForm
  BY FormParts
<1>2. sheet' # sheet
  OBVIOUS
<1>3. CASE Refetch
  BY <1>1, <1>3, RerenderedForm DEF Refetch
<1>4. CASE Edit
  <2>1. PICK i \in Period, a \in Typed, account \in {"linked", "other"} :
          sheet' = [sheet EXCEPT !.period = i, !.amount = a, !.account = account,
                                 !.touched = TRUE]
    BY <1>4 DEF Edit
  <2>2. sheet'.touched
    BY <1>1, <2>1 DEF SheetForm
  <2> QED
    BY <2>2
<1>5. CASE SwitchView
  <2>1. \E view \in {"match", "manual"} : sheet' = [sheet EXCEPT !.view = view]
    BY <1>5 DEF SwitchView
  <2>2. sheet'.touched = sheet.touched
    BY <1>1, <2>1 DEF SheetForm
  <2> QED
    BY <2>2
<1>6. CASE CloseSheet \/ AnswerPayment
  BY <1>2, <1>6, NothingAsked DEF CloseSheet, AnswerPayment, ClosedBy
<1>7. CASE OfferNext \/ OfferRest \/ OfferBlank
  BY <1>7 DEF OfferNext, OfferRest, OfferBlank, OpenSheet
<1>8. \/ sheet' = sheet \/ Refetch \/ Edit \/ SwitchView \/ CloseSheet \/ AnswerPayment
      \/ OfferNext \/ OfferRest \/ OfferBlank
  BY DEF SheetNext, MountHost, ServePayment, PayElsewhere, RelinkElsewhere, ConfirmMatch,
         SubmitPayment
<1> QED
  BY <1>2, <1>3, <1>4, <1>5, <1>6, <1>7, <1>8

\* A sheet that closes as the request of a form that is gone changes was closed by
\* the user, with the request still on its way.
LEMMA LateAnswer ==
  ASSUME SheetInductive, SheetNext, sheet.open, ~sheet'.open, orphan' # orphan
  PROVE  IsPending(orphan')
<1>1. loan \in Loan /\ ledger \in SheetDebt /\ seen \in SheetDebt /\ sheet \in SheetForm
  BY FormParts
<1>2. CASE CloseSheet
  BY <1>2 DEF CloseSheet
<1>3. CASE AnswerPayment
  BY <1>3 DEF AnswerPayment, ClosedBy
<1>4. CASE ServePayment
  BY <1>4 DEF ServePayment
<1>5. orphan' = orphan \/ CloseSheet \/ AnswerPayment \/ ServePayment
  BY DEF SheetNext, MountHost, PayElsewhere, RelinkElsewhere, Refetch, OfferNext, OfferRest,
         OfferBlank, OpenSheet, Edit, SwitchView, ConfirmMatch, SubmitPayment
<1> QED
  BY <1>2, <1>3, <1>4, <1>5

\* The payment sheet keeps its promises on every loan and for every number of
\* openings and of payments elsewhere (record-payment-form.tsx and its hosts,
\* debt.py record_payment): an offer left as it is never is a period the screen showed
\* as paid, a final payment that is accepted without interest completes the loan, a
\* transaction is linked again only across periods, what was typed survives refetches
\* and a late answer closes nothing.
THEOREM SheetKeepsPromises == SheetSpec => SheetPromises
<1>1. SheetInductive /\ UNCHANGED sheet_vars => SheetInductive'
  BY DEF sheet_vars, SheetInductive, SheetTypes, MountedFirst, AcceptedRestCompletes,
         CopiesKnown, FormKnown, RequestKnown, LinkedPaid
<1>2. SheetInductive /\ [SheetNext]_sheet_vars => SheetInductive'
  BY <1>1, SheetStep
<1>3. SheetInductive /\ [SheetNext]_sheet_vars =>
        [(sheet.open /\ sheet'.open /\ sheet.touched /\ ~sheet'.touched)
           => seen'.account # seen.account]_sheet_vars
  BY TypingSurvives
<1>4. SheetInductive /\ [SheetNext]_sheet_vars =>
        [(sheet.open /\ ~sheet'.open /\ orphan' # orphan) => IsPending(orphan')]_sheet_vars
  BY LateAnswer
<1> QED
  BY <1>2, <1>3, <1>4, SheetStart, SheetHolds, PTL
     DEF SheetSpec, SheetPromises, TypingSurvivesRefetch, LateAnswerClosesNothing

=============================================================================
