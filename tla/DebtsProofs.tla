---------------------------- MODULE DebtsProofs -----------------------------
(***************************************************************************)
(* One debt under concurrent requests: the references in its tables hold   *)
(* and its splits are paid in order whatever overlaps, and while requests  *)
(* come one at a time splits, payments, transactions and status tell the   *)
(* same story.  For every loan, number of splits, sessions and payments.   *)
(***************************************************************************)
EXTENDS Debts, AmortizationProofs, FiniteSetTheorems

USE DebtsAssumption

-----------------------------------------------------------------------------
(* What a set of payments adds up to *)

\* What payments add up to is the total of their portions.
LEMMA PrincipalIsTotal ==
  ASSUME NEW rows, IsFiniteSet(rows), NEW w, \A p \in rows : w[p] = p.principal_minor
  PROVE  PrincipalOf(rows) = Total(w, rows)
<1> DEFINE Portions(f) == f = [s \in SUBSET rows |->
                            IF s = {} THEN 0
                            ELSE LET p == CHOOSE q \in s : TRUE
                                 IN  p.principal_minor + f[s \ {p}]]
           iter == CHOOSE sums : Portions(sums)
           sums == CHOOSE g : AreSums(w, g, rows)
<1>1. PrincipalOf(rows) = iter[rows]
  BY DEF PrincipalOf, MapThenSumSet, MapThenFoldSet
<1>2. ASSUME NEW f PROVE Portions(f) <=> AreSums(w, f, rows)
  <2>1. ASSUME NEW s \in SUBSET rows
        PROVE  SumStep(w, f, s) = IF s = {} THEN 0
                                  ELSE LET p == CHOOSE q \in s : TRUE
                                       IN  p.principal_minor + f[s \ {p}]
    <3>1. s # {} => Pick(s) \in rows /\ w[Pick(s)] = Pick(s).principal_minor
      BY DEF Pick
    <3> QED
      BY <3>1 DEF SumStep, Pick
  <2>2. [s \in SUBSET rows |-> SumStep(w, f, s)] =
          [s \in SUBSET rows |-> IF s = {} THEN 0
                                 ELSE LET p == CHOOSE q \in s : TRUE
                                      IN  p.principal_minor + f[s \ {p}]]
    BY <2>1
  <2> QED
    BY <2>2 DEF AreSums
<1>3. AreSums(w, sums, rows)
  BY SumsDefined
<1> HIDE DEF Portions, sums
<1>4. Portions(iter)
  BY <1>2, <1>3
<1> HIDE DEF iter
<1>5. AreSums(w, iter, rows)
  BY <1>2, <1>4
<1>6. iter[rows] = sums[rows]
  BY <1>3, <1>5, SumsAgree
<1> QED
  BY <1>1, <1>6 DEF Total, sums

\* The sum of the portions is a natural number, 0 for no payment, and one more
\* payment adds its portion.
LEMMA PrincipalOfNone == PrincipalOf({}) = 0
<1> DEFINE w == [p \in {} |-> 0]
<1>1. IsFiniteSet({}) /\ \A p \in {} : w[p] = p.principal_minor
  BY FS_EmptySet
<1> HIDE DEF w
<1>2. PrincipalOf({}) = Total(w, {})
  BY <1>1, PrincipalIsTotal
<1> QED
  BY <1>2, TotalNone

\* What payments add up to is a natural number.
LEMMA PrincipalNatural ==
  ASSUME NEW rows \in SUBSET [id : Nat, principal_minor : Nat], IsFiniteSet(rows)
  PROVE  PrincipalOf(rows) \in Nat
<1> DEFINE w == [p \in rows |-> p.principal_minor]
<1>1. \A p \in rows : w[p] = p.principal_minor /\ w[p] \in Nat
  OBVIOUS
<1> HIDE DEF w
<1> QED
  BY <1>1, PrincipalIsTotal, TotalNatural

\* One more payment adds its principal portion.
LEMMA PrincipalOfMore ==
  ASSUME NEW rows, IsFiniteSet(rows), \A p \in rows : p.principal_minor \in Nat,
         NEW p, p \notin rows, p.principal_minor \in Nat
  PROVE  /\ PrincipalOf(rows) \in Nat
         /\ PrincipalOf(rows \cup {p}) = PrincipalOf(rows) + p.principal_minor
<1> DEFINE more == rows \cup {p}
           w == [q \in more |-> q.principal_minor]
<1>1. IsFiniteSet(more)
  BY FS_AddElement
<1>2. /\ \A q \in more : w[q] = q.principal_minor
      /\ \A q \in rows : w[q] = q.principal_minor /\ w[q] \in Nat
      /\ w[p] = p.principal_minor
  OBVIOUS
<1> HIDE DEF w, more
<1>3. PrincipalOf(more) = Total(w, more) /\ PrincipalOf(rows) = Total(w, rows)
  BY <1>1, <1>2, PrincipalIsTotal
<1>4. Total(w, rows \cup {p}) = Total(w, rows) + w[p] /\ Total(w, rows) \in Nat
  BY <1>2, TotalMore, TotalNatural
<1> QED
  BY <1>2, <1>3, <1>4 DEF more

-----------------------------------------------------------------------------
(* The invariant *)

DueItem == [id : Nat, amount : Nat, row : Nat]
PaymentRow == [id : Nat, principal_minor : Nat]
Claims == UNION {[D -> Nat] : D \in SUBSET Nat}
Kinds == {"none", "pay", "mark", "reactivate", "delete", "purge"}
Stages == {"none", "check", "select", "claim", "settle", "commit"}
JobState ==
  [kind : Kinds, status : {"idle", "open", "refused", "done", "lost"}, stage : Stages,
   todo : Seq(DueItem), loaded : {"active", "paid_off"}, read : Int,
   made : SUBSET PaymentRow, split : Nat, claimed : Claims, pays_off : BOOLEAN,
   seen : SUBSET Nat]

DebtTypes ==
  /\ terms \in Terms /\ last_id \in Nat /\ overlapped \in BOOLEAN
  /\ debt \in [status : {"active", "paid_off"}, is_active : BOOLEAN]
  /\ payments \subseteq PaymentRow /\ IsFiniteSet(payments)
  /\ \A p \in payments : p.id \in 1 .. last_id
  /\ splits \in [1 .. terms.splits -> 0 .. last_id]
  /\ booked \subseteq 1 .. last_id
  /\ lock \in [1 .. terms.splits -> Session \cup {Nobody}]
  /\ job \in [Session -> JobState]

\* What a request has in hand is sound, with what others commit meanwhile: whatever
\* split it has claimed, the earlier ones are paid or claimed as well.
JobSound(j, sp, last) ==
  /\ IsFiniteSet(j.made) /\ \A p \in j.made : p.id \in 1 .. last
  /\ \A n \in DOMAIN j.todo :
       j.todo[n].id \in 1 .. last /\ j.todo[n].row \in 1 .. terms.loan.num_periods
  /\ DOMAIN j.claimed \subseteq DOMAIN sp
  /\ \A i \in DOMAIN j.claimed : j.claimed[i] \in Ids(j.made)
  /\ \A k \in DOMAIN j.claimed, i \in DOMAIN sp :
       i < k => sp[i] # 0 \/ i \in DOMAIN j.claimed
  /\ j.stage = "claim" =>
       /\ j.split \in DOMAIN sp
       /\ \A i \in DOMAIN sp : i < j.split => sp[i] # 0 \/ i \in DOMAIN j.claimed
  /\ j.stage \in {"check", "select", "claim", "settle"} => j.todo # <<>>
  /\ j.stage # "none" => j.kind = "pay"
  /\ j.stage \in {"select", "claim", "settle"} => Head(j.todo).id \in Ids(j.made)
  /\ j.stage \in {"select", "claim"} => terms.type = "personal"

Settled(sp, claimed) == {i \in DOMAIN sp : sp[i] # 0 \/ i \in claimed}

\* Ids are given out in the order of the payments.
IdsAhead(j, all) ==
  /\ \A n, m \in DOMAIN j.todo : n < m => j.todo[n].id < j.todo[m].id
  /\ \A n \in DOMAIN j.todo : n > 1 \/ j.stage = "check" =>
       \A p \in all : p.id < j.todo[n].id

\* What the open request knows of the principal paid ...
SumsKnown(j, pay, all) ==
  /\ terms.loan.rate = 0 => PrincipalOf(all) <= terms.loan.principal_minor
  /\ j.stage \in {"check", "commit"}
       /\ PrincipalOf(all) >= terms.loan.principal_minor
       /\ PrincipalOf(pay) < terms.loan.principal_minor => j.pays_off
  /\ j.stage \in {"select", "claim", "settle"} =>
       PrincipalOf(all) = j.read + Portion(Head(j.todo).amount, Head(j.todo).row)

\* ... and how many splits it has settled, the last payment's excepted until claimed.
CountsKnown(j, sp, all) ==
  terms.type = "personal" =>
    /\ j.stage \in {"check", "settle", "commit"} =>
         Cardinality(Settled(sp, DOMAIN j.claimed)) = Min({Cardinality(all), terms.splits})
    /\ j.stage \in {"select", "claim"} =>
         /\ all # {}
         /\ Cardinality(Settled(sp, DOMAIN j.claimed))
              = Min({Cardinality(all) - 1, terms.splits})
    /\ j.stage = "claim" => j.split \notin Settled(sp, DOMAIN j.claimed)

InStep(j, pay, sp, status) ==
  /\ j.loaded = status
  /\ j.kind = "purge" => j.seen = Ids(pay)
  /\ j.stage # "none" =>
       /\ IdsAhead(j, pay \cup j.made)
       /\ SumsKnown(j, pay, pay \cup j.made)
       /\ CountsKnown(j, sp, pay \cup j.made)

\* Splits, payments and transactions tell the same story.
Story(pay, sp, bk) ==
  /\ terms.loan.rate = 0 => PrincipalOf(pay) <= terms.loan.principal_minor
  /\ terms.type = "personal" =>
       Cardinality(Settled(sp, {})) = Min({Cardinality(pay), terms.splits})
  /\ bk \subseteq Ids(pay)

OneAtATime ==
  ~overlapped =>
    /\ Story(payments, splits, booked)
    /\ \A s, t \in Session : Open(s) /\ Open(t) => s = t
    /\ \A s \in Session : Open(s) => InStep(job[s], payments, splits, debt.status)

DebtsInductive ==
  /\ DebtTypes /\ PaidSplitsHavePayments /\ SplitsPaidInOrder
  /\ \A s \in Session : JobSound(job[s], splits, last_id)
  /\ OneAtATime

-----------------------------------------------------------------------------

\* The types of the terms of a debt; a personal debt has splits and no interest.
LEMMA TermsFacts ==
  ASSUME terms \in Terms
  PROVE  /\ terms.type \in {"bank_loan", "personal"} /\ terms.loan \in LoanType
         /\ terms.splits \in Nat /\ terms.loan.principal_minor \in Nat \ {0}
         /\ terms.loan.rate \in Nat /\ terms.loan.num_periods \in Nat \ {0}
         /\ terms.type = "personal" => terms.splits > 0 /\ terms.loan.rate = 0
BY DEF TermsType, LoanType

\* The principal portion of a payment of any amount is a natural number: no row of
\* a schedule has more interest than payment.
LEMMA PortionNatural ==
  ASSUME terms \in Terms, NEW amount \in Nat, NEW i \in 1 .. terms.loan.num_periods
  PROVE  Portion(amount, i) \in Nat
<1> DEFINE row == Schedule[i]
<1>1. SoundRow(terms.loan, row)
  BY TermsFacts, ScheduleSound DEF Schedule, ScheduleOf
<1> HIDE DEF row
<1> DEFINE payment == row.payment_minor
           interest == row.interest_minor
           share == (amount * interest + payment \div 2) \div payment
<1>2. interest \in Nat /\ payment \in Nat /\ interest <= payment
  BY <1>1 DEF SoundRow
<1>3. Portion(amount, i) = IF terms.loan.rate > 0 /\ payment > 0 THEN amount - share ELSE amount
  BY DEF Portion, row
<1> HIDE DEF payment, interest
<1>4. payment > 0 => share \in 0 .. amount
  BY <1>2, ShareWithin
<1> HIDE DEF share
<1> QED
  BY <1>2, <1>3, <1>4

\* The minimum of two integers.
LEMMA MinOfTwo ==
  ASSUME NEW a \in Int, NEW b \in Int
  PROVE  Min({a, b}) = IF a <= b THEN a ELSE b
BY DEF Min

\* The least unpaid split, or none.
LEMMA NextSplitFacts ==
  ASSUME DebtTypes, NEW s \in Session
  PROVE  LET open == DOMAIN splits \ Settled(splits, DOMAIN job[s].claimed)
         IN  \/ NextSplit(s) = 0 /\ open = {}
             \/ /\ NextSplit(s) \in open /\ NextSplit(s) # 0
                /\ \A i \in open : NextSplit(s) <= i
<1> DEFINE open == DOMAIN splits \ Settled(splits, DOMAIN job[s].claimed)
<1>1. open = {i \in DOMAIN splits : splits[i] = 0 /\ i \notin DOMAIN job[s].claimed}
  BY DEF Settled
<1>2. NextSplit(s) = IF open = {} THEN 0 ELSE Min(open)
  BY <1>1 DEF NextSplit
<1>3. open \subseteq Nat /\ 0 \notin open
  BY TermsFacts DEF DebtTypes
<1> HIDE DEF open
<1>4. CASE open # {}
  <2>1. PICK m \in open : \A i \in open : m <= i
    BY <1>3, <1>4, LeastNatural
  <2>2. Min(open) \in open /\ \A i \in open : Min(open) <= i
    BY <2>1 DEF Min
  <2> QED
    BY <1>2, <1>3, <1>4, <2>2 DEF open
<1> QED
  BY <1>2, <1>4 DEF open

-----------------------------------------------------------------------------
(* One step of a request *)

\* What others have in hand stays sound when splits get paid and ids given out.
LEMMA SoundLater ==
  ASSUME NEW j \in JobState, NEW sp, NEW sq, DOMAIN sp = DOMAIN sq,
         \A i \in DOMAIN sp : sp[i] # 0 => sq[i] # 0,
         NEW last \in Nat, NEW later \in Nat, last <= later, JobSound(j, sp, last)
  PROVE  JobSound(j, sq, later)
<1>1. \A n \in 1 .. last : n \in 1 .. later
  OBVIOUS
<1> QED
  BY <1>1 DEF JobSound

\* A session takes a step: what it must respect.
LEMMA DebtsStep ==
  ASSUME DebtsInductive, NEW s \in Session, NEW j \in JobState,
         job' = [job EXCEPT ![s] = j], terms' = terms, DebtTypes', last_id <= last_id',
         PaidSplitsHavePayments', SplitsPaidInOrder',
         \A i \in DOMAIN splits : splits[i] # 0 => splits'[i] # 0,
         JobSound(j, splits', last_id'),
         overlapped => overlapped',
         ~overlapped' =>
           /\ Story(payments', splits', booked')
           /\ j.status = "open" => InStep(j, payments', splits', debt'.status)
           /\ \A t \in Session \ {s} : ~Open(t)
  PROVE  DebtsInductive'
<1>1. /\ DebtTypes /\ \A t \in Session : JobSound(job[t], splits, last_id)
      /\ job \in [Session -> JobState] /\ DOMAIN splits = DOMAIN splits'
      /\ last_id \in Nat /\ last_id' \in Nat
  BY DEF DebtsInductive, DebtTypes
<1>2. \A t \in Session \ {s} : job'[t] = job[t]
  BY <1>1
<1>3. job'[s] = j
  BY <1>1
<1>4. ASSUME NEW t \in Session PROVE JobSound(job'[t], splits', last_id')
  <2>1. CASE t = s
    BY <1>3, <2>1
  <2>2. CASE t # s
    <3>1. JobSound(job[t], splits', last_id')
      BY <1>1, SoundLater
    <3> QED
      BY <1>2, <2>2, <3>1
  <2> QED
    BY <2>1, <2>2
<1>5. (\A t \in Session : JobSound(job[t], splits, last_id))'
  BY <1>4 DEF JobSound
<1>6. OneAtATime'
  <2> SUFFICES ASSUME ~overlapped' PROVE
         /\ Story(payments, splits, booked)'
         /\ (\A t, u \in Session : Open(t) /\ Open(u) => t = u)'
         /\ (\A t \in Session : Open(t) => InStep(job[t], payments, splits, debt.status))'
    BY DEF OneAtATime
  <2>1. Story(payments, splits, booked)'
    BY DEF Story
  <2>2. \A t \in Session : job'[t].status = "open" => t = s
    BY <1>2 DEF Open
  <2>3. (\A t, u \in Session : Open(t) /\ Open(u) => t = u)'
    BY <2>2 DEF Open
  <2>4. (\A t \in Session : Open(t) => InStep(job[t], payments, splits, debt.status))'
    BY <1>3, <2>2 DEF Open, InStep, IdsAhead, SumsKnown, CountsKnown, Portion, Schedule
  <2> QED
    BY <2>1, <2>3, <2>4
<1> QED
  BY <1>5, <1>6 DEF DebtsInductive

\* What is known of the session that takes a step.
LEMMA OpenFacts ==
  ASSUME DebtsInductive, NEW s \in Session, Open(s)
  PROVE  /\ DebtTypes /\ job[s] \in JobState /\ JobSound(job[s], splits, last_id)
         /\ PaidSplitsHavePayments /\ SplitsPaidInOrder
         /\ ~overlapped => /\ Story(payments, splits, booked)
                           /\ InStep(job[s], payments, splits, debt.status)
                           /\ \A t \in Session \ {s} : ~Open(t)
BY DEF DebtsInductive, DebtTypes, OneAtATime

\* The empty list of due items.
LEMMA EmptySequenceItem == <<>> \in Seq(DueItem) /\ DOMAIN <<>> = {}
OBVIOUS

\* A request without anything in hand.
LEMMA IdleJob ==
  /\ Idle \in JobState /\ Idle.made = {} /\ Idle.stage = "none" /\ Idle.claimed = [i \in {} |-> 0]
  /\ DOMAIN Idle.claimed = {} /\ Idle.kind = "none" /\ Idle.todo = <<>> /\ Idle.pays_off = FALSE
<1>1. [i \in {} |-> 0] \in Claims
  <2>1. [i \in {} |-> 0] \in [{} -> Nat]
    OBVIOUS
  <2> QED
    BY <2>1 DEF Claims
<1> HIDE DEF Claims
<1> QED
  BY <1>1, EmptySequenceItem DEF Idle, JobState, Kinds, Stages

\* A job that has done nothing yet is sound, whatever the splits are.
LEMMA EmptyHanded ==
  ASSUME NEW j \in JobState, j.made = {}, j.stage = "none", j.claimed = [i \in {} |-> 0],
         j.todo = <<>>, NEW sp, NEW last
  PROVE  JobSound(j, sp, last)
<1>1. DOMAIN j.claimed = {} /\ DOMAIN j.todo = {} /\ IsFiniteSet({})
  BY FS_EmptySet
<1> QED
  BY <1>1 DEF JobSound

\* The request ends; what it has committed is in the hypotheses.
LEMMA EndStep ==
  ASSUME DebtsInductive, NEW s \in Session, Open(s),
         NEW status \in {"refused", "done", "lost"}, End(s, status),
         debt' \in [status : {"active", "paid_off"}, is_active : BOOLEAN],
         payments' \subseteq PaymentRow, IsFiniteSet(payments'),
         \A p \in payments' : p.id \in 1 .. last_id,
         splits' \in [1 .. terms.splits -> 0 .. last_id], booked' \subseteq 1 .. last_id,
         PaidSplitsHavePayments', SplitsPaidInOrder',
         \A i \in DOMAIN splits : splits[i] # 0 => splits'[i] # 0,
         ~overlapped => Story(payments', splits', booked')
  PROVE  DebtsInductive'
<1>1. /\ DebtTypes /\ job[s] \in JobState
      /\ ~overlapped => \A t \in Session \ {s} : ~Open(t)
  BY OpenFacts
<1> DEFINE j == [Idle EXCEPT !.kind = job[s].kind, !.status = status]
<1>2. /\ j \in JobState /\ j.made = {} /\ j.stage = "none" /\ j.claimed = [i \in {} |-> 0]
      /\ j.todo = <<>> /\ j.status = status
  BY <1>1, IdleJob DEF JobState
<1>3. /\ job' = [job EXCEPT ![s] = j] /\ UNCHANGED <<terms, last_id, overlapped>>
      /\ lock' = Release(s)
  BY DEF End, Set
<1> HIDE DEF j
<1>4. lock' \in [1 .. terms.splits -> Session \cup {Nobody}]
  BY <1>1, <1>3 DEF DebtTypes, Release
<1>5. DebtTypes'
  BY <1>1, <1>2, <1>3, <1>4 DEF DebtTypes
<1>6. JobSound(j, splits', last_id') /\ j.status # "open"
  BY <1>2, EmptyHanded
<1>7. last_id <= last_id'
  BY <1>1, <1>3 DEF DebtTypes
<1> QED
  BY <1>1, <1>2, <1>3, <1>5, <1>6, <1>7, DebtsStep

-----------------------------------------------------------------------------
(* Requests begin *)

\* A request to pay has at least one item, of a row of the schedule.
LEMMA ItemsFacts ==
  ASSUME terms \in Terms, NEW items \in SinglePayments \cup PastInstallments
  PROVE  /\ items \in Seq([amount : Nat, row : 1 .. terms.loan.num_periods])
         /\ items # <<>>
<1> DEFINE rows == 1 .. terms.loan.num_periods
           Payable == [amount : Nat, row : rows]
           item(i) == [amount |-> Schedule[i].payment_minor, row |-> i]
<1>1. 1 \in rows
  BY TermsFacts
<1>2. ASSUME NEW i \in rows PROVE item(i) \in Payable
  <2>1. SoundRow(terms.loan, Schedule[i])
    BY TermsFacts, ScheduleSound DEF Schedule, ScheduleOf
  <2> QED
    BY <2>1 DEF SoundRow
<1> HIDE DEF item
<1>3. CASE items \in SinglePayments
  <2>1. PICK it \in Payable : items = <<it>>
    BY <1>1, <1>3 DEF SinglePayments
  <2> HIDE DEF Payable
  <2>2. <<it>> \in Seq(Payable) /\ <<it>> # <<>>
    OBVIOUS
  <2> QED
    BY <2>1, <2>2 DEF Payable
<1>4. CASE items \in PastInstallments
  <2>1. \/ \E i \in rows : items = <<item(i)>>
        \/ \E q \in rows \X rows : items = <<item(q[1]), item(q[2])>>
    BY <1>4 DEF PastInstallments, item
  <2>2. ASSUME NEW i \in rows, items = <<item(i)>> PROVE items \in Seq(Payable) /\ items # <<>>
    <3> HIDE DEF Payable
    <3> QED
      BY <1>2, <2>2
  <2>3. ASSUME NEW i \in rows, NEW k \in rows, items = <<item(i), item(k)>>
        PROVE  items \in Seq(Payable) /\ items # <<>>
    <3> HIDE DEF Payable
    <3> QED
      BY <1>2, <2>3
  <2>4. ASSUME NEW q \in rows \X rows, items = <<item(q[1]), item(q[2])>>
        PROVE  items \in Seq(Payable) /\ items # <<>>
    <3>1. q[1] \in rows /\ q[2] \in rows
      OBVIOUS
    <3> QED
      BY <2>3, <2>4, <3>1
  <2> QED
    BY <2>1, <2>2, <2>4
<1> QED
  BY <1>3, <1>4

\* A session opens with nothing made.
LEMMA StartStep ==
  ASSUME DebtsInductive, NEW s \in Session, NEW i \in JobState, Start(s, i),
         i.made = {}, i.claimed = [k \in {} |-> 0],
         last_id' \in Nat, last_id <= last_id',
         \/ i.stage = "none" /\ i.todo = <<>> /\ (i.kind = "purge" => i.seen = Ids(payments))
         \/ /\ i.stage = "check" /\ i.kind = "pay" /\ i.todo # <<>>
            /\ \A n \in DOMAIN i.todo :
                 /\ i.todo[n].id = last_id + n /\ i.todo[n].id \in 1 .. last_id'
                 /\ i.todo[n].row \in 1 .. terms.loan.num_periods
  PROVE  DebtsInductive'
<1> DEFINE j == [i EXCEPT !.status = "open", !.loaded = debt.status]
<1>1. /\ DebtTypes /\ PaidSplitsHavePayments /\ SplitsPaidInOrder /\ OneAtATime
      /\ debt.status \in {"active", "paid_off"}
  BY DEF DebtsInductive, DebtTypes
<1>2. /\ ~Open(s) /\ job' = [job EXCEPT ![s] = j]
      /\ overlapped' = (overlapped \/ \E t \in Session : Open(t))
      /\ UNCHANGED <<terms, debt, payments, splits, booked, lock>>
  BY DEF Start, Set
<1>3. /\ j \in JobState /\ j.made = {} /\ j.claimed = [k \in {} |-> 0] /\ j.loaded = debt.status
      /\ j.stage = i.stage /\ j.todo = i.todo /\ j.kind = i.kind /\ j.seen = i.seen
  BY <1>1 DEF JobState
<1> HIDE DEF j
<1>4. overlapped' \in BOOLEAN
  BY <1>1, <1>2 DEF DebtTypes
<1>5. DebtTypes'
  <2>1. last_id \in Nat /\ \A k \in 1 .. last_id : k \in 1 .. last_id'
        /\ \A n \in 0 .. last_id : n \in 0 .. last_id'
    BY <1>1 DEF DebtTypes
  <2>2. job' \in [Session -> JobState]
    BY <1>1, <1>2, <1>3 DEF DebtTypes
  <2>3. splits' \in [1 .. terms.splits -> 0 .. last_id'] /\ booked' \subseteq 1 .. last_id'
        /\ \A p \in payments' : p.id \in 1 .. last_id'
    BY <1>1, <1>2, <2>1 DEF DebtTypes
  <2> QED
    BY <1>1, <1>2, <1>4, <2>2, <2>3 DEF DebtTypes
<1>6. DOMAIN j.claimed = {} /\ IsFiniteSet({})
  BY <1>3, FS_EmptySet
<1>7. JobSound(j, splits', last_id')
  <2>1. CASE i.stage = "none"
    BY <1>3, <2>1, EmptyHanded
  <2>2. CASE i.stage = "check"
    BY <1>3, <1>6, <2>2 DEF JobSound
  <2> QED
    BY <2>1, <2>2
<1>8. ASSUME ~overlapped'
      PROVE  /\ Story(payments', splits', booked')
             /\ InStep(j, payments', splits', debt'.status)
             /\ \A t \in Session \ {s} : ~Open(t)
  <2>1. ~overlapped /\ \A t \in Session : ~Open(t)
    BY <1>2, <1>8
  <2>2. Story(payments, splits, booked)
    BY <1>1, <2>1 DEF OneAtATime
  <2>3. InStep(j, payments, splits, debt.status)
    <3>1. CASE i.stage = "none"
      BY <1>3, <3>1 DEF InStep
    <3>2. CASE i.stage = "check"
      <4>1. payments \cup j.made = payments
        BY <1>3
      <4>2. IdsAhead(j, payments)
        <5>1. \A n \in DOMAIN j.todo : n \in Nat /\ j.todo[n].id = last_id + n /\ n >= 1
          BY <1>3, <3>2 DEF JobState
        <5>2. \A p \in payments : p.id \in Nat /\ p.id <= last_id
          BY <1>1 DEF DebtTypes
        <5>3. last_id \in Nat
          BY <1>1 DEF DebtTypes
        <5> QED
          BY <5>1, <5>2, <5>3 DEF IdsAhead
      <4>3. SumsKnown(j, payments, payments)
        <5>1. PrincipalOf(payments) \in Nat
          <6>1. payments \in SUBSET [id : Nat, principal_minor : Nat] /\ IsFiniteSet(payments)
            BY <1>1 DEF DebtTypes, PaymentRow
          <6> QED
            BY <6>1, PrincipalNatural
        <5> QED
          BY <1>1, <1>3, <2>2, <3>2, <5>1, TermsFacts DEF SumsKnown, Story, DebtTypes
      <4>4. CountsKnown(j, splits, payments)
        BY <1>3, <1>6, <2>2, <3>2 DEF CountsKnown, Story
      <4> QED
        BY <1>3, <3>2, <4>1, <4>2, <4>3, <4>4 DEF InStep
    <3> QED
      BY <3>1, <3>2
  <2> QED
    BY <1>2, <2>1, <2>2, <2>3
<1>9. PaidSplitsHavePayments' /\ SplitsPaidInOrder'
  BY <1>1, <1>2 DEF PaidSplitsHavePayments, SplitsPaidInOrder
<1> QED
  BY <1>2, <1>3, <1>5, <1>7, <1>8, <1>9, DebtsStep

\* A request that begins keeps the invariant.
LEMMA BeginStep ==
  ASSUME DebtsInductive, NEW s \in Session, Begin(s)
  PROVE  DebtsInductive'
<1>1. DebtTypes /\ terms \in Terms /\ last_id \in Nat
  BY DEF DebtsInductive, DebtTypes
<1>2. CASE BeginPay(s)
  <2>1. PICK items \in SinglePayments \cup PastInstallments :
          /\ last_id' = last_id + Len(items)
          /\ Start(s, [Idle EXCEPT !.kind = "pay", !.stage = "check",
                         !.todo = [n \in DOMAIN items |->
                                     [id |-> last_id + n, amount |-> items[n].amount,
                                      row |-> items[n].row]]])
    BY <1>2 DEF BeginPay
  <2> DEFINE todo == [n \in DOMAIN items |->
                       [id |-> last_id + n, amount |-> items[n].amount, row |-> items[n].row]]
             i == [Idle EXCEPT !.kind = "pay", !.stage = "check", !.todo = todo]
  <2>2. items \in Seq([amount : Nat, row : 1 .. terms.loan.num_periods]) /\ items # <<>>
    BY <1>1, ItemsFacts
  <2>3. /\ todo \in Seq(DueItem) /\ todo # <<>>
        /\ \A n \in DOMAIN todo :
             /\ todo[n].id = last_id + n /\ todo[n].id \in 1 .. last_id + Len(items)
             /\ todo[n].row \in 1 .. terms.loan.num_periods
    <3>1. DOMAIN items = 1 .. Len(items) /\ Len(items) \in Nat \ {0}
      BY <2>2
    <3> DEFINE Payable == [amount : Nat, row : 1 .. terms.loan.num_periods]
    <3>8. \A it \in Payable : it.amount \in Nat /\ it.row \in 1 .. terms.loan.num_periods
      OBVIOUS
    <3>9. \A n \in DOMAIN items : n \in 1 .. Len(items) /\ items[n] \in Payable
      <4>1. items \in Seq(Payable)
        BY <2>2
      <4> HIDE DEF Payable
      <4> QED
        BY <3>1, <4>1
    <3> HIDE DEF Payable
    <3>2. \A n \in DOMAIN items :
            /\ n \in 1 .. Len(items) /\ items[n].amount \in Nat
            /\ items[n].row \in 1 .. terms.loan.num_periods
      BY <3>8, <3>9
    <3>3. \A n \in DOMAIN items :
            [id |-> last_id + n, amount |-> items[n].amount, row |-> items[n].row] \in DueItem
      BY <1>1, <3>2 DEF DueItem
    <3>4. todo \in [1 .. Len(items) -> DueItem]
      BY <3>1, <3>3
    <3>5. todo \in Seq(DueItem) /\ DOMAIN todo = 1 .. Len(items)
      BY <3>1, <3>4
    <3>6. todo # <<>>
      <4>1. 1 \in DOMAIN todo /\ DOMAIN <<>> = {}
        BY <3>1, <3>5, EmptySequenceItem
      <4> HIDE DEF todo
      <4> QED
        BY <4>1
    <3> QED
      BY <1>1, <3>1, <3>2, <3>5, <3>6
  <2> HIDE DEF todo
  <2>4. /\ i \in JobState /\ i.made = {} /\ i.claimed = [k \in {} |-> 0] /\ i.todo = todo
        /\ i.stage = "check" /\ i.kind = "pay"
    BY <2>3, IdleJob DEF JobState, Kinds, Stages
  <2>5. Start(s, i)
    BY <2>1 DEF todo
  <2> HIDE DEF i
  <2>6. Len(items) \in Nat
    BY <2>2
  <2> QED
    BY <1>1, <2>1, <2>3, <2>4, <2>5, <2>6, StartStep
<1>3. ASSUME NEW kind \in {"mark", "reactivate", "delete"}, Start(s, [Idle EXCEPT !.kind = kind]),
             UNCHANGED last_id
      PROVE  DebtsInductive'
  <2> DEFINE i == [Idle EXCEPT !.kind = kind]
  <2>1. /\ i \in JobState /\ i.made = {} /\ i.claimed = [k \in {} |-> 0] /\ i.todo = <<>>
        /\ i.stage = "none" /\ i.kind = kind
    BY IdleJob DEF JobState, Kinds
  <2>2. Start(s, i)
    BY <1>3
  <2> HIDE DEF i
  <2> QED
    BY <1>1, <1>3, <2>1, <2>2, StartStep
<1>4. CASE BeginPurge(s)
  <2> DEFINE i == [Idle EXCEPT !.kind = "purge", !.seen = Ids(payments)]
  <2>1. Ids(payments) \in SUBSET Nat
    BY <1>1 DEF Ids, DebtTypes
  <2>2. /\ i \in JobState /\ i.made = {} /\ i.claimed = [k \in {} |-> 0] /\ i.todo = <<>>
        /\ i.stage = "none" /\ i.seen = Ids(payments)
    BY <2>1, IdleJob DEF JobState, Kinds
  <2>3. Start(s, i) /\ UNCHANGED last_id
    BY <1>4 DEF BeginPurge
  <2> HIDE DEF i
  <2> QED
    BY <1>1, <2>2, <2>3, StartStep
<1> QED
  BY <1>2, <1>3, <1>4 DEF Begin, BeginMark, BeginReactivate, BeginDelete

-----------------------------------------------------------------------------
(* A payment is checked, inserted, put on a split and settled *)

\* A step that touches nothing but what the request has in hand, and its locks.
LEMMA InnerStep ==
  ASSUME DebtsInductive, NEW s \in Session, Open(s), NEW j \in JobState, Set(s, j),
         UNCHANGED <<terms, debt, payments, splits, booked, last_id, overlapped>>,
         lock' \in [1 .. terms.splits -> Session \cup {Nobody}],
         JobSound(j, splits, last_id),
         ~overlapped => InStep(j, payments, splits, debt.status)
  PROVE  DebtsInductive'
<1>1. /\ DebtTypes /\ PaidSplitsHavePayments /\ SplitsPaidInOrder
      /\ ~overlapped => /\ Story(payments, splits, booked)
                        /\ \A t \in Session \ {s} : ~Open(t)
  BY OpenFacts
<1>2. job' = [job EXCEPT ![s] = j]
  BY DEF Set
<1>3. DebtTypes'
  BY <1>1, <1>2 DEF DebtTypes
<1>4. PaidSplitsHavePayments' /\ SplitsPaidInOrder'
  BY <1>1 DEF PaidSplitsHavePayments, SplitsPaidInOrder
<1>5. last_id <= last_id'
  BY <1>1 DEF DebtTypes
<1> QED
  BY <1>1, <1>2, <1>3, <1>4, <1>5, DebtsStep

\* The head and the tail of a list of due items.
LEMMA TodoFacts ==
  ASSUME NEW todo \in Seq(DueItem), todo # <<>>
  PROVE  /\ Head(todo) = todo[1] /\ 1 \in DOMAIN todo /\ Head(todo) \in DueItem
         /\ Tail(todo) \in Seq(DueItem)
         /\ \A n \in DOMAIN Tail(todo) :
              n \in Nat /\ n + 1 \in DOMAIN todo /\ n + 1 > 1 /\ Tail(todo)[n] = todo[n + 1]
<1> HIDE DEF DueItem
<1>1. Len(todo) \in Nat \ {0} /\ DOMAIN todo = 1 .. Len(todo)
  OBVIOUS
<1>2. /\ Tail(todo) \in Seq(DueItem) /\ Len(Tail(todo)) = Len(todo) - 1
      /\ \A n \in 1 .. Len(todo) - 1 : Tail(todo)[n] = todo[n + 1]
  OBVIOUS
<1>3. DOMAIN Tail(todo) = 1 .. Len(todo) - 1
  BY <1>1, <1>2
<1> QED
  BY <1>1, <1>2, <1>3

\* The splits of a debt are as many as its terms say, and finitely many are settled.
LEMMA FiniteFacts ==
  ASSUME DebtTypes, NEW claimed \in SUBSET (DOMAIN splits)
  PROVE  /\ IsFiniteSet(DOMAIN splits) /\ Cardinality(DOMAIN splits) = terms.splits
         /\ DOMAIN splits = 1 .. terms.splits /\ terms.splits \in Nat
         /\ Settled(splits, claimed) \in SUBSET (DOMAIN splits)
         /\ IsFiniteSet(Settled(splits, claimed))
         /\ Cardinality(Settled(splits, claimed)) \in Nat
<1>1. DOMAIN splits = 1 .. terms.splits /\ terms.splits \in Nat
  BY TermsFacts DEF DebtTypes
<1>2. IsFiniteSet(1 .. terms.splits) /\ Cardinality(1 .. terms.splits) = terms.splits
  BY <1>1, FS_Interval
<1>3. Settled(splits, claimed) \in SUBSET (DOMAIN splits)
  BY DEF Settled
<1>4. IsFiniteSet(Settled(splits, claimed))
  BY <1>1, <1>2, <1>3, FS_Subset
<1> QED
  BY <1>1, <1>2, <1>3, <1>4, FS_CardinalityType

\* The check against what remains, and the payment inserted after it, keep it.
LEMMA CheckStep ==
  ASSUME DebtsInductive, NEW s \in Session, CheckAndInsert(s),
         ~Refused(Head(job[s].todo).amount,
                  terms.loan.principal_minor - PrincipalOf(payments \cup job[s].made))
  PROVE  DebtsInductive'
<1> DEFINE b == job[s]
           item == Head(b.todo)
           all == payments \cup b.made
           portion == Portion(item.amount, item.row)
           row == [id |-> item.id, principal_minor |-> portion]
           stage == IF terms.type = "personal" THEN "select" ELSE "settle"
           made == b.made \cup {row}
           read == PrincipalOf(all)
           j == [b EXCEPT !.read = read, !.made = made, !.stage = stage]
<1>1. /\ Open(s) /\ b.kind = "pay" /\ b.stage = "check"
      /\ ~Refused(item.amount, terms.loan.principal_minor - read) /\ Set(s, j)
      /\ UNCHANGED <<terms, debt, payments, splits, booked, last_id, lock, overlapped>>
  BY DEF CheckAndInsert
<1>2. /\ DebtTypes /\ b \in JobState /\ JobSound(b, splits, last_id)
      /\ ~overlapped => InStep(b, payments, splits, debt.status)
  BY <1>1, OpenFacts
<1> HIDE DEF b
<1>3. /\ b.todo # <<>> /\ b.todo \in Seq(DueItem) /\ terms \in Terms /\ last_id \in Nat
      /\ b.made \in SUBSET PaymentRow /\ IsFiniteSet(b.made)
  BY <1>1, <1>2 DEF JobSound, JobState, DebtTypes
<1>4. item = b.todo[1] /\ 1 \in DOMAIN b.todo /\ item \in DueItem
  BY <1>3, TodoFacts
<1> HIDE DEF item
<1>5. item.id \in 1 .. last_id /\ item.row \in 1 .. terms.loan.num_periods /\ item.amount \in Nat
  BY <1>2, <1>4 DEF JobSound, DueItem
<1>6. portion \in Nat
  BY <1>3, <1>5, PortionNatural
<1>7. terms.loan.rate = 0 => portion = item.amount
  BY DEF Portion
<1> HIDE DEF portion
<1>8. row \in PaymentRow /\ row.id = item.id /\ row.principal_minor = portion
  BY <1>3, <1>5, <1>6 DEF PaymentRow
<1> HIDE DEF row
<1>9. /\ all \in SUBSET PaymentRow /\ IsFiniteSet(all)
  BY <1>2, <1>3, FS_Union DEF DebtTypes
<1>10. read \in Nat
  BY <1>9, PrincipalNatural DEF PaymentRow
<1> HIDE DEF all, read
<1>11. made \in SUBSET PaymentRow /\ IsFiniteSet(made)
       /\ \A p \in made : p \in b.made \/ p = row
  BY <1>3, <1>8, FS_AddElement
<1>12. payments \cup made = all \cup {row}
  BY DEF all
<1>12a. row.id \in Ids(made) /\ \A x \in Ids(b.made) : x \in Ids(made)
  BY DEF Ids
<1> HIDE DEF made
<1>13. stage \in {"select", "settle"} /\ (stage = "select" => terms.type = "personal")
       /\ (terms.type = "personal" => stage = "select")
  OBVIOUS
<1> HIDE DEF stage
<1>14. /\ j \in JobState /\ j.read = read /\ j.made = made /\ j.stage = stage
       /\ j.kind = "pay" /\ j.todo = b.todo /\ j.claimed = b.claimed /\ j.loaded = b.loaded
       /\ j.pays_off = b.pays_off
  <2>1. stage \in Stages /\ read \in Int
    BY <1>10, <1>13 DEF Stages
  <2> QED
    BY <1>1, <1>2, <1>11, <2>1 DEF JobState
<1> HIDE DEF j
<1>15. JobSound(j, splits, last_id)
  <2>1. \A p \in made : p.id \in 1 .. last_id
    BY <1>2, <1>5, <1>8, <1>11 DEF JobSound
  <2> QED
    BY <1>2, <1>3, <1>4, <1>8, <1>11, <1>12a, <1>13, <1>14, <2>1, item = Head(b.todo)
    DEF JobSound, item
<1>16. ASSUME ~overlapped PROVE InStep(j, payments, splits, debt.status)
  <2>1. InStep(b, payments, splits, debt.status)
    BY <1>2, <1>16
  <2>2. IdsAhead(b, all) /\ SumsKnown(b, payments, all) /\ CountsKnown(b, splits, all)
    BY <1>1, <2>1 DEF InStep, all
  <2>3. row \notin all
    <3>1. \A p \in all : p.id < item.id
      BY <1>1, <1>4, <2>2 DEF IdsAhead
    <3> QED
      BY <1>3, <1>5, <1>8, <3>1
  <2>4. IdsAhead(j, all \cup {row})
    <3>1. \A n \in DOMAIN b.todo : n \in Nat
      BY <1>3
    <3> QED
      BY <1>1, <1>4, <1>8, <1>13, <1>14, <2>2, <3>1 DEF IdsAhead
  <2>5. PrincipalOf(all \cup {row}) = read + portion
    <3>1. \A p \in all : p.principal_minor \in Nat
      BY <1>9 DEF PaymentRow
    <3> QED
      BY <1>6, <1>8, <1>9, <2>3, <3>1, PrincipalOfMore DEF read
  <2>6. SumsKnown(j, payments, all \cup {row})
    <3>1. terms.loan.rate = 0 => read + portion <= terms.loan.principal_minor
      BY <1>1, <1>3, <1>5, <1>7, <1>10, TermsFacts DEF Refused
    <3> QED
      BY <1>13, <1>14, <2>5, <3>1 DEF SumsKnown, item, portion
  <2>7. CountsKnown(j, splits, all \cup {row})
    <3>1. Cardinality(all \cup {row}) = Cardinality(all) + 1 /\ Cardinality(all) \in Nat
      BY <1>9, <2>3, FS_AddElement, FS_CardinalityType
    <3>2. Cardinality(all \cup {row}) - 1 = Cardinality(all) /\ all \cup {row} # {}
      BY <3>1
    <3> QED
      BY <1>1, <1>13, <1>14, <2>2, <3>2 DEF CountsKnown
  <2> QED
    BY <1>12, <1>14, <2>1, <2>4, <2>6, <2>7 DEF InStep
<1> QED
  <2>1. lock' \in [1 .. terms.splits -> Session \cup {Nobody}]
    BY <1>1, <1>2 DEF DebtTypes
  <2> QED
    BY <1>1, <1>14, <1>15, <1>16, <2>1, InnerStep

\* The count of settled splits, bounded by the number of splits.
LEMMA OneMoreThanAll ==
  ASSUME NEW c \in Nat, NEW n \in Nat, NEW d, d = Min({c - 1, n}), d = n
  PROVE  d = Min({c, n})
<1>1. Min({c - 1, n}) = IF c - 1 <= n THEN c - 1 ELSE n
  <2>1. c - 1 \in Int /\ n \in Int
    OBVIOUS
  <2> QED
    BY <2>1, MinOfTwo
<1>2. Min({c, n}) = IF c <= n THEN c ELSE n
  BY MinOfTwo
<1> DEFINE x == Min({c - 1, n})
           y == Min({c, n})
<1> HIDE DEF x, y
<1>3. x = n /\ x = (IF c - 1 <= n THEN c - 1 ELSE n) /\ y = (IF c <= n THEN c ELSE n)
  BY <1>1, <1>2 DEF x, y
<1>4. y = n
  <2>1. c > n
    BY <1>3
  <2>2. ~(c <= n)
    BY <2>1
  <2>3. y = IF c <= n THEN c ELSE n
    BY <1>3
  <2> QED
    BY <2>2, <2>3
<1> QED
  BY <1>4 DEF y

\* A minimum that the limit has not cut yet grows with its count.
LEMMA OneMoreThanSome ==
  ASSUME NEW c \in Nat, NEW n \in Nat, NEW d \in Nat, d = Min({c - 1, n}), d < n
  PROVE  d + 1 = Min({c, n})
<1>1. Min({c - 1, n}) = IF c - 1 <= n THEN c - 1 ELSE n
  <2>1. c - 1 \in Int /\ n \in Int
    OBVIOUS
  <2> QED
    BY <2>1, MinOfTwo
<1>2. Min({c, n}) = IF c <= n THEN c ELSE n
  BY MinOfTwo
<1> DEFINE x == Min({c - 1, n})
           y == Min({c, n})
<1> HIDE DEF x, y
<1>3. x = d /\ x = (IF c - 1 <= n THEN c - 1 ELSE n) /\ y = (IF c <= n THEN c ELSE n)
  BY <1>1, <1>2 DEF x, y
<1>4. y = d + 1
  BY <1>3
<1> QED
  BY <1>4 DEF y

\* Reading the next unpaid split keeps the invariant.
LEMMA SelectStep ==
  ASSUME DebtsInductive, NEW s \in Session, SelectSplit(s)
  PROVE  DebtsInductive'
<1> DEFINE b == job[s]
           all == payments \cup b.made
           claimed == DOMAIN b.claimed
           open == DOMAIN splits \ Settled(splits, claimed)
           split == NextSplit(s)
           stage == IF split = 0 THEN "settle" ELSE "claim"
           j == [b EXCEPT !.split = split, !.stage = stage]
<1>1. /\ Open(s) /\ b.stage = "select" /\ Set(s, j)
      /\ UNCHANGED <<terms, debt, payments, splits, booked, last_id, lock, overlapped>>
  BY DEF SelectSplit
<1>2. /\ DebtTypes /\ b \in JobState /\ JobSound(b, splits, last_id)
      /\ ~overlapped => InStep(b, payments, splits, debt.status)
  BY <1>1, OpenFacts
<1>3. \/ split = 0 /\ open = {} /\ stage = "settle"
      \/ /\ split \in open /\ split # 0 /\ stage = "claim"
         /\ \A i \in open : split <= i
  BY <1>2, NextSplitFacts
<1> HIDE DEF b, split, stage
<1>4. /\ DOMAIN splits = 1 .. terms.splits /\ terms.splits \in Nat
      /\ claimed \in SUBSET (DOMAIN splits)
  BY <1>2, TermsFacts DEF DebtTypes, JobSound
<1>5. stage \in Stages /\ split \in Nat
  BY <1>3, <1>4 DEF Stages
<1>6. /\ j \in JobState /\ j.split = split /\ j.stage = stage /\ j.made = b.made
      /\ j.kind = b.kind /\ j.todo = b.todo /\ j.claimed = b.claimed /\ j.loaded = b.loaded
      /\ j.pays_off = b.pays_off /\ j.read = b.read /\ j.seen = b.seen
  BY <1>2, <1>5 DEF JobState
<1> HIDE DEF j
<1>7. stage = "claim" =>
        /\ split \in DOMAIN splits
        /\ \A i \in DOMAIN splits : i < split => splits[i] # 0 \/ i \in claimed
  BY <1>3, <1>4 DEF Settled
<1>8. JobSound(j, splits, last_id)
  <2>1. stage \in {"settle", "claim"}
    BY <1>3
  <2> QED
    BY <1>1, <1>2, <1>6, <1>7, <2>1 DEF JobSound
<1>9. ASSUME ~overlapped PROVE InStep(j, payments, splits, debt.status)
  <2>1. InStep(b, payments, splits, debt.status)
    BY <1>2, <1>9
  <2>2. IdsAhead(b, all) /\ SumsKnown(b, payments, all) /\ CountsKnown(b, splits, all)
    BY <1>1, <2>1 DEF InStep
  <2> HIDE DEF all
  <2>3. IdsAhead(j, all) /\ SumsKnown(j, payments, all)
    BY <1>1, <1>3, <1>6, <2>2 DEF IdsAhead, SumsKnown
  <2>4. CountsKnown(j, splits, all)
    <3> SUFFICES ASSUME terms.type = "personal" PROVE CountsKnown(j, splits, all)
      BY DEF CountsKnown
    <3> DEFINE count == Cardinality(all)
               done == Cardinality(Settled(splits, claimed))
    <3>1. all # {} /\ done = Min({count - 1, terms.splits})
      BY <1>1, <2>2 DEF CountsKnown
    <3>2. count \in Nat
      BY <1>2, FS_Union, FS_CardinalityType DEF DebtTypes, JobSound, all
    <3>3. CASE stage = "claim"
      <4>1. split \notin Settled(splits, claimed)
        BY <1>3, <3>3
      <4> QED
        BY <1>6, <3>1, <3>3, <4>1 DEF CountsKnown
    <3>4. CASE stage = "settle"
      <4>1. Settled(splits, claimed) = DOMAIN splits
        BY <1>3, <3>4 DEF Settled
      <4>2. done = terms.splits
        BY <1>2, <1>4, <4>1, FiniteFacts
      <4> HIDE DEF done, count
      <4>3. done = Min({count, terms.splits})
        BY <1>4, <3>1, <3>2, <4>2, OneMoreThanAll
      <4> QED
        BY <1>6, <3>4, <4>3 DEF CountsKnown, done, count
    <3> QED
      BY <1>3, <3>3, <3>4
  <2> QED
    BY <1>6, <2>1, <2>3, <2>4 DEF InStep, all
<1> QED
  <2>1. lock' \in [1 .. terms.splits -> Session \cup {Nobody}]
    BY <1>1, <1>2 DEF DebtTypes
  <2> QED
    BY <1>1, <1>6, <1>8, <1>9, <2>1, InnerStep

\* Marking that split as paid, by the payment just made, keeps it.
LEMMA ClaimStep ==
  ASSUME DebtsInductive, NEW s \in Session, ClaimSplit(s)
  PROVE  DebtsInductive'
<1> DEFINE b == job[s]
           all == payments \cup b.made
           old == DOMAIN b.claimed
           i == b.split
           item == Head(b.todo)
           both == old \cup {i}
           claimed == [k \in both |-> IF k = i THEN item.id ELSE b.claimed[k]]
           j == [b EXCEPT !.stage = "settle", !.claimed = claimed]
<1>1. /\ Open(s) /\ b.stage = "claim" /\ Set(s, j) /\ lock' = [lock EXCEPT ![i] = s]
      /\ UNCHANGED <<terms, debt, payments, splits, booked, last_id, overlapped>>
  BY DEF ClaimSplit
<1>2. /\ DebtTypes /\ b \in JobState /\ JobSound(b, splits, last_id)
      /\ ~overlapped => InStep(b, payments, splits, debt.status)
  BY <1>1, OpenFacts
<1> HIDE DEF b
<1>3. /\ b.todo # <<>> /\ b.todo \in Seq(DueItem) /\ terms \in Terms /\ last_id \in Nat
      /\ b.made \in SUBSET PaymentRow /\ IsFiniteSet(b.made) /\ item.id \in Ids(b.made)
      /\ i \in DOMAIN splits /\ old \in SUBSET (DOMAIN splits) /\ b.kind = "pay"
      /\ \A k \in DOMAIN splits : k < i => splits[k] # 0 \/ k \in old
  BY <1>1, <1>2 DEF JobSound, JobState, DebtTypes
<1>4. Ids(b.made) \subseteq Nat
  BY <1>3 DEF Ids, PaymentRow
<1> HIDE DEF item
<1>5. DOMAIN splits = 1 .. terms.splits /\ terms.splits \in Nat
  BY <1>2, TermsFacts DEF DebtTypes
<1>6. \A k \in old : b.claimed[k] \in Ids(b.made)
  BY <1>2 DEF JobSound
<1>7. /\ DOMAIN claimed = both /\ both \in SUBSET (DOMAIN splits)
      /\ \A k \in both : claimed[k] \in Ids(b.made)
  BY <1>3, <1>6
<1>8. claimed \in Claims
  <2>1. claimed \in [both -> Nat] /\ both \in SUBSET Nat
    BY <1>3, <1>4, <1>5, <1>6
  <2> HIDE DEF claimed, both
  <2> QED
    BY <2>1 DEF Claims
<1> HIDE DEF claimed
<1>9. /\ j \in JobState /\ j.stage = "settle" /\ j.claimed = claimed /\ j.made = b.made
      /\ j.kind = b.kind /\ j.todo = b.todo /\ j.loaded = b.loaded
      /\ j.pays_off = b.pays_off /\ j.read = b.read /\ j.seen = b.seen
  <2>1. "settle" \in Stages
    BY DEF Stages
  <2> HIDE DEF Claims, Stages
  <2> QED
    BY <1>2, <1>8, <2>1 DEF JobState
<1> HIDE DEF j
<1>10. JobSound(j, splits, last_id)
  <2>1. \A k \in old, n \in DOMAIN splits : n < k => splits[n] # 0 \/ n \in old
    BY <1>2 DEF JobSound
  <2>2. \A k \in both, n \in DOMAIN splits : n < k => splits[n] # 0 \/ n \in both
    BY <1>3, <2>1
  <2>3. Head(b.todo).id \in Ids(b.made)
    BY <1>3 DEF item
  <2> HIDE DEF both
  <2> QED
    BY <1>2, <1>3, <1>7, <1>9, <2>2, <2>3 DEF JobSound
<1>11. ASSUME ~overlapped PROVE InStep(j, payments, splits, debt.status)
  <2>1. InStep(b, payments, splits, debt.status)
    BY <1>2, <1>11
  <2>2. IdsAhead(b, all) /\ SumsKnown(b, payments, all) /\ CountsKnown(b, splits, all)
    BY <1>1, <2>1 DEF InStep
  <2>3. IsFiniteSet(all)
    BY <1>2, <1>3, FS_Union DEF DebtTypes
  <2> HIDE DEF all
  <2>4. IdsAhead(j, all) /\ SumsKnown(j, payments, all)
    BY <1>1, <1>9, <2>2 DEF IdsAhead, SumsKnown
  <2>5. CountsKnown(j, splits, all)
    <3> SUFFICES ASSUME terms.type = "personal" PROVE CountsKnown(j, splits, all)
      BY DEF CountsKnown
    <3> DEFINE count == Cardinality(all)
               before == Settled(splits, old)
               after == Settled(splits, both)
               done == Cardinality(before)
    <3>1. done = Min({count - 1, terms.splits}) /\ i \notin before
      BY <1>1, <2>2 DEF CountsKnown
    <3>2. count \in Nat
      BY <2>3, FS_CardinalityType
    <3>3. after = before \cup {i}
      BY <1>3 DEF Settled
    <3>4. /\ IsFiniteSet(before) /\ done \in Nat /\ IsFiniteSet(DOMAIN splits)
          /\ Cardinality(DOMAIN splits) = terms.splits
          /\ after \in SUBSET (DOMAIN splits)
      BY <1>2, <1>3, <1>7, FiniteFacts
    <3>5. Cardinality(after) = done + 1
      BY <3>1, <3>3, <3>4, FS_AddElement
    <3>6. Cardinality(after) <= terms.splits
      BY <3>4, FS_Subset
    <3>7. done < terms.splits
      BY <1>5, <3>4, <3>5, <3>6
    <3> HIDE DEF done, count
    <3>8. done + 1 = Min({count, terms.splits})
      BY <1>5, <3>1, <3>2, <3>4, <3>7, OneMoreThanSome
    <3> QED
      BY <1>7, <1>9, <3>5, <3>8 DEF CountsKnown, count
  <2> QED
    BY <1>9, <2>1, <2>4, <2>5 DEF InStep, all
<1> QED
  <2>1. lock' \in [1 .. terms.splits -> Session \cup {Nobody}]
    BY <1>1, <1>2 DEF DebtTypes
  <2> QED
    BY <1>1, <1>9, <1>10, <1>11, <2>1, InnerStep

\* Seeing whether the debt is paid off, and going on to the next item or the
\* commit, keep it.
LEMMA SettleStep ==
  ASSUME DebtsInductive, NEW s \in Session, Settle(s)
  PROVE  DebtsInductive'
<1> DEFINE b == job[s]
           all == payments \cup b.made
           item == Head(b.todo)
           paid == b.read + Portion(item.amount, item.row)
           stage == IF Tail(b.todo) = <<>> THEN "commit" ELSE "check"
<1>1. /\ Open(s) /\ b.stage = "settle"
      /\ Set(s, [b EXCEPT !.pays_off = @ \/ PaysOff(paid), !.todo = Tail(@),
                   !.stage = stage])
      /\ UNCHANGED <<terms, debt, payments, splits, booked, last_id, lock, overlapped>>
  BY DEF Settle
<1>2. /\ DebtTypes /\ b \in JobState /\ JobSound(b, splits, last_id)
      /\ ~overlapped => InStep(b, payments, splits, debt.status)
  BY <1>1, OpenFacts
<1>3. PICK pays_off \in BOOLEAN : pays_off = (b.pays_off \/ PaysOff(paid))
  OBVIOUS
<1> DEFINE tail == Tail(b.todo)
           j == [b EXCEPT !.pays_off = pays_off, !.todo = tail, !.stage = stage]
<1>4. Set(s, j)
  BY <1>1, <1>3
<1> HIDE DEF b
<1>5. b.todo # <<>> /\ b.todo \in Seq(DueItem) /\ b.kind = "pay"
  BY <1>1, <1>2 DEF JobSound, JobState
<1>6. /\ tail \in Seq(DueItem)
      /\ \A n \in DOMAIN tail :
           n \in Nat /\ n + 1 \in DOMAIN b.todo /\ n + 1 > 1 /\ tail[n] = b.todo[n + 1]
  BY <1>5, TodoFacts
<1>7. /\ stage \in {"check", "commit"} /\ (stage = "check" => tail # <<>>)
      /\ stage \in Stages
  BY DEF Stages
<1> HIDE DEF tail, stage
<1>8. /\ j \in JobState /\ j.stage = stage /\ j.claimed = b.claimed /\ j.made = b.made
      /\ j.kind = b.kind /\ j.todo = tail /\ j.loaded = b.loaded
      /\ j.pays_off = pays_off /\ j.read = b.read /\ j.seen = b.seen
  BY <1>2, <1>6, <1>7 DEF JobState
<1> HIDE DEF j
<1>9. JobSound(j, splits, last_id)
  BY <1>2, <1>5, <1>6, <1>7, <1>8 DEF JobSound
<1>10. ASSUME ~overlapped PROVE InStep(j, payments, splits, debt.status)
  <2>1. InStep(b, payments, splits, debt.status)
    BY <1>2, <1>10
  <2>2. IdsAhead(b, all) /\ SumsKnown(b, payments, all) /\ CountsKnown(b, splits, all)
    BY <1>1, <2>1 DEF InStep
  <2> HIDE DEF all
  <2>3. IdsAhead(j, all)
    <3>1. \A n, m \in DOMAIN tail : n < m => n + 1 < m + 1
      BY <1>6
    <3> QED
      BY <1>6, <1>8, <2>2, <3>1 DEF IdsAhead
  <2>4. SumsKnown(j, payments, all)
    <3>1. PrincipalOf(all) = paid
      BY <1>1, <2>2 DEF SumsKnown
    <3> HIDE DEF paid
    <3>2. PrincipalOf(all) >= terms.loan.principal_minor => pays_off
      BY <1>3, <3>1 DEF PaysOff
    <3> QED
      BY <1>7, <1>8, <2>2, <3>2 DEF SumsKnown
  <2>5. CountsKnown(j, splits, all)
    BY <1>1, <1>7, <1>8, <2>2 DEF CountsKnown
  <2> QED
    BY <1>8, <2>1, <2>3, <2>4, <2>5 DEF InStep, all
<1> QED
  <2>1. lock' \in [1 .. terms.splits -> Session \cup {Nobody}]
    BY <1>1, <1>2 DEF DebtTypes
  <2> QED
    BY <1>1, <1>4, <1>8, <1>9, <1>10, <2>1, InnerStep

-----------------------------------------------------------------------------
(* Requests commit, are refused or are lost *)

\* The request ends and has not touched payments and splits.
LEMMA QuietEnd ==
  ASSUME DebtsInductive, NEW s \in Session, Open(s),
         NEW status \in {"refused", "done", "lost"}, End(s, status),
         debt' \in [status : {"active", "paid_off"}, is_active : BOOLEAN],
         UNCHANGED <<payments, splits, booked>>
  PROVE  DebtsInductive'
<1>1. /\ DebtTypes /\ PaidSplitsHavePayments /\ SplitsPaidInOrder
      /\ ~overlapped => Story(payments, splits, booked)
  BY OpenFacts
<1>2. PaidSplitsHavePayments' /\ SplitsPaidInOrder'
  BY <1>1 DEF PaidSplitsHavePayments, SplitsPaidInOrder
<1> QED
  BY <1>1, <1>2, EndStep DEF DebtTypes

\* A refused or lost request, which rolls everything back, keeps it.
LEMMA RefuseStep ==
  ASSUME DebtsInductive, NEW s \in Session, Open(s), Refuse(s)
  PROVE  DebtsInductive'
<1>1. debt' \in [status : {"active", "paid_off"}, is_active : BOOLEAN]
  BY DEF Refuse, DebtsInductive, DebtTypes
<1>2. End(s, "refused") /\ UNCHANGED <<payments, splits, booked>>
  BY DEF Refuse
<1> QED
  BY <1>1, <1>2, QuietEnd

\* A commit writes a row of the debts table.
LEMMA WrittenTyped ==
  ASSUME DebtTypes, NEW s \in Session, NEW status \in {"active", "paid_off"}
  PROVE  Written(s, status) \in [status : {"active", "paid_off"}, is_active : BOOLEAN]
<1>1. PICK value : value = IF job[s].loaded = status THEN debt.status ELSE status
  OBVIOUS
<1>2. value \in {"active", "paid_off"} /\ Written(s, status) = [debt EXCEPT !.status = value]
  BY <1>1 DEF DebtTypes, Written
<1> QED
  BY <1>2 DEF DebtTypes

\* The commit of payments keeps the invariant.
LEMMA CommitPayStep ==
  ASSUME DebtsInductive, NEW s \in Session, CommitPay(s)
  PROVE  DebtsInductive'
<1> DEFINE b == job[s]
           all == payments \cup b.made
           claimed == DOMAIN b.claimed
<1>1. /\ Open(s) /\ b.kind = "pay" /\ b.stage = "commit" /\ End(s, "done")
      /\ payments' = all /\ booked' = booked \cup Ids(b.made)
      /\ splits' = [i \in DOMAIN splits |->
                      IF i \in claimed THEN b.claimed[i] ELSE splits[i]]
      /\ debt' = IF b.pays_off THEN Written(s, "paid_off") ELSE debt
  BY DEF CommitPay
<1>2. /\ DebtTypes /\ b \in JobState /\ JobSound(b, splits, last_id)
      /\ PaidSplitsHavePayments /\ SplitsPaidInOrder
      /\ ~overlapped => /\ Story(payments, splits, booked)
                        /\ InStep(b, payments, splits, debt.status)
  BY <1>1, OpenFacts
<1>3. debt' \in [status : {"active", "paid_off"}, is_active : BOOLEAN]
  BY <1>1, <1>2, WrittenTyped DEF DebtTypes
<1> HIDE DEF b
<1>4. /\ terms \in Terms /\ last_id \in Nat /\ terms.splits \in Nat
      /\ DOMAIN splits = 1 .. terms.splits
      /\ b.made \in SUBSET PaymentRow /\ IsFiniteSet(b.made)
      /\ \A p \in b.made : p.id \in 1 .. last_id
      /\ claimed \in SUBSET (DOMAIN splits)
      /\ \A i \in claimed : b.claimed[i] \in Ids(b.made)
      /\ \A k \in claimed, i \in DOMAIN splits : i < k => splits[i] # 0 \/ i \in claimed
  BY <1>2, TermsFacts DEF JobSound, JobState, DebtTypes
<1>5. /\ payments' \subseteq PaymentRow /\ IsFiniteSet(payments')
      /\ \A p \in payments' : p.id \in 1 .. last_id
  BY <1>1, <1>2, <1>4, FS_Union DEF DebtTypes
<1>6. Ids(b.made) \subseteq 1 .. last_id /\ 0 \notin Ids(b.made)
  BY <1>4 DEF Ids
<1>7. /\ DOMAIN splits' = DOMAIN splits
      /\ \A i \in DOMAIN splits :
           splits'[i] = IF i \in claimed THEN b.claimed[i] ELSE splits[i]
  BY <1>1
<1>8. splits' \in [1 .. terms.splits -> 0 .. last_id]
  BY <1>1, <1>2, <1>4, <1>6 DEF DebtTypes
<1>9. booked' \subseteq 1 .. last_id
  BY <1>1, <1>2, <1>6 DEF DebtTypes
<1>10. Ids(payments') = Ids(payments) \cup Ids(b.made)
  BY <1>1 DEF Ids
<1>11. \A i \in DOMAIN splits : splits'[i] # 0 <=> splits[i] # 0 \/ i \in claimed
  BY <1>4, <1>6, <1>7
<1>12. PaidSplitsHavePayments'
  <2>1. \A i \in DOMAIN splits : splits'[i] # 0 => splits'[i] \in Ids(payments')
    BY <1>2, <1>4, <1>7, <1>10 DEF PaidSplitsHavePayments
  <2> QED
    BY <1>7, <2>1 DEF PaidSplitsHavePayments, Ids
<1>13. SplitsPaidInOrder'
  <2>1. \A i, k \in DOMAIN splits : i < k /\ splits'[k] # 0 => splits'[i] # 0
    BY <1>2, <1>4, <1>11 DEF SplitsPaidInOrder
  <2> QED
    BY <1>7, <2>1 DEF SplitsPaidInOrder
<1>14. ASSUME ~overlapped PROVE Story(payments', splits', booked')
  <2>1. /\ Story(payments, splits, booked)
        /\ SumsKnown(b, payments, all) /\ CountsKnown(b, splits, all)
    BY <1>1, <1>2, <1>14 DEF InStep
  <2>2. terms.loan.rate = 0 => PrincipalOf(all) <= terms.loan.principal_minor
    BY <2>1 DEF SumsKnown
  <2>3. Settled(splits', {}) = Settled(splits, claimed)
    BY <1>7, <1>11 DEF Settled
  <2>4. terms.type = "personal" =>
          Cardinality(Settled(splits', {})) = Min({Cardinality(all), terms.splits})
    BY <1>1, <2>1, <2>3 DEF CountsKnown
  <2>5. booked' \subseteq Ids(payments')
    BY <1>1, <1>10, <2>1 DEF Story
  <2> HIDE DEF all
  <2> QED
    BY <1>1, <2>2, <2>4, <2>5 DEF Story
<1>15. \A i \in DOMAIN splits : splits[i] # 0 => splits'[i] # 0
  BY <1>11
<1> QED
  BY <1>1, <1>3, <1>5, <1>8, <1>9, <1>12, <1>13, <1>14, <1>15, EndStep

\* The commit of a deletion keeps it.
LEMMA CommitPurgeStep ==
  ASSUME DebtsInductive, NEW s \in Session, CommitPurge(s)
  PROVE  DebtsInductive'
<1> DEFINE b == job[s]
<1>1. Open(s) /\ b.kind = "purge"
  BY DEF CommitPurge
<1>2. CASE Referenced(payments)
  BY <1>1, <1>2, RefuseStep DEF CommitPurge
<1>3. CASE ~Referenced(payments)
  <2>1. /\ payments' = {} /\ booked' = booked \ b.seen
        /\ debt' = [debt EXCEPT !.is_active = FALSE] /\ End(s, "done") /\ splits' = splits
    BY <1>3 DEF CommitPurge, Unbooked
  <2>2. /\ DebtTypes /\ b \in JobState /\ PaidSplitsHavePayments /\ SplitsPaidInOrder
        /\ ~overlapped => /\ Story(payments, splits, booked)
                          /\ InStep(b, payments, splits, debt.status)
    BY <1>1, OpenFacts
  <2> HIDE DEF b
  <2>3. \A i \in DOMAIN splits : splits[i] = 0
    BY <1>3, <2>2 DEF Referenced, PaidSplitsHavePayments
  <2>4. PaidSplitsHavePayments' /\ SplitsPaidInOrder'
    BY <2>1, <2>3 DEF PaidSplitsHavePayments, SplitsPaidInOrder
  <2>5. debt' \in [status : {"active", "paid_off"}, is_active : BOOLEAN]
    BY <2>1, <2>2 DEF DebtTypes
  <2>6. IsFiniteSet({}) /\ Cardinality({}) = 0
    BY FS_EmptySet
  <2>7. /\ splits' \in [1 .. terms.splits -> 0 .. last_id] /\ booked' \subseteq 1 .. last_id
        /\ terms \in Terms
    BY <2>1, <2>2 DEF DebtTypes
  <2>8. ASSUME ~overlapped PROVE Story(payments', splits', booked')
    <3>1. PrincipalOf({}) <= terms.loan.principal_minor
      BY <2>7, PrincipalOfNone, TermsFacts
    <3>2. Settled(splits', {}) = {}
      BY <2>1, <2>3 DEF Settled
    <3>3. Min({0, terms.splits}) = 0
      BY <2>7, MinOfTwo, TermsFacts
    <3>4. booked' \subseteq Ids({})
      <4>1. booked \subseteq Ids(payments) /\ b.seen = Ids(payments)
        BY <1>1, <2>2, <2>8 DEF Story, InStep
      <4>2. booked' = {}
        BY <2>1, <4>1
      <4> QED
        BY <4>2
    <3>5. Cardinality(Settled(splits', {})) = Min({Cardinality({}), terms.splits})
      BY <2>6, <3>2, <3>3
    <3> QED
      BY <2>1, <3>1, <3>4, <3>5 DEF Story
  <2> QED
    BY <1>1, <2>1, <2>4, <2>5, <2>6, <2>7, <2>8, EndStep
<1> QED
  BY <1>2, <1>3

\* Every step of every request keeps it.
LEMMA DebtsNext ==
  ASSUME DebtsInductive, [Next]_vars
  PROVE  DebtsInductive'
<1>1. ASSUME NEW s \in Session, Begin(s) PROVE DebtsInductive'
  BY <1>1, BeginStep
<1>2. ASSUME NEW s \in Session, CheckAndInsert(s) PROVE DebtsInductive'
  <2> DEFINE refused == Refused(Head(job[s].todo).amount,
                          terms.loan.principal_minor - PrincipalOf(payments \cup job[s].made))
  <2>1. CASE refused
    BY <1>2, <2>1, RefuseStep DEF CheckAndInsert
  <2>2. CASE ~refused
    BY <1>2, <2>2, CheckStep
  <2> QED
    BY <2>1, <2>2
<1>3. ASSUME NEW s \in Session,
             SelectSplit(s) \/ ClaimSplit(s) \/ Settle(s) \/ CommitPay(s) \/ CommitPurge(s)
      PROVE  DebtsInductive'
  BY <1>3, SelectStep, ClaimStep, SettleStep, CommitPayStep, CommitPurgeStep
<1>4. ASSUME NEW s \in Session, CommitMark(s) \/ CommitReactivate(s) PROVE DebtsInductive'
  <2>1. PICK status \in {"active", "paid_off"} :
          /\ Open(s) /\ debt' = Written(s, status) /\ End(s, "done")
          /\ UNCHANGED <<payments, splits, booked>>
    BY <1>4 DEF CommitMark, CommitReactivate
  <2>2. debt' \in [status : {"active", "paid_off"}, is_active : BOOLEAN]
    BY <2>1, WrittenTyped DEF DebtsInductive
  <2> QED
    BY <2>1, <2>2, QuietEnd
<1>5. ASSUME NEW s \in Session, CommitDelete(s) PROVE DebtsInductive'
  <2>1. debt' \in [status : {"active", "paid_off"}, is_active : BOOLEAN]
    BY <1>5 DEF CommitDelete, DebtsInductive, DebtTypes
  <2> QED
    BY <1>5, <2>1, QuietEnd DEF CommitDelete
<1>6. ASSUME NEW s \in Session, Crash(s) PROVE DebtsInductive'
  <2>1. debt' \in [status : {"active", "paid_off"}, is_active : BOOLEAN]
    BY <1>6 DEF Crash, DebtsInductive, DebtTypes
  <2> QED
    BY <1>6, <2>1, QuietEnd DEF Crash
<1>7. CASE UNCHANGED vars
  <2>1. /\ terms' = terms /\ debt' = debt /\ payments' = payments /\ splits' = splits
        /\ booked' = booked /\ last_id' = last_id /\ job' = job /\ lock' = lock
        /\ overlapped' = overlapped
    BY <1>7 DEF vars
  <2>2. DebtTypes'
    BY <2>1 DEF DebtsInductive, DebtTypes
  <2>3. PaidSplitsHavePayments' /\ SplitsPaidInOrder'
    BY <2>1 DEF DebtsInductive, PaidSplitsHavePayments, SplitsPaidInOrder
  <2>4. (\A s \in Session : JobSound(job[s], splits, last_id))'
    BY <2>1 DEF DebtsInductive, JobSound
  <2>5. OneAtATime'
    BY <2>1 DEF DebtsInductive, OneAtATime, Story, Open, InStep, IdsAhead, SumsKnown,
                CountsKnown, Portion, Schedule
  <2> QED
    BY <2>2, <2>3, <2>4, <2>5 DEF DebtsInductive
<1> QED
  BY <1>1, <1>2, <1>3, <1>4, <1>5, <1>6, <1>7 DEF Next, Step

\* A new debt has no payments: the invariant holds.
LEMMA DebtsInit == Init => DebtsInductive
<1> SUFFICES ASSUME Init PROVE DebtsInductive
  OBVIOUS
<1>1. /\ terms \in Terms /\ debt = [status |-> "active", is_active |-> TRUE]
      /\ payments = {} /\ booked = {} /\ last_id = 0 /\ overlapped = FALSE
      /\ splits = [i \in 1 .. terms.splits |-> 0]
      /\ job = [s \in Session |-> Idle] /\ lock = [i \in 1 .. terms.splits |-> Nobody]
  BY DEF Init
<1>2. IsFiniteSet({}) /\ Cardinality({}) = 0
  BY FS_EmptySet
<1>3. DebtTypes
  <2>1. job \in [Session -> JobState]
    BY <1>1, IdleJob
  <2>2. debt \in [status : {"active", "paid_off"}, is_active : BOOLEAN]
    BY <1>1
  <2>3. /\ splits \in [1 .. terms.splits -> 0 .. last_id]
        /\ lock \in [1 .. terms.splits -> Session \cup {Nobody}]
    BY <1>1
  <2> QED
    BY <1>1, <1>2, <2>1, <2>2, <2>3 DEF DebtTypes
<1>4. PaidSplitsHavePayments /\ SplitsPaidInOrder
  BY <1>1 DEF PaidSplitsHavePayments, SplitsPaidInOrder
<1>5. ASSUME NEW s \in Session PROVE JobSound(job[s], splits, last_id) /\ ~Open(s)
  <2>1. job[s] = Idle
    BY <1>1
  <2>2. JobSound(Idle, splits, last_id)
    BY IdleJob, EmptyHanded
  <2>3. Idle.status # "open"
    BY DEF Idle
  <2> QED
    BY <2>1, <2>2, <2>3 DEF Open
<1>6. Story(payments, splits, booked)
  <2>1. PrincipalOf(payments) <= terms.loan.principal_minor
    BY <1>1, PrincipalOfNone, TermsFacts
  <2>2. Settled(splits, {}) = {}
    BY <1>1 DEF Settled
  <2>3. Min({0, terms.splits}) = 0
    BY <1>1, MinOfTwo, TermsFacts
  <2> QED
    BY <1>1, <1>2, <2>1, <2>2, <2>3 DEF Story
<1> QED
  BY <1>3, <1>4, <1>5, <1>6 DEF DebtsInductive, OneAtATime

-----------------------------------------------------------------------------
(* The theorems *)

\* It holds in all reachable states.
LEMMA DebtsAlways == Spec => []DebtsInductive
<1> QED
  BY DebtsInit, DebtsNext, PTL DEF Spec

\* The tables are typed - no payment has a negative principal portion - and a paid
\* split refers to a payment that exists, whatever requests overlap, commit in
\* whatever order, are refused or are lost (debt.py, the payment and delete paths).
THEOREM TablesHold == Spec => []TablesOK
<1>1. DebtsInductive => TablesOK
  <2> SUFFICES ASSUME DebtsInductive PROVE TablesOK
    OBVIOUS
  <2>1. DebtTypes /\ PaidSplitsHavePayments
    BY DEF DebtsInductive
  <2>2. TypeOK
    BY <2>1 DEF DebtTypes, TypeOK, PaymentRow
  <2> QED
    BY <2>1, <2>2 DEF TablesOK
<1> QED
  BY <1>1, DebtsAlways, PTL

\* Splits are paid in the order of their due dates whatever overlaps, and one for one
\* with the payments while requests come one at a time (_apply_payment_to_split).
THEOREM SplitsAlwaysFollow == Spec => []SplitsFollowPayments
<1>1. DebtsInductive => SplitsFollowPayments
  <2> SUFFICES ASSUME DebtsInductive PROVE SplitsFollowPayments
    OBVIOUS
  <2>1. SplitsPaidInOrder /\ OneAtATime
    BY DEF DebtsInductive
  <2>2. Settled(splits, {}) = {i \in DOMAIN splits : splits[i] # 0}
    BY DEF Settled
  <2>3. OneSplitPerPayment
    BY <2>1, <2>2 DEF OneAtATime, Story, OneSplitPerPayment
  <2> QED
    BY <2>1, <2>3 DEF SplitsFollowPayments
<1> QED
  BY <1>1, DebtsAlways, PTL

\* One request at a time, a debt without interest is never paid beyond its principal
\* (the guards of record_payment).
THEOREM NeverOverpaid == Spec => []NoOverpayment
<1>1. DebtsInductive => NoOverpayment
  BY DEF DebtsInductive, OneAtATime, Story, NoOverpayment
<1> QED
  BY <1>1, DebtsAlways, PTL

\* One request at a time, deleting a debt with its payments leaves no transaction of
\* a payment behind (soft_delete_debt).
THEOREM NoTransactionLeftBehind == Spec => []NoOrphanTransaction
<1>1. DebtsInductive => NoOrphanTransaction
  BY DEF DebtsInductive, OneAtATime, Story, NoOrphanTransaction
<1> QED
  BY <1>1, DebtsAlways, PTL

\* One request at a time, the payment that covers the principal marks the debt paid
\* off, although the sum was read before the payment was inserted (record_payment).
THEOREM CoveringPaymentAlwaysPaysOff == Spec => CoveringPaymentPaysOff
<1> DEFINE Covered == /\ ~overlapped'
                      /\ PrincipalOf(payments) < terms.loan.principal_minor
                      /\ PrincipalOf(payments') >= terms.loan.principal_minor
                      => debt'.status = "paid_off"
<1>1. ASSUME DebtsInductive, [Next]_vars PROVE [Covered]_vars
  <2> SUFFICES ASSUME Next, ~overlapped',
                      PrincipalOf(payments) < terms.loan.principal_minor,
                      PrincipalOf(payments') >= terms.loan.principal_minor
               PROVE  debt'.status = "paid_off"
    BY <1>1
  <2>1. /\ terms \in Terms /\ IsFiniteSet(payments)
        /\ payments \in SUBSET [id : Nat, principal_minor : Nat]
    BY <1>1 DEF DebtsInductive, DebtTypes, PaymentRow
  <2>2. PrincipalOf(payments) \in Nat /\ terms.loan.principal_minor \in Nat \ {0}
    BY <2>1, PrincipalNatural, TermsFacts
  <2>3. CASE payments' = payments
    BY <2>2, <2>3
  <2>4. CASE payments' = {}
    BY <2>2, <2>4, PrincipalOfNone
  <2>5. ASSUME NEW s \in Session, CommitPay(s) PROVE debt'.status = "paid_off"
    <3> DEFINE b == job[s]
               all == payments \cup b.made
    <3>1. /\ Open(s) /\ b.stage = "commit" /\ payments' = all /\ overlapped' = overlapped
          /\ debt' = IF b.pays_off THEN Written(s, "paid_off") ELSE debt
      BY <2>5 DEF CommitPay, End
    <3>2. DebtTypes /\ InStep(b, payments, splits, debt.status)
      BY <1>1, <3>1, OpenFacts
    <3>3. SumsKnown(b, payments, all) /\ b.loaded = debt.status
      BY <3>1, <3>2 DEF InStep
    <3> HIDE DEF all
    <3>4. b.pays_off
      BY <3>1, <3>3 DEF SumsKnown
    <3>5. debt' = Written(s, "paid_off")
      BY <3>1, <3>4
    <3> QED
      BY <3>2, <3>3, <3>5 DEF Written, DebtTypes
  <2>6. ASSUME NEW s \in Session, ~CommitPay(s), Begin(s) \/ Step(s) \/ Crash(s)
        PROVE  payments' = payments \/ payments' = {}
    <3>1. CASE Begin(s)
      BY <3>1 DEF Begin, BeginPay, BeginMark, BeginReactivate, BeginDelete, BeginPurge, Start
    <3>2. CASE CheckAndInsert(s)
      BY <3>2 DEF CheckAndInsert, Refuse
    <3>3. CASE CommitPurge(s)
      BY <3>3 DEF CommitPurge, Refuse
    <3>4. CASE SelectSplit(s) \/ ClaimSplit(s) \/ Settle(s)
      BY <3>4 DEF SelectSplit, ClaimSplit, Settle
    <3>5. CASE CommitMark(s) \/ CommitReactivate(s) \/ CommitDelete(s) \/ Crash(s)
      BY <3>5 DEF CommitMark, CommitReactivate, CommitDelete, Crash
    <3> QED
      BY <2>6, <3>1, <3>2, <3>3, <3>4, <3>5 DEF Step
  <2> QED
    BY <2>3, <2>4, <2>5, <2>6 DEF Next
<1> QED
  BY <1>1, DebtsAlways, PTL DEF Spec, CoveringPaymentPaysOff
=============================================================================
