--------------------------- MODULE SessionsProofs ---------------------------
(***************************************************************************)
(* LedgerSessions implements TransferBook: the legs in the transactions    *)
(* table change by whole transfers for any number of concurrent sessions,  *)
(* accounts and transfers, whatever interleaves, fails or crashes.  The    *)
(* second part is about the row locks: types, and the order that keeps     *)
(* requests that create transfers from waiting for each other in a circle. *)
(* The third is about the balances.                                        *)
(***************************************************************************)
EXTENDS LedgerSessions, FiniteSetTheorems, TLAPS

\* The legs of transfer x.
Pair(x) == {Debit(x), Credit(x)}

\* Every session has the state of a session.
JobShape ==
  /\ job = [s \in Session |-> job[s]]
  /\ \A s \in Session :
       job[s] = [kind |-> job[s].kind, status |-> job[s].status,
                 about |-> job[s].about, todo |-> job[s].todo,
                 want |-> job[s].want, loaded |-> job[s].loaded,
                 legs |-> job[s].legs]

Doing(s, kind) == Open(s) /\ job[s].kind = kind

\* An open creation owns a transfer id: it has been given out, and no leg of
\* it is active.
CreatesOwn ==
  \A s \in Session : Doing(s, "create") =>
    \E x \in used : job[s].legs = Pair(x) /\ active \cap Pair(x) = {}

\* No other creation has the same id.
CreatesApart ==
  \A s, t \in Session :
    Doing(s, "create") /\ Doing(t, "create") /\ s # t =>
      job[s].legs \cap job[t].legs = {}

\* An open deletion has found every leg of its transfer that is active, and
\* nobody is about to book that transfer.
DeletesSee ==
  \A s \in Session : Doing(s, "delete") =>
    \E x \in used :
      /\ job[s].legs \subseteq Pair(x) /\ active \cap Pair(x) \subseteq job[s].legs
      /\ \A t \in Session : Doing(t, "create") => job[t].legs # Pair(x)

\* An open closing has only found legs on its account.
ClosesStay ==
  \A s \in Session : Doing(s, "close") =>
    \E a \in Account :
      /\ job[s].about = {a} /\ job[s].todo \in {<<>>, <<a>>}
      /\ \A l \in job[s].legs : l \in Leg /\ AccountOf[l] = a

Ownership ==
  /\ used \subseteq Transfer /\ live \subseteq Account
  /\ active \subseteq UNION {Pair(x) : x \in used}
  /\ JobShape
  /\ \A s \in Session : Open(s) => job[s].kind \in {"create", "delete", "close"}
  /\ CreatesOwn /\ CreatesApart /\ DeletesSee /\ ClosesStay

-----------------------------------------------------------------------------
(* Legs *)

\* The ids of the legs determine the transfer.
LEMMA PairsApart ==
  ASSUME NEW x \in Transfer, NEW y \in Transfer, x # y
  PROVE  Pair(x) \cap Pair(y) = {}
<1>1. x \in Nat /\ y \in Nat
  BY SessionsAssumption
<1>2. 2 * x # 2 * y /\ 2 * x # 2 * y + 1 /\ 2 * x + 1 # 2 * y
      /\ 2 * x + 1 # 2 * y + 1
  BY <1>1
<1> QED
  BY <1>2 DEF Pair, Debit, Credit

\* TransferBook and LedgerSessions mean the same by the legs of a transfer.
LEMMA PairIsLegsOf ==
  ASSUME NEW x \in Transfer
  PROVE  Pair(x) \subseteq Leg /\ Legs!LegsOf(x) = Pair(x)
<1>1. Pair(x) \subseteq Leg
  BY DEF Pair, Leg
<1>2. ASSUME NEW y \in Transfer
      PROVE  TransferOf[Debit(y)] = y /\ TransferOf[Credit(y)] = y
  <2>1. y \in Nat
    BY SessionsAssumption
  <2>2. (2 * y) \div 2 = y /\ (2 * y + 1) \div 2 = y
    BY <2>1
  <2>3. Debit(y) \in Leg /\ Credit(y) \in Leg
    BY DEF Leg
  <2> QED
    BY <2>2, <2>3 DEF TransferOf, Debit, Credit
<1>3. \A l \in Leg : \E y \in Transfer : l = Debit(y) \/ l = Credit(y)
  BY DEF Leg
<1> QED
  BY <1>1, <1>2, <1>3 DEF Legs!LegsOf, Pair

-----------------------------------------------------------------------------
(* Steps *)

\* What Ownership says of session t is not touched by the step.
Same(t) ==
  /\ job'[t].status = job[t].status /\ job'[t].kind = job[t].kind
  /\ job'[t].about = job[t].about /\ job'[t].legs = job[t].legs
  /\ job[t].kind = "close" => job'[t].todo = job[t].todo

\* A step that books nothing and starts nothing keeps Ownership: sessions may
\* end, rows may go.
LEMMA FewerLegs ==
  ASSUME Ownership, JobShape', \A t \in Session : ~Open(t)' \/ Same(t),
         used' = used, live' \subseteq live, active' \subseteq active
  PROVE  Ownership'
<1>1. \A t \in Session : Open(t)' => Open(t) /\ Same(t)
  BY DEF Open, Same
<1>2. CreatesOwn'
  BY <1>1 DEF Ownership, CreatesOwn, Doing, Open, Same
<1>3. CreatesApart'
  BY <1>1 DEF Ownership, CreatesApart, Doing, Open, Same
<1>4. DeletesSee'
  BY <1>1 DEF Ownership, DeletesSee, Doing, Open, Same
<1>5. ClosesStay'
  BY <1>1 DEF Ownership, ClosesStay, Doing, Open, Same
<1>6. \A t \in Session : Open(t)' => job'[t].kind \in {"create", "delete", "close"}
  BY <1>1 DEF Ownership, Open, Same
<1> QED
  BY <1>2, <1>3, <1>4, <1>5, <1>6 DEF Ownership, Open

\* The end of a session, committed or not.
LEMMA EndStep ==
  ASSUME JobShape, NEW s \in Session, NEW status \in {"done", "failed"},
         End(s, status)
  PROVE  /\ JobShape' /\ ~Open(s)'
         /\ \A t \in Session \ {s} : Same(t)
<1>1. job' = [job EXCEPT ![s] = [Idle EXCEPT !.status = status]]
  BY DEF End
<1>2. PICK e : Idle = [kind |-> "none", status |-> "idle", about |-> {},
                       todo |-> <<>>, want |-> {}, loaded |-> e, legs |-> {}]
  BY Zenon DEF Idle
<1>3. job'[s].status = status /\ \A t \in Session \ {s} : job'[t] = job[t]
  BY <1>1, <1>2 DEF JobShape
<1>4. JobShape'
  BY <1>1, <1>2 DEF JobShape
<1> QED
  BY <1>3, <1>4 DEF Open, Same

JobRecord(j) ==
  j = [kind |-> j.kind, status |-> j.status, about |-> j.about,
       todo |-> j.todo, want |-> j.want, loaded |-> j.loaded, legs |-> j.legs]

\* Loading a row changes three fields of a session.
LEMMA ReworkedRecord ==
  ASSUME NEW j, JobRecord(j), NEW k, NEW todo, NEW loaded, NEW want,
         k = [j EXCEPT !.todo = todo, !.loaded = loaded, !.want = want]
  PROVE  /\ JobRecord(k) /\ k.kind = j.kind /\ k.status = j.status
         /\ k.about = j.about /\ k.legs = j.legs
BY DEF JobRecord

\* A session replaced by another one of its kind, about the same legs.
LEMMA ReplacedJob ==
  ASSUME JobShape, NEW s \in Session, NEW k, JobRecord(k),
         job' = [job EXCEPT ![s] = k]
  PROVE  /\ JobShape' /\ job'[s] = k
         /\ \A t \in Session \ {s} : job'[t] = job[t]
<1>1. job'[s] = k /\ \A t \in Session \ {s} : job'[t] = job[t]
  BY DEF JobShape
<1>2. job' = [t \in Session |-> job'[t]]
  BY DEF JobShape
<1> QED
  BY <1>1, <1>2 DEF JobShape, JobRecord

\* A session that has loaded a row is still about the same legs.
LEMMA Reworked ==
  ASSUME JobShape, NEW s \in Session, NEW todo, NEW loaded, NEW want,
         job' = [job EXCEPT ![s].todo = todo, ![s].loaded = loaded,
                            ![s].want = want],
         job[s].kind # "close"
  PROVE  JobShape' /\ \A t \in Session : Same(t)
<1>1. PICK k : k = [job[s] EXCEPT !.todo = todo, !.loaded = loaded,
                                  !.want = want]
  OBVIOUS
<1>2. job' = [job EXCEPT ![s] = k]
  BY <1>1 DEF JobShape
<1>3. JobRecord(job[s])
  BY DEF JobShape, JobRecord
<1>4. /\ JobRecord(k) /\ k.kind = job[s].kind /\ k.status = job[s].status
      /\ k.about = job[s].about /\ k.legs = job[s].legs
  BY <1>1, <1>3, ReworkedRecord
<1>5. /\ JobShape' /\ job'[s] = k
      /\ \A t \in Session \ {s} : job'[t] = job[t]
  BY <1>2, <1>4, ReplacedJob
<1> QED
  BY <1>4, <1>5 DEF Same

\* A session that reads or writes on.
LEMMA ProgressStep ==
  ASSUME Ownership, NEW s \in Session,
         LoadForCreate(s) \/ LoadForDelete(s) \/ WriteRow(s)
  PROVE  /\ JobShape' /\ \A t \in Session : ~Open(t)' \/ Same(t)
         /\ UNCHANGED <<active, live, used>>
<1>1. JobShape
  BY DEF Ownership
<1>2. CASE WriteRow(s)
  <2>1. PICK r : job' = [job EXCEPT ![s].want = @ \ {r}]
    BY <1>2 DEF WriteRow
  <2>2. PICK k : k = [job[s] EXCEPT !.want = @ \ {r}]
    OBVIOUS
  <2>3. job' = [job EXCEPT ![s] = k]
    BY <1>1, <2>1, <2>2 DEF JobShape
  <2>4. JobRecord(k) /\ k.kind = job[s].kind /\ k.status = job[s].status
        /\ k.about = job[s].about /\ k.legs = job[s].legs
        /\ k.todo = job[s].todo
    BY <1>1, <2>2 DEF JobShape, JobRecord
  <2>5. JobShape' /\ \A t \in Session : Same(t)
    BY <1>1, <2>3, <2>4, ReplacedJob DEF Same
  <2> QED
    BY <1>2, <2>5 DEF WriteRow
<1>3. CASE LoadForDelete(s)
  <2>1. job[s].kind = "delete"
    BY <1>3 DEF LoadForDelete
  <2>2. PICK todo, loaded, want :
          job' = [job EXCEPT ![s].todo = todo, ![s].loaded = loaded,
                             ![s].want = want]
    BY <1>3 DEF LoadForDelete
  <2>3. JobShape' /\ \A t \in Session : Same(t)
    BY <1>1, <2>1, <2>2, Reworked
  <2> QED
    BY <1>3, <2>3 DEF LoadForDelete
<1>4. CASE LoadForCreate(s)
  <2>1. CASE Head(job[s].todo) \in live
    <3>1. job[s].kind = "create"
      BY <1>4 DEF LoadForCreate
    <3>2. PICK todo, loaded, want :
            job' = [job EXCEPT ![s].todo = todo, ![s].loaded = loaded,
                               ![s].want = want]
      <4> DEFINE a == Head(job[s].todo)
                 loaded == [b \in DOMAIN job[s].loaded \cup {a} |->
                              IF b = a THEN balance[a] + Effect(LegOn(s, a))
                                       ELSE job[s].loaded[b]]
                 want == IF Tail(job[s].todo) = <<>>
                           THEN {AccountRow(b) : b \in job[s].about} ELSE {}
      <4>1. job' = [job EXCEPT ![s].todo = Tail(job[s].todo),
                               ![s].loaded = loaded, ![s].want = want]
        BY <1>4, <2>1 DEF LoadForCreate
      <4> HIDE DEF loaded, want
      <4> QED
        BY <4>1
    <3>3. JobShape' /\ \A t \in Session : Same(t)
      BY <1>1, <3>1, <3>2, Reworked
    <3> QED
      BY <1>4, <3>3 DEF LoadForCreate
  <2>2. CASE Head(job[s].todo) \notin live
    <3>1. End(s, "failed")
      BY <1>4, <2>2 DEF LoadForCreate
    <3>2. JobShape' /\ ~Open(s)' /\ \A t \in Session \ {s} : Same(t)
      BY <1>1, <3>1, EndStep
    <3> QED
      BY <1>4, <3>2 DEF LoadForCreate
  <2> QED
    BY <2>1, <2>2
<1> QED
  BY <1>2, <1>3, <1>4

\* A new session, the others as they are.
LEMMA StartStep ==
  ASSUME JobShape, NEW s \in Session, NEW kind, NEW about, NEW todo, NEW legs,
         Start(s, kind, about, todo, legs)
  PROVE  /\ JobShape' /\ kind \in {"create", "delete", "close"}
         /\ job'[s].kind = kind /\ job'[s].status = "open"
         /\ job'[s].about = about /\ job'[s].todo = todo /\ job'[s].legs = legs
         /\ \A t \in Session \ {s} : job'[t] = job[t]
<1>1. PICK e : Idle = [kind |-> "none", status |-> "idle", about |-> {},
                       todo |-> <<>>, want |-> {}, loaded |-> e, legs |-> {}]
  BY Zenon DEF Idle
<1>2. PICK k : k = [Idle EXCEPT !.kind = kind, !.status = "open",
                                !.about = about, !.todo = todo, !.legs = legs]
  OBVIOUS
<1>3. /\ JobRecord(k) /\ k.kind = kind /\ k.status = "open"
      /\ k.about = about /\ k.todo = todo /\ k.legs = legs
  BY <1>1, <1>2 DEF JobRecord
<1>4. job' = [job EXCEPT ![s] = k] /\ kind \in {"create", "delete", "close"}
  BY <1>2, SessionsAssumption DEF Start
<1>5. /\ JobShape' /\ job'[s] = k
      /\ \A t \in Session \ {s} : job'[t] = job[t]
  BY <1>3, <1>4, ReplacedJob
<1> QED
  BY <1>3, <1>4, <1>5

\* A fresh transfer id: none of its legs is active, nobody else books it.
LEMMA BeginCreateStep ==
  ASSUME Ownership, NEW s \in Session, NEW x \in Transfer, BeginCreate(s, x)
  PROVE  Ownership'
<1>1. /\ JobShape' /\ job'[s].kind = "create" /\ job'[s].status = "open"
      /\ job'[s].legs = Pair(x)
      /\ \A t \in Session \ {s} : job'[t] = job[t]
  BY StartStep DEF BeginCreate, Ownership, Pair
<1>2. /\ x \notin used /\ used' = used \cup {x} /\ active' = active
      /\ live' = live
  BY DEF BeginCreate
<1>3. \A y \in used : Pair(x) \cap Pair(y) = {}
  BY <1>2, PairsApart DEF Ownership
<1>4. active \cap Pair(x) = {}
  BY <1>3 DEF Ownership
<1>5. CreatesOwn'
  BY <1>1, <1>2, <1>4 DEF Ownership, CreatesOwn, Doing, Open
<1>6. CreatesApart'
  <2>1. \A t \in Session \ {s} :
          Doing(t, "create") => job[t].legs \cap Pair(x) = {}
    BY <1>3 DEF Ownership, CreatesOwn
  <2> QED
    BY <1>1, <2>1 DEF Ownership, CreatesApart, Doing, Open
<1>7. DeletesSee'
  <2>1. \A y \in used : Pair(y) # Pair(x)
    BY <1>3 DEF Pair
  <2> QED
    BY <1>1, <1>2, <2>1 DEF Ownership, DeletesSee, Doing, Open
<1>8. ClosesStay'
  BY <1>1 DEF Ownership, ClosesStay, Doing, Open
<1>9. \A t \in Session : Open(t)' => job'[t].kind \in {"create", "delete", "close"}
  BY <1>1 DEF Ownership, Open
<1> QED
  BY <1>1, <1>2, <1>5, <1>6, <1>7, <1>8, <1>9 DEF Ownership, Open

\* A deletion starts with all legs of its transfer that are active.
LEMMA BeginDeleteStep ==
  ASSUME Ownership, NEW s \in Session, NEW x \in Transfer, BeginDelete(s, x)
  PROVE  Ownership'
<1> DEFINE legs == {Debit(x), Credit(x)} \cap active
<1>1. /\ x \in used /\ legs # {}
      /\ UNCHANGED <<active, live, used>>
  BY DEF BeginDelete
<1>2. PICK todo : Start(s, "delete", {From[x], To[x]}, todo, legs)
  BY DEF BeginDelete
<1>3. /\ JobShape' /\ job'[s].kind = "delete" /\ job'[s].status = "open"
      /\ job'[s].legs = legs
      /\ \A t \in Session \ {s} : job'[t] = job[t]
  <2> HIDE DEF legs
  <2> QED
    BY <1>2, StartStep DEF Ownership
<1>4. legs = Pair(x) \cap active
  BY DEF Pair
<1> HIDE DEF legs
<1>5. \A t \in Session : Doing(t, "create") => job[t].legs # Pair(x)
  BY <1>1, <1>4 DEF Ownership, CreatesOwn
<1>6. CreatesOwn' /\ CreatesApart' /\ ClosesStay'
  BY <1>1, <1>3 DEF Ownership, CreatesOwn, CreatesApart, ClosesStay, Doing, Open
<1>7. DeletesSee'
  BY <1>1, <1>3, <1>4, <1>5 DEF Ownership, DeletesSee, Doing, Open
<1>8. \A t \in Session : Open(t)' => job'[t].kind \in {"create", "delete", "close"}
  BY <1>3 DEF Ownership, Open
<1> QED
  BY <1>1, <1>3, <1>6, <1>7, <1>8 DEF Ownership, Open

\* A closing starts with no legs and its account to look at.
LEMMA BeginCloseStep ==
  ASSUME Ownership, NEW s \in Session, NEW a \in Account, BeginClose(s, a)
  PROVE  Ownership'
<1>1. /\ JobShape' /\ job'[s].kind = "close" /\ job'[s].status = "open"
      /\ job'[s].about = {a} /\ job'[s].todo = <<a>> /\ job'[s].legs = {}
      /\ \A t \in Session \ {s} : job'[t] = job[t]
  BY StartStep DEF BeginClose, Ownership
<1>2. UNCHANGED <<active, live, used>>
  BY DEF BeginClose
<1>3. CreatesOwn' /\ CreatesApart' /\ DeletesSee'
  BY <1>1, <1>2 DEF Ownership, CreatesOwn, CreatesApart, DeletesSee, Doing, Open
<1>4. ClosesStay'
  <2>1. job'[s].todo \in {<<>>, <<a>>} /\ \A l \in job'[s].legs : FALSE
    BY <1>1
  <2>2. \A t \in Session \ {s} : Doing(t, "close")' => Doing(t, "close")
    BY <1>1 DEF Doing, Open
  <2>3. ASSUME NEW t \in Session, Doing(t, "close")'
        PROVE  \E b \in Account :
                 /\ job'[t].about = {b} /\ job'[t].todo \in {<<>>, <<b>>}
                 /\ \A l \in job'[t].legs : l \in Leg /\ AccountOf[l] = b
    <3>1. CASE t = s
      BY <1>1, <2>1, <3>1
    <3>2. CASE t # s
      BY <1>1, <2>2, <2>3, <3>2 DEF Ownership, ClosesStay
    <3> QED
      BY <3>1, <3>2
  <2> QED
    BY <2>3 DEF ClosesStay
<1>5. \A t \in Session : Open(t)' => job'[t].kind \in {"create", "delete", "close"}
  BY <1>1 DEF Ownership, Open
<1> QED
  BY <1>1, <1>2, <1>3, <1>4, <1>5 DEF Ownership, Open

\* The legs a closing finds are on its account.
LEMMA SelectForCloseStep ==
  ASSUME Ownership, NEW s \in Session, SelectForClose(s)
  PROVE  Ownership'
<1>1. Doing(s, "close") /\ job[s].todo # <<>>
  BY DEF SelectForClose, Doing
<1>2. PICK a \in Account : job[s].about = {a} /\ job[s].todo = <<a>>
  BY <1>1 DEF Ownership, ClosesStay
<1> DEFINE legs == {l \in active : AccountOf[l] = a}
<1>3. PICK want : job' = [job EXCEPT ![s].todo = <<>>, ![s].legs = legs,
                                     ![s].want = want]
  <2>1. Head(job[s].todo) = a
    BY <1>2
  <2> DEFINE w == {LegRow(l) : l \in legs} \cup {AccountRow(a)}
  <2>2. job' = [job EXCEPT ![s].todo = <<>>, ![s].legs = legs, ![s].want = w]
    BY <2>1 DEF SelectForClose
  <2> HIDE DEF w, legs
  <2> QED
    BY <2>2
<1> HIDE DEF legs
<1>4. PICK k : k = [job[s] EXCEPT !.todo = <<>>, !.legs = legs, !.want = want]
  OBVIOUS
<1>5. job' = [job EXCEPT ![s] = k]
  BY <1>3, <1>4 DEF Ownership, JobShape
<1>6. JobRecord(job[s])
  BY DEF Ownership, JobShape, JobRecord
<1>7. /\ JobRecord(k) /\ k.kind = "close" /\ k.status = "open"
      /\ k.about = {a} /\ k.todo = <<>> /\ k.legs = legs
  BY <1>1, <1>2, <1>4, <1>6 DEF JobRecord, Doing, Open
<1>8. /\ JobShape' /\ job'[s] = k
      /\ \A t \in Session \ {s} : job'[t] = job[t]
  BY <1>5, <1>7, ReplacedJob DEF Ownership
<1>9. UNCHANGED <<active, live, used>>
  BY DEF SelectForClose
<1>10. CreatesOwn' /\ CreatesApart' /\ DeletesSee'
  BY <1>7, <1>8, <1>9
     DEF Ownership, CreatesOwn, CreatesApart, DeletesSee, Doing, Open
<1>11. ClosesStay'
  <2>1. active \subseteq Leg
    BY PairIsLegsOf DEF Ownership
  <2>2. \A l \in legs : l \in Leg /\ AccountOf[l] = a
    BY <2>1 DEF legs
  <2>3. ASSUME NEW t \in Session, Doing(t, "close")'
        PROVE  \E b \in Account :
                 /\ job'[t].about = {b} /\ job'[t].todo \in {<<>>, <<b>>}
                 /\ \A l \in job'[t].legs : l \in Leg /\ AccountOf[l] = b
    <3>1. CASE t = s
      BY <1>7, <1>8, <2>2, <3>1
    <3>2. CASE t # s
      BY <1>8, <2>3, <3>2 DEF Ownership, ClosesStay, Doing, Open
    <3> QED
      BY <3>1, <3>2
  <2> QED
    BY <2>3 DEF ClosesStay
<1>12. \A t \in Session : Open(t)' => job'[t].kind \in {"create", "delete", "close"}
  BY <1>7, <1>8 DEF Ownership, Open
<1> QED
  BY <1>8, <1>9, <1>10, <1>11, <1>12 DEF Ownership, Open

\* A committed creation books a pair that nobody else has to do with.
LEMMA CommitCreateStep ==
  ASSUME Ownership, NEW s \in Session, CommitCreate(s)
  PROVE  Ownership' /\ \E x \in Transfer : Legs!Book(x)
<1>1. Doing(s, "create") /\ End(s, "done") /\ used' = used /\ live' = live
      /\ active' = active \cup job[s].legs
  BY DEF CommitCreate, Finished, Doing
<1>2. PICK x \in used : job[s].legs = Pair(x) /\ active \cap Pair(x) = {}
  BY <1>1 DEF Ownership, CreatesOwn
<1>3. x \in Transfer
  BY DEF Ownership
<1>4. Legs!Book(x)
  BY <1>1, <1>2, <1>3, PairIsLegsOf DEF Legs!Book
<1>5. /\ JobShape' /\ ~Open(s)' /\ \A t \in Session \ {s} : Same(t)
  BY <1>1, EndStep DEF Ownership
<1>6. \A t \in Session : Open(t)' => Open(t) /\ Same(t) /\ t # s
  BY <1>5 DEF Open, Same
<1>7. CreatesOwn'
  <2>1. \A t \in Session : Doing(t, "create") /\ t # s =>
          job[t].legs \cap Pair(x) = {}
    BY <1>1, <1>2 DEF Ownership, CreatesApart
  <2> QED
    BY <1>1, <1>2, <1>6, <2>1 DEF Ownership, CreatesOwn, Doing, Open, Same
<1>8. CreatesApart'
  BY <1>6 DEF Ownership, CreatesApart, Doing, Open, Same
<1>9. DeletesSee'
  <2> SUFFICES ASSUME NEW t \in Session, Doing(t, "delete")'
               PROVE  \E y \in used' :
                 /\ job'[t].legs \subseteq Pair(y)
                 /\ active' \cap Pair(y) \subseteq job'[t].legs
                 /\ \A u \in Session : Doing(u, "create")' => job'[u].legs # Pair(y)
    BY DEF DeletesSee
  <2>1. Doing(t, "delete") /\ job'[t].legs = job[t].legs
    BY <1>6 DEF Doing, Open, Same
  <2>2. PICK y \in used :
          /\ job[t].legs \subseteq Pair(y) /\ active \cap Pair(y) \subseteq job[t].legs
          /\ \A u \in Session : Doing(u, "create") => job[u].legs # Pair(y)
    BY <2>1 DEF Ownership, DeletesSee
  <2>3. Pair(x) \cap Pair(y) = {}
    BY <1>1, <1>2, <1>3, <2>2, PairsApart DEF Ownership
  <2>4. \A u \in Session : Doing(u, "create")' => job'[u].legs # Pair(y)
    BY <1>6, <2>2 DEF Doing, Open, Same
  <2> QED
    BY <1>1, <1>2, <2>1, <2>2, <2>3, <2>4
<1>10. ClosesStay'
  BY <1>6 DEF Ownership, ClosesStay, Doing, Open, Same
<1>11. \A t \in Session : Open(t)' => job'[t].kind \in {"create", "delete", "close"}
  BY <1>6 DEF Ownership, Open, Same
<1>12. active' \subseteq UNION {Pair(y) : y \in used'}
  BY <1>1, <1>2 DEF Ownership
<1>13. Ownership'
  BY <1>1, <1>5, <1>7, <1>8, <1>9, <1>10, <1>11, <1>12 DEF Ownership, Open
<1> QED
  BY <1>3, <1>4, <1>13

\* A committed deletion takes what is left of one pair.
LEMMA CommitDeleteStep ==
  ASSUME Ownership, NEW s \in Session, CommitDelete(s)
  PROVE  Ownership' /\ \E x \in Transfer : Legs!Reverse(x)
<1>1. /\ Doing(s, "delete") /\ End(s, "done") /\ used' = used /\ live' = live
      /\ active' = active \ job[s].legs
  BY DEF CommitDelete, Finished, Doing
<1>2. PICK x \in used : /\ job[s].legs \subseteq Pair(x)
                        /\ active \cap Pair(x) \subseteq job[s].legs
  BY <1>1 DEF Ownership, DeletesSee
<1>3. x \in Transfer
  BY DEF Ownership
<1>4. Legs!Reverse(x)
  <2>1. active' = active \ Pair(x)
    BY <1>1, <1>2
  <2> QED
    BY <1>1, <1>3, <2>1, PairIsLegsOf DEF Legs!Reverse
<1>5. /\ JobShape' /\ ~Open(s)' /\ \A t \in Session \ {s} : Same(t)
  BY <1>1, EndStep DEF Ownership
<1>6. Ownership'
  BY <1>1, <1>5, FewerLegs
<1> QED
  BY <1>3, <1>4, <1>6

\* A committed closing takes legs on its account only.
LEMMA CommitCloseStep ==
  ASSUME Ownership, NEW s \in Session, CommitClose(s)
  PROVE  Ownership' /\ \E a \in Account : Legs!CloseAccount(a)
<1>1. /\ Doing(s, "close") /\ End(s, "done") /\ used' = used
      /\ live' = live \ job[s].about /\ active' = active \ job[s].legs
  BY DEF CommitClose, Finished, Doing
<1>2. PICK a \in Account :
        job[s].about = {a} /\ \A l \in job[s].legs : l \in Leg /\ AccountOf[l] = a
  BY <1>1 DEF Ownership, ClosesStay
<1>3. Legs!CloseAccount(a)
  <2>1. job[s].legs \cap active \in SUBSET {l \in active : AccountOf[l] = a}
    BY <1>2
  <2>2. active' = active \ (job[s].legs \cap active)
    BY <1>1
  <2> QED
    BY <1>1, <1>2, <2>1, <2>2 DEF Legs!CloseAccount
<1>4. /\ JobShape' /\ ~Open(s)' /\ \A t \in Session \ {s} : Same(t)
  BY <1>1, EndStep DEF Ownership
<1>5. Ownership'
  BY <1>1, <1>4, FewerLegs
<1> QED
  BY <1>3, <1>5

\* A session that fails, as a deadlock victim or by a crash, leaves no trace.
LEMMA FailedStep ==
  ASSUME Ownership, NEW s \in Session, End(s, "failed"),
         UNCHANGED <<active, live, used>>
  PROVE  Ownership'
<1>1. /\ JobShape' /\ ~Open(s)' /\ \A t \in Session \ {s} : Same(t)
  BY EndStep DEF Ownership
<1> QED
  BY <1>1, FewerLegs

\* Every step of the sessions keeps Ownership, and is to the legs a step of
\* TransferBook or none.
LEMMA SessionStep ==
  ASSUME Ownership, [Next]_vars
  PROVE  Ownership' /\ [Legs!Next]_<<active, live>>
<1>1. CASE UNCHANGED vars
  <2>1. JobShape' /\ \A t \in Session : Same(t)
    BY <1>1 DEF vars, Ownership, JobShape, Same
  <2> QED
    BY <1>1, <2>1, FewerLegs DEF vars
<1>2. ASSUME NEW s \in Session, Begin(s) \/ Step(s) \/ Crash(s)
      PROVE  Ownership' /\ [Legs!Next]_<<active, live>>
  <2>1. ASSUME NEW x \in Transfer, BeginCreate(s, x)
        PROVE  Ownership' /\ UNCHANGED <<active, live>>
    BY <2>1, BeginCreateStep DEF BeginCreate
  <2>2. ASSUME NEW x \in Transfer, BeginDelete(s, x)
        PROVE  Ownership' /\ UNCHANGED <<active, live>>
    BY <2>2, BeginDeleteStep DEF BeginDelete
  <2>3. ASSUME NEW a \in Account, BeginClose(s, a)
        PROVE  Ownership' /\ UNCHANGED <<active, live>>
    BY <2>3, BeginCloseStep DEF BeginClose
  <2>4. CASE LoadForCreate(s) \/ LoadForDelete(s) \/ WriteRow(s)
    BY <2>4, ProgressStep, FewerLegs
  <2>5. CASE SelectForClose(s)
    BY <2>5, SelectForCloseStep DEF SelectForClose
  <2>6. CASE CommitCreate(s)
    BY <2>6, CommitCreateStep DEF Legs!Next
  <2>7. CASE CommitDelete(s)
    BY <2>7, CommitDeleteStep DEF Legs!Next
  <2>8. CASE CommitClose(s)
    BY <2>8, CommitCloseStep DEF Legs!Next
  <2>9. CASE AbortDeadlocked(s) \/ Crash(s)
    BY <2>9, FailedStep DEF AbortDeadlocked, Crash
  <2> QED
    BY <1>2, <2>1, <2>2, <2>3, <2>4, <2>5, <2>6, <2>7, <2>8, <2>9 DEF Begin, Step
<1> QED
  BY <1>1, <1>2 DEF Next

\* The books before the first request.
LEMMA SessionsInit == Init => Ownership /\ Legs!Init
<1> SUFFICES ASSUME Init PROVE Ownership /\ Legs!Init
  OBVIOUS
<1>1. PICK e : Idle = [kind |-> "none", status |-> "idle", about |-> {},
                       todo |-> <<>>, want |-> {}, loaded |-> e, legs |-> {}]
  BY Zenon DEF Idle
<1>2. JobShape /\ \A s \in Session : ~Open(s)
  BY <1>1 DEF Init, JobShape, Open
<1>3. active \subseteq UNION {Pair(x) : x \in used}
  <2> SUFFICES ASSUME NEW l \in active PROVE \E x \in used : l \in Pair(x)
    OBVIOUS
  <2>1. l \in Leg /\ TransferOf[l] \in used
    BY DEF Init
  <2>2. TransferOf[l] \in Transfer /\ l \in Legs!LegsOf(TransferOf[l])
    BY <2>1 DEF Init, Legs!LegsOf
  <2> QED
    BY <2>1, <2>2, PairIsLegsOf
<1>4. Ownership
  BY <1>2, <1>3 DEF Init, Ownership, CreatesOwn, CreatesApart, DeletesSee,
                    ClosesStay, Doing
<1>5. Legs!Init
  BY DEF Init, Legs!Init
<1> QED
  BY <1>4, <1>5

\* Whatever requests overlap, fail or crash, the legs that are committed
\* change by whole transfers, except on accounts that are closed.
THEOREM SessionsBookLegs == Spec => LegsAreBooked
BY SessionsInit, SessionStep, PTL DEF Spec, LegsAreBooked, Legs!Spec

-----------------------------------------------------------------------------
(* Row locks *)

\* The rows that the session has updated.
Updated(s) == {r \in Row : lock[r] = s}

\* The two rows that the deletion of a leg updates.
RowsOf(l) == {AccountRow(AccountOf[l]), LegRow(l)}

\* The parts of the record of a session.
JobTypes(s) ==
  /\ job[s].kind \in Kind \cup {"none"}
  /\ job[s].status \in {"idle", "open", "done", "failed"}
  /\ job[s].want \subseteq Row /\ job[s].legs \subseteq Leg
  /\ job[s].about \subseteq Account
  /\ DOMAIN job[s].loaded \subseteq Account
  /\ job[s].loaded \in [DOMAIN job[s].loaded -> Int]

\* While something is to be loaded, a creation or a closing has updated nothing,
\* and a deletion nothing of the legs it has not come to.
LoadsFirst(s) ==
  /\ Doing(s, "create") =>
       /\ \/ job[s].todo = <<>>
          \/ \E a \in Account : job[s].todo = <<a>>
          \/ \E a, b \in Account : job[s].todo = <<a, b>>
       /\ job[s].todo # <<>> => job[s].want = {} /\ Updated(s) = {}
  /\ Doing(s, "close") /\ job[s].todo # <<>> => job[s].want = {} /\ Updated(s) = {}
  /\ Doing(s, "delete") =>
       \/ job[s].todo = <<>>
       \/ \E l \in Leg : /\ job[s].todo = <<l>>
                         /\ RowsOf(l) \cap (Updated(s) \cup job[s].want) = {}
       \/ \E l, m \in Leg : /\ job[s].todo = <<l, m>>
                            /\ RowsOf(l) \cap RowsOf(m) = {}
                            /\ job[s].want = {} /\ Updated(s) = {}

\* A creation updates accounts only, in the order of their ids.
FlushesInOrder(s) ==
  Doing(s, "create") =>
    /\ job[s].want \subseteq {AccountRow(a) : a \in Account}
    /\ \A r \in Updated(s) :
         \E a \in Account : /\ r = AccountRow(a)
                            /\ \A b \in Account : AccountRow(b) \in job[s].want => a < b

\* The row locks: they belong to open sessions that have updated the row.
LocksTyped ==
  /\ balance \in [Account -> Int] /\ contended \subseteq Account
  /\ lock \in [Row -> Session \cup {Nobody}]
  /\ \A r \in Row : lock[r] # Nobody => Open(lock[r]) /\ r \notin job[lock[r]].want
  /\ \A s \in Session : JobTypes(s) /\ LoadsFirst(s) /\ FlushesInOrder(s)

\* The record of a session that has nothing loaded.
LEMMA IdleShape ==
  \E e : /\ Idle = [kind |-> "none", status |-> "idle", about |-> {}, todo |-> <<>>,
                    want |-> {}, loaded |-> e, legs |-> {}]
         /\ DOMAIN e = {} /\ e \in [{} -> Int]
<1> DEFINE e == [a \in {} |-> 0]
<1>1. DOMAIN e = {} /\ e \in [{} -> Int]
  OBVIOUS
<1>2. Idle = [kind |-> "none", status |-> "idle", about |-> {}, todo |-> <<>>,
              want |-> {}, loaded |-> e, legs |-> {}]
  BY Zenon DEF Idle
<1> HIDE DEF e
<1> QED
  BY <1>1, <1>2

\* The step of one session, as far as locks go: the others keep theirs.
LEMMA OneSessionMoves ==
  ASSUME LocksTyped, NEW s \in Session,
         \A t \in Session \ {s} : job'[t] = job[t],
         balance' \in [Account -> Int], contended' \subseteq Account,
         lock' \in [Row -> Session \cup {Nobody}],
         \A r \in Row : lock'[r] \in {lock[r], s, Nobody},
         \A r \in Updated(s)' : job'[s].status = "open" /\ r \notin job'[s].want,
         JobTypes(s)', LoadsFirst(s)', FlushesInOrder(s)'
  PROVE  LocksTyped'
<1>1. ASSUME NEW t \in Session \ {s}
      PROVE  JobTypes(t)' /\ LoadsFirst(t)' /\ FlushesInOrder(t)'
  <2>1. Updated(t)' \subseteq Updated(t)
    BY SessionsAssumption DEF Updated
  <2>2. JobTypes(t) /\ LoadsFirst(t) /\ FlushesInOrder(t) /\ job'[t] = job[t]
    BY DEF LocksTyped
  <2>3. JobTypes(t)'
    BY <2>2 DEF JobTypes
  <2>4. LoadsFirst(t)'
    BY <2>1, <2>2 DEF LoadsFirst, Doing, Open
  <2>5. FlushesInOrder(t)'
    BY <2>1, <2>2 DEF FlushesInOrder, Doing, Open
  <2> QED
    BY <2>3, <2>4, <2>5
<1>2. ASSUME NEW r \in Row, lock'[r] # Nobody
      PROVE  job'[lock'[r]].status = "open" /\ r \notin job'[lock'[r]].want
  <2>1. CASE lock'[r] = s
    BY <2>1 DEF Updated, Open
  <2>2. CASE lock'[r] # s
    <3>1. lock'[r] = lock[r] /\ lock[r] \in Session \ {s}
      BY <1>2, <2>2 DEF LocksTyped
    <3> QED
      BY <1>2, <3>1 DEF LocksTyped, Open
  <2> QED
    BY <2>1, <2>2
<1>3. \A t \in Session : JobTypes(t)' /\ LoadsFirst(t)' /\ FlushesInOrder(t)'
  BY <1>1
<1> QED
  BY <1>2, <1>3 DEF LocksTyped, Open

\* A session that ends gives its locks back.
LEMMA EndLocks ==
  ASSUME LocksTyped, JobShape, NEW s \in Session, NEW status \in {"done", "failed"},
         End(s, status), balance' \in [Account -> Int]
  PROVE  LocksTyped'
<1>1. PICK e : /\ Idle = [kind |-> "none", status |-> "idle", about |-> {}, todo |-> <<>>,
                          want |-> {}, loaded |-> e, legs |-> {}]
               /\ DOMAIN e = {} /\ e \in [{} -> Int]
  BY IdleShape
<1>2. job' = [job EXCEPT ![s] = [Idle EXCEPT !.status = status]]
      /\ lock' = [r \in Row |-> IF lock[r] = s THEN Nobody ELSE lock[r]]
      /\ contended' = contended
  BY DEF End, Release
<1>3. /\ job'[s].kind = "none" /\ job'[s].status = status /\ job'[s].want = {}
      /\ job'[s].legs = {} /\ job'[s].about = {} /\ job'[s].loaded = e
      /\ \A t \in Session \ {s} : job'[t] = job[t]
  BY <1>1, <1>2 DEF JobShape
<1>4. /\ lock' \in [Row -> Session \cup {Nobody}] /\ contended' \subseteq Account
      /\ \A r \in Row : lock'[r] \in {lock[r], s, Nobody}
      /\ Updated(s)' = {}
  BY <1>2, SessionsAssumption DEF LocksTyped, Updated
<1>5. JobTypes(s)' /\ LoadsFirst(s)' /\ FlushesInOrder(s)'
  BY <1>1, <1>3 DEF JobTypes, LoadsFirst, FlushesInOrder, Doing, Open
<1> QED
  BY <1>3, <1>4, <1>5, OneSessionMoves

\* A new session holds no lock and wants none.
LEMMA StartLocks ==
  ASSUME LocksTyped, JobShape, NEW s \in Session, NEW kind, NEW about \in SUBSET Account,
         NEW todo, NEW legs \in SUBSET Leg, Start(s, kind, about, todo, legs),
         UNCHANGED <<lock, balance>>,
         kind = "create" => \E a, b \in Account : todo = <<a, b>>,
         kind = "delete" => \/ \E l \in Leg : todo = <<l>>
                            \/ \E l, m \in Leg :
                                 todo = <<l, m>> /\ RowsOf(l) \cap RowsOf(m) = {}
  PROVE  LocksTyped'
<1>1. PICK e : /\ Idle = [kind |-> "none", status |-> "idle", about |-> {}, todo |-> <<>>,
                          want |-> {}, loaded |-> e, legs |-> {}]
               /\ DOMAIN e = {} /\ e \in [{} -> Int]
  BY IdleShape
<1>2. /\ job' = [job EXCEPT ![s] =
                   [Idle EXCEPT !.kind = kind, !.status = "open", !.about = about,
                                !.todo = todo, !.legs = legs]]
      /\ kind \in Kind /\ ~Open(s) /\ contended' \subseteq Account
  BY DEF Start, LocksTyped, Open
<1>3. /\ job'[s].kind = kind /\ job'[s].status = "open" /\ job'[s].want = {}
      /\ job'[s].legs = legs /\ job'[s].about = about /\ job'[s].loaded = e
      /\ job'[s].todo = todo
      /\ \A t \in Session \ {s} : job'[t] = job[t]
  BY <1>1, <1>2 DEF JobShape
<1>4. Updated(s) = {} /\ Updated(s)' = {}
  BY <1>2, SessionsAssumption DEF LocksTyped, Updated
<1>5. JobTypes(s)'
  BY <1>1, <1>2, <1>3 DEF JobTypes
<1>6. LoadsFirst(s)'
  <2>1. kind = "delete" => LoadsFirst(s)'
    BY <1>3, <1>4 DEF LoadsFirst, Doing, Open
  <2>2. kind = "create" => LoadsFirst(s)'
    BY <1>3, <1>4 DEF LoadsFirst, Doing, Open
  <2>3. kind \notin {"create", "delete"} => LoadsFirst(s)'
    BY <1>3, <1>4 DEF LoadsFirst, Doing, Open
  <2> QED
    BY <2>1, <2>2, <2>3
<1>7. FlushesInOrder(s)'
  BY <1>3, <1>4 DEF FlushesInOrder, Doing, Open
<1>8. /\ lock' \in [Row -> Session \cup {Nobody}] /\ balance' \in [Account -> Int]
      /\ \A r \in Row : lock'[r] \in {lock[r], s, Nobody}
  BY DEF LocksTyped
<1> QED
  BY <1>2, <1>3, <1>4, <1>5, <1>6, <1>7, <1>8, OneSessionMoves

\* What is left of the one or two things to load.
LEMMA Shorter ==
  ASSUME NEW S, NEW a \in S, NEW b \in S
  PROVE  /\ Head(<<a>>) = a /\ Tail(<<a>>) = <<>>
         /\ Head(<<a, b>>) = a /\ Tail(<<a, b>>) = <<b>> /\ <<b>> # <<>>
OBVIOUS

\* Which account and which rows a leg is about.
LEMMA LegRows ==
  ASSUME NEW l \in Leg
  PROVE  /\ AccountOf[l] \in Account /\ RowsOf(l) \subseteq Row
         /\ l % 2 = 0 => AccountOf[l] = From[l \div 2]
         /\ l % 2 # 0 => AccountOf[l] = To[l \div 2]
         /\ l \div 2 \in Transfer
<1>1. PICK x \in Transfer : l = 2 * x \/ l = 2 * x + 1
  BY DEF Leg, Debit, Credit
<1>2. x \in Nat
  BY SessionsAssumption
<1>3. l \div 2 = x /\ l % 2 \in {0, 1}
  BY <1>1, <1>2
<1>4. /\ l % 2 = 0 => AccountOf[l] = From[l \div 2]
      /\ l % 2 # 0 => AccountOf[l] = To[l \div 2]
  BY <1>3 DEF AccountOf
<1>5. AccountOf[l] \in Account
  BY <1>3, <1>4, SessionsAssumption
<1> QED
  BY <1>3, <1>4, <1>5 DEF RowsOf, Row, AccountRow, LegRow

\* The legs of a transfer share neither account nor row.
LEMMA LegsShareNothing ==
  ASSUME NEW x \in Transfer
  PROVE  /\ Debit(x) \in Leg /\ Credit(x) \in Leg
         /\ AccountOf[Debit(x)] = From[x] /\ AccountOf[Credit(x)] = To[x]
         /\ RowsOf(Debit(x)) \cap RowsOf(Credit(x)) = {}
<1>1. x \in Nat /\ From[x] # To[x] /\ From[x] \in Account /\ To[x] \in Account
  BY SessionsAssumption
<1>2. Debit(x) \in Leg /\ Credit(x) \in Leg
  BY DEF Leg
<1>3. /\ Debit(x) % 2 = 0 /\ Debit(x) \div 2 = x
      /\ Credit(x) % 2 # 0 /\ Credit(x) \div 2 = x /\ Debit(x) # Credit(x)
  BY <1>1 DEF Debit, Credit
<1>4. AccountOf[Debit(x)] = From[x] /\ AccountOf[Credit(x)] = To[x]
  BY <1>2, <1>3, LegRows
<1> QED
  BY <1>1, <1>2, <1>3, <1>4 DEF RowsOf, AccountRow, LegRow

\* A row is updated: nobody else has its lock, and the session wants it no more.
LEMMA WriteRowLocks ==
  ASSUME LocksTyped, Ownership, NEW s \in Session, WriteRow(s)
  PROVE  LocksTyped'
<1>1. PICK r \in Candidates(s) :
         /\ lock[r] = Nobody /\ lock' = [lock EXCEPT ![r] = s]
         /\ job' = [job EXCEPT ![s].want = @ \ {r}]
  BY DEF WriteRow
<1>2. r \in job[s].want /\ r \in Row
  BY DEF Candidates, LocksTyped, JobTypes
<1>3. /\ job'[s].kind = job[s].kind /\ job'[s].status = job[s].status
      /\ job'[s].want = job[s].want \ {r}
      /\ job'[s].legs = job[s].legs /\ job'[s].about = job[s].about
      /\ job'[s].loaded = job[s].loaded /\ job'[s].todo = job[s].todo
      /\ \A t \in Session \ {s} : job'[t] = job[t]
  BY <1>1 DEF Ownership, JobShape
<1>4. /\ lock' \in [Row -> Session \cup {Nobody}]
      /\ \A q \in Row : lock'[q] \in {lock[q], s, Nobody}
      /\ Updated(s)' = Updated(s) \cup {r}
  BY <1>1, <1>2, SessionsAssumption DEF LocksTyped, Updated
<1>5. Open(s) /\ \A q \in Updated(s)' : job'[s].status = "open" /\ q \notin job'[s].want
  BY <1>2, <1>3, <1>4, SessionsAssumption DEF LocksTyped, Updated, Open, WriteRow
<1>6. JobTypes(s)'
  BY <1>3 DEF LocksTyped, JobTypes
<1>7. LoadsFirst(s)'
  BY <1>2, <1>3, <1>4 DEF LocksTyped, LoadsFirst, Doing, Open
<1>8. FlushesInOrder(s)'
  <2>1. SUFFICES ASSUME Doing(s, "create") PROVE FlushesInOrder(s)'
    BY <1>3 DEF FlushesInOrder, Doing, Open
  <2>2. /\ job[s].want \subseteq {AccountRow(a) : a \in Account}
        /\ \A q \in Updated(s) :
             \E a \in Account : /\ q = AccountRow(a)
                                /\ \A b \in Account : AccountRow(b) \in job[s].want => a < b
    BY <2>1 DEF LocksTyped, FlushesInOrder
  <2>3. PICK a \in Account : r = AccountRow(a)
    BY <1>2, <2>2
  <2>4. \A b \in Account : AccountRow(b) \in job[s].want => a <= b
    <3>1. job[s].want \cap ({"transactions"} \X Leg) = {}
      BY <2>2 DEF AccountRow
    <3>2. \A q \in job[s].want : r[2] <= q[2]
      BY <1>1, <1>2, <2>1, <3>1 DEF Candidates, Doing
    <3> QED
      BY <2>3, <3>2 DEF AccountRow
  <2>5. \A b \in Account : AccountRow(b) \in job'[s].want => a < b
    BY <1>3, <2>3, <2>4, SessionsAssumption DEF AccountRow
  <2> QED
    BY <1>3, <1>4, <2>2, <2>3, <2>5 DEF FlushesInOrder
<1> QED
  BY <1>3, <1>4, <1>5, <1>6, <1>7, <1>8, OneSessionMoves DEF LocksTyped, WriteRow

\* What a session has loaded, with one account more.
LEMMA LoadedMore ==
  ASSUME NEW f, DOMAIN f \subseteq Account, f \in [DOMAIN f -> Int],
         NEW a \in Account, NEW n \in Int,
         NEW g, g = [b \in DOMAIN f \cup {a} |-> IF b = a THEN n ELSE f[b]]
  PROVE  DOMAIN g \subseteq Account /\ g \in [DOMAIN g -> Int]
<1>1. DOMAIN g = DOMAIN f \cup {a}
  OBVIOUS
<1> QED
  BY <1>1

\* A creation loads its accounts and then wants to update both.
LEMMA LoadForCreateLocks ==
  ASSUME LocksTyped, Ownership, NEW s \in Session, LoadForCreate(s)
  PROVE  LocksTyped'
<1> DEFINE a == Head(job[s].todo)
           loaded == [b \in DOMAIN job[s].loaded \cup {a} |->
                        IF b = a THEN balance[a] + Effect(LegOn(s, a)) ELSE job[s].loaded[b]]
           want == IF Tail(job[s].todo) = <<>>
                     THEN {AccountRow(b) : b \in job[s].about} ELSE {}
<1>1. /\ Doing(s, "create") /\ job[s].todo # <<>> /\ job[s].want = {} /\ Updated(s) = {}
      /\ UNCHANGED balance
  BY DEF LoadForCreate, Doing, LocksTyped, LoadsFirst
<1>2. JobShape
  BY DEF Ownership
<1>3. CASE a \notin live
  <2>1. End(s, "failed")
    BY <1>3 DEF LoadForCreate
  <2> QED
    BY <1>1, <1>2, <2>1, EndLocks DEF LocksTyped
<1>4. CASE a \in live
  <2>1. /\ job' = [job EXCEPT ![s].todo = Tail(job[s].todo), ![s].loaded = loaded,
                              ![s].want = want]
        /\ UNCHANGED <<lock, contended>>
    BY <1>4 DEF LoadForCreate
  <2>2. \/ \E x \in Account : job[s].todo = <<x>>
        \/ \E x, y \in Account : job[s].todo = <<x, y>>
    BY <1>1 DEF LocksTyped, LoadsFirst
  <2>3. a \in Account /\ (Tail(job[s].todo) = <<>> \/ \E y \in Account : Tail(job[s].todo) = <<y>>)
    <3>1. ASSUME NEW x \in Account, job[s].todo = <<x>>
          PROVE  Head(job[s].todo) \in Account /\ Tail(job[s].todo) = <<>>
      BY <3>1, Shorter
    <3>2. ASSUME NEW x \in Account, NEW y \in Account, job[s].todo = <<x, y>>
          PROVE  Head(job[s].todo) \in Account /\ Tail(job[s].todo) = <<y>>
      BY <3>2, Shorter
    <3> QED
      BY <2>2, <3>1, <3>2
  <2>4. want \subseteq {AccountRow(b) : b \in Account} /\ (Tail(job[s].todo) # <<>> => want = {})
    BY DEF LocksTyped, JobTypes
  <2>5. want \subseteq Row
    BY <2>4 DEF AccountRow, Row
  <2>6. DOMAIN loaded \subseteq Account /\ loaded \in [DOMAIN loaded -> Int]
    <3>1. balance[a] + Effect(LegOn(s, a)) \in Int
      BY <2>3 DEF LocksTyped, Effect
    <3>2. DOMAIN job[s].loaded \subseteq Account /\ job[s].loaded \in [DOMAIN job[s].loaded -> Int]
      BY DEF LocksTyped, JobTypes
    <3> QED
      BY <2>3, <3>1, <3>2, LoadedMore
  <2> HIDE DEF a, loaded, want
  <2>7. /\ job'[s].kind = job[s].kind /\ job'[s].status = job[s].status
        /\ job'[s].want = want
        /\ job'[s].legs = job[s].legs /\ job'[s].about = job[s].about
        /\ job'[s].loaded = loaded /\ job'[s].todo = Tail(job[s].todo)
        /\ \A t \in Session \ {s} : job'[t] = job[t]
    BY <1>2, <2>1 DEF JobShape
  <2>8. Updated(s)' = {}
    BY <1>1, <2>1 DEF Updated
  <2>9. JobTypes(s)'
    BY <2>5, <2>6, <2>7 DEF LocksTyped, JobTypes
  <2>10. LoadsFirst(s)'
    BY <1>1, <2>3, <2>4, <2>7, <2>8 DEF LoadsFirst, Doing, Open
  <2>11. FlushesInOrder(s)'
    BY <2>4, <2>7, <2>8 DEF FlushesInOrder
  <2> QED
    BY <1>1, <2>1, <2>7, <2>8, <2>9, <2>10, <2>11, OneSessionMoves DEF LocksTyped
<1> QED
  BY <1>3, <1>4

\* A deletion loads the account of its next leg and then wants to update both
\* rows, none of which it has updated.
LEMMA LoadForDeleteLocks ==
  ASSUME LocksTyped, Ownership, NEW s \in Session, LoadForDelete(s)
  PROVE  LocksTyped'
<1> DEFINE l == Head(job[s].todo)
           a == AccountOf[l]
           loaded == [b \in DOMAIN job[s].loaded \cup {a} |->
                        IF b = a THEN balance[a] - Effect(l) ELSE job[s].loaded[b]]
<1>1. /\ Doing(s, "delete") /\ job[s].todo # <<>> /\ job[s].want = {}
      /\ UNCHANGED <<balance, lock, contended>>
      /\ job' = [job EXCEPT ![s].todo = Tail(job[s].todo), ![s].loaded = loaded,
                            ![s].want = {AccountRow(a), LegRow(l)}]
  BY DEF LoadForDelete, Doing
<1>2. \/ /\ l \in Leg /\ Tail(job[s].todo) = <<>>
         /\ RowsOf(l) \cap Updated(s) = {}
      \/ \E m \in Leg : /\ l \in Leg /\ Tail(job[s].todo) = <<m>>
                        /\ RowsOf(l) \cap RowsOf(m) = {} /\ Updated(s) = {}
  <2>1. \/ \E x \in Leg : /\ job[s].todo = <<x>>
                          /\ RowsOf(x) \cap (Updated(s) \cup job[s].want) = {}
        \/ \E x, m \in Leg : /\ job[s].todo = <<x, m>>
                             /\ RowsOf(x) \cap RowsOf(m) = {}
                             /\ job[s].want = {} /\ Updated(s) = {}
    BY <1>1 DEF LocksTyped, LoadsFirst
  <2>2. ASSUME NEW x \in Leg, job[s].todo = <<x>>
        PROVE  Head(job[s].todo) = x /\ Tail(job[s].todo) = <<>>
    BY <2>2, Shorter
  <2>3. ASSUME NEW x \in Leg, NEW m \in Leg, job[s].todo = <<x, m>>
        PROVE  Head(job[s].todo) = x /\ Tail(job[s].todo) = <<m>>
    BY <2>3, Shorter
  <2> HIDE DEF a, loaded
  <2> QED
    BY <2>1, <2>2, <2>3
<1>3. l \in Leg /\ a \in Account /\ RowsOf(l) \subseteq Row /\ RowsOf(l) \cap Updated(s) = {}
  BY <1>2, LegRows
<1>4. DOMAIN loaded \subseteq Account /\ loaded \in [DOMAIN loaded -> Int]
  <2>1. balance[a] - Effect(l) \in Int
    BY <1>3 DEF LocksTyped, Effect
  <2>2. DOMAIN job[s].loaded \subseteq Account /\ job[s].loaded \in [DOMAIN job[s].loaded -> Int]
    BY DEF LocksTyped, JobTypes
  <2> QED
    BY <1>3, <2>1, <2>2, LoadedMore
<1>5. RowsOf(l) = {AccountRow(a), LegRow(l)}
  BY DEF RowsOf
<1> HIDE DEF l, a, loaded
<1>6. /\ job'[s].kind = job[s].kind /\ job'[s].status = job[s].status
      /\ job'[s].want = RowsOf(l)
      /\ job'[s].legs = job[s].legs /\ job'[s].about = job[s].about
      /\ job'[s].loaded = loaded /\ job'[s].todo = Tail(job[s].todo)
      /\ \A t \in Session \ {s} : job'[t] = job[t]
  BY <1>1, <1>5 DEF Ownership, JobShape
<1>7. Updated(s)' = Updated(s)
  BY <1>1 DEF Updated
<1>8. JobTypes(s)'
  BY <1>3, <1>4, <1>6 DEF LocksTyped, JobTypes
<1>9. LoadsFirst(s)'
  <2>1. Doing(s, "delete")' /\ ~Doing(s, "create")' /\ ~Doing(s, "close")'
    BY <1>1, <1>6 DEF Doing, Open
  <2>2. CASE Tail(job[s].todo) = <<>>
    BY <1>6, <2>1, <2>2 DEF LoadsFirst
  <2>3. CASE \E m \in Leg : /\ Tail(job[s].todo) = <<m>>
                            /\ RowsOf(l) \cap RowsOf(m) = {} /\ Updated(s) = {}
    BY <1>6, <1>7, <2>1, <2>3 DEF LoadsFirst, RowsOf
  <2> QED
    BY <1>2, <2>2, <2>3
<1>10. FlushesInOrder(s)'
  BY <1>1, <1>6 DEF FlushesInOrder, Doing
<1>11. \A r \in Updated(s)' : job'[s].status = "open" /\ r \notin job'[s].want
  BY <1>1, <1>3, <1>6, <1>7 DEF Doing, Open
<1> QED
  BY <1>1, <1>6, <1>8, <1>9, <1>10, <1>11, OneSessionMoves DEF LocksTyped

\* A closing finds its legs and then wants to update them and the account.
LEMMA SelectForCloseLocks ==
  ASSUME LocksTyped, Ownership, NEW s \in Session, SelectForClose(s)
  PROVE  LocksTyped'
<1> DEFINE a == Head(job[s].todo)
           legs == {l \in active : AccountOf[l] = a}
           want == {LegRow(l) : l \in legs} \cup {AccountRow(a)}
<1>1. /\ Doing(s, "close") /\ job[s].todo # <<>> /\ Updated(s) = {}
      /\ UNCHANGED <<balance, lock, contended>>
      /\ job' = [job EXCEPT ![s].todo = <<>>, ![s].legs = legs, ![s].want = want]
  BY DEF SelectForClose, Doing, LocksTyped, LoadsFirst
<1>2. active \subseteq Leg
  BY PairIsLegsOf DEF Ownership
<1>3. a \in Account
  <2>1. \E x \in Account : job[s].todo = <<x>>
    BY <1>1 DEF Ownership, ClosesStay
  <2> QED
    BY <2>1, Shorter
<1>4. legs \subseteq Leg /\ want \subseteq Row
  BY <1>2, <1>3 DEF Row, LegRow, AccountRow
<1> HIDE DEF a, legs, want
<1>5. /\ job'[s].kind = job[s].kind /\ job'[s].status = job[s].status
      /\ job'[s].want = want
      /\ job'[s].legs = legs /\ job'[s].about = job[s].about
      /\ job'[s].loaded = job[s].loaded /\ job'[s].todo = <<>>
      /\ \A t \in Session \ {s} : job'[t] = job[t]
  BY <1>1 DEF Ownership, JobShape
<1>6. Updated(s)' = {}
  BY <1>1 DEF Updated
<1>7. JobTypes(s)'
  BY <1>4, <1>5 DEF LocksTyped, JobTypes
<1>8. LoadsFirst(s)' /\ FlushesInOrder(s)'
  BY <1>1, <1>5, <1>6 DEF LoadsFirst, FlushesInOrder, Doing
<1> QED
  BY <1>1, <1>5, <1>6, <1>7, <1>8, OneSessionMoves DEF LocksTyped

\* A request that begins, of each kind.
LEMMA BeginLocks ==
  ASSUME LocksTyped, Ownership, NEW s \in Session, Begin(s)
  PROVE  LocksTyped'
<1>1. JobShape
  BY DEF Ownership
<1>2. ASSUME NEW x \in Transfer, BeginCreate(s, x)
      PROVE  LocksTyped'
  <2>1. {From[x], To[x]} \subseteq Account /\ {Debit(x), Credit(x)} \subseteq Leg
    BY SessionsAssumption, LegsShareNothing
  <2>2. /\ Start(s, "create", {From[x], To[x]}, <<From[x], To[x]>>, {Debit(x), Credit(x)})
        /\ UNCHANGED <<lock, balance>>
    BY <1>2 DEF BeginCreate
  <2>3. \E a, b \in Account : <<From[x], To[x]>> = <<a, b>>
    BY <2>1
  <2> QED
    BY <1>1, <2>1, <2>2, <2>3, StartLocks
<1>3. ASSUME NEW x \in Transfer, BeginDelete(s, x)
      PROVE  LocksTyped'
  <2> DEFINE legs == {Debit(x), Credit(x)} \cap active
  <2>1. {From[x], To[x]} \subseteq Account /\ legs \subseteq Leg
    BY SessionsAssumption, LegsShareNothing
  <2>2. PICK order \in {<<Debit(x), Credit(x)>>, <<Credit(x), Debit(x)>>,
                        <<Debit(x)>>, <<Credit(x)>>} :
          Start(s, "delete", {From[x], To[x]}, order, legs)
    BY <1>3 DEF BeginDelete
  <2>3. UNCHANGED <<lock, balance>>
    BY <1>3 DEF BeginDelete
  <2>4. \/ \E l \in Leg : order = <<l>>
        \/ \E l, m \in Leg : order = <<l, m>> /\ RowsOf(l) \cap RowsOf(m) = {}
    BY LegsShareNothing
  <2> HIDE DEF legs
  <2> QED
    BY <1>1, <2>1, <2>2, <2>3, <2>4, StartLocks
<1>4. ASSUME NEW a \in Account, BeginClose(s, a)
      PROVE  LocksTyped'
  <2>1. Start(s, "close", {a}, <<a>>, {}) /\ UNCHANGED <<lock, balance>>
    BY <1>4 DEF BeginClose
  <2> QED
    BY <1>1, <2>1, StartLocks
<1> QED
  BY <1>2, <1>3, <1>4 DEF Begin

\* Every step.
LEMMA LocksStep ==
  ASSUME LocksTyped, Ownership, [Next]_vars
  PROVE  LocksTyped'
<1>1. CASE UNCHANGED vars
  <2>1. UNCHANGED <<balance, contended, lock, job>>
    BY <1>1 DEF vars
  <2>2. \A s \in Session : JobTypes(s)' /\ LoadsFirst(s)' /\ FlushesInOrder(s)'
    <3> SUFFICES ASSUME NEW s \in Session
                 PROVE  JobTypes(s)' /\ LoadsFirst(s)' /\ FlushesInOrder(s)'
      OBVIOUS
    <3>1. JobTypes(s)'
      BY <2>1 DEF LocksTyped, JobTypes
    <3>2. LoadsFirst(s)'
      BY <2>1 DEF LocksTyped, LoadsFirst, Updated, Doing, Open
    <3>3. FlushesInOrder(s)'
      BY <2>1 DEF LocksTyped, FlushesInOrder, Updated, Doing, Open
    <3> QED
      BY <3>1, <3>2, <3>3
  <2> QED
    BY <2>1, <2>2 DEF LocksTyped, Open
<1>2. ASSUME NEW s \in Session, Begin(s) \/ Step(s) \/ Crash(s)
      PROVE  LocksTyped'
  <2>1. JobShape /\ balance \in [Account -> Int]
    BY DEF Ownership, LocksTyped
  <2>2. CASE Begin(s)
    BY <2>2, BeginLocks
  <2>3. CASE LoadForCreate(s) \/ LoadForDelete(s) \/ SelectForClose(s) \/ WriteRow(s)
    BY <2>3, LoadForCreateLocks, LoadForDeleteLocks, SelectForCloseLocks, WriteRowLocks
  <2>4. CASE CommitCreate(s) \/ CommitDelete(s)
    <3>1. Overwritten(s) \in [Account -> Int]
      BY <2>1 DEF Overwritten, LocksTyped, JobTypes
    <3>2. End(s, "done") /\ balance' \in [Account -> Int]
      BY <2>4, <3>1 DEF CommitCreate, CommitDelete
    <3> QED
      BY <2>1, <3>2, EndLocks
  <2>5. CASE CommitClose(s)
    BY <2>1, <2>5, EndLocks DEF CommitClose
  <2>6. CASE AbortDeadlocked(s) \/ Crash(s)
    BY <2>1, <2>6, EndLocks DEF AbortDeadlocked, Crash
  <2> QED
    BY <1>2, <2>2, <2>3, <2>4, <2>5, <2>6 DEF Step
<1> QED
  BY <1>1, <1>2 DEF Next

\* Nobody has begun: no row is locked.
LEMMA LocksInit == Init => LocksTyped
<1> SUFFICES ASSUME Init PROVE LocksTyped
  OBVIOUS
<1>1. PICK e : /\ Idle = [kind |-> "none", status |-> "idle", about |-> {}, todo |-> <<>>,
                          want |-> {}, loaded |-> e, legs |-> {}]
               /\ DOMAIN e = {} /\ e \in [{} -> Int]
  BY IdleShape
<1>2. \A s \in Session : job[s] = Idle
  BY DEF Init
<1>3. balance \in [Account -> Int]
  <2>1. \A a \in Account : /\ IsFiniteSet({x \in used : To[x] = a})
                           /\ IsFiniteSet({x \in used : From[x] = a})
    BY SessionsAssumption, FS_Subset DEF Init
  <2> QED
    BY <2>1, FS_CardinalityType DEF Init
<1>4. lock = [r \in Row |-> Nobody] /\ contended = {}
  BY DEF Init
<1>5. ASSUME NEW s \in Session
      PROVE  JobTypes(s) /\ LoadsFirst(s) /\ FlushesInOrder(s)
  <2>1. /\ job[s].kind = "none" /\ job[s].status = "idle" /\ job[s].want = {}
        /\ job[s].legs = {} /\ job[s].about = {} /\ job[s].loaded = e
    BY <1>1, <1>2
  <2> QED
    BY <1>1, <2>1 DEF JobTypes, LoadsFirst, FlushesInOrder, Doing, Open
<1> QED
  BY <1>3, <1>4, <1>5 DEF LocksTyped

\* What the run checks of the types follows.
LEMMA LocksImplyTypes == LocksTyped /\ Ownership => TypeOK
BY PairIsLegsOf DEF LocksTyped, JobTypes, Ownership, TypeOK

\* Rows are locked by open sessions that have updated them, for any number of
\* overlapping, failing and crashing requests.
THEOREM SessionsTypeCorrect == Spec => []TypeOK
BY SessionsInit, SessionStep, LocksInit, LocksStep, LocksImplyTypes, PTL DEF Spec

-----------------------------------------------------------------------------
(* Deadlocks *)

\* Whoever a blocker waits for is a blocker.
LEMMA BlockersClosed ==
  ASSUME NEW s \in Session, NEW u \in Blockers(s), NEW v \in Session, WaitsFor(u, v)
  PROVE  v \in Blockers(s)
BY DEF Blockers

\* Blockers are in every set that the waiting does not lead out of.
LEMMA BlockersLeast ==
  ASSUME NEW s \in Session, NEW S \in SUBSET Session,
         \A u \in Session : WaitsFor(s, u) => u \in S,
         \A u \in S, v \in Session : WaitsFor(u, v) => v \in S
  PROVE  Blockers(s) \subseteq S
BY DEF Blockers

\* A creation waits for one account, which is not the last it will have updated.
LEMMA CreateWaitsUpwards ==
  ASSUME LocksTyped, NEW s \in Session, NEW t \in Session, NEW u \in Session,
         Doing(s, "create"), Doing(t, "create"), WaitsFor(s, t), WaitsFor(t, u)
  PROVE  \A a, b \in Account :
           AccountRow(a) \in Candidates(s) /\ AccountRow(b) \in Candidates(t) => a < b
<1>1. \A r \in Candidates(s) : r \in job[s].want
  BY DEF Candidates
<1>2. PICK r \in Candidates(s) : lock[r] = t
  BY DEF WaitsFor
<1>3. r \in Row
  BY <1>1, <1>2 DEF LocksTyped, JobTypes
<1>4. PICK c \in Account : r = AccountRow(c)
  BY <1>1, <1>2 DEF LocksTyped, FlushesInOrder
<1>5. \A b \in Account : AccountRow(b) \in job[t].want => c < b
  BY <1>2, <1>3, <1>4, SessionsAssumption DEF LocksTyped, FlushesInOrder, Updated, AccountRow
<1>6. \A a \in Account : AccountRow(a) \in Candidates(s) => a = c
  <2>1. job[s].want \cap ({"transactions"} \X Leg) = {}
    BY DEF LocksTyped, FlushesInOrder, AccountRow
  <2>2. \A q \in Candidates(s) : \A p \in job[s].want : q[2] <= p[2]
    BY <2>1 DEF Candidates, Doing
  <2> QED
    BY <1>1, <1>2, <1>4, <2>2, SessionsAssumption DEF AccountRow
<1>7. \A b \in Account : AccountRow(b) \in Candidates(t) => AccountRow(b) \in job[t].want
  BY DEF Candidates
<1> QED
  BY <1>5, <1>6, <1>7

\* A deadlock of creations would be a descent that comes back to where it began.
LEMMA NoDeadlockOfCreates ==
  ASSUME LocksTyped, Ownership
  PROVE  CreatesNeverDeadlock
<1> SUFFICES ASSUME NEW s \in Session, Deadlocked(s),
                    \A t \in Blockers(s) : job[t].kind = "create"
             PROVE  FALSE
  BY DEF CreatesNeverDeadlock
<1>1. s \in Blockers(s) /\ Blockers(s) \subseteq Session
  BY DEF Deadlocked, Blockers
<1> DEFINE Waits(t) == \E u \in Session : WaitsFor(t, u)
<1>2. ASSUME NEW t \in Session, Waits(t), job[t].kind = "create"
      PROVE  Doing(t, "create") /\ \E a \in Account : AccountRow(a) \in Candidates(t)
  <2>1. PICK r \in Candidates(t) : Open(t)
    BY <1>2 DEF WaitsFor
  <2>2. Doing(t, "create")
    BY <1>2, <2>1 DEF Doing
  <2>3. r \in job[t].want
    BY <2>1 DEF Candidates
  <2> QED
    BY <2>1, <2>2, <2>3 DEF LocksTyped, FlushesInOrder
<1>3. Waits(s)
  <2>1. CASE \A u \in Session : ~WaitsFor(s, u)
    <3>1. {} \in SUBSET Session /\ \A u \in {}, v \in Session : WaitsFor(u, v) => v \in {}
      OBVIOUS
    <3>2. Blockers(s) \subseteq {}
      BY <2>1, <3>1, BlockersLeast
    <3> QED
      BY <1>1, <3>2
  <2> QED
    BY <2>1
<1>4. PICK a \in Account : AccountRow(a) \in Candidates(s)
  BY <1>1, <1>2, <1>3
<1> DEFINE Above == {t \in Blockers(s) :
                       Waits(t) => \A b \in Account : AccountRow(b) \in Candidates(t) => a < b}
<1>5. ASSUME NEW u \in Session, WaitsFor(s, u)
      PROVE  u \in Above
  <2>1. u \in Blockers(s)
    BY <1>1, <1>5, BlockersClosed
  <2>2. ASSUME Waits(u), NEW b \in Account, AccountRow(b) \in Candidates(u)
        PROVE  a < b
    <3>1. Doing(s, "create") /\ Doing(u, "create")
      BY <1>1, <1>2, <1>3, <2>1, <2>2
    <3> QED
      BY <1>4, <1>5, <2>2, <3>1, CreateWaitsUpwards
  <2> QED
    BY <2>1, <2>2
<1>6. ASSUME NEW u \in Above, NEW v \in Session, WaitsFor(u, v)
      PROVE  v \in Above
  <2>1. u \in Session /\ v \in Blockers(s) /\ Waits(u)
    BY <1>1, <1>6, BlockersClosed
  <2>2. Doing(u, "create") /\ \E b \in Account : AccountRow(b) \in Candidates(u)
    BY <1>2, <2>1
  <2>3. PICK b \in Account : AccountRow(b) \in Candidates(u)
    BY <2>2
  <2>4. a < b
    BY <2>1, <2>3
  <2>5. ASSUME Waits(v), NEW c \in Account, AccountRow(c) \in Candidates(v)
        PROVE  a < c
    <3>1. Doing(v, "create")
      BY <1>2, <2>1, <2>5
    <3>2. b < c
      BY <1>6, <2>1, <2>2, <2>3, <2>5, <3>1, CreateWaitsUpwards
    <3> QED
      BY <2>4, <3>2, SessionsAssumption
  <2> QED
    BY <2>1, <2>5
<1>7. Blockers(s) \subseteq Above
  <2> Above \in SUBSET Session
    BY <1>1
  <2> HIDE DEF Above
  <2> QED
    BY <1>5, <1>6, BlockersLeast
<1> QED
  BY <1>1, <1>3, <1>4, <1>7, SessionsAssumption

\* Creations never deadlock among themselves (create_transfer, the flush takes
\* the rows in the order of their ids): every deadlock has a deletion or a
\* closing in it, for any number of requests, accounts and transfers.
THEOREM CreatesAlwaysAvoidDeadlock == Spec => []CreatesNeverDeadlock
BY SessionsInit, SessionStep, LocksInit, LocksStep, NoDeadlockOfCreates, PTL DEF Spec

-----------------------------------------------------------------------------
(***************************************************************************)
(* The balances: however requests overlap, fail or crash, the balance of   *)
(* an account that no two open requests were about at one time is what its *)
(* active legs add up to.  The invariant says what every open request      *)
(* knows of such an account between its read and its commit.               *)
(***************************************************************************)

\* What the legs in A add up to on account a.
Net(A, a) ==
  Cardinality({l \in A : AccountOf[l] = a /\ Effect(l) = 1})
    - Cardinality({l \in A : AccountOf[l] = a /\ Effect(l) = -1})

\* Accounts whose balance nothing may have disturbed.
Quiet(a) == a \in live /\ a \notin contended

\* A request that books has found, for every account that it has loaded, the
\* balance the account still has, and has changed it by its own leg.
CreateKnows(s) ==
  Doing(s, "create") =>
    \E x \in Transfer :
      /\ job[s].legs = Pair(x) /\ job[s].about = {From[x], To[x]}
      /\ DOMAIN job[s].loaded \subseteq {From[x], To[x]}
      /\ \/ job[s].todo = <<From[x], To[x]>>
         \/ job[s].todo = <<To[x]>> /\ From[x] \in DOMAIN job[s].loaded
         \/ job[s].todo = <<>> /\ {From[x], To[x]} \subseteq DOMAIN job[s].loaded
      /\ \A l \in Pair(x) :
           AccountOf[l] \in DOMAIN job[s].loaded /\ Quiet(AccountOf[l]) =>
             job[s].loaded[AccountOf[l]] = balance[AccountOf[l]] + Effect(l)

\* A request that deletes has found the same, and its legs are still active.
DeleteKnows(s) ==
  Doing(s, "delete") =>
    \E x \in Transfer :
      /\ job[s].legs \subseteq Pair(x) /\ job[s].about = {From[x], To[x]}
      /\ \A a \in DOMAIN job[s].loaded : \E l \in job[s].legs : AccountOf[l] = a
      /\ \/ job[s].todo = <<>>
         \/ \E m \in job[s].legs : job[s].todo = <<m>>
         \/ \E m, k \in job[s].legs : job[s].todo = <<m, k>>
      /\ \A l \in job[s].legs :
           /\ \/ AccountOf[l] \in DOMAIN job[s].loaded
              \/ job[s].todo = <<l>>
              \/ \E m \in job[s].legs : job[s].todo \in {<<l, m>>, <<m, l>>}
           /\ Quiet(AccountOf[l]) => l \in active
           /\ AccountOf[l] \in DOMAIN job[s].loaded /\ Quiet(AccountOf[l]) =>
                job[s].loaded[AccountOf[l]] = balance[AccountOf[l]] - Effect(l)

\* Requests that overlap on an account have made it a contended one.
Apart ==
  \A s, t \in Session :
    Open(s) /\ Open(t) /\ s # t => job[s].about \cap job[t].about \subseteq contended

BalancesKept ==
  /\ Apart /\ UncontendedBalance
  /\ \A s \in Session : CreateKnows(s) /\ DeleteKnows(s)

-----------------------------------------------------------------------------
(* Sums of legs *)

\* One leg for each transfer.
LEMMA LegsOfEach ==
  ASSUME NEW S \in SUBSET Transfer
  PROVE  /\ IsFiniteSet(S)
         /\ IsFiniteSet({Debit(x) : x \in S}) /\ IsFiniteSet({Credit(x) : x \in S})
         /\ Cardinality({Debit(x) : x \in S}) = Cardinality(S)
         /\ Cardinality({Credit(x) : x \in S}) = Cardinality(S)
<1>1. IsFiniteSet(S) /\ S \subseteq Nat
  BY SessionsAssumption, FS_Subset
<1> DEFINE D == {Debit(x) : x \in S}
           C == {Credit(x) : x \in S}
<1>2. [x \in S |-> Debit(x)] \in Bijection(S, D)
  BY <1>1 DEF Bijection, Injection, IsInjective, Surjection, Debit
<1>3. [x \in S |-> Credit(x)] \in Bijection(S, C)
  BY <1>1 DEF Bijection, Injection, IsInjective, Surjection, Credit
<1>4. ExistsBijection(S, D) /\ ExistsBijection(S, C)
  BY <1>2, <1>3 DEF ExistsBijection
<1> QED
  BY <1>1, <1>4, FS_Bijection

\* There are finitely many legs.
LEMMA LegsFinite == ASSUME NEW A \in SUBSET Leg PROVE IsFiniteSet(A)
<1>1. IsFiniteSet({Debit(x) : x \in Transfer}) /\ IsFiniteSet({Credit(x) : x \in Transfer})
  BY LegsOfEach
<1>2. IsFiniteSet(Leg)
  BY <1>1, FS_Union DEF Leg
<1> QED
  BY <1>2, FS_Subset

\* Only the legs on the account count.
LEMMA NetSame ==
  ASSUME NEW A, NEW B, NEW a,
         \A l \in A \cup B : AccountOf[l] = a => (l \in A <=> l \in B)
  PROVE  Net(A, a) = Net(B, a)
<1>1. /\ {l \in A : AccountOf[l] = a /\ Effect(l) = 1}
           = {l \in B : AccountOf[l] = a /\ Effect(l) = 1}
      /\ {l \in A : AccountOf[l] = a /\ Effect(l) = -1}
           = {l \in B : AccountOf[l] = a /\ Effect(l) = -1}
  OBVIOUS
<1> QED
  BY <1>1 DEF Net

\* A leg more changes the sum by what the leg does.
LEMMA NetMore ==
  ASSUME NEW A \in SUBSET Leg, NEW l \in Leg \ A
  PROVE  /\ Net(A, AccountOf[l]) \in Int
         /\ Net(A \cup {l}, AccountOf[l]) = Net(A, AccountOf[l]) + Effect(l)
<1> DEFINE a == AccountOf[l]
           P(B) == {k \in B : AccountOf[k] = a /\ Effect(k) = 1}
           N(B) == {k \in B : AccountOf[k] = a /\ Effect(k) = -1}
<1>1. Effect(l) = 1 \/ Effect(l) = -1
  BY DEF Effect
<1>2. /\ IsFiniteSet(P(A)) /\ IsFiniteSet(N(A)) /\ l \notin P(A) /\ l \notin N(A)
      /\ Cardinality(P(A)) \in Nat /\ Cardinality(N(A)) \in Nat
  <2>1. P(A) \in SUBSET Leg /\ N(A) \in SUBSET Leg /\ l \notin P(A) /\ l \notin N(A)
    OBVIOUS
  <2> HIDE DEF P, N
  <2> QED
    BY <2>1, LegsFinite, FS_CardinalityType
<1>3. \A B : Net(B, a) = Cardinality(P(B)) - Cardinality(N(B))
  BY DEF Net
<1>4. CASE Effect(l) = 1
  <2>1. P(A \cup {l}) = P(A) \cup {l} /\ N(A \cup {l}) = N(A)
    BY <1>4
  <2>2. Cardinality(P(A \cup {l})) = Cardinality(P(A)) + 1
    BY <1>2, <2>1, FS_AddElement
  <2> HIDE DEF P, N
  <2> QED
    BY <1>2, <1>4, <1>3, <2>1, <2>2
<1>5. CASE Effect(l) = -1
  <2>1. N(A \cup {l}) = N(A) \cup {l} /\ P(A \cup {l}) = P(A)
    BY <1>5
  <2>2. Cardinality(N(A \cup {l})) = Cardinality(N(A)) + 1
    BY <1>2, <2>1, FS_AddElement
  <2> HIDE DEF P, N
  <2> QED
    BY <1>2, <1>5, <1>3, <2>1, <2>2
<1> QED
  BY <1>1, <1>4, <1>5

\* The sum of the committed legs.
LEMMA LegSumIsNet ==
  /\ \A a \in Account : LegSum(a) = Net(active, a)
  /\ \A a \in Account : LegSum(a)' = Net(active', a)
BY DEF LegSum, Net

-----------------------------------------------------------------------------
(* The step of one session *)

\* The others know what they knew: the step does nothing to a quiet account that
\* the session is not about.
LEMMA OthersKnow ==
  ASSUME BalancesKept, Ownership, NEW s \in Session,
         \A t \in Session \ {s} : job'[t] = job[t],
         live' \subseteq live, contended \subseteq contended',
         \A a \in Account :
           Quiet(a)' /\ ~(Open(s) /\ a \in job[s].about) =>
             /\ balance'[a] = balance[a]
             /\ \A l \in Leg : AccountOf[l] = a => (l \in active' <=> l \in active)
  PROVE  \A t \in Session \ {s} : CreateKnows(t)' /\ DeleteKnows(t)'
<1> SUFFICES ASSUME NEW t \in Session \ {s} PROVE CreateKnows(t)' /\ DeleteKnows(t)'
  OBVIOUS
<1>1. job'[t] = job[t] /\ CreateKnows(t) /\ DeleteKnows(t)
  BY DEF BalancesKept
<1>2. ASSUME NEW a \in Account, Open(t), a \in job[t].about, Quiet(a)'
      PROVE  /\ Quiet(a) /\ balance'[a] = balance[a]
             /\ \A l \in Leg : AccountOf[l] = a => (l \in active' <=> l \in active)
  BY <1>2 DEF BalancesKept, Apart, Quiet
<1>3. CreateKnows(t)'
  <2> SUFFICES ASSUME Doing(t, "create") PROVE CreateKnows(t)'
    BY <1>1 DEF CreateKnows, Doing, Open
  <2>1. PICK x \in Transfer :
          /\ job[t].legs = Pair(x) /\ job[t].about = {From[x], To[x]}
          /\ DOMAIN job[t].loaded \subseteq {From[x], To[x]}
          /\ \/ job[t].todo = <<From[x], To[x]>>
             \/ job[t].todo = <<To[x]>> /\ From[x] \in DOMAIN job[t].loaded
             \/ job[t].todo = <<>> /\ {From[x], To[x]} \subseteq DOMAIN job[t].loaded
          /\ \A l \in Pair(x) :
               AccountOf[l] \in DOMAIN job[t].loaded /\ Quiet(AccountOf[l]) =>
                 job[t].loaded[AccountOf[l]] = balance[AccountOf[l]] + Effect(l)
    BY <1>1 DEF CreateKnows
  <2>2. \A l \in Pair(x) : AccountOf[l] \in {From[x], To[x]} /\ AccountOf[l] \in Account
    BY LegsShareNothing, SessionsAssumption DEF Pair
  <2>3. \A l \in Pair(x) :
          AccountOf[l] \in DOMAIN job[t].loaded /\ Quiet(AccountOf[l])' =>
            job[t].loaded[AccountOf[l]] = balance'[AccountOf[l]] + Effect(l)
    BY <1>2, <2>1, <2>2 DEF Doing
  <2> QED
    BY <1>1, <2>1, <2>3 DEF CreateKnows
<1>4. DeleteKnows(t)'
  <2> SUFFICES ASSUME Doing(t, "delete") PROVE DeleteKnows(t)'
    BY <1>1 DEF DeleteKnows, Doing, Open
  <2>1. PICK x \in Transfer :
          /\ job[t].legs \subseteq Pair(x) /\ job[t].about = {From[x], To[x]}
          /\ \A a \in DOMAIN job[t].loaded : \E l \in job[t].legs : AccountOf[l] = a
          /\ \/ job[t].todo = <<>>
             \/ \E m \in job[t].legs : job[t].todo = <<m>>
             \/ \E m, k \in job[t].legs : job[t].todo = <<m, k>>
          /\ \A l \in job[t].legs :
               /\ \/ AccountOf[l] \in DOMAIN job[t].loaded
                  \/ job[t].todo = <<l>>
                  \/ \E m \in job[t].legs : job[t].todo \in {<<l, m>>, <<m, l>>}
               /\ Quiet(AccountOf[l]) => l \in active
               /\ AccountOf[l] \in DOMAIN job[t].loaded /\ Quiet(AccountOf[l]) =>
                    job[t].loaded[AccountOf[l]] = balance[AccountOf[l]] - Effect(l)
    BY <1>1 DEF DeleteKnows
  <2>2. \A l \in job[t].legs :
          l \in Leg /\ AccountOf[l] \in {From[x], To[x]} /\ AccountOf[l] \in Account
    BY <2>1, LegsShareNothing, SessionsAssumption DEF Pair
  <2>3. \A l \in job[t].legs :
          /\ Quiet(AccountOf[l])' => l \in active'
          /\ AccountOf[l] \in DOMAIN job[t].loaded /\ Quiet(AccountOf[l])' =>
               job[t].loaded[AccountOf[l]] = balance'[AccountOf[l]] - Effect(l)
    BY <1>2, <2>1, <2>2 DEF Doing
  <2> QED
    BY <1>1, <2>1, <2>3 DEF DeleteKnows
<1> QED
  BY <1>3, <1>4

\* The balances are kept when the step of the session keeps them where it is.
LEMMA KeptByStep ==
  ASSUME BalancesKept, Ownership, NEW s \in Session,
         \A t \in Session \ {s} : job'[t] = job[t],
         live' \subseteq live, contended \subseteq contended',
         \A a \in Account :
           Quiet(a)' /\ ~(Open(s) /\ a \in job[s].about) =>
             /\ balance'[a] = balance[a]
             /\ \A l \in Leg : AccountOf[l] = a => (l \in active' <=> l \in active),
         active' \subseteq Leg,
         Apart', CreateKnows(s)', DeleteKnows(s)',
         \A a \in Account :
           Quiet(a)' /\ Open(s) /\ a \in job[s].about => balance'[a] = Net(active', a)
  PROVE  BalancesKept'
<1>1. \A t \in Session \ {s} : CreateKnows(t)' /\ DeleteKnows(t)'
  BY OthersKnow
<1>2. active \subseteq Leg /\ live \subseteq Account
  BY PairIsLegsOf DEF Ownership
<1>3. ASSUME NEW a \in Account, Quiet(a)', ~(Open(s) /\ a \in job[s].about)
      PROVE  balance'[a] = Net(active', a)
  <2>1. Quiet(a) /\ balance'[a] = balance[a]
    BY <1>3 DEF Quiet
  <2>2. Net(active', a) = Net(active, a)
    BY <1>2, <1>3, NetSame
  <2>3. balance[a] = LegSum(a)
    BY <2>1 DEF BalancesKept, UncontendedBalance, Quiet
  <2> QED
    BY <2>1, <2>2, <2>3, LegSumIsNet
<1>4. UncontendedBalance'
  <2>1. \A a \in Account : Quiet(a)' => balance'[a] = LegSum(a)'
    BY <1>3, LegSumIsNet
  <2> QED
    BY <1>2, <2>1 DEF UncontendedBalance, Quiet
<1> QED
  BY <1>1, <1>4 DEF BalancesKept

\* Sessions that go on or end are as apart as they were.
LEMMA StillApart ==
  ASSUME Apart, NEW s \in Session, \A t \in Session \ {s} : job'[t] = job[t],
         Open(s)' => Open(s) /\ job'[s].about = job[s].about,
         contended \subseteq contended'
  PROVE  Apart'
<1> SUFFICES ASSUME NEW t \in Session, NEW u \in Session, Open(t)', Open(u)', t # u
             PROVE  job'[t].about \cap job'[u].about \subseteq contended'
  BY DEF Apart
<1>1. Open(t) /\ Open(u) /\ job'[t].about = job[t].about /\ job'[u].about = job[u].about
  BY DEF Open
<1> QED
  BY <1>1 DEF Apart

\* A session that ends without a commit leaves the balances as they are.
LEMMA FailedBalances ==
  ASSUME BalancesKept, Ownership, NEW s \in Session, End(s, "failed"),
         UNCHANGED <<balance, live, active, used>>
  PROVE  BalancesKept'
<1>1. ~Open(s)' /\ contended' = contended
  BY EndStep DEF Ownership, End
<1>2. \A t \in Session \ {s} : job'[t] = job[t]
  BY DEF End, Ownership, JobShape
<1>3. Apart' /\ CreateKnows(s)' /\ DeleteKnows(s)'
  BY <1>1, <1>2, StillApart DEF BalancesKept, CreateKnows, DeleteKnows, Doing, Open
<1>4. \A a \in Account : Quiet(a)' => balance'[a] = Net(active', a)
  BY <1>1, LegSumIsNet DEF BalancesKept, UncontendedBalance, Quiet
<1>5. active \subseteq Leg
  BY PairIsLegsOf DEF Ownership
<1> QED
  BY <1>1, <1>2, <1>3, <1>4, <1>5, KeptByStep

\* A request that begins makes the accounts it shares contended.
LEMMA StartBalances ==
  ASSUME BalancesKept, Ownership, NEW s \in Session, NEW kind, NEW about, NEW todo,
         NEW legs, Start(s, kind, about, todo, legs),
         UNCHANGED <<balance, live, active>>, about \subseteq Account,
         CreateKnows(s)', DeleteKnows(s)'
  PROVE  BalancesKept'
<1>1. /\ job'[s].about = about /\ ~Open(s)
      /\ \A t \in Session \ {s} : job'[t] = job[t]
      /\ contended' = contended \cup
           {a \in about : \E t \in Session : Open(t) /\ a \in job[t].about}
  BY StartStep DEF Ownership, Start, Open
<1>2. Apart'
  <2> SUFFICES ASSUME NEW t \in Session, NEW u \in Session, Open(t)', Open(u)', t # u,
                      NEW a \in job'[t].about \cap job'[u].about
               PROVE  a \in contended'
    BY DEF Apart
  <2>1. CASE t # s /\ u # s
    <3>1. Open(t) /\ Open(u) /\ a \in job[t].about \cap job[u].about
      BY <1>1, <2>1 DEF Open
    <3> QED
      BY <1>1, <3>1 DEF BalancesKept, Apart
  <2>2. CASE t = s
    <3>1. Open(u) /\ a \in job[u].about /\ a \in about
      BY <1>1, <2>2 DEF Open
    <3> QED
      BY <1>1, <3>1
  <2>3. CASE u = s
    <3>1. Open(t) /\ a \in job[t].about /\ a \in about
      BY <1>1, <2>3 DEF Open
    <3> QED
      BY <1>1, <3>1
  <2> QED
    BY <2>1, <2>2, <2>3
<1>3. active \subseteq Leg
  BY PairIsLegsOf DEF Ownership
<1> QED
  BY <1>1, <1>2, <1>3, KeptByStep

\* A request that begins knows nothing yet, or which legs are active.
LEMMA BeginBalances ==
  ASSUME BalancesKept, Ownership, NEW s \in Session, Begin(s)
  PROVE  BalancesKept'
<1>1. PICK e : /\ Idle = [kind |-> "none", status |-> "idle", about |-> {}, todo |-> <<>>,
                          want |-> {}, loaded |-> e, legs |-> {}]
               /\ DOMAIN e = {} /\ e \in [{} -> Int]
  BY IdleShape
<1>2. ASSUME NEW kind, NEW about, NEW todo, NEW legs, Start(s, kind, about, todo, legs)
      PROVE  /\ job'[s].kind = kind /\ job'[s].about = about /\ job'[s].todo = todo
             /\ job'[s].legs = legs /\ job'[s].loaded = e
  <2>1. job' = [job EXCEPT ![s] =
                 [Idle EXCEPT !.kind = kind, !.status = "open", !.about = about,
                              !.todo = todo, !.legs = legs]]
    BY <1>2 DEF Start
  <2> QED
    BY <1>1, <2>1 DEF Ownership, JobShape
<1>3. ASSUME NEW x \in Transfer, BeginCreate(s, x)
      PROVE  BalancesKept'
  <2>1. Start(s, "create", {From[x], To[x]}, <<From[x], To[x]>>, Pair(x))
        /\ UNCHANGED <<balance, live, active>>
    BY <1>3 DEF BeginCreate, Pair
  <2>2. /\ job'[s].kind = "create" /\ job'[s].about = {From[x], To[x]}
        /\ job'[s].todo = <<From[x], To[x]>>
        /\ job'[s].legs = Pair(x) /\ job'[s].loaded = e
    BY <1>2, <2>1
  <2>3. CreateKnows(s)' /\ DeleteKnows(s)'
    BY <1>1, <2>2 DEF CreateKnows, DeleteKnows, Doing
  <2> QED
    BY <2>1, <2>3, StartBalances, SessionsAssumption
<1>4. ASSUME NEW x \in Transfer, BeginDelete(s, x)
      PROVE  BalancesKept'
  <2> DEFINE legs == {Debit(x), Credit(x)} \cap active
  <2>1. PICK order \in {<<Debit(x), Credit(x)>>, <<Credit(x), Debit(x)>>,
                        <<Debit(x)>>, <<Credit(x)>>} :
          /\ {order[i] : i \in DOMAIN order} = legs
          /\ Start(s, "delete", {From[x], To[x]}, order, legs)
    BY <1>4 DEF BeginDelete
  <2>2. UNCHANGED <<balance, live, active>> /\ legs \subseteq Pair(x) /\ legs \subseteq active
    BY <1>4 DEF BeginDelete, Pair
  <2>3. /\ \/ \E m \in legs : order = <<m>>
           \/ \E m, k \in legs : order = <<m, k>>
        /\ \A l \in legs : order = <<l>> \/ \E m \in legs : order \in {<<l, m>>, <<m, l>>}
    <3>1. CASE order \in {<<Debit(x)>>, <<Credit(x)>>}
      <4>1. PICK m : order = <<m>>
        BY <3>1
      <4>2. {order[i] : i \in DOMAIN order} = {m}
        BY <4>1
      <4> QED
        BY <2>1, <4>1, <4>2
    <3>2. CASE order \in {<<Debit(x), Credit(x)>>, <<Credit(x), Debit(x)>>}
      <4>1. PICK m, k : order = <<m, k>>
        BY <3>2
      <4>2. {order[i] : i \in DOMAIN order} = {m, k}
        BY <4>1
      <4>3. legs = {m, k}
        BY <2>1, <4>2
      <4> HIDE DEF legs
      <4> QED
        BY <4>1, <4>3
    <3> QED
      BY <3>1, <3>2
  <2> HIDE DEF legs
  <2>4. /\ job'[s].kind = "delete" /\ job'[s].about = {From[x], To[x]}
        /\ job'[s].todo = order
        /\ job'[s].legs = legs /\ job'[s].loaded = e
    BY <1>2, <2>1
  <2>5. CreateKnows(s)'
    BY <2>4 DEF CreateKnows, Doing
  <2>6. DeleteKnows(s)'
    <3>1. /\ job'[s].legs \subseteq Pair(x) /\ DOMAIN job'[s].loaded = {}
          /\ \/ \E m \in job'[s].legs : job'[s].todo = <<m>>
             \/ \E m, k \in job'[s].legs : job'[s].todo = <<m, k>>
          /\ \A l \in job'[s].legs :
               /\ \/ job'[s].todo = <<l>>
                  \/ \E m \in job'[s].legs : job'[s].todo \in {<<l, m>>, <<m, l>>}
               /\ l \in active'
      BY <1>1, <2>2, <2>3, <2>4
    <3> QED
      BY <2>4, <3>1 DEF DeleteKnows
  <2> QED
    BY <2>1, <2>2, <2>5, <2>6, StartBalances, SessionsAssumption
<1>5. ASSUME NEW a \in Account, BeginClose(s, a)
      PROVE  BalancesKept'
  <2>1. Start(s, "close", {a}, <<a>>, {}) /\ UNCHANGED <<balance, live, active>>
    BY <1>5 DEF BeginClose
  <2>2. CreateKnows(s)' /\ DeleteKnows(s)'
    BY <1>2, <2>1 DEF CreateKnows, DeleteKnows, Doing
  <2> QED
    BY <2>1, <2>2, StartBalances
<1> QED
  BY <1>3, <1>4, <1>5 DEF Begin

\* A session that works on, with nothing committed.
LEMMA WorkBalances ==
  ASSUME BalancesKept, Ownership, NEW s \in Session, Open(s),
         \A t \in Session \ {s} : job'[t] = job[t],
         job'[s].about = job[s].about,
         UNCHANGED <<balance, live, active, contended>>,
         CreateKnows(s)', DeleteKnows(s)'
  PROVE  BalancesKept'
<1>1. Apart'
  BY StillApart DEF BalancesKept
<1>2. \A a \in Account : Quiet(a)' => balance'[a] = Net(active', a)
  BY LegSumIsNet DEF BalancesKept, UncontendedBalance, Quiet
<1>3. active \subseteq Leg
  BY PairIsLegsOf DEF Ownership
<1> QED
  BY <1>1, <1>2, <1>3, KeptByStep

\* An account loaded, uncontended so far: the balance read is the one the
\* other requests leave.
LEMMA LoadForCreateBalances ==
  ASSUME BalancesKept, Ownership, NEW s \in Session, LoadForCreate(s)
  PROVE  BalancesKept'
<1> DEFINE a == Head(job[s].todo)
           loaded == [b \in DOMAIN job[s].loaded \cup {a} |->
                        IF b = a THEN balance[a] + Effect(LegOn(s, a)) ELSE job[s].loaded[b]]
           want == IF Tail(job[s].todo) = <<>>
                     THEN {AccountRow(b) : b \in job[s].about} ELSE {}
<1>1. Doing(s, "create") /\ job[s].todo # <<>> /\ UNCHANGED <<balance, live, active, used>>
  BY DEF LoadForCreate, Doing
<1>2. CASE a \notin live
  BY <1>1, <1>2, FailedBalances DEF LoadForCreate
<1>3. CASE a \in live
  <2>1. /\ job' = [job EXCEPT ![s].todo = Tail(job[s].todo), ![s].loaded = loaded,
                              ![s].want = want]
        /\ UNCHANGED <<lock, contended>>
    BY <1>3 DEF LoadForCreate
  <2>2. PICK x \in Transfer :
          /\ job[s].legs = Pair(x) /\ job[s].about = {From[x], To[x]}
          /\ DOMAIN job[s].loaded \subseteq {From[x], To[x]}
          /\ \/ job[s].todo = <<From[x], To[x]>>
             \/ job[s].todo = <<To[x]>> /\ From[x] \in DOMAIN job[s].loaded
             \/ job[s].todo = <<>> /\ {From[x], To[x]} \subseteq DOMAIN job[s].loaded
          /\ \A l \in Pair(x) :
               AccountOf[l] \in DOMAIN job[s].loaded /\ Quiet(AccountOf[l]) =>
                 job[s].loaded[AccountOf[l]] = balance[AccountOf[l]] + Effect(l)
    BY <1>1 DEF BalancesKept, CreateKnows
  <2>3. \/ a = From[x] /\ Tail(job[s].todo) = <<To[x]>>
        \/ a = To[x] /\ Tail(job[s].todo) = <<>> /\ From[x] \in DOMAIN job[s].loaded
    <3>1. CASE job[s].todo = <<From[x], To[x]>>
      BY <3>1, Shorter
    <3>2. CASE job[s].todo = <<To[x]>> /\ From[x] \in DOMAIN job[s].loaded
      BY <3>2, Shorter
    <3> QED
      BY <1>1, <2>2, <3>1, <3>2
  <2>4. \A l \in Pair(x) : AccountOf[l] = a => LegOn(s, a) = l
    BY <2>2, LegsShareNothing, SessionsAssumption DEF LegOn, Pair
  <2>5. /\ DOMAIN loaded = DOMAIN job[s].loaded \cup {a}
        /\ \A l \in Pair(x) : AccountOf[l] = a => loaded[a] = balance[a] + Effect(l)
        /\ \A b \in DOMAIN job[s].loaded : b # a => loaded[b] = job[s].loaded[b]
    BY <2>4
  <2> HIDE DEF a, loaded, want
  <2>6. /\ job'[s].kind = job[s].kind
        /\ job'[s].legs = job[s].legs /\ job'[s].about = job[s].about
        /\ job'[s].loaded = loaded /\ job'[s].todo = Tail(job[s].todo)
        /\ \A t \in Session \ {s} : job'[t] = job[t]
    BY <2>1 DEF Ownership, JobShape
  <2>7. \A l \in Pair(x) :
          AccountOf[l] \in DOMAIN loaded /\ Quiet(AccountOf[l]) =>
            loaded[AccountOf[l]] = balance[AccountOf[l]] + Effect(l)
    BY <2>2, <2>5
  <2>8. DOMAIN loaded \subseteq {From[x], To[x]}
        /\ \/ Tail(job[s].todo) = <<To[x]>> /\ From[x] \in DOMAIN loaded
           \/ Tail(job[s].todo) = <<>> /\ {From[x], To[x]} \subseteq DOMAIN loaded
    BY <2>2, <2>3, <2>5
  <2>9. CreateKnows(s)'
    BY <1>1, <2>1, <2>2, <2>6, <2>7, <2>8 DEF CreateKnows, Quiet
  <2>10. DeleteKnows(s)'
    BY <1>1, <2>6 DEF DeleteKnows, Doing
  <2> QED
    BY <1>1, <2>1, <2>6, <2>9, <2>10, WorkBalances DEF Doing
<1> QED
  BY <1>2, <1>3

\* The account of a leg loaded: the leg is still active unless it is contended.
LEMMA LoadForDeleteBalances ==
  ASSUME BalancesKept, Ownership, NEW s \in Session, LoadForDelete(s)
  PROVE  BalancesKept'
<1> DEFINE l == Head(job[s].todo)
           a == AccountOf[l]
           loaded == [b \in DOMAIN job[s].loaded \cup {a} |->
                        IF b = a THEN balance[a] - Effect(l) ELSE job[s].loaded[b]]
<1>1. /\ Doing(s, "delete") /\ job[s].todo # <<>>
      /\ UNCHANGED <<balance, live, active, used, lock, contended>>
      /\ job' = [job EXCEPT ![s].todo = Tail(job[s].todo), ![s].loaded = loaded,
                            ![s].want = {AccountRow(a), LegRow(l)}]
  BY DEF LoadForDelete, Doing
<1>2. PICK x \in Transfer :
        /\ job[s].legs \subseteq Pair(x) /\ job[s].about = {From[x], To[x]}
        /\ \A b \in DOMAIN job[s].loaded : \E k \in job[s].legs : AccountOf[k] = b
        /\ \/ job[s].todo = <<>>
           \/ \E m \in job[s].legs : job[s].todo = <<m>>
           \/ \E m, k \in job[s].legs : job[s].todo = <<m, k>>
        /\ \A k \in job[s].legs :
             /\ \/ AccountOf[k] \in DOMAIN job[s].loaded
                \/ job[s].todo = <<k>>
                \/ \E m \in job[s].legs : job[s].todo \in {<<k, m>>, <<m, k>>}
             /\ Quiet(AccountOf[k]) => k \in active
             /\ AccountOf[k] \in DOMAIN job[s].loaded /\ Quiet(AccountOf[k]) =>
                  job[s].loaded[AccountOf[k]] = balance[AccountOf[k]] - Effect(k)
  BY <1>1 DEF BalancesKept, DeleteKnows
<1>3. /\ l \in job[s].legs
      /\ Tail(job[s].todo) = <<>> \/ \E m \in job[s].legs : Tail(job[s].todo) = <<m>>
      /\ \A k \in job[s].legs :
           AccountOf[k] \in DOMAIN job[s].loaded \/ k = l \/ Tail(job[s].todo) = <<k>>
  <2>1. ASSUME NEW m \in job[s].legs, job[s].todo = <<m>>
        PROVE  /\ Head(job[s].todo) = m /\ Tail(job[s].todo) = <<>>
               /\ \A k, n : job[s].todo \notin {<<k, n>>}
               /\ \A k : job[s].todo = <<k>> => k = m
    BY <2>1, Shorter
  <2>2. ASSUME NEW m \in job[s].legs, NEW k \in job[s].legs, job[s].todo = <<m, k>>
        PROVE  /\ Head(job[s].todo) = m /\ Tail(job[s].todo) = <<k>>
               /\ \A n, o : job[s].todo = <<n, o>> => n = m /\ o = k
               /\ \A n : job[s].todo # <<n>>
    BY <2>2, Shorter
  <2> HIDE DEF a, loaded
  <2>3. CASE \E m \in job[s].legs : job[s].todo = <<m>>
    BY <1>2, <2>1, <2>3
  <2>4. CASE \E m, k \in job[s].legs : job[s].todo = <<m, k>>
    BY <1>2, <2>2, <2>4
  <2> QED
    BY <1>1, <1>2, <2>3, <2>4
<1>4. \A k \in job[s].legs : AccountOf[k] = a => k = l
  BY <1>2, <1>3, LegsShareNothing, SessionsAssumption DEF Pair
<1>5. /\ DOMAIN loaded = DOMAIN job[s].loaded \cup {a}
      /\ loaded[a] = balance[a] - Effect(l)
      /\ \A b \in DOMAIN job[s].loaded : b # a => loaded[b] = job[s].loaded[b]
      /\ a = AccountOf[l]
  OBVIOUS
<1> HIDE DEF l, a, loaded
<1>6. /\ job'[s].kind = job[s].kind
      /\ job'[s].legs = job[s].legs /\ job'[s].about = job[s].about
      /\ job'[s].loaded = loaded /\ job'[s].todo = Tail(job[s].todo)
      /\ \A t \in Session \ {s} : job'[t] = job[t]
  BY <1>1 DEF Ownership, JobShape
<1>7. \A k \in job[s].legs :
        /\ AccountOf[k] \in DOMAIN loaded \/ Tail(job[s].todo) = <<k>>
        /\ AccountOf[k] \in DOMAIN loaded /\ Quiet(AccountOf[k]) =>
             loaded[AccountOf[k]] = balance[AccountOf[k]] - Effect(k)
  BY <1>2, <1>3, <1>4, <1>5
<1>8. \A b \in DOMAIN loaded : \E k \in job[s].legs : AccountOf[k] = b
  BY <1>2, <1>3, <1>5
<1>9. DeleteKnows(s)'
  BY <1>1, <1>2, <1>3, <1>6, <1>7, <1>8 DEF DeleteKnows, Quiet
<1>10. CreateKnows(s)'
  BY <1>1, <1>6 DEF CreateKnows, Doing
<1> QED
  BY <1>1, <1>6, <1>9, <1>10, WorkBalances DEF Doing

\* A row updated, and the legs of a closing found, change nothing committed.
LEMMA UncommittedBalances ==
  ASSUME BalancesKept, Ownership, NEW s \in Session, WriteRow(s) \/ SelectForClose(s)
  PROVE  BalancesKept'
<1>1. CASE WriteRow(s)
  <2>1. PICK r : job' = [job EXCEPT ![s].want = @ \ {r}]
    BY <1>1 DEF WriteRow
  <2>2. /\ job'[s].kind = job[s].kind /\ job'[s].status = job[s].status
        /\ job'[s].legs = job[s].legs /\ job'[s].about = job[s].about
        /\ job'[s].loaded = job[s].loaded /\ job'[s].todo = job[s].todo
        /\ \A t \in Session \ {s} : job'[t] = job[t]
    BY <2>1 DEF Ownership, JobShape
  <2>3. Open(s) /\ UNCHANGED <<balance, live, active, contended>>
    BY <1>1 DEF WriteRow
  <2>4. CreateKnows(s)'
    BY <2>2, <2>3 DEF BalancesKept, CreateKnows, Doing, Open, Quiet
  <2>5. DeleteKnows(s)'
    <3>1. DeleteKnows(s)
      BY DEF BalancesKept
    <3>2. /\ Doing(s, "delete")' = Doing(s, "delete")
          /\ \A a : Quiet(a)' = Quiet(a)
      BY <2>2, <2>3 DEF Doing, Open, Quiet
    <3> QED
      BY <2>2, <2>3, <3>1, <3>2 DEF DeleteKnows
  <2> QED
    BY <2>2, <2>3, <2>4, <2>5, WorkBalances
<1>2. CASE SelectForClose(s)
  <2>1. PICK legs, want : job' = [job EXCEPT ![s].todo = <<>>, ![s].legs = legs,
                                             ![s].want = want]
    BY <1>2 DEF SelectForClose
  <2>2. /\ job'[s].kind = job[s].kind /\ job'[s].about = job[s].about
        /\ \A t \in Session \ {s} : job'[t] = job[t]
    BY <2>1 DEF Ownership, JobShape
  <2>3. Doing(s, "close") /\ UNCHANGED <<balance, live, active, contended>>
    BY <1>2 DEF SelectForClose, Doing
  <2> QED
    BY <2>2, <2>3, WorkBalances DEF CreateKnows, DeleteKnows, Doing
<1> QED
  BY <1>1, <1>2

\* The commit of a creation: what it writes back is the sum with its two legs.
LEMMA CommitCreateBalances ==
  ASSUME BalancesKept, LocksTyped, Ownership, NEW s \in Session, CommitCreate(s)
  PROVE  BalancesKept'
<1>1. /\ Doing(s, "create") /\ job[s].todo = <<>> /\ End(s, "done")
      /\ live' = live /\ balance' = Overwritten(s) /\ active' = active \cup job[s].legs
  BY DEF CommitCreate, Finished, Doing
<1>2. PICK x \in Transfer :
        /\ job[s].legs = Pair(x) /\ job[s].about = {From[x], To[x]}
        /\ DOMAIN job[s].loaded \subseteq {From[x], To[x]}
        /\ {From[x], To[x]} \subseteq DOMAIN job[s].loaded
        /\ \A l \in Pair(x) :
             AccountOf[l] \in DOMAIN job[s].loaded /\ Quiet(AccountOf[l]) =>
               job[s].loaded[AccountOf[l]] = balance[AccountOf[l]] + Effect(l)
  <2>1. PICK x \in Transfer :
          /\ job[s].legs = Pair(x) /\ job[s].about = {From[x], To[x]}
          /\ DOMAIN job[s].loaded \subseteq {From[x], To[x]}
          /\ \/ job[s].todo = <<From[x], To[x]>>
             \/ job[s].todo = <<To[x]>> /\ From[x] \in DOMAIN job[s].loaded
             \/ job[s].todo = <<>> /\ {From[x], To[x]} \subseteq DOMAIN job[s].loaded
          /\ \A l \in Pair(x) :
               AccountOf[l] \in DOMAIN job[s].loaded /\ Quiet(AccountOf[l]) =>
                 job[s].loaded[AccountOf[l]] = balance[AccountOf[l]] + Effect(l)
    BY <1>1 DEF BalancesKept, CreateKnows
  <2>2. <<>> # <<From[x], To[x]>> /\ <<>> # <<To[x]>>
    OBVIOUS
  <2> QED
    BY <1>1, <2>1, <2>2
<1>3. active \cap Pair(x) = {}
  BY <1>1, <1>2 DEF Ownership, CreatesOwn
<1>4. /\ ~Open(s)' /\ contended' = contended
      /\ \A t \in Session \ {s} : job'[t] = job[t]
  BY <1>1, EndStep DEF End, Ownership, JobShape
<1>5. /\ active \subseteq Leg /\ Pair(x) \subseteq Leg /\ From[x] # To[x]
      /\ AccountOf[Debit(x)] = From[x] /\ AccountOf[Credit(x)] = To[x]
      /\ Pair(x) = {Debit(x), Credit(x)} /\ {From[x], To[x]} \subseteq Account
  BY PairIsLegsOf, LegsShareNothing, SessionsAssumption DEF Ownership, Pair
<1>6. \A a \in Account :
        Quiet(a)' /\ ~(Open(s) /\ a \in job[s].about) =>
          /\ balance'[a] = balance[a]
          /\ \A l \in Leg : AccountOf[l] = a => (l \in active' <=> l \in active)
  <2> SUFFICES ASSUME NEW a \in Account, a \notin job[s].about
               PROVE  /\ balance'[a] = balance[a]
                      /\ \A l \in Leg : AccountOf[l] = a => (l \in active' <=> l \in active)
    BY <1>1 DEF Doing
  <2> QED
    BY <1>1, <1>2, <1>5 DEF Overwritten
<1>7. ASSUME NEW l \in Pair(x), Quiet(AccountOf[l])'
      PROVE  balance'[AccountOf[l]] = Net(active', AccountOf[l])
  <2> DEFINE a == AccountOf[l]
  <2>1. a \in Account /\ a \in DOMAIN job[s].loaded /\ Quiet(a) /\ l \in Leg \ active
    BY <1>1, <1>2, <1>3, <1>4, <1>5, <1>7 DEF Quiet
  <2>2. balance'[a] = balance[a] + Effect(l)
    BY <1>1, <1>2, <1>7, <2>1 DEF Overwritten
  <2>3. balance[a] = Net(active, a)
    BY <2>1, LegSumIsNet DEF BalancesKept, UncontendedBalance, Quiet
  <2>4. Net(active', a) = Net(active \cup {l}, a)
    <3>1. \A k \in active' \cup (active \cup {l}) :
            AccountOf[k] = a => (k \in active' <=> k \in active \cup {l})
      BY <1>1, <1>2, <1>5, <1>7
    <3> HIDE DEF a
    <3> QED
      BY <3>1, NetSame
  <2>5. Net(active \cup {l}, a) = Net(active, a) + Effect(l)
    BY <1>5, <2>1, NetMore
  <2> QED
    BY <2>2, <2>3, <2>4, <2>5
<1>8. \A a \in Account :
        Quiet(a)' /\ Open(s) /\ a \in job[s].about => balance'[a] = Net(active', a)
  BY <1>2, <1>5, <1>7
<1>9. active' \subseteq Leg
  BY <1>1, <1>2, <1>5
<1>10. Apart' /\ CreateKnows(s)' /\ DeleteKnows(s)'
  BY <1>4, StillApart DEF BalancesKept, CreateKnows, DeleteKnows, Doing, Open
<1> QED
  BY <1>1, <1>4, <1>6, <1>8, <1>9, <1>10, KeptByStep

\* The commit of a deletion: what it writes back is the sum without its legs.
LEMMA CommitDeleteBalances ==
  ASSUME BalancesKept, LocksTyped, Ownership, NEW s \in Session, CommitDelete(s)
  PROVE  BalancesKept'
<1>1. /\ Doing(s, "delete") /\ job[s].todo = <<>> /\ End(s, "done")
      /\ live' = live /\ balance' = Overwritten(s) /\ active' = active \ job[s].legs
  BY DEF CommitDelete, Finished, Doing
<1>2. PICK x \in Transfer :
        /\ job[s].legs \subseteq Pair(x) /\ job[s].about = {From[x], To[x]}
        /\ \A a \in DOMAIN job[s].loaded : \E l \in job[s].legs : AccountOf[l] = a
        /\ \A l \in job[s].legs :
             /\ AccountOf[l] \in DOMAIN job[s].loaded
             /\ Quiet(AccountOf[l]) => l \in active
             /\ AccountOf[l] \in DOMAIN job[s].loaded /\ Quiet(AccountOf[l]) =>
                  job[s].loaded[AccountOf[l]] = balance[AccountOf[l]] - Effect(l)
  <2>1. \A p, q : job[s].todo # <<p, q>> /\ job[s].todo # <<q>>
    BY <1>1
  <2> QED
    BY <1>1, <2>1 DEF BalancesKept, DeleteKnows
<1>3. /\ ~Open(s)' /\ contended' = contended
      /\ \A t \in Session \ {s} : job'[t] = job[t]
  BY <1>1, EndStep DEF End, Ownership, JobShape
<1>4. /\ active \subseteq Leg /\ Pair(x) \subseteq Leg /\ From[x] # To[x]
      /\ AccountOf[Debit(x)] = From[x] /\ AccountOf[Credit(x)] = To[x]
      /\ Pair(x) = {Debit(x), Credit(x)} /\ {From[x], To[x]} \subseteq Account
  BY PairIsLegsOf, LegsShareNothing, SessionsAssumption DEF Ownership, Pair
<1>5. ASSUME NEW a \in Account, \A l \in job[s].legs : AccountOf[l] # a
      PROVE  /\ balance'[a] = balance[a]
             /\ \A l \in Leg : AccountOf[l] = a => (l \in active' <=> l \in active)
  <2>1. a \notin DOMAIN job[s].loaded
    BY <1>2, <1>5
  <2> QED
    BY <1>1, <1>5, <2>1 DEF Overwritten
<1>6. ASSUME NEW l \in job[s].legs, Quiet(AccountOf[l])'
      PROVE  balance'[AccountOf[l]] = Net(active', AccountOf[l])
  <2> DEFINE a == AccountOf[l]
  <2>1. a \in Account /\ a \in DOMAIN job[s].loaded /\ Quiet(a) /\ l \in active
    BY <1>1, <1>2, <1>3, <1>4, <1>6 DEF Quiet
  <2>2. balance'[a] = balance[a] - Effect(l)
    BY <1>1, <1>2, <1>6, <2>1 DEF Overwritten
  <2>3. balance[a] = Net(active, a)
    BY <2>1, LegSumIsNet DEF BalancesKept, UncontendedBalance, Quiet
  <2>4. Net(active, a) = Net(active' \cup {l}, a)
    <3>1. \A k \in active \cup (active' \cup {l}) :
            AccountOf[k] = a => (k \in active <=> k \in active' \cup {l})
      BY <1>1, <1>2, <1>4, <1>6, <2>1
    <3> HIDE DEF a
    <3> QED
      BY <3>1, NetSame
  <2>5. /\ Net(active', a) \in Int
        /\ Net(active' \cup {l}, a) = Net(active', a) + Effect(l)
    <3>1. active' \in SUBSET Leg /\ l \in Leg \ active'
      BY <1>1, <1>4, <2>1
    <3> QED
      BY <3>1, NetMore
  <2>6. Effect(l) \in Int
    BY DEF Effect
  <2> HIDE DEF a
  <2> QED
    BY <2>2, <2>3, <2>4, <2>5, <2>6 DEF a
<1>7. \A a \in Account :
        Quiet(a)' /\ Open(s) /\ a \in job[s].about => balance'[a] = Net(active', a)
  <2> SUFFICES ASSUME NEW a \in Account, Quiet(a)' PROVE balance'[a] = Net(active', a)
    OBVIOUS
  <2>1. CASE \E l \in job[s].legs : AccountOf[l] = a
    BY <1>6, <2>1
  <2>2. CASE \A l \in job[s].legs : AccountOf[l] # a
    <3>1. Net(active', a) = Net(active, a)
      BY <1>1, <1>4, <1>5, <2>2, NetSame
    <3>2. balance[a] = Net(active, a)
      BY <1>1, <1>3, LegSumIsNet DEF BalancesKept, UncontendedBalance, Quiet
    <3> QED
      BY <1>5, <2>2, <3>1, <3>2
  <2> QED
    BY <2>1, <2>2
<1>8. \A a \in Account :
        Quiet(a)' /\ ~(Open(s) /\ a \in job[s].about) =>
          /\ balance'[a] = balance[a]
          /\ \A l \in Leg : AccountOf[l] = a => (l \in active' <=> l \in active)
  <2> SUFFICES ASSUME NEW a \in Account, a \notin job[s].about
               PROVE  /\ balance'[a] = balance[a]
                      /\ \A l \in Leg : AccountOf[l] = a => (l \in active' <=> l \in active)
    BY <1>1 DEF Doing
  <2>1. \A l \in job[s].legs : AccountOf[l] # a
    BY <1>2, <1>4
  <2> QED
    BY <1>5, <2>1
<1>9. active' \subseteq Leg
  BY <1>1, <1>4
<1>10. Apart' /\ CreateKnows(s)' /\ DeleteKnows(s)'
  BY <1>3, StillApart DEF BalancesKept, CreateKnows, DeleteKnows, Doing, Open
<1> QED
  BY <1>1, <1>3, <1>7, <1>8, <1>9, <1>10, KeptByStep

\* The commit of a closing: the account whose legs it takes is live no more.
LEMMA CommitCloseBalances ==
  ASSUME BalancesKept, Ownership, NEW s \in Session, CommitClose(s)
  PROVE  BalancesKept'
<1>1. /\ Doing(s, "close") /\ End(s, "done") /\ live' = live \ job[s].about
      /\ balance' = balance /\ active' = active \ job[s].legs
  BY DEF CommitClose, Finished, Doing
<1>2. PICK c \in Account :
        job[s].about = {c} /\ \A l \in job[s].legs : l \in Leg /\ AccountOf[l] = c
  BY <1>1 DEF Ownership, ClosesStay
<1>3. /\ ~Open(s)' /\ contended' = contended
      /\ \A t \in Session \ {s} : job'[t] = job[t]
  BY <1>1, EndStep DEF End, Ownership, JobShape
<1>4. active' \subseteq Leg
  BY <1>1, PairIsLegsOf DEF Ownership
<1>5. Apart' /\ CreateKnows(s)' /\ DeleteKnows(s)'
  BY <1>3, StillApart DEF BalancesKept, CreateKnows, DeleteKnows, Doing, Open
<1>6. \A a \in Account :
        Quiet(a)' /\ ~(Open(s) /\ a \in job[s].about) =>
          /\ balance'[a] = balance[a]
          /\ \A l \in Leg : AccountOf[l] = a => (l \in active' <=> l \in active)
  BY <1>1, <1>2 DEF Doing
<1>7. \A a \in Account : ~(Quiet(a)' /\ Open(s) /\ a \in job[s].about)
  BY <1>1 DEF Quiet
<1> QED
  BY <1>1, <1>3, <1>4, <1>5, <1>6, <1>7, KeptByStep

\* Every step.
LEMMA BalancesStep ==
  ASSUME BalancesKept, LocksTyped, Ownership, [Next]_vars
  PROVE  BalancesKept'
<1>1. CASE UNCHANGED vars
  <2>1. UNCHANGED <<balance, live, active, job, contended>>
    BY <1>1 DEF vars
  <2>2. Apart' /\ UncontendedBalance'
    BY <2>1 DEF BalancesKept, Apart, UncontendedBalance, LegSum, Open
  <2>3. ASSUME NEW s \in Session
        PROVE  CreateKnows(s)' /\ DeleteKnows(s)'
    <3>1. CreateKnows(s)'
      BY <2>1 DEF BalancesKept, CreateKnows, Quiet, Doing, Open
    <3>2. DeleteKnows(s)'
      BY <2>1 DEF BalancesKept, DeleteKnows, Quiet, Doing, Open
    <3> QED
      BY <3>1, <3>2
  <2> QED
    BY <2>2, <2>3 DEF BalancesKept
<1>2. ASSUME NEW s \in Session, Begin(s) \/ Step(s) \/ Crash(s)
      PROVE  BalancesKept'
  <2>1. CASE Begin(s)
    BY <2>1, BeginBalances
  <2>2. CASE LoadForCreate(s) \/ LoadForDelete(s)
    BY <2>2, LoadForCreateBalances, LoadForDeleteBalances
  <2>3. CASE SelectForClose(s) \/ WriteRow(s)
    BY <2>3, UncommittedBalances
  <2>4. CASE CommitCreate(s) \/ CommitDelete(s) \/ CommitClose(s)
    BY <2>4, CommitCreateBalances, CommitDeleteBalances, CommitCloseBalances
  <2>5. CASE AbortDeadlocked(s) \/ Crash(s)
    BY <2>5, FailedBalances DEF AbortDeadlocked, Crash
  <2> QED
    BY <1>2, <2>1, <2>2, <2>3, <2>4, <2>5 DEF Step
<1> QED
  BY <1>1, <1>2 DEF Next

\* The books before the first request balance.
LEMMA BalancesInit == Init => BalancesKept
<1> SUFFICES ASSUME Init PROVE BalancesKept
  OBVIOUS
<1>1. \A s \in Session : ~Open(s)
  <2>1. Idle.status = "idle"
    BY IdleShape
  <2> QED
    BY <2>1 DEF Init, Open
<1>2. Apart /\ \A s \in Session : CreateKnows(s) /\ DeleteKnows(s)
  BY <1>1 DEF Apart, CreateKnows, DeleteKnows, Doing
<1>3. ASSUME NEW a \in Account
      PROVE  balance[a] = LegSum(a)
  <2> DEFINE inn == {x \in used : To[x] = a}
             out == {x \in used : From[x] = a}
  <2>1. used \subseteq Transfer /\ active = {l \in Leg : TransferOf[l] \in used}
    BY DEF Init
  <2>2. ASSUME NEW x \in Transfer
        PROVE  /\ Debit(x) \in Leg /\ Credit(x) \in Leg
               /\ TransferOf[Debit(x)] = x /\ TransferOf[Credit(x)] = x
               /\ AccountOf[Debit(x)] = From[x] /\ AccountOf[Credit(x)] = To[x]
               /\ Effect(Debit(x)) = -1 /\ Effect(Credit(x)) = 1
    <3>1. x \in Nat
      BY SessionsAssumption
    <3>2. (2 * x) \div 2 = x /\ (2 * x + 1) \div 2 = x
          /\ (2 * x) % 2 = 0 /\ (2 * x + 1) % 2 = 1
      BY <3>1
    <3> QED
      BY <3>2, LegsShareNothing DEF TransferOf, Effect, Debit, Credit
  <2>3. \A l \in Leg : \E x \in Transfer : l = Debit(x) \/ l = Credit(x)
    BY DEF Leg
  <2>4. {l \in active : AccountOf[l] = a /\ Effect(l) = 1} = {Credit(x) : x \in inn}
    <3>1. ASSUME NEW l \in active, AccountOf[l] = a, Effect(l) = 1
          PROVE  l \in {Credit(x) : x \in inn}
      BY <2>1, <2>2, <2>3, <3>1
    <3>2. ASSUME NEW x \in inn
          PROVE  Credit(x) \in active /\ AccountOf[Credit(x)] = a /\ Effect(Credit(x)) = 1
      BY <2>1, <2>2
    <3> QED
      BY <3>1, <3>2
  <2>5. {l \in active : AccountOf[l] = a /\ Effect(l) = -1} = {Debit(x) : x \in out}
    <3>1. ASSUME NEW l \in active, AccountOf[l] = a, Effect(l) = -1
          PROVE  l \in {Debit(x) : x \in out}
      BY <2>1, <2>2, <2>3, <3>1
    <3>2. ASSUME NEW x \in out
          PROVE  Debit(x) \in active /\ AccountOf[Debit(x)] = a /\ Effect(Debit(x)) = -1
      BY <2>1, <2>2
    <3> QED
      BY <3>1, <3>2
  <2>6. inn \in SUBSET Transfer /\ out \in SUBSET Transfer
    BY <2>1
  <2>7. balance[a] = Cardinality(inn) - Cardinality(out)
    BY DEF Init
  <2> HIDE DEF inn, out
  <2>8. /\ Cardinality({Credit(x) : x \in inn}) = Cardinality(inn)
        /\ Cardinality({Debit(x) : x \in out}) = Cardinality(out)
    BY <2>6, LegsOfEach
  <2> QED
    BY <2>4, <2>5, <2>7, <2>8 DEF LegSum
<1>4. live = Account
  BY DEF Init
<1> QED
  BY <1>2, <1>3, <1>4 DEF BalancesKept, UncontendedBalance

\* Whatever requests overlap, fail or crash in the middle of a flush, a live
\* account that no two of them were about at one time has the balance its active
\* legs add up to (create_transfer, delete_transfer, soft_delete_account), for
\* any number of sessions, accounts and transfers.
THEOREM SessionsKeepBalances == Spec => []UncontendedBalance
<1>1. Init => Ownership /\ LocksTyped /\ BalancesKept
  BY SessionsInit, LocksInit, BalancesInit
<1>2. Ownership /\ LocksTyped /\ BalancesKept /\ [Next]_vars
        => (Ownership /\ LocksTyped /\ BalancesKept)'
  BY SessionStep, LocksStep, BalancesStep
<1>3. BalancesKept => UncontendedBalance
  BY DEF BalancesKept
<1> QED
  BY <1>1, <1>2, <1>3, PTL DEF Spec
=============================================================================
