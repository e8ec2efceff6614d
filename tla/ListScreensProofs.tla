------------------------- MODULE ListScreensProofs --------------------------
(***************************************************************************)
(* Proofs about the screens that MCListScreens checks, one section per     *)
(* module: the invariants of each, for every set of rows, plans, files and *)
(* persons and every number of requests, and what the sheets promise about *)
(* edits.  Each section starts with the inductive invariant and ends with  *)
(* its theorems.                                                           *)
(***************************************************************************)
EXTENDS BulkSelection, BulkPay, EntryForms, ImportWizard, PersonPicker, InstitutionPicker,
        FiniteSetTheorems, TLAPS

-----------------------------------------------------------------------------
(* Ticking rows and acting on them (BulkSelection) *)

Stage == {"sent", "done", "declined", "ok", "failed"}
Answered == {"ok", "failed"}
BulkState == [mode : BOOLEAN, selected : SUBSET Item, confirm : BOOLEAN]
BulkLog == [n : Nat, ticked : SUBSET Item, failed : SUBSET Item, again : SUBSET Nat]
BatchRequests == UNION {[R -> Stage] : R \in SUBSET SUBSET Item}
BulkBatch ==
  [n : Nat, command : {"delete", "categorize"}, last : SUBSET Item, requests : BatchRequests]

BatchSound(b) ==
  /\ b \in BulkBatch /\ b.n \in 1 .. bulk_log.n
  /\ b.last \in DOMAIN b.requests /\ IsFiniteSet(DOMAIN b.requests)

BulkTypes ==
  /\ bulk_page \in {"none"} \cup PerRow \cup Paged
  /\ rows \subseteq Item /\ listed \subseteq Item
  /\ view \in [page : {1, 2}, tab : {"first", "other"}]
  /\ bulk \in BulkState /\ bulk_log \in BulkLog
  /\ \A b \in batches : BatchSound(b)

\* The other tab is one of the debts page; rows that are ticked although the mode has
\* been left have failed.
ModeKept ==
  /\ view.tab = "other" => bulk_page = "debts" /\ ~bulk.mode
  /\ ~bulk.mode => bulk.selected \subseteq bulk_log.failed

\* Of all batches of a command but the newest, the last request has been answered.
LastAnswered ==
  \A b, c \in batches :
    b.command = c.command /\ b.n < c.n => b.requests[b.last] \in Answered

BulkInductive ==
  /\ BulkTypes /\ ModeKept /\ LastAnswered
  /\ SelectionIsExplained /\ SentAgainOnlyFromLongBatch

\* Batches are functions from sets of rows to the stages of their requests.
LEMMA RequestsAre ==
  /\ \A f \in BatchRequests : DOMAIN f \subseteq SUBSET Item /\ f \in [DOMAIN f -> Stage]
  /\ \A R \in SUBSET SUBSET Item : [R -> Stage] \subseteq BatchRequests
BY DEF BatchRequests

\* Before a list is opened the invariant of bulk selection holds.
LEMMA BulkInductiveInit == BulkInit => BulkInductive
<1> SUFFICES ASSUME BulkInit PROVE BulkInductive
  OBVIOUS
<1>1. BulkTypes
  BY DEF BulkInit, BulkTypes, BulkState, BulkLog, Idle
<1> QED
  BY <1>1 DEF BulkInit, BulkInductive, ModeKept, LastAnswered, SelectionIsExplained,
     SentAgainOnlyFromLongBatch, Idle

\* Steps of the page: whatever they do to selection and mode, they send nothing.
LEMMA PageStep ==
  ASSUME BulkInductive, UNCHANGED <<rows, batches>>,
         listed' \subseteq Item, bulk' \in BulkState,
         bulk_page' \in {"none"} \cup PerRow \cup Paged,
         view' \in [page : {1, 2}, tab : {"first", "other"}],
         bulk_log' \in BulkLog, bulk_log'.n = bulk_log.n, bulk_log'.again = bulk_log.again,
         ModeKept', SelectionIsExplained'
  PROVE  BulkInductive'
BY DEF BulkInductive, BulkTypes, BatchSound, LastAnswered, SentAgainOnlyFromLongBatch

\* Opening a list, turning a page and switching tabs keep it.
LEMMA ViewSteps ==
  ASSUME BulkInductive, (\E p \in PerRow \cup Paged : OpenList(p)) \/ TurnPage \/ SwitchTab
  PROVE  BulkInductive'
<1>1. /\ bulk \in BulkState /\ bulk_log \in BulkLog /\ ModeKept /\ SelectionIsExplained
      /\ listed \subseteq Item /\ view \in [page : {1, 2}, tab : {"first", "other"}]
      /\ bulk_page \in {"none"} \cup PerRow \cup Paged
  BY DEF BulkInductive, BulkTypes
<1>2. UNCHANGED <<rows, batches, listed, bulk_log>>
  BY DEF OpenList, TurnPage, SwitchTab
<1>3. ASSUME NEW p \in PerRow \cup Paged, OpenList(p) PROVE BulkInductive'
  <2>1. bulk_page = "none" /\ bulk_page' = p /\ UNCHANGED <<view, bulk>>
    BY <1>3 DEF OpenList
  <2>2. ModeKept' /\ SelectionIsExplained'
    BY <1>1, <1>2, <2>1 DEF ModeKept, SelectionIsExplained
  <2> QED
    BY <1>1, <1>2, <2>1, <2>2, PageStep
<1>4. CASE TurnPage
  <2>1. /\ view' = [view EXCEPT !.page = 3 - @] /\ UNCHANGED <<bulk_page, bulk>>
    BY <1>4 DEF TurnPage
  <2>2. view' \in [page : {1, 2}, tab : {"first", "other"}] /\ view'.tab = view.tab
    BY <1>1, <2>1
  <2>3. ModeKept' /\ SelectionIsExplained'
    BY <1>1, <1>2, <2>1, <2>2 DEF ModeKept, SelectionIsExplained
  <2> QED
    BY <1>1, <1>2, <2>1, <2>2, <2>3, PageStep
<1>5. CASE SwitchTab
  <2>1. /\ bulk_page = "debts" /\ UNCHANGED bulk_page
        /\ view' = [view EXCEPT !.tab = IF @ = "first" THEN "other" ELSE "first"]
        /\ bulk' = AfterTab(view'.tab)
    BY <1>5 DEF SwitchTab
  <2>2. view' \in [page : {1, 2}, tab : {"first", "other"}]
    BY <1>1, <2>1
  <2>3. CASE view'.tab = "other" /\ bulk.mode
    <3>1. bulk' = [bulk EXCEPT !.mode = FALSE, !.selected = {}]
      BY <2>1, <2>3 DEF AfterTab, AfterExit
    <3>2. bulk' \in BulkState /\ bulk'.mode = FALSE /\ bulk'.selected = {}
      BY <1>1, <3>1 DEF BulkState
    <3>3. ModeKept' /\ SelectionIsExplained'
      BY <2>1, <3>2 DEF ModeKept, SelectionIsExplained
    <3> QED
      BY <1>1, <1>2, <2>1, <2>2, <3>2, <3>3, PageStep
  <2>4. CASE ~(view'.tab = "other" /\ bulk.mode)
    <3>1. bulk' = bulk
      BY <2>1, <2>4 DEF AfterTab
    <3>2. ModeKept' /\ SelectionIsExplained'
      BY <1>1, <1>2, <2>1, <2>4, <3>1 DEF ModeKept, SelectionIsExplained
    <3> QED
      BY <1>1, <1>2, <2>1, <2>2, <3>1, <3>2, PageStep
  <2> QED
    BY <2>3, <2>4
<1> QED
  BY <1>3, <1>4, <1>5

\* Entering and leaving the mode, asking and dismissing keep it.
LEMMA ModeSteps ==
  ASSUME BulkInductive, EnterBulkMode \/ ExitBulkMode \/ AskBatch \/ DismissBatch
  PROVE  BulkInductive'
<1>1. /\ bulk \in BulkState /\ bulk_log \in BulkLog /\ ModeKept /\ SelectionIsExplained
      /\ listed \subseteq Item /\ view \in [page : {1, 2}, tab : {"first", "other"}]
      /\ bulk_page \in {"none"} \cup PerRow \cup Paged
  BY DEF BulkInductive, BulkTypes
<1>2. UNCHANGED <<bulk_page, rows, batches, listed, view>>
  BY DEF EnterBulkMode, ExitBulkMode, AskBatch, DismissBatch
<1>3. CASE EnterBulkMode
  <2>1. /\ ~bulk.mode /\ (bulk_page = "debts" => view.tab = "first")
        /\ bulk' = IF bulk_page = "transfers" THEN [Idle EXCEPT !.mode = TRUE]
                   ELSE [bulk EXCEPT !.mode = TRUE]
        /\ bulk_log' = [bulk_log EXCEPT !.ticked = {}]
    BY <1>3 DEF EnterBulkMode
  <2>2. /\ bulk_log' \in BulkLog /\ bulk_log'.n = bulk_log.n
        /\ bulk_log'.again = bulk_log.again /\ bulk_log'.failed = bulk_log.failed
    BY <1>1, <2>1 DEF BulkLog
  <2>3. bulk' \in BulkState /\ bulk'.mode = TRUE /\ bulk'.selected \subseteq bulk.selected
    <3>1. CASE bulk_page = "transfers"
      BY <2>1, <3>1 DEF Idle, BulkState
    <3>2. CASE bulk_page # "transfers"
      BY <1>1, <2>1, <3>2 DEF BulkState
    <3> QED
      BY <3>1, <3>2
  <2>4. ModeKept'
    BY <1>1, <1>2, <2>1, <2>3 DEF ModeKept
  <2>5. SelectionIsExplained'
    BY <1>1, <2>1, <2>2, <2>3 DEF ModeKept, SelectionIsExplained
  <2> QED
    BY <1>1, <1>2, <2>2, <2>3, <2>4, <2>5, PageStep
<1>4. CASE ExitBulkMode
  <2>1. bulk' = [bulk EXCEPT !.mode = FALSE, !.selected = {}] /\ UNCHANGED bulk_log
    BY <1>4 DEF ExitBulkMode, AfterExit
  <2>2. bulk' \in BulkState /\ bulk'.mode = FALSE /\ bulk'.selected = {}
    BY <1>1, <2>1 DEF BulkState
  <2>3. ModeKept' /\ SelectionIsExplained'
    BY <1>1, <1>2, <2>2 DEF ModeKept, SelectionIsExplained
  <2> QED
    BY <1>1, <1>2, <2>1, <2>2, <2>3, PageStep
<1>5. CASE AskBatch \/ DismissBatch
  <2>1. PICK x \in BOOLEAN : bulk' = [bulk EXCEPT !.confirm = x]
    BY <1>5 DEF AskBatch, DismissBatch
  <2>2. bulk' \in BulkState /\ bulk'.mode = bulk.mode /\ bulk'.selected = bulk.selected
    BY <1>1, <2>1 DEF BulkState
  <2>3. UNCHANGED bulk_log
    BY <1>5 DEF AskBatch, DismissBatch
  <2>4. ModeKept' /\ SelectionIsExplained'
    BY <1>1, <1>2, <2>2, <2>3 DEF ModeKept, SelectionIsExplained
  <2> QED
    BY <1>1, <1>2, <2>2, <2>3, <2>4, PageStep
<1> QED
  BY <1>3, <1>4, <1>5

\* Ticking one row, or all that are shown, keeps it.
LEMMA SelectSteps ==
  ASSUME BulkInductive, (\E i \in Item : ToggleSelect(i)) \/ SelectAllRows
  PROVE  BulkInductive'
<1>1. /\ bulk \in BulkState /\ bulk_log \in BulkLog /\ ModeKept /\ SelectionIsExplained
      /\ listed \subseteq Item /\ view \in [page : {1, 2}, tab : {"first", "other"}]
      /\ bulk_page \in {"none"} \cup PerRow \cup Paged
      /\ bulk.selected \subseteq Item /\ bulk_log.ticked \subseteq Item
  BY DEF BulkInductive, BulkTypes, BulkState, BulkLog
<1>2. PICK selected \in SUBSET Item : SelectRows(selected)
  <2>1. ASSUME NEW i \in Item, ToggleSelect(i)
        PROVE  \E s \in SUBSET Item : SelectRows(s)
    <3> DEFINE s == IF i \in bulk.selected THEN bulk.selected \ {i} ELSE bulk.selected \cup {i}
    <3>1. s \in SUBSET Item /\ SelectRows(s)
      BY <1>1, <2>1 DEF ToggleSelect
    <3> QED
      BY <3>1
  <2>2. ASSUME SelectAllRows PROVE \E s \in SUBSET Item : SelectRows(s)
    <3> DEFINE s == IF Visible \subseteq bulk.selected THEN {} ELSE Visible
    <3>1. s \in SUBSET Item /\ SelectRows(s)
      BY <1>1, <2>2 DEF SelectAllRows, Visible
    <3> QED
      BY <3>1
  <2> QED
    BY <2>1, <2>2
<1>3. /\ bulk.mode /\ bulk' = [bulk EXCEPT !.selected = selected]
      /\ bulk_log' = [bulk_log EXCEPT !.ticked = (@ \cup selected) \ (bulk.selected \ selected)]
      /\ UNCHANGED <<bulk_page, rows, listed, view, batches>>
  BY <1>2 DEF SelectRows
<1>4. bulk' \in BulkState /\ bulk'.mode = bulk.mode /\ bulk'.selected = selected
  BY <1>1, <1>3 DEF BulkState
<1>5. /\ bulk_log' \in BulkLog /\ bulk_log'.n = bulk_log.n
      /\ bulk_log'.again = bulk_log.again
      /\ bulk_log'.ticked = (bulk_log.ticked \cup selected) \ (bulk.selected \ selected)
  BY <1>1, <1>3 DEF BulkLog
<1>6. ModeKept'
  BY <1>1, <1>3, <1>4 DEF ModeKept
<1>7. SelectionIsExplained'
  BY <1>4, <1>5 DEF SelectionIsExplained
<1> QED
  BY <1>1, <1>3, <1>4, <1>5, <1>6, <1>7, PageStep

\* Rows deleted elsewhere, and a refetch that drops them, keep it.
LEMMA RowSteps ==
  ASSUME BulkInductive, (\E i \in Item : DeleteElsewhere(i)) \/ RefetchList
  PROVE  BulkInductive'
<1>1. /\ rows' \subseteq Item /\ listed' \subseteq Item
      /\ UNCHANGED <<bulk_page, view, bulk, batches, bulk_log>>
  BY DEF BulkInductive, BulkTypes, DeleteElsewhere, RefetchList
<1> QED
  BY <1>1 DEF BulkInductive, BulkTypes, BatchSound, ModeKept, LastAnswered,
     SelectionIsExplained, SentAgainOnlyFromLongBatch

-----------------------------------------------------------------------------

\* While a button works, the last request of every batch of its command is answered.
LEMMA NotBusy ==
  ASSUME BulkInductive, NEW command, ~Busy(command), NEW b \in batches, b.command = command
  PROVE  b.requests[b.last] \in Answered
<1>1. /\ b.requests[b.last] \in Stage /\ b.n \in Nat
      /\ \A c \in batches : c.n \in Nat
  BY RequestsAre DEF BulkInductive, BulkTypes, BatchSound, BulkBatch
<1>2. CASE \A c \in batches : c.command = command => c.n <= b.n
  BY <1>1, <1>2 DEF Busy, Stage, Answered
<1>3. CASE \E c \in batches : c.command = command /\ ~(c.n <= b.n)
  BY <1>1, <1>3 DEF BulkInductive, LastAnswered
<1> QED
  BY <1>2, <1>3

\* A batch that starts, of any requests about ticked rows, keeps it.
LEMMA StartStep ==
  ASSUME BulkInductive, NEW command \in {"delete", "categorize"},
         NEW requests \in SUBSET SUBSET Item, IsFiniteSet(requests),
         StartBatch(command, requests)
  PROVE  BulkInductive'
<1>1. /\ bulk \in BulkState /\ bulk_log \in BulkLog /\ ModeKept /\ SelectionIsExplained
      /\ \A b \in batches : BatchSound(b) /\ b.n \in Nat
  BY DEF BulkInductive, BulkTypes, BatchSound, BulkBatch
<1>2. PICK last \in requests :
        batches' = batches \cup
          {[n |-> bulk_log.n + 1, command |-> command, last |-> last,
            requests |-> [r \in requests |-> "sent"]]}
  BY DEF StartBatch
<1> DEFINE b == [n |-> bulk_log.n + 1, command |-> command, last |-> last,
                 requests |-> [r \in requests |-> "sent"]]
<1>3. [r \in requests |-> "sent"] \in BatchRequests
  <2>1. [r \in requests |-> "sent"] \in [requests -> Stage]
    BY DEF Stage
  <2> QED
    BY <2>1, RequestsAre
<1>4. bulk_log.n \in Nat
  BY <1>1 DEF BulkLog
<1>5. /\ b \in BulkBatch /\ b.n = bulk_log.n + 1 /\ b.command = command
      /\ b.last \in DOMAIN b.requests /\ DOMAIN b.requests = requests
  <2>1. last \in SUBSET Item
    OBVIOUS
  <2> QED
    BY <1>3, <1>4, <2>1 DEF BulkBatch
<1>6. batches' = batches \cup {b}
  BY <1>2
<1> HIDE DEF b
<1>7. /\ ~Busy(command) /\ UNCHANGED <<bulk_page, rows, listed, view, bulk>>
      /\ bulk_log' = [bulk_log EXCEPT !.n = @ + 1,
           !.again = IF command = "delete"
                       THEN @ \cup {Cardinality(DOMAIN c.requests) : c \in Overlapped} ELSE @]
  BY DEF StartBatch
<1> DEFINE again == IF command = "delete"
             THEN bulk_log.again \cup {Cardinality(DOMAIN c.requests) : c \in Overlapped}
             ELSE bulk_log.again
<1>8. \A c \in Overlapped : c \in batches /\ Cardinality(DOMAIN c.requests) \in Nat
  BY <1>1, FS_CardinalityType DEF Overlapped, BatchSound
<1>9. again \in SUBSET Nat
  BY <1>1, <1>8 DEF BulkLog
<1>10. bulk_log' = [bulk_log EXCEPT !.n = @ + 1, !.again = again]
  BY <1>7
<1>11. 1 \notin again
  <2>1. 1 \notin bulk_log.again
    BY DEF BulkInductive, SentAgainOnlyFromLongBatch
  <2>2. ASSUME NEW c \in Overlapped, command = "delete" PROVE Cardinality(DOMAIN c.requests) # 1
    <3>1. SUFFICES ASSUME Cardinality(DOMAIN c.requests) = 1 PROVE FALSE
      OBVIOUS
    <3>2. c \in batches /\ c.command = "delete" /\ BatchSound(c)
      BY <1>1 DEF Overlapped
    <3>3. PICK r \in DOMAIN c.requests : c.requests[r] = "sent"
      BY DEF Overlapped
    <3>4. PICK x : DOMAIN c.requests = {x}
      BY <3>1, <3>2, FS_Singleton DEF BatchSound
    <3>5. c.last = r
      BY <3>2, <3>3, <3>4 DEF BatchSound
    <3>6. c.requests[c.last] \in Answered
      BY <1>7, <2>2, <3>2, NotBusy
    <3> QED
      BY <3>3, <3>5, <3>6 DEF Answered
  <2> QED
    BY <2>1, <2>2
<1> HIDE DEF again
<1>12. /\ bulk_log' \in BulkLog /\ bulk_log'.n = bulk_log.n + 1 /\ bulk_log'.again = again
       /\ bulk_log'.ticked = bulk_log.ticked /\ bulk_log'.failed = bulk_log.failed
  <2> DEFINE m == bulk_log.n + 1
  <2>1. m \in Nat
    BY <1>1 DEF BulkLog
  <2>2. bulk_log' = [bulk_log EXCEPT !.n = m, !.again = again]
    BY <1>1, <1>10 DEF BulkLog
  <2> HIDE DEF m
  <2>3. /\ bulk_log' \in BulkLog /\ bulk_log'.n = m /\ bulk_log'.again = again
        /\ bulk_log'.ticked = bulk_log.ticked /\ bulk_log'.failed = bulk_log.failed
    BY <1>1, <1>9, <2>1, <2>2 DEF BulkLog
  <2> QED
    BY <2>3 DEF m
<1>13. \A c \in batches' : BatchSound(c)'
  <2>1. \A c \in batches : BatchSound(c)'
    BY <1>1, <1>4, <1>12 DEF BatchSound
  <2>2. /\ b.n \in 1 .. bulk_log'.n /\ b \in BulkBatch /\ b.last \in DOMAIN b.requests
        /\ IsFiniteSet(DOMAIN b.requests)
    BY <1>4, <1>5, <1>12
  <2> QED
    BY <1>6, <2>1, <2>2 DEF BatchSound
<1>14. BulkTypes'
  BY <1>7, <1>12, <1>13 DEF BulkInductive, BulkTypes
<1>15. ModeKept' /\ SelectionIsExplained'
  BY <1>1, <1>7, <1>12 DEF ModeKept, SelectionIsExplained
<1>16. LastAnswered'
  <2>1. ASSUME NEW c \in batches', NEW d \in batches', c.command = d.command, c.n < d.n
        PROVE  c.requests[c.last] \in Answered
    <3>1. c \in batches
      <4>1. \A e \in batches : e.n \in Nat /\ e.n <= bulk_log.n
        BY <1>1 DEF BatchSound
      <4> QED
        BY <1>4, <1>5, <1>6, <2>1, <4>1
    <3>2. CASE d \in batches
      BY <2>1, <3>1, <3>2 DEF BulkInductive, LastAnswered
    <3>3. CASE d = b
      BY <1>5, <1>7, <2>1, <3>1, <3>3, NotBusy
    <3> QED
      BY <1>6, <3>2, <3>3
  <2> QED
    BY <2>1 DEF LastAnswered
<1> QED
  BY <1>11, <1>12, <1>14, <1>15, <1>16 DEF BulkInductive, SentAgainOnlyFromLongBatch

\* Each command starts such a batch.
LEMMA StartSteps ==
  ASSUME BulkInductive,
         CategorizeSelected \/ DeleteDebts \/ DeleteAccounts \/ DeleteTransfers
         \/ DeleteTransactions \/ DeleteOnAccountPage
  PROVE  BulkInductive'
<1>1. bulk.selected \subseteq Item
  BY DEF BulkInductive, BulkTypes, BulkState
<1>2. IsFiniteSet(bulk.selected)
  BY <1>1, FS_Subset, BulkAssumption
<1>3. EachRow \in SUBSET SUBSET Item /\ IsFiniteSet(EachRow)
  <2>1. EachRow \in SUBSET SUBSET Item
    BY <1>1 DEF EachRow
  <2>2. EachRow \subseteq SUBSET bulk.selected
    BY DEF EachRow
  <2>3. IsFiniteSet(SUBSET bulk.selected)
    BY <1>2, FS_SUBSET
  <2> QED
    BY <2>1, <2>2, <2>3, FS_Subset
<1>4. AllRows \in SUBSET SUBSET Item /\ IsFiniteSet(AllRows)
  BY <1>1, FS_Singleton DEF AllRows
<1>5. PICK command \in {"delete", "categorize"}, requests \in {EachRow, AllRows} :
        StartBatch(command, requests)
  BY DEF CategorizeSelected, DeleteDebts, DeleteAccounts, DeleteTransfers, DeleteTransactions,
         DeleteOnAccountPage
<1> QED
  BY <1>3, <1>4, <1>5, StartStep

-----------------------------------------------------------------------------

\* One request of a batch is served or answered.
LEMMA PutStep ==
  ASSUME BulkInductive, NEW b \in batches, NEW r \in DOMAIN b.requests, NEW stage \in Stage,
         batches' = Put(b, r, stage), b.requests[r] \notin Answered,
         rows' \subseteq Item, UNCHANGED <<bulk_page, listed, view, bulk, bulk_log>>
  PROVE  BulkInductive'
<1> DEFINE c == [b EXCEPT !.requests[r] = stage]
<1>1. /\ b \in BulkBatch /\ b.requests \in BatchRequests /\ BatchSound(b) /\ BulkTypes
      /\ LastAnswered
  BY DEF BulkInductive, BulkTypes, BatchSound, BulkBatch
<1>2. /\ [b.requests EXCEPT ![r] = stage] \in BatchRequests
      /\ DOMAIN [b.requests EXCEPT ![r] = stage] = DOMAIN b.requests
  <2>1. b.requests \in [DOMAIN b.requests -> Stage] /\ DOMAIN b.requests \subseteq SUBSET Item
    BY <1>1, RequestsAre
  <2>2. [b.requests EXCEPT ![r] = stage] \in [DOMAIN b.requests -> Stage]
    BY <2>1
  <2> QED
    BY <2>1, <2>2, RequestsAre
<1>3. /\ c \in BulkBatch /\ c.n = b.n /\ c.command = b.command /\ c.last = b.last
      /\ c.requests = [b.requests EXCEPT ![r] = stage]
  BY <1>1, <1>2 DEF BulkBatch
<1>4. batches' = (batches \ {b}) \cup {c}
  BY DEF Put
<1> HIDE DEF c
<1>5. b.requests[b.last] \in Answered => c.requests[c.last] \in Answered
  BY <1>1, <1>3 DEF BatchSound
<1>6. BatchSound(c) /\ \A d \in batches : BatchSound(d)
  BY <1>1, <1>2, <1>3 DEF BatchSound, BulkTypes
<1>7. \A d \in batches' : BatchSound(d)'
  BY <1>4, <1>6 DEF BatchSound
<1>8. BulkTypes'
  BY <1>1, <1>7 DEF BulkTypes
<1>9. LastAnswered'
  BY <1>1, <1>3, <1>4, <1>5 DEF LastAnswered
<1> QED
  BY <1>8, <1>9 DEF BulkInductive, ModeKept, SelectionIsExplained, SentAgainOnlyFromLongBatch

\* The service of one request of a batch, and its answer, keep it.
LEMMA RequestSteps ==
  ASSUME BulkInductive, NEW b \in batches, NEW r \in DOMAIN b.requests,
         ServeBatch(b, r) \/ AnswerBatch(b, r)
  PROVE  BulkInductive'
<1>1. PICK stage \in Stage : batches' = Put(b, r, stage)
  BY DEF ServeBatch, AnswerBatch, Stage
<1>2. b.requests[r] \notin Answered
  BY DEF ServeBatch, AnswerBatch, Answered
<1>3. rows' \subseteq Item /\ UNCHANGED <<bulk_page, listed, view, bulk, bulk_log>>
  BY DEF ServeBatch, AnswerBatch, BulkInductive, BulkTypes
<1> QED
  BY <1>1, <1>2, <1>3, PutStep

\* A batch ends: what stays ticked has failed, or was ticked before.
LEMMA SettleStep ==
  ASSUME BulkInductive, NEW b \in batches, SettleBatch(b)
  PROVE  BulkInductive'
<1> DEFINE failed == UNION {r \in DOMAIN b.requests : b.requests[r] = "failed"}
<1>1. /\ bulk \in BulkState /\ bulk_log \in BulkLog /\ ModeKept /\ SelectionIsExplained
      /\ BulkTypes /\ b.requests \in BatchRequests
  BY DEF BulkInductive, BulkTypes, BatchSound, BulkBatch
<1>2. failed \in SUBSET Item
  BY <1>1, RequestsAre
<1>3. /\ batches' = batches \ {b}
      /\ bulk' = [(IF failed = {} THEN AfterExit
                   ELSE IF bulk_page \in PerRow THEN [bulk EXCEPT !.selected = failed]
                   ELSE bulk) EXCEPT !.confirm = FALSE]
      /\ bulk_log' = [bulk_log EXCEPT !.failed = @ \cup failed]
      /\ UNCHANGED <<bulk_page, rows, listed, view>>
  BY DEF SettleBatch
<1> HIDE DEF failed
<1>4. /\ bulk_log' \in BulkLog /\ bulk_log'.n = bulk_log.n /\ bulk_log'.again = bulk_log.again
      /\ bulk_log'.ticked = bulk_log.ticked /\ bulk_log'.failed = bulk_log.failed \cup failed
  BY <1>1, <1>2, <1>3 DEF BulkLog
<1>5. /\ bulk' \in BulkState
      /\ \/ bulk'.mode = FALSE /\ bulk'.selected = {}
         \/ bulk'.mode = bulk.mode /\ bulk'.selected \in {failed, bulk.selected}
  <2>1. CASE failed = {}
    <3>1. bulk' = [[bulk EXCEPT !.mode = FALSE, !.selected = {}] EXCEPT !.confirm = FALSE]
      BY <1>3, <2>1 DEF AfterExit
    <3> QED
      BY <1>1, <3>1 DEF BulkState
  <2>2. CASE failed # {} /\ bulk_page \in PerRow
    <3>1. bulk' = [[bulk EXCEPT !.selected = failed] EXCEPT !.confirm = FALSE]
      BY <1>3, <2>2
    <3> QED
      BY <1>1, <1>2, <3>1 DEF BulkState
  <2>3. CASE failed # {} /\ bulk_page \notin PerRow
    <3>1. bulk' = [bulk EXCEPT !.confirm = FALSE]
      BY <1>3, <2>3
    <3> QED
      BY <1>1, <3>1 DEF BulkState
  <2> QED
    BY <2>1, <2>2, <2>3
<1>6. BulkTypes'
  BY <1>1, <1>3, <1>4, <1>5 DEF BulkTypes, BatchSound
<1>7. ModeKept' /\ SelectionIsExplained'
  BY <1>1, <1>3, <1>4, <1>5 DEF ModeKept, SelectionIsExplained
<1>8. LastAnswered' /\ SentAgainOnlyFromLongBatch'
  BY <1>3, <1>4 DEF BulkInductive, LastAnswered, SentAgainOnlyFromLongBatch
<1> QED
  BY <1>6, <1>7, <1>8 DEF BulkInductive

\* Every step of the list screens keeps the invariant of bulk selection.
LEMMA BulkInductiveStep == BulkInductive /\ [BulkNext]_bulk_vars => BulkInductive'
<1> SUFFICES ASSUME BulkInductive, [BulkNext]_bulk_vars PROVE BulkInductive'
  OBVIOUS
<1>1. CASE UNCHANGED bulk_vars
  BY <1>1 DEF bulk_vars, BulkInductive, BulkTypes, BatchSound, ModeKept, LastAnswered,
     SelectionIsExplained, SentAgainOnlyFromLongBatch
<1>2. CASE BulkNext
  BY <1>2, ViewSteps, ModeSteps, SelectSteps, RowSteps, StartSteps, RequestSteps, SettleStep
     DEF BulkNext
<1> QED
  BY <1>1, <1>2

\* Whatever fails, overlaps or is answered late, of any number of rows: what is ticked was
\* ticked in this mode or has failed (useBulkSelection), and a deletion is sent again before
\* its answer only if it was one of several requests of a batch.
THEOREM BulkKept == BulkSpec => []BulkInvariant
<1>1. BulkInductive => BulkInvariant
  <2> SUFFICES ASSUME BulkInductive PROVE BulkInvariant
    OBVIOUS
  <2>1. BulkTypeOK
    BY DEF BulkInductive, BulkTypes, BatchSound, ModeKept, BulkState, BulkTypeOK
  <2> QED
    BY <2>1 DEF BulkInductive, BulkInvariant
<1> QED
  BY <1>1, BulkInductiveInit, BulkInductiveStep, PTL DEF BulkSpec

-----------------------------------------------------------------------------
(* The payment of a batch of installments (BulkPay) *)

PaidBatch ==
  [n : Nat, opened : Nat, items : SUBSET Plan, fee : {0, 1}, account : BOOLEAN, retry : BOOLEAN]
PaySheet ==
  [open : BOOLEAN, step : 1 .. 3, items : SUBSET Plan, account : BOOLEAN, fee : {0, 1}]
PayLog ==
  [sends : Nat, opened : Nat, failed : SUBSET Nat,
   booked : SUBSET [body : PaidBatch, paid : SUBSET Plan]]
Sending == [stage : {"sent", "done", "declined"}, body : PaidBatch]

PayTypes ==
  /\ plans \in [Plan -> {"active", "completed", "deleted"}]
  /\ month \in 0 .. Tenure
  /\ owed \in [Plan -> Nat] /\ \A p \in Plan : owed[p] <= Owed[p]
  /\ offered \subseteq Plan
  /\ batch \in PaySheet /\ pay_log \in PayLog
  /\ sending \in Sending \cup {NoRequest}

\* The checks of the steps behind: they hold in the later ones.
StepsChecked ==
  /\ batch.step \in {2, 3} => batch.items # {}
  /\ batch.step = 3 => batch.account
  /\ IsPending(sending) => sending.body.account /\ sending.body.items # {}

\* What is booked is of a batch sent before; a sheet that could send it again has
\* shown its error, or waits for the answer.
BookedBefore ==
  /\ IsPending(sending) =>
       /\ sending.body.n = pay_log.sends /\ sending.body.opened <= pay_log.opened
       /\ \A a \in pay_log.booked :
            a.body.opened = sending.body.opened /\ a.body.n < sending.body.n
              => sending.body.retry
  /\ \A a \in pay_log.booked :
       /\ a.body.n <= pay_log.sends /\ a.body.opened <= pay_log.opened
       /\ batch.open /\ a.body.opened = pay_log.opened =>
            \/ pay_log.opened \in pay_log.failed
            \/ IsPending(sending) /\ sending.body.opened = pay_log.opened

PayInductive == PayTypes /\ StepsChecked /\ BookedBefore /\ BatchIsAtomic /\ ConfirmedOnce

\* A request that was sent is pending, the absence of one is not.
LEMMA SendingStages ==
  /\ \A m \in Sending : m.stage # "none" /\ IsPending(m)
  /\ ~IsPending(NoRequest) /\ NoRequest.stage = "none"
BY DEF Sending, NoRequest, IsPending

\* Before the sheet is opened the invariant of the batch payment holds.
LEMMA PayInductiveInit == PayInit => PayInductive
<1> SUFFICES ASSUME PayInit PROVE PayInductive
  OBVIOUS
<1>1. batch \in PaySheet /\ batch.step = 1
  BY DEF PayInit, ClosedBatch, PaySheet
<1>2. pay_log \in PayLog /\ pay_log.booked = {}
  BY DEF PayInit, PayLog
<1>3. PayTypes
  BY <1>1, <1>2, PlanAssumption DEF PayInit, PayTypes, Offer
<1> QED
  BY <1>1, <1>2, <1>3, SendingStages
     DEF PayInit, PayInductive, StepsChecked, BookedBefore, BatchIsAtomic, ConfirmedOnce

\* The user's steps in the sheet.
LEMMA SheetStep ==
  ASSUME PayInductive, UNCHANGED <<plans, month, owed, offered, sending, pay_log>>,
         batch' \in PaySheet, batch'.open => batch.open,
         batch'.step \in {2, 3} => batch'.items # {},
         batch'.step = 3 => batch'.account
  PROVE  PayInductive'
BY DEF PayInductive, PayTypes, StepsChecked, BookedBefore, BatchIsAtomic, ConfirmedOnce

\* Closing the sheet, ticking plans and going from step to step keep it.
LEMMA SheetSteps ==
  ASSUME PayInductive,
         CloseBatch \/ (\E p \in Plan : ToggleItem(p)) \/ FillBatch \/ \E s \in 1 .. 3 : GoToStep(s)
  PROVE  PayInductive'
<1>1. batch \in PaySheet /\ StepsChecked
  BY DEF PayInductive, PayTypes
<1>2. UNCHANGED <<plans, month, owed, offered, sending, pay_log>>
  BY DEF CloseBatch, ToggleItem, FillBatch, GoToStep
<1>3. CASE CloseBatch
  <2>1. batch' \in PaySheet /\ batch'.step = 1 /\ batch'.open = FALSE
    BY <1>3 DEF CloseBatch, ResetBatch, ClosedBatch, PaySheet
  <2> QED
    BY <1>2, <2>1, SheetStep
<1>4. ASSUME NEW p \in Plan, ToggleItem(p) PROVE PayInductive'
  <2>1. PICK items \in SUBSET Plan : batch' = [batch EXCEPT !.items = items]
    BY <1>1, <1>4 DEF ToggleItem, PaySheet
  <2>2. batch' \in PaySheet /\ batch'.step = batch.step /\ batch'.open = batch.open
    BY <1>1, <2>1 DEF PaySheet
  <2>3. batch.step = 1
    BY <1>4 DEF ToggleItem
  <2> QED
    BY <1>2, <2>2, <2>3, SheetStep
<1>5. CASE FillBatch
  <2>1. CASE batch' = [batch EXCEPT !.account = TRUE]
    <3>1. /\ batch' \in PaySheet /\ batch'.step = batch.step /\ batch'.open = batch.open
          /\ batch'.items = batch.items /\ batch'.account
      BY <1>1, <2>1 DEF PaySheet
    <3> QED
      BY <1>1, <1>2, <3>1, SheetStep DEF StepsChecked
  <2>2. CASE batch' = [batch EXCEPT !.fee = 1 - @]
    <3>1. 1 - batch.fee \in {0, 1}
      BY <1>1 DEF PaySheet
    <3>2. /\ batch' \in PaySheet /\ batch'.step = batch.step /\ batch'.open = batch.open
          /\ batch'.items = batch.items /\ batch'.account = batch.account
      BY <1>1, <2>2, <3>1 DEF PaySheet
    <3> QED
      BY <1>1, <1>2, <3>2, SheetStep DEF StepsChecked
  <2> QED
    BY <1>5, <2>1, <2>2 DEF FillBatch
<1>6. ASSUME NEW s \in 1 .. 3, GoToStep(s) PROVE PayInductive'
  <2>1. batch' = [batch EXCEPT !.step = s]
    BY <1>6 DEF GoToStep
  <2>2. /\ batch' \in PaySheet /\ batch'.step = s /\ batch'.open = batch.open
        /\ batch'.items = batch.items /\ batch'.account = batch.account
    BY <1>1, <2>1 DEF PaySheet
  <2>3. /\ s = batch.step - 1 \/ s = batch.step + 1
        /\ s = 2 /\ batch.step = 1 => batch.items # {}
        /\ s = 3 => batch.account
    BY <1>6 DEF GoToStep
  <2>4. batch.step \in 1 .. 3
    BY <1>1 DEF PaySheet
  <2>5. s \in {2, 3} => batch.items # {}
    BY <1>1, <2>3, <2>4 DEF StepsChecked
  <2> QED
    BY <1>2, <2>2, <2>3, <2>5, SheetStep
<1> QED
  BY <1>3, <1>4, <1>5, <1>6

\* A new opening has sent nothing yet.
LEMMA OpenStep ==
  ASSUME PayInductive, OpenBatch
  PROVE  PayInductive'
<1>1. batch \in PaySheet /\ pay_log \in PayLog /\ PayTypes /\ StepsChecked /\ BookedBefore
  BY DEF PayInductive, PayTypes
<1>2. /\ batch' = [batch EXCEPT !.open = TRUE]
      /\ pay_log' = [pay_log EXCEPT !.opened = @ + 1]
      /\ UNCHANGED <<plans, month, owed, offered, sending>>
  BY DEF OpenBatch
<1>3. /\ batch' \in PaySheet /\ batch'.step = batch.step
      /\ batch'.items = batch.items /\ batch'.account = batch.account
  BY <1>1, <1>2 DEF PaySheet
<1>4. /\ pay_log' \in PayLog /\ pay_log'.opened = pay_log.opened + 1
      /\ pay_log'.sends = pay_log.sends /\ pay_log'.booked = pay_log.booked
      /\ pay_log'.failed = pay_log.failed /\ pay_log.opened \in Nat
  BY <1>1, <1>2 DEF PayLog
<1>5. PayTypes' /\ StepsChecked'
  BY <1>1, <1>2, <1>3, <1>4 DEF PayTypes, StepsChecked
<1>6. \A a \in pay_log.booked : a.body.opened \in Nat /\ a.body.opened <= pay_log.opened
  BY <1>1 DEF BookedBefore, PayLog, PaidBatch
<1>7. IsPending(sending) => sending.body.opened \in Nat
  BY <1>1, SendingStages DEF PayTypes, Sending, PaidBatch
<1>8. BookedBefore'
  BY <1>1, <1>2, <1>4, <1>6, <1>7 DEF BookedBefore
<1> QED
  BY <1>2, <1>4, <1>5, <1>8 DEF PayInductive, BatchIsAtomic, ConfirmedOnce

\* A batch is sent from the last step; one that was booked there had an error.
LEMMA ConfirmStep ==
  ASSUME PayInductive, ConfirmBatch
  PROVE  PayInductive'
<1>1. /\ batch \in PaySheet /\ pay_log \in PayLog /\ PayTypes /\ StepsChecked /\ BookedBefore
      /\ batch.open /\ batch.step = 3 /\ ~IsPending(sending)
  BY DEF PayInductive, PayTypes, ConfirmBatch, Confirmable
<1> DEFINE body == [n |-> pay_log.sends + 1, opened |-> pay_log.opened,
                    items |-> batch.items, fee |-> batch.fee,
                    account |-> batch.account,
                    retry |-> pay_log.opened \in pay_log.failed]
           m == Request(body)
<1>2. /\ sending' = m /\ pay_log' = [pay_log EXCEPT !.sends = @ + 1]
      /\ UNCHANGED <<plans, month, owed, offered, batch>>
  BY DEF ConfirmBatch
<1>3. /\ pay_log.sends \in Nat /\ pay_log.opened \in Nat
      /\ batch.items \subseteq Plan /\ batch.fee \in {0, 1} /\ batch.account \in BOOLEAN
  BY <1>1 DEF PayLog, PaySheet
<1>4. /\ body \in PaidBatch /\ body.n = pay_log.sends + 1 /\ body.opened = pay_log.opened
      /\ body.items = batch.items /\ body.account = batch.account
  BY <1>3 DEF PaidBatch
<1>5. body.retry <=> pay_log.opened \in pay_log.failed
  OBVIOUS
<1> HIDE DEF body
<1>6. m \in Sending /\ m.body = body
  BY <1>4 DEF Request, Sending
<1> HIDE DEF m
<1>7. /\ pay_log' \in PayLog /\ pay_log'.opened = pay_log.opened
      /\ pay_log'.sends = pay_log.sends + 1 /\ pay_log'.booked = pay_log.booked
      /\ pay_log'.failed = pay_log.failed
  BY <1>1, <1>2 DEF PayLog
<1>8. PayTypes'
  BY <1>1, <1>2, <1>6, <1>7 DEF PayTypes
<1>9. StepsChecked'
  BY <1>1, <1>2, <1>4, <1>6 DEF StepsChecked
<1>10. BookedBefore'
  <2>1. IsPending(sending')
    BY <1>2, <1>6, SendingStages
  <2>2. /\ sending'.body.n = pay_log'.sends /\ sending'.body.opened = pay_log'.opened
        /\ sending'.body.retry <=> pay_log.opened \in pay_log.failed
    BY <1>2, <1>4, <1>5, <1>6, <1>7
  <2>3. \A a \in pay_log.booked :
          /\ a.body.n \in Nat /\ a.body.n <= pay_log.sends /\ a.body.opened <= pay_log.opened
          /\ a.body.opened = pay_log.opened => pay_log.opened \in pay_log.failed
    BY <1>1 DEF BookedBefore, PayLog, PaidBatch
  <2>4. pay_log'.opened <= pay_log'.opened
    BY <1>3, <1>7
  <2> QED
    BY <1>3, <1>7, <2>1, <2>2, <2>3, <2>4 DEF BookedBefore, IsPending
<1> QED
  BY <1>7, <1>8, <1>9, <1>10 DEF PayInductive, BatchIsAtomic, ConfirmedOnce

\* All of the batch or nothing.
LEMMA ServeStep ==
  ASSUME PayInductive, ServeBatchPayment
  PROVE  PayInductive'
<1>1. /\ pay_log \in PayLog /\ PayTypes /\ StepsChecked /\ BookedBefore /\ BatchIsAtomic
      /\ ConfirmedOnce /\ sending \in Sending /\ IsPending(sending)
  BY SendingStages DEF PayInductive, PayTypes, ServeBatchPayment, AtServer
<1> DEFINE paid == PaidItems(sending.body.items)
           b == [body |-> sending.body, paid |-> paid]
<1>2. /\ owed' = [p \in Plan |-> IF p \in paid THEN owed[p] - Monthly ELSE owed[p]]
      /\ sending' = IF paid = {} THEN Declined(sending) ELSE Done(sending)
      /\ pay_log' = IF paid = {} THEN pay_log ELSE [pay_log EXCEPT !.booked = @ \cup {b}]
      /\ UNCHANGED <<plans, month, offered, batch>>
  BY DEF ServeBatchPayment
<1>3. sending.body \in PaidBatch /\ sending.body.items \subseteq Plan
  BY <1>1 DEF Sending, PaidBatch
<1>4. /\ paid # {} => paid = sending.body.items
      /\ \A p \in paid : p \in Plan /\ Monthly <= owed[p]
      /\ paid \subseteq Plan
  BY <1>3 DEF PaidItems
<1> HIDE DEF paid
<1>5. owed' \in [Plan -> Nat] /\ \A p \in Plan : owed'[p] <= Owed[p]
  <2>1. \A p \in Plan : owed[p] \in Nat /\ Owed[p] \in Nat /\ owed[p] <= Owed[p]
    BY <1>1, PlanAssumption DEF PayTypes
  <2>2. \A p \in Plan : owed'[p] \in Nat /\ owed'[p] <= Owed[p]
    BY <1>2, <1>4, <2>1, PlanAssumption
  <2> QED
    BY <1>2, <2>2
<1>6. sending' \in Sending /\ sending'.body = sending.body /\ IsPending(sending')
  BY <1>1, <1>2 DEF Sending, Declined, Done, IsPending
<1>7. b \in [body : PaidBatch, paid : SUBSET Plan] /\ b.body = sending.body /\ b.paid = paid
  BY <1>3, <1>4
<1> HIDE DEF b
<1>8. /\ pay_log' \in PayLog /\ pay_log'.opened = pay_log.opened
      /\ pay_log'.sends = pay_log.sends /\ pay_log'.failed = pay_log.failed
      /\ pay_log'.booked = pay_log.booked \/ (paid # {} /\ pay_log'.booked = pay_log.booked \cup {b})
  <2>1. CASE paid = {}
    BY <1>1, <1>2, <2>1
  <2>2. CASE paid # {}
    BY <1>1, <1>2, <1>7, <2>2 DEF PayLog
  <2> QED
    BY <2>1, <2>2
<1>9. PayTypes' /\ StepsChecked'
  BY <1>1, <1>2, <1>5, <1>6, <1>8 DEF PayTypes, StepsChecked, IsPending
<1>10. BatchIsAtomic'
  BY <1>1, <1>4, <1>7, <1>8 DEF BatchIsAtomic
<1>11. /\ b.body.n = pay_log.sends /\ b.body.opened <= pay_log.opened
       /\ pay_log.sends \in Nat
       /\ \A a \in pay_log.booked : a.body.n \in Nat /\ a.body.n <= pay_log.sends
  BY <1>1, <1>7 DEF BookedBefore, PayLog, PaidBatch
<1>12. ConfirmedOnce'
  <2>1. ASSUME NEW x \in pay_log'.booked, NEW y \in pay_log'.booked,
               x.body.opened = y.body.opened, x.body.n < y.body.n
        PROVE  y.body.retry
    <3>1. x # b
      BY <1>8, <1>11, <2>1
    <3>2. CASE y # b
      BY <1>1, <1>8, <2>1, <3>1, <3>2 DEF ConfirmedOnce
    <3>3. CASE y = b
      BY <1>1, <1>7, <1>8, <2>1, <3>1, <3>3 DEF BookedBefore
    <3> QED
      BY <3>2, <3>3
  <2> QED
    BY <2>1 DEF ConfirmedOnce
<1>13. BookedBefore'
  <2>1. \A a \in pay_log'.booked :
          a.body.opened = sending'.body.opened /\ a.body.n < sending'.body.n
            => sending'.body.retry
    BY <1>1, <1>6, <1>7, <1>8, <1>11 DEF BookedBefore
  <2>2. sending'.body.n = pay_log'.sends /\ sending'.body.opened <= pay_log'.opened
    BY <1>1, <1>6, <1>8 DEF BookedBefore
  <2>3. ASSUME NEW a \in pay_log'.booked
        PROVE  /\ a.body.n <= pay_log'.sends /\ a.body.opened <= pay_log'.opened
               /\ batch'.open /\ a.body.opened = pay_log'.opened =>
                    \/ pay_log'.opened \in pay_log'.failed
                    \/ sending'.body.opened = pay_log'.opened
    <3>1. CASE a \in pay_log.booked
      BY <1>1, <1>2, <1>6, <1>8, <3>1 DEF BookedBefore
    <3>2. CASE a = b
      BY <1>6, <1>7, <1>8, <1>11, <3>2
    <3> QED
      BY <1>8, <3>1, <3>2
  <2> QED
    BY <1>6, <2>1, <2>2, <2>3 DEF BookedBefore, IsPending
<1> QED
  BY <1>9, <1>10, <1>12, <1>13 DEF PayInductive

\* A good answer closes the sheet; a bad one is noted for the opening it is of.
LEMMA AnswerStep ==
  ASSUME PayInductive, AnswerBatchPayment
  PROVE  PayInductive'
<1>1. /\ batch \in PaySheet /\ pay_log \in PayLog /\ PayTypes /\ StepsChecked /\ BookedBefore
      /\ sending \in Sending /\ IsPending(sending)
  BY SendingStages DEF PayInductive, PayTypes, AnswerBatchPayment, AnsweredWell, AnsweredBadly,
                       IsPending
<1>2. sending' = NoRequest /\ UNCHANGED <<plans, month, owed, offered>>
  BY DEF AnswerBatchPayment
<1>3. CASE batch' = ResetBatch /\ UNCHANGED pay_log
  <2>1. batch' \in PaySheet /\ batch'.step = 1 /\ batch'.open = FALSE
    BY <1>3 DEF ResetBatch, ClosedBatch, PaySheet
  <2>2. PayTypes' /\ StepsChecked'
    BY <1>1, <1>2, <1>3, <2>1, SendingStages DEF PayTypes, StepsChecked
  <2>3. BookedBefore'
    BY <1>1, <1>2, <1>3, <2>1, SendingStages DEF BookedBefore
  <2> QED
    BY <1>3, <2>2, <2>3 DEF PayInductive, BatchIsAtomic, ConfirmedOnce
<1>4. CASE /\ pay_log' = [pay_log EXCEPT !.failed = @ \cup {sending.body.opened}]
           /\ UNCHANGED batch
  <2>1. sending.body.opened \in Nat
    BY <1>1 DEF Sending, PaidBatch
  <2>2. /\ pay_log' \in PayLog /\ pay_log'.opened = pay_log.opened
        /\ pay_log'.sends = pay_log.sends /\ pay_log'.booked = pay_log.booked
        /\ pay_log'.failed = pay_log.failed \cup {sending.body.opened}
    BY <1>1, <1>4, <2>1 DEF PayLog
  <2>3. PayTypes' /\ StepsChecked'
    BY <1>1, <1>2, <1>4, <2>2, SendingStages DEF PayTypes, StepsChecked
  <2>4. BookedBefore'
    BY <1>1, <1>2, <1>4, <2>2, SendingStages DEF BookedBefore
  <2> QED
    BY <2>2, <2>3, <2>4 DEF PayInductive, BatchIsAtomic, ConfirmedOnce
<1> QED
  BY <1>3, <1>4 DEF AnswerBatchPayment

\* Plans end, months pass, lists are loaded.
LEMMA PlanSteps ==
  ASSUME PayInductive,
         (\E p \in Plan, s \in {"completed", "deleted"} : EndPlan(p, s)) \/ NextMonth \/ RefetchPlans
  PROVE  PayInductive'
<1>1. UNCHANGED <<owed, batch, sending, pay_log>>
  BY DEF EndPlan, NextMonth, RefetchPlans
<1>2. plans' \in [Plan -> {"active", "completed", "deleted"}]
  BY DEF PayInductive, PayTypes, EndPlan, NextMonth, RefetchPlans
<1>3. month' \in 0 .. Tenure
  BY PlanAssumption DEF PayInductive, PayTypes, EndPlan, NextMonth, RefetchPlans
<1>4. offered' \subseteq Plan
  BY DEF PayInductive, PayTypes, EndPlan, NextMonth, RefetchPlans, Offer
<1> QED
  BY <1>1, <1>2, <1>3, <1>4
     DEF PayInductive, PayTypes, StepsChecked, BookedBefore, BatchIsAtomic, ConfirmedOnce

\* Every step of the batch payment keeps its invariant.
LEMMA PayInductiveStep == PayInductive /\ [PayNext]_pay_vars => PayInductive'
<1> SUFFICES ASSUME PayInductive, [PayNext]_pay_vars PROVE PayInductive'
  OBVIOUS
<1>1. CASE UNCHANGED pay_vars
  BY <1>1 DEF pay_vars, PayInductive, PayTypes, StepsChecked, BookedBefore, BatchIsAtomic,
     ConfirmedOnce
<1>2. CASE PayNext
  BY <1>2, SheetSteps, OpenStep, ConfirmStep, ServeStep, AnswerStep, PlanSteps DEF PayNext
<1> QED
  BY <1>1, <1>2

\* Through the three steps and any number of openings: a batch that is sent has its
\* account and plans, it is booked whole or not at all (bulk_payment), and twice only
\* if an error was shown in between.
THEOREM BatchPaymentsKept == PaySpec => []PayInvariant
<1>1. PayInductive => PayInvariant
  <2> SUFFICES ASSUME PayInductive PROVE PayInvariant
    OBVIOUS
  <2>1. PayTypeOK
    BY PlanAssumption DEF PayInductive, PayTypes, PayTypeOK, PaySheet, Sending
  <2>2. NothingEmptyIsSent
    BY DEF PayInductive, StepsChecked, NothingEmptyIsSent, AtServer, IsPending
  <2> QED
    BY <2>1, <2>2 DEF PayInductive, PayInvariant
<1> QED
  BY <1>1, PayInductiveInit, PayInductiveStep, PTL DEF PaySpec

-----------------------------------------------------------------------------
(* The sheets that create and edit (EntryForms) *)

Inputs == [Field -> Nat]
Drawn(d) == d \in Inputs /\ \A f \in Field : d[f] <= form_log.inputs
FormState == [name : FormName \cup {"none"}, mode : Modes, first : BOOLEAN]
FormSheet ==
  [open : BOOLEAN, draft : Inputs, touched : SUBSET Field, base : Inputs, leaving : BOOLEAN]
FormBody ==
  [n : Nat, draft : Inputs, touched : SUBSET Field, base : Inputs, retry : BOOLEAN]
FormLog ==
  [inputs : Nat, opens : Nat, saves : Nat, lost : SUBSET Inputs, created : SUBSET FormBody]
FormPending == [stage : {"sent", "done"}, body : FormBody]

FormTypes ==
  /\ form \in FormState /\ fields \in FormSheet /\ form_log \in FormLog
  /\ form_request \in FormPending \cup {NoRequest}
  /\ form_orphan \in FormPending \cup {NoRequest}
  /\ Drawn(entry) /\ Drawn(entry_shown) /\ Drawn(fields.draft) /\ Drawn(fields.base)

\* Everything that has been sent: what has been created, and what is on its way.
FormSent ==
  {b \in FormBody : \/ b \in form_log.created
                    \/ IsPending(form_request) /\ form_request.body = b
                    \/ IsPending(form_orphan) /\ form_orphan.body = b}

\* What the mode and the name of the form say of the rest.
FormKept ==
  /\ form.name = "none" \/ form.first \/ fields.leaving => form.mode = "create"
  /\ fields.leaving => form.name = "loan"
  /\ form_log.opens = 0 => ~fields.open /\ FormSent = {} /\ ~IsPending(form_request)
                           /\ ~IsPending(form_orphan)
  /\ form.mode = "edit" => form_log.created = {}
  /\ IsPending(form_orphan) => form.name \in InsideSheet \cup {"none"}

\* A draft that has been sent is no longer in the sheet, unless the user has seen
\* an error for it, is about to leave, or waits for its answer.
SentOnce ==
  /\ \A b \in FormSent : b.n \in 1 .. form_log.saves /\ Drawn(b.draft)
  /\ form.mode = "create" =>
       /\ \A b \in FormSent :
            /\ \E f \in Field \ {"account", "type"} : b.draft[f] # 0
            /\ form.name = "transaction" => b.draft["account"] # 0
            /\ b.draft = fields.draft =>
                 \/ b.draft \in form_log.lost \/ fields.leaving
                 \/ IsPending(form_request) /\ form_request.body = b
       /\ \A a, b \in FormSent : a.draft = b.draft /\ a.n < b.n => b.retry

\* What the user has not touched since the opening is as it was at the opening, or was
\* emptied with something that was touched.
Untouched(d, base, touched) ==
  \A f \in Field \ touched :
    d[f] = base[f] \/ (d[f] = 0 /\ \E g \in touched : f \in Emptied(g))
UntouchedKept ==
  form.mode = "edit" =>
    /\ fields.open => Untouched(fields.draft, fields.base, fields.touched)
    /\ IsPending(form_request) =>
         Untouched(form_request.body.draft, form_request.body.base, form_request.body.touched)

FormInductive == FormTypes /\ FormKept /\ SentOnce /\ UntouchedKept

-----------------------------------------------------------------------------

\* The names of the forms, and their fields.
LEMMA FormTables ==
  /\ FormName = {"loan", "installment", "p2p", "person", "transfer", "account", "transaction"}
  /\ \A n \in FormName, m \in Modes : FieldsOf[n][m] \subseteq Field
  /\ "account" \in Field
<1>1. FormName = {"loan", "installment", "p2p", "person", "transfer", "account", "transaction"}
  BY DEF FormName, FieldsOf
<1>2. ASSUME NEW n \in FormName, NEW m \in Modes PROVE FieldsOf[n][m] \subseteq Field
  <2> DEFINE Of(k, i) == FieldsOf[k][i] \cup SentAlong[k] \cup Cleared[k]
  <2>1. FieldsOf[n][m] \subseteq Of(n, m)
    OBVIOUS
  <2>2. Field = UNION {Of(k, i) : k \in FormName, i \in Modes}
    BY DEF Field
  <2> HIDE DEF Of
  <2> QED
    BY <1>2, <2>1, <2>2
<1>3. "account" \in FieldsOf["loan"]["edit"] /\ "edit" \in Modes
  BY DEF FieldsOf, EditedLoanFields, Modes
<1> QED
  BY <1>1, <1>2, <1>3

\* Every form needs more than the account and the type, and that of a transaction the account.
LEMMA FormNeeds ==
  /\ \A n \in FormName : \E f \in Field \ {"account", "type"} : f \in NeedsOf[n]["create"]
  /\ "account" \in NeedsOf["transaction"]["create"]
  /\ \A n \in FormName, m \in Modes : NeedsOf[n][m] \subseteq Field
<1> USE FormTables
<1>1. \A n \in FormName, m \in Modes : NeedsOf[n][m] \subseteq FieldsOf[n][m]
  <2> SUFFICES ASSUME NEW n \in FormName, NEW m \in Modes
               PROVE  NeedsOf[n][m] \subseteq FieldsOf[n][m]
    OBVIOUS
  <2>1. CASE n = "loan"
    BY <2>1 DEF NeedsOf, FieldsOf, Modes, LoanNeeds, NewLoanFields, EditedLoanFields
  <2>2. CASE n = "installment"
    BY <2>2 DEF NeedsOf, FieldsOf, Modes, InstallmentNeeds, NewInstallmentFields,
                EditedInstallmentFields
  <2>3. CASE n = "p2p"
    BY <2>3 DEF NeedsOf, FieldsOf, Modes, P2PNeeds, NewP2PFields, EditedP2PFields
  <2>4. CASE n = "person"
    BY <2>4 DEF NeedsOf, FieldsOf, Modes, PersonNeeds, PersonFields
  <2>5. CASE n = "transfer"
    BY <2>5 DEF NeedsOf, FieldsOf, Modes, TransferNeeds, TransferFields
  <2>6. CASE n = "account"
    BY <2>6 DEF NeedsOf, FieldsOf, Modes, NewAccountNeeds, EditedAccountNeeds,
                NewAccountFields, EditedAccountFields
  <2>7. CASE n = "transaction"
    BY <2>7 DEF NeedsOf, FieldsOf, Modes, NewTransactionNeeds, EditedTransactionNeeds,
                NewTransactionFields, EditedTransactionFields
  <2> QED
    BY <2>1, <2>2, <2>3, <2>4, <2>5, <2>6, <2>7
<1>2. \A n \in FormName, m \in Modes : NeedsOf[n][m] \subseteq Field
  BY <1>1
<1>3. "create" \in Modes
  BY DEF Modes
<1>4. \A n \in FormName : \E f : f \notin {"account", "type"} /\ f \in NeedsOf[n]["create"]
  <2>1. "principal" \in NeedsOf["loan"]["create"] /\ "total" \in NeedsOf["installment"]["create"]
        /\ "amount" \in NeedsOf["p2p"]["create"] /\ "name" \in NeedsOf["person"]["create"]
        /\ "amount" \in NeedsOf["transfer"]["create"] /\ "name" \in NeedsOf["account"]["create"]
        /\ "amount" \in NeedsOf["transaction"]["create"]
    BY DEF NeedsOf, LoanNeeds, InstallmentNeeds, P2PNeeds, PersonNeeds, TransferNeeds,
           NewAccountNeeds, NewTransactionNeeds
  <2> QED
    BY <2>1
<1>5. "account" \in NeedsOf["transaction"]["create"]
  BY DEF NeedsOf, NewTransactionNeeds
<1> QED
  BY <1>2, <1>3, <1>4, <1>5

\* A form's request that was sent is pending, the absence of one is not.
LEMMA FormStages ==
  /\ \A m \in FormPending : IsPending(m) /\ m.body \in FormBody /\ m # NoRequest
                            /\ (AtServer(m) <=> m.stage = "sent")
  /\ ~IsPending(NoRequest) /\ ~AtServer(NoRequest) /\ NoRequest.stage = "none"
BY DEF FormPending, NoRequest, IsPending, AtServer

\* Before a form is opened the invariant of the forms holds.
LEMMA FormInductiveInit == FormInit => FormInductive
<1> SUFFICES ASSUME FormInit PROVE FormInductive
  OBVIOUS
<1>1. Empty \in Inputs /\ \A f \in Field : Empty[f] = 0
  BY DEF Empty, Inputs
<1>2. /\ form_log \in FormLog /\ form_log.inputs = 0 /\ form_log.opens = 0
      /\ form_log.saves = 0 /\ form_log.created = {}
  BY DEF FormInit, FormLog
<1>3. /\ fields \in FormSheet /\ ~fields.open /\ ~fields.leaving
      /\ fields.draft = Empty /\ fields.base = Empty
  BY <1>1 DEF FormInit, NoSheet, FormSheet
<1>4. form \in FormState /\ form.mode = "create" /\ form.name = "none" /\ form.first = FALSE
  BY DEF FormInit, FormState, Modes
<1>5. form_request = NoRequest /\ form_orphan = NoRequest /\ entry = Empty /\ entry_shown = Empty
  BY DEF FormInit
<1>6. FormSent = {}
  BY <1>2, <1>5, FormStages DEF FormSent
<1>7. FormTypes
  BY <1>1, <1>2, <1>3, <1>4, <1>5 DEF FormTypes, Drawn
<1> QED
  BY <1>2, <1>3, <1>4, <1>5, <1>6, <1>7, FormStages
     DEF FormInductive, FormKept, SentOnce, UntouchedKept

-----------------------------------------------------------------------------

\* A step that sends nothing: what it must respect.
LEMMA FormStep ==
  ASSUME FormInductive,
         form' \in FormState, form'.mode = form.mode,
         form'.name \in {form.name, "none"},
         form'.name = "none" \/ form'.first \/ fields'.leaving => form.mode = "create",
         fields'.leaving => form'.name = "loan",
         fields' \in FormSheet, form_log' \in FormLog,
         form_log.inputs <= form_log'.inputs, form_log.opens <= form_log'.opens,
         form_log'.saves = form_log.saves, form_log'.created = form_log.created,
         form_log.lost \subseteq form_log'.lost,
         Drawn(entry)', Drawn(entry_shown)', Drawn(fields.draft)', Drawn(fields.base)',
         form_log'.opens = 0 => ~fields'.open,
         form_request' \in {form_request, NoRequest},
         form_orphan' \in {form_orphan, form_request, NoRequest},
         IsPending(form_orphan') => form'.name \in InsideSheet \cup {"none"},
         \A b \in FormSent : form.mode = "create" /\ b.draft = fields'.draft =>
            \/ b.draft \in form_log'.lost \/ fields'.leaving
            \/ IsPending(form_request') /\ form_request'.body = b,
         form.mode = "edit" /\ fields'.open =>
            Untouched(fields'.draft, fields'.base, fields'.touched)
  PROVE  FormInductive'
<1>1. FormTypes /\ FormKept /\ SentOnce /\ UntouchedKept
  BY DEF FormInductive
<1>2. FormTypes'
  BY <1>1 DEF FormTypes
<1>3. FormSent' \subseteq FormSent
  BY <1>1, FormStages DEF FormSent, FormTypes
<1>4. form_log \in FormLog
  BY <1>1 DEF FormTypes
<1>5. FormKept'
  <2>1. form_log'.opens = 0 => form_log.opens = 0
    BY <1>4 DEF FormLog
  <2> QED
    BY <1>1, <1>3, <2>1, FormStages DEF FormKept
<1>6. \A b \in FormSent' : Drawn(b.draft)' /\ b.n \in 1 .. form_log'.saves
  <2>1. ASSUME NEW b \in FormSent PROVE Drawn(b.draft)'
    <3>1. Drawn(b.draft)
      BY <1>1 DEF SentOnce
    <3>2. \A f \in Field : b.draft[f] \in Nat /\ b.draft[f] <= form_log'.inputs
      BY <1>4, <3>1 DEF Drawn, Inputs, FormLog
    <3> QED
      BY <3>1, <3>2 DEF Drawn
  <2> QED
    BY <1>1, <1>3, <2>1 DEF SentOnce
<1>7. SentOnce'
  BY <1>1, <1>3, <1>6 DEF SentOnce
<1>8. UntouchedKept'
  BY <1>1, FormStages DEF UntouchedKept, Untouched
<1> QED
  BY <1>2, <1>5, <1>7, <1>8 DEF FormInductive

\* Drafts that differ from everything that has been sent.
LEMMA EmptiedDraft ==
  ASSUME FormInductive, NEW d, form.mode = "create",
         \A f \in Field \ {"account", "type"} : d[f] = 0
  PROVE  \A b \in FormSent : b.draft # d
BY DEF FormInductive, SentOnce

\* A draft with a value that was just typed is none that was sent before.
LEMMA TypedDraft ==
  ASSUME FormInductive, NEW d, NEW g \in Field, d[g] = form_log.inputs + 1
  PROVE  \A b \in FormSent : b.draft # d
<1> SUFFICES ASSUME NEW b \in FormSent, b.draft = d PROVE FALSE
  OBVIOUS
<1>1. Drawn(b.draft) /\ form_log \in FormLog
  BY DEF FormInductive, FormTypes, SentOnce
<1>2. b.draft[g] <= form_log.inputs /\ form_log.inputs \in Nat
  BY <1>1 DEF Drawn, FormLog
<1> QED
  BY <1>2

\* A sheet whose draft, marks and fate stay the same.
LEMMA SameDraft ==
  ASSUME FormInductive, fields'.draft = fields.draft, fields'.leaving = fields.leaving,
         form_log.lost \subseteq form_log'.lost, form_request' = form_request
  PROVE  \A b \in FormSent : form.mode = "create" /\ b.draft = fields'.draft =>
            \/ b.draft \in form_log'.lost \/ fields'.leaving
            \/ IsPending(form_request') /\ form_request'.body = b
BY DEF FormInductive, SentOnce

\* An empty form has nothing touched and nothing typed.
LEMMA EmptySheet ==
  /\ NoSheet \in FormSheet /\ NoSheet.open = FALSE /\ NoSheet.leaving = FALSE
  /\ NoSheet.draft = Empty /\ NoSheet.base = Empty /\ NoSheet.touched = {}
  /\ Empty \in Inputs /\ \A f \in Field : Empty[f] = 0
  /\ FormInductive => Drawn(Empty)
<1>1. Empty \in Inputs /\ \A f \in Field : Empty[f] = 0
  BY DEF Empty, Inputs
<1>2. FormInductive => Drawn(Empty)
  BY <1>1 DEF FormInductive, FormTypes, FormLog, Drawn
<1> QED
  BY <1>1, <1>2 DEF NoSheet, FormSheet

\* What unmounting leaves of a sheet.
LEMMA UnmountedSheet ==
  ASSUME NEW sheet \in FormSheet
  PROVE  /\ Unmounted(sheet) \in FormSheet /\ Unmounted(sheet).open = sheet.open
         /\ Inside => /\ Unmounted(sheet).draft = Empty /\ Unmounted(sheet).base = Empty
                      /\ ~Unmounted(sheet).leaving
         /\ ~Inside => /\ Unmounted(sheet).draft = sheet.draft
                       /\ Unmounted(sheet).base = sheet.base
                       /\ Unmounted(sheet).leaving = sheet.leaving
<1>1. CASE Inside
  <2>1. Unmounted(sheet) = [NoSheet EXCEPT !.open = sheet.open]
    BY <1>1 DEF Unmounted
  <2> QED
    BY <1>1, <2>1, EmptySheet DEF FormSheet
<1>2. CASE ~Inside
  <2>1. Unmounted(sheet) = [sheet EXCEPT !.touched = {}]
    BY <1>2 DEF Unmounted
  <2> QED
    BY <1>2, <2>1 DEF FormSheet
<1> QED
  BY <1>1, <1>2

\* A form that is left keeps its request in the page, or leaves it behind.
LEMMA AbandonStep ==
  ASSUME FormInductive, Abandon
  PROVE  /\ form_request' \in {form_request, NoRequest}
         /\ form_orphan' \in {form_orphan, form_request, NoRequest}
         /\ form_orphan' # form_orphan => Inside
         /\ ~Inside => form_request' = form_request
BY DEF Abandon

\* What the invariant says of the form, its values and its requests.
LEMMA FactsOfForm ==
  ASSUME FormInductive
  PROVE  /\ form \in FormState /\ fields \in FormSheet /\ form_log \in FormLog
         /\ Drawn(entry) /\ Drawn(entry_shown) /\ Drawn(fields.draft) /\ Drawn(fields.base)
         /\ FormKept /\ "loan" \in InsideSheet
         /\ Inside <=> form.name \in InsideSheet
BY DEF FormInductive, FormTypes, InsideSheet, Inside

\* Opening a form keeps the invariant.
LEMMA OpenFormStep ==
  ASSUME FormInductive, OpenForm
  PROVE  FormInductive'
<1> DEFINE draft == OpenedDraft
<1>1. /\ form \in FormState /\ fields \in FormSheet /\ form_log \in FormLog
      /\ Drawn(entry) /\ Drawn(entry_shown) /\ Drawn(fields.draft) /\ Drawn(fields.base)
      /\ FormKept
  BY FactsOfForm
<1>2. /\ form.name # "none" /\ form_log' = [form_log EXCEPT !.opens = @ + 1]
      /\ UNCHANGED <<form, entry, entry_shown, form_request, form_orphan>>
  BY DEF OpenForm
<1>3. /\ form_log' \in FormLog /\ form_log'.opens = form_log.opens + 1
      /\ form_log'.inputs = form_log.inputs /\ form_log'.saves = form_log.saves
      /\ form_log'.created = form_log.created /\ form_log'.lost = form_log.lost
  BY <1>1, <1>2 DEF FormLog
<1>4. form_log.opens \in Nat /\ form_log.inputs \in Nat
  BY <1>1 DEF FormLog
<1>5. Drawn(draft)
  <2>1. Drawn([fields.draft EXCEPT !["account"] = 0])
    <3> DEFINE e == [fields.draft EXCEPT !["account"] = 0]
    <3>1. fields.draft \in Inputs /\ \A f \in Field : fields.draft[f] <= form_log.inputs
      BY <1>1 DEF Drawn
    <3>2. e \in Inputs /\ \A f \in Field : e[f] = 0 \/ e[f] = fields.draft[f]
      BY <3>1 DEF Inputs
    <3> HIDE DEF e
    <3>3. \A f \in Field : e[f] <= form_log.inputs
      BY <1>4, <3>1, <3>2
    <3>4. Drawn(e)
      BY <3>2, <3>3 DEF Drawn
    <3> QED
      BY <3>4 DEF e
  <2> QED
    BY <1>1, <2>1, EmptySheet DEF OpenedDraft
<1>6. form.mode = "edit" => draft = entry_shown
  BY DEF OpenedDraft
<1>7. form.mode = "create" => (\A b \in FormSent : b.draft # draft) \/ (~Inside /\ draft = fields.draft)
  <2>1. SUFFICES ASSUME form.mode = "create" PROVE (\A b \in FormSent : b.draft # draft)
                                                    \/ (~Inside /\ draft = fields.draft)
    OBVIOUS
  <2>2. CASE Inside
    <3>1. draft = Empty
      BY <2>1, <2>2 DEF OpenedDraft
    <3> QED
      BY <2>1, <3>1, EmptySheet, EmptiedDraft
  <2>3. CASE ~Inside /\ form.name = "transaction"
    <3>1. draft = [fields.draft EXCEPT !["account"] = 0]
      BY <2>1, <2>3 DEF OpenedDraft
    <3>2. draft["account"] = 0
      BY <1>1, <3>1, FormTables DEF Drawn, Inputs
    <3> QED
      BY <2>1, <2>3, <3>2 DEF FormInductive, SentOnce
  <2>4. CASE ~Inside /\ form.name # "transaction"
    BY <2>1, <2>4 DEF OpenedDraft
  <2> QED
    BY <2>2, <2>3, <2>4
<1>8. fields' = [NoSheet EXCEPT !.open = TRUE, !.draft = draft, !.base = entry_shown]
  BY DEF OpenForm
<1> HIDE DEF draft
<1>9. /\ fields' \in FormSheet /\ fields'.draft = draft /\ fields'.base = entry_shown
      /\ fields'.leaving = FALSE
  <2>1. draft \in Inputs /\ entry_shown \in Inputs
    BY <1>1, <1>5 DEF Drawn
  <2>2. fields' = [open |-> TRUE, draft |-> draft, touched |-> {}, base |-> entry_shown,
                   leaving |-> FALSE]
    BY <1>8 DEF NoSheet
  <2> QED
    BY <2>1, <2>2 DEF FormSheet
<1>10. Drawn(entry)' /\ Drawn(entry_shown)' /\ Drawn(fields.draft)' /\ Drawn(fields.base)'
  BY <1>1, <1>2, <1>3, <1>5, <1>9 DEF Drawn
<1>11. \A b \in FormSent : form.mode = "create" /\ b.draft = fields'.draft =>
            \/ b.draft \in form_log'.lost \/ fields'.leaving
            \/ IsPending(form_request') /\ form_request'.body = b
  <2>1. fields.leaving => Inside
    BY <1>1, FactsOfForm DEF FormKept
  <2> QED
    BY <1>2, <1>3, <1>7, <1>9, <2>1 DEF FormInductive, SentOnce
<1>12. form.mode = "edit" /\ fields'.open =>
            Untouched(fields'.draft, fields'.base, fields'.touched)
  BY <1>6, <1>9 DEF Untouched
<1>13. form'.mode = form.mode /\ form'.name \in {form.name, "none"} /\ form' \in FormState
  BY <1>1, <1>2
<1>14. /\ form'.name = "none" \/ form'.first \/ fields'.leaving => form.mode = "create"
       /\ fields'.leaving => form'.name = "loan"
       /\ IsPending(form_orphan') => form'.name \in InsideSheet \cup {"none"}
  BY <1>1, <1>2, <1>9 DEF FormKept
<1>15. form_log'.opens # 0 /\ form_log.opens <= form_log'.opens /\ form_log.inputs <= form_log'.inputs
  BY <1>3, <1>4
<1> QED
  BY <1>2, <1>3, <1>9, <1>10, <1>11, <1>12, <1>13, <1>14, <1>15, FormStep

\* Closing the sheet, and the list that takes its place.
LEMMA UnmountStep ==
  ASSUME FormInductive, Abandon, NEW sheet \in FormSheet,
         fields' = Unmounted(sheet), form' \in FormState, form'.mode = form.mode,
         form'.name = form.name, form'.first => form.first,
         sheet.open => fields.open /\ form.mode = "create",
         sheet.draft = fields.draft, sheet.base = fields.base,
         sheet.leaving = fields.leaving,
         UNCHANGED <<entry, entry_shown, form_log>>
  PROVE  FormInductive'
<1>1. /\ form \in FormState /\ fields \in FormSheet /\ form_log \in FormLog
      /\ Drawn(entry) /\ Drawn(entry_shown) /\ Drawn(fields.draft) /\ Drawn(fields.base)
      /\ FormKept
  BY FactsOfForm
<1>2. /\ fields' \in FormSheet /\ fields'.open = sheet.open
      /\ Inside => fields'.draft = Empty /\ fields'.base = Empty /\ ~fields'.leaving
      /\ ~Inside => fields'.draft = fields.draft /\ fields'.base = fields.base
                    /\ fields'.leaving = fields.leaving
  BY UnmountedSheet
<1>3. Drawn(entry)' /\ Drawn(entry_shown)' /\ Drawn(fields.draft)' /\ Drawn(fields.base)'
  BY <1>1, <1>2, EmptySheet DEF Drawn
<1>4. form_log.lost \subseteq form_log'.lost /\ (~Inside => form_request' = form_request)
  BY AbandonStep
<1>5. \A b \in FormSent : form.mode = "create" /\ b.draft = fields'.draft =>
            \/ b.draft \in form_log'.lost \/ fields'.leaving
            \/ IsPending(form_request') /\ form_request'.body = b
  <2>1. CASE Inside
    BY <1>2, <2>1, EmptiedDraft, EmptySheet
  <2>2. CASE ~Inside
    BY <1>2, <1>4, <2>2, SameDraft
  <2> QED
    BY <2>1, <2>2
<1>6. /\ form'.name = "none" \/ form'.first \/ fields'.leaving => form.mode = "create"
      /\ fields'.leaving => form'.name = "loan"
  BY <1>1, <1>2 DEF FormKept
<1>7. form_log'.opens = 0 => ~fields'.open
  BY <1>1, <1>2 DEF FormKept
<1>8. IsPending(form_orphan') => form'.name \in InsideSheet \cup {"none"}
  BY <1>1, AbandonStep DEF FormKept, Inside
<1>9. form.mode = "edit" => ~fields'.open
  BY <1>2
<1>10. form_log.inputs <= form_log'.inputs /\ form_log.opens <= form_log'.opens
  BY <1>1 DEF FormLog
<1>11. form_request' \in {form_request, NoRequest} /\ form_orphan' \in {form_orphan, form_request, NoRequest}
  BY AbandonStep
<1> QED
  BY <1>1, <1>2, <1>3, <1>5, <1>6, <1>7, <1>8, <1>9, <1>10, <1>11, FormStep

\* Closing it, and the list that takes the place of the first form, keep it.
LEMMA UnmountSteps ==
  ASSUME FormInductive, CloseForm \/ ListFills
  PROVE  FormInductive'
<1>1. form \in FormState /\ fields \in FormSheet /\ FormKept
  BY FactsOfForm
<1>2. CASE CloseForm
  <2> DEFINE sheet == [fields EXCEPT !.open = FALSE]
  <2>1. /\ sheet \in FormSheet /\ ~sheet.open /\ sheet.draft = fields.draft
        /\ sheet.base = fields.base /\ sheet.leaving = fields.leaving
    BY <1>1 DEF FormSheet
  <2>2. fields' = Unmounted(sheet) /\ Abandon /\ UNCHANGED <<form, entry, entry_shown, form_log>>
    BY <1>2 DEF CloseForm
  <2> HIDE DEF sheet
  <2> QED
    BY <1>1, <2>1, <2>2, UnmountStep
<1>3. CASE ListFills
  <2>1. /\ form.first /\ form' = [form EXCEPT !.first = FALSE]
        /\ fields' = Unmounted(fields) /\ Abandon
        /\ UNCHANGED <<entry, entry_shown, form_log>>
    BY <1>3 DEF ListFills
  <2>2. /\ form' \in FormState /\ form'.mode = form.mode /\ form'.name = form.name
        /\ form'.first = FALSE
    BY <1>1, <2>1 DEF FormState
  <2>3. form.mode = "create"
    BY <1>1, <2>1 DEF FormKept
  <2> QED
    BY <1>1, <2>1, <2>2, <2>3, UnmountStep
<1> QED
  BY <1>2, <1>3

\* Typing into some fields, each to a value of its own, keeps it.
LEMMA TypingStep ==
  ASSUME FormInductive, NEW touched \in SUBSET Field, NEW draft \in Inputs,
         Typing(touched, draft), touched # {},
         \A f \in touched : draft[f] = form_log.inputs + 1,
         \A f \in Field \ touched :
           \/ draft[f] = fields.draft[f]
           \/ draft[f] = 0 /\ \E g \in touched : f \in Emptied(g)
  PROVE  FormInductive'
<1>1. /\ form \in FormState /\ fields \in FormSheet /\ form_log \in FormLog
      /\ Drawn(entry) /\ Drawn(entry_shown) /\ Drawn(fields.draft) /\ Drawn(fields.base)
      /\ FormKept
  BY FactsOfForm
<1>2. /\ fields.open /\ fields' = [fields EXCEPT !.touched = @ \cup touched, !.draft = draft]
      /\ form_log' = [form_log EXCEPT !.inputs = @ + 1]
      /\ UNCHANGED <<form, entry, entry_shown, form_request, form_orphan>>
  BY DEF Typing
<1>3. /\ form_log' \in FormLog /\ form_log'.opens = form_log.opens
      /\ form_log'.inputs = form_log.inputs + 1 /\ form_log'.saves = form_log.saves
      /\ form_log'.created = form_log.created /\ form_log'.lost = form_log.lost
  BY <1>1, <1>2 DEF FormLog
<1>4. form_log.opens \in Nat /\ form_log.inputs \in Nat
  BY <1>1 DEF FormLog
<1>5. /\ fields' \in FormSheet /\ fields'.draft = draft /\ fields'.base = fields.base
      /\ fields'.touched = fields.touched \cup touched /\ fields'.open
      /\ fields'.leaving = fields.leaving
  BY <1>1, <1>2 DEF FormSheet
<1>6. ASSUME NEW d, Drawn(d) PROVE d \in Inputs /\ \A f \in Field : d[f] <= form_log'.inputs
  BY <1>3, <1>4, <1>6 DEF Drawn, Inputs
<1>7. Drawn(entry)' /\ Drawn(entry_shown)' /\ Drawn(fields.base)'
  BY <1>1, <1>2, <1>5, <1>6 DEF Drawn
<1>8. Drawn(fields.draft)'
  <2>1. \A f \in Field : draft[f] <= form_log'.inputs
    <3>1. \A f \in Field : fields.draft[f] <= form_log'.inputs
      BY <1>1, <1>6
    <3> QED
      BY <1>3, <1>4, <3>1
  <2> QED
    BY <1>5, <2>1 DEF Drawn
<1>9. \A b \in FormSent : b.draft # fields'.draft
  <2>1. PICK g \in touched : draft[g] = form_log.inputs + 1
    OBVIOUS
  <2> QED
    BY <1>5, <2>1, TypedDraft
<1>10. form.mode = "edit" /\ fields'.open =>
            Untouched(fields'.draft, fields'.base, fields'.touched)
  BY <1>2, <1>5 DEF FormInductive, UntouchedKept, Untouched
<1>11. /\ form'.name = "none" \/ form'.first \/ fields'.leaving => form.mode = "create"
       /\ fields'.leaving => form'.name = "loan"
       /\ IsPending(form_orphan') => form'.name \in InsideSheet \cup {"none"}
       /\ form_log'.opens = 0 => ~fields'.open
  BY <1>1, <1>2, <1>3, <1>5 DEF FormKept
<1>12. form_log.inputs <= form_log'.inputs /\ form_log.opens <= form_log'.opens
  BY <1>3, <1>4
<1> QED
  BY <1>1, <1>2, <1>3, <1>5, <1>7, <1>8, <1>9, <1>10, <1>11, <1>12, FormStep

\* Typing into one field, or filling in the form, is such a step.
LEMMA TypingSteps ==
  ASSUME FormInductive, (\E f \in Field : TypeInto(f)) \/ FillIn
  PROVE  FormInductive'
<1>1. fields.draft \in Inputs /\ form_log.inputs + 1 \in Nat /\ form \in FormState
  BY FactsOfForm DEF FormSheet, FormLog
<1>2. ASSUME NEW f \in Field, TypeInto(f) PROVE FormInductive'
  <2> DEFINE draft == [g \in Field |-> IF g = f THEN form_log.inputs + 1
                                      ELSE IF g \in Emptied(f) THEN 0 ELSE fields.draft[g]]
  <2>1. draft \in Inputs /\ draft[f] = form_log.inputs + 1
        /\ \A g \in Field \ {f} : \/ draft[g] = fields.draft[g]
                                  \/ draft[g] = 0 /\ g \in Emptied(f)
    BY <1>1 DEF Inputs
  <2>2. Typing({f}, draft)
    BY <1>2 DEF TypeInto
  <2> HIDE DEF draft
  <2> QED
    BY <2>1, <2>2, TypingStep
<1>3. CASE FillIn
  <2> DEFINE missing == {f \in NeedsOf[form.name][form.mode] : fields.draft[f] = 0}
             draft == [f \in Field |-> IF f \in missing THEN form_log.inputs + 1
                                       ELSE fields.draft[f]]
  <2>1. Typing(missing, draft) /\ missing # {}
    BY <1>3 DEF FillIn
  <2>2. missing \in SUBSET Field
    <3>1. form.name \in FormName /\ form.mode \in Modes
      BY <1>1, <1>3 DEF FillIn, FormState
    <3> QED
      BY <3>1, FormNeeds
  <2> HIDE DEF missing
  <2>3. /\ draft \in Inputs /\ \A f \in missing : draft[f] = form_log.inputs + 1
        /\ \A g \in Field \ missing : draft[g] = fields.draft[g]
    BY <1>1, <2>2 DEF Inputs
  <2> HIDE DEF draft
  <2> QED
    BY <2>1, <2>2, <2>3, TypingStep
<1> QED
  BY <1>2, <1>3

\* Changes of the entry, a refetch and the answer to a request left behind keep it.
LEMMA BehindSteps ==
  ASSUME FormInductive, RefetchEntry \/ (\E f \in Field : ChangeEntry(f)) \/ OrphanAnswered
  PROVE  FormInductive'
<1>1. /\ form \in FormState /\ fields \in FormSheet /\ form_log \in FormLog
      /\ Drawn(entry) /\ Drawn(entry_shown) /\ Drawn(fields.draft) /\ Drawn(fields.base)
      /\ FormKept
  BY FactsOfForm
<1>2. /\ UNCHANGED <<form, fields, form_request>>
      /\ form_orphan' \in {form_orphan, NoRequest}
  BY DEF RefetchEntry, Refetched, ChangeEntry, OrphanAnswered
<1>3. /\ form_log' \in FormLog /\ form_log'.opens = form_log.opens
      /\ form_log.inputs <= form_log'.inputs /\ form_log'.saves = form_log.saves
      /\ form_log'.created = form_log.created /\ form_log'.lost = form_log.lost
  <2>1. CASE UNCHANGED form_log
    BY <1>1, <2>1 DEF FormLog
  <2>2. CASE form_log' = [form_log EXCEPT !.inputs = @ + 1]
    BY <1>1, <2>2 DEF FormLog
  <2> QED
    BY <2>1, <2>2 DEF RefetchEntry, ChangeEntry, OrphanAnswered
<1>4. form_log.opens \in Nat /\ form_log.inputs \in Nat /\ form_log'.inputs \in Nat
  BY <1>1, <1>3 DEF FormLog
<1>5. ASSUME NEW d, Drawn(d) PROVE d \in Inputs /\ \A f \in Field : d[f] <= form_log'.inputs
  BY <1>3, <1>4, <1>5 DEF Drawn, Inputs
<1>6. Drawn(fields.draft)' /\ Drawn(fields.base)'
  BY <1>1, <1>2, <1>5 DEF Drawn
<1>7. Drawn(entry)' /\ Drawn(entry_shown)'
  <2>1. CASE RefetchEntry \/ OrphanAnswered
    BY <1>1, <1>5, <2>1 DEF RefetchEntry, OrphanAnswered, Drawn
  <2>2. ASSUME NEW f \in Field, ChangeEntry(f) PROVE Drawn(entry)' /\ Drawn(entry_shown)'
    <3>1. /\ entry' = [entry EXCEPT ![f] = form_log.inputs + 1]
          /\ form_log'.inputs = form_log.inputs + 1 /\ entry_shown' = entry_shown
      BY <1>1, <2>2 DEF ChangeEntry, FormLog
    <3>2. entry \in Inputs /\ \A g \in Field : entry[g] <= form_log'.inputs
      BY <1>1, <1>5
    <3>3. entry' \in Inputs /\ \A g \in Field : entry'[g] \in {entry[g], form_log.inputs + 1}
      BY <1>4, <3>1, <3>2 DEF Inputs
    <3>4. \A g \in Field : entry'[g] <= form_log'.inputs
      BY <1>4, <3>1, <3>2, <3>3
    <3> QED
      BY <1>1, <1>5, <3>1, <3>3, <3>4 DEF Drawn
  <2> QED
    BY <2>1, <2>2
<1>8. \A b \in FormSent : form.mode = "create" /\ b.draft = fields'.draft =>
            \/ b.draft \in form_log'.lost \/ fields'.leaving
            \/ IsPending(form_request') /\ form_request'.body = b
  BY <1>2, <1>3, SameDraft
<1>9. form.mode = "edit" /\ fields'.open =>
            Untouched(fields'.draft, fields'.base, fields'.touched)
  BY <1>2 DEF FormInductive, UntouchedKept
<1>10. /\ form'.name = "none" \/ form'.first \/ fields'.leaving => form.mode = "create"
       /\ fields'.leaving => form'.name = "loan"
       /\ IsPending(form_orphan') => form'.name \in InsideSheet \cup {"none"}
       /\ form_log'.opens = 0 => ~fields'.open
  BY <1>1, <1>2, <1>3, FormStages DEF FormKept
<1> QED
  BY <1>1, <1>2, <1>3, <1>4, <1>6, <1>7, <1>8, <1>9, <1>10, FormStep

-----------------------------------------------------------------------------

\* Mounting a form, blank or with the entry, keeps it.
LEMMA MountFormStep ==
  ASSUME FormInductive, NEW name \in FormName, NEW mode \in Modes, NEW first \in BOOLEAN,
         MountForm(name, mode, first)
  PROVE  FormInductive'
<1>1. /\ form \in FormState /\ fields \in FormSheet /\ form_log \in FormLog /\ FormKept
  BY FactsOfForm
<1>2. /\ form.name = "none" /\ form_log.opens = 0
      /\ first => mode = "create" /\ name \in {"loan", "installment"}
      /\ form' = [name |-> name, mode |-> mode, first |-> first]
      /\ UNCHANGED <<entry, entry_shown, fields, form_request, form_orphan, form_log>>
  BY DEF MountForm
<1>3. /\ form' \in FormState /\ form'.name = name /\ form'.mode = mode /\ form'.first = first
      /\ name # "none"
  BY <1>2, FormTables DEF FormState
<1>4. ~fields.open /\ FormSent = {} /\ ~IsPending(form_request) /\ ~IsPending(form_orphan)
      /\ ~fields.leaving
  BY <1>1, <1>2 DEF FormKept
<1>5. form_log.created = {}
  BY <1>1, <1>4 DEF FormSent, FormLog
<1>6. FormSent' = {}
  BY <1>2, <1>4 DEF FormSent
<1>7. FormTypes'
  BY <1>2, <1>3 DEF FormInductive, FormTypes, Drawn
<1>8. FormKept'
  BY <1>2, <1>3, <1>4, <1>5, <1>6 DEF FormKept
<1>9. SentOnce' /\ UntouchedKept'
  BY <1>2, <1>4, <1>6 DEF SentOnce, UntouchedKept
<1> QED
  BY <1>7, <1>8, <1>9 DEF FormInductive

\* Leaving for the page of the loan keeps it.
LEMMA LeaveForPageStep ==
  ASSUME FormInductive, LeaveForPage
  PROVE  FormInductive'
<1>1. /\ form \in FormState /\ fields \in FormSheet /\ form_log \in FormLog
      /\ Drawn(entry) /\ Drawn(entry_shown) /\ Drawn(fields.draft) /\ Drawn(fields.base)
      /\ FormKept
  BY FactsOfForm
<1>2. /\ fields.leaving /\ fields' = NoSheet /\ form' = [form EXCEPT !.name = "none"]
      /\ Abandon /\ UNCHANGED <<entry, entry_shown, form_log>>
  BY DEF LeaveForPage
<1>3. /\ form' \in FormState /\ form'.name = "none" /\ form'.mode = form.mode
      /\ form'.first = form.first
  BY <1>1, <1>2 DEF FormState
<1>4. form.mode = "create" /\ form.name = "loan"
  BY <1>1, <1>2 DEF FormKept
<1>5. Drawn(entry)' /\ Drawn(entry_shown)' /\ Drawn(fields.draft)' /\ Drawn(fields.base)'
  BY <1>1, <1>2, EmptySheet DEF Drawn
<1>6. \A b \in FormSent : form.mode = "create" /\ b.draft = fields'.draft =>
            \/ b.draft \in form_log'.lost \/ fields'.leaving
            \/ IsPending(form_request') /\ form_request'.body = b
  BY <1>2, EmptiedDraft, EmptySheet
<1>7. form_log.inputs <= form_log'.inputs /\ form_log.opens <= form_log'.opens
  BY <1>1, <1>2 DEF FormLog
<1>8. form_request' \in {form_request, NoRequest}
      /\ form_orphan' \in {form_orphan, form_request, NoRequest}
  BY <1>2, AbandonStep
<1>9. /\ fields' \in FormSheet /\ ~fields'.open /\ ~fields'.leaving
  BY <1>2, EmptySheet
<1>10. /\ form'.name = "none" \/ form'.first \/ fields'.leaving => form.mode = "create"
       /\ fields'.leaving => form'.name = "loan"
       /\ IsPending(form_orphan') => form'.name \in InsideSheet \cup {"none"}
  BY <1>3, <1>4, <1>9
<1> QED
  BY <1>1, <1>2, <1>3, <1>5, <1>6, <1>7, <1>8, <1>9, <1>10, FormStep

\* Saving keeps it.
LEMMA SubmitFormStep ==
  ASSUME FormInductive, SubmitForm
  PROVE  FormInductive'
<1>1. /\ form \in FormState /\ fields \in FormSheet /\ form_log \in FormLog
      /\ Drawn(entry) /\ Drawn(entry_shown) /\ Drawn(fields.draft) /\ Drawn(fields.base)
      /\ FormKept
  BY FactsOfForm
<1> DEFINE n == form_log.saves + 1
           retry == fields.draft \in form_log.lost \/ fields.leaving
           b == [n |-> n, draft |-> fields.draft, touched |-> fields.touched,
                 base |-> fields.base, retry |-> retry]
<1>2. /\ form.name # "none" /\ fields.open /\ ~IsPending(form_request)
      /\ form.mode = "create" => \A f \in NeedsOf[form.name]["create"] : fields.draft[f] # 0
      /\ form_log' = [form_log EXCEPT !.saves = n]
      /\ form_request' = Request(b)
      /\ UNCHANGED <<form, entry, entry_shown, fields, form_orphan>>
  BY <1>1 DEF SubmitForm, Submittable, FormLog
<1>3. n \in Nat /\ n > form_log.saves /\ form_log.saves \in Nat
  BY <1>1 DEF FormLog
<1>4. PICK again \in BOOLEAN : again <=> retry
  OBVIOUS
<1>5. retry = again
  BY <1>1, <1>4 DEF FormSheet
<1> HIDE DEF n, retry
<1>6. /\ b \in FormBody /\ b.n = n /\ b.draft = fields.draft /\ b.touched = fields.touched
      /\ b.base = fields.base /\ b.retry = retry
  BY <1>1, <1>3, <1>5 DEF FormSheet, FormBody
<1> HIDE DEF b
<1>7. form_request' \in FormPending /\ IsPending(form_request)' /\ form_request'.body = b
  BY <1>2, <1>6 DEF Request, FormPending, IsPending
<1>8. /\ form_log' \in FormLog /\ form_log'.saves = n /\ form_log'.inputs = form_log.inputs
      /\ form_log'.opens = form_log.opens /\ form_log'.created = form_log.created
      /\ form_log'.lost = form_log.lost
  BY <1>1, <1>2, <1>3 DEF FormLog
<1>9. FormSent' \subseteq FormSent \cup {b}
  BY <1>2, <1>7, <1>8 DEF FormSent
<1>10. FormTypes'
  BY <1>1, <1>2, <1>7, <1>8 DEF FormInductive, FormTypes, Drawn
<1>11. FormKept'
  BY <1>1, <1>2, <1>8 DEF FormKept
<1>12. \A c \in FormSent' : c.n \in 1 .. form_log'.saves /\ Drawn(c.draft)'
  <2>1. \A c \in FormSent : c.n \in 1 .. form_log.saves /\ Drawn(c.draft)
    BY DEF FormInductive, SentOnce
  <2>2. \A c \in FormSent : c.n \in 1 .. n /\ c \in FormBody
    BY <1>3, <2>1 DEF FormSent
  <2>3. b.n \in 1 .. n
    BY <1>3, <1>6
  <2>4. ASSUME NEW c \in FormSent' PROVE Drawn(c.draft)'
    <3>1. Drawn(c.draft)
      BY <1>1, <1>6, <1>9, <2>1
    <3> QED
      BY <1>8, <3>1 DEF Drawn
  <2> QED
    BY <1>8, <1>9, <2>2, <2>3, <2>4
<1>13. SentOnce'
  <2>1. SUFFICES ASSUME form.mode = "create"
        PROVE  /\ \A c \in FormSent' :
                    /\ \E f \in Field \ {"account", "type"} : c.draft[f] # 0
                    /\ form.name = "transaction" => c.draft["account"] # 0
                    /\ c.draft = fields.draft =>
                         \/ c.draft \in form_log.lost \/ fields.leaving
                         \/ c = b
               /\ \A a, c \in FormSent' : a.draft = c.draft /\ a.n < c.n => c.retry
    BY <1>2, <1>7, <1>8, <1>12 DEF SentOnce
  <2>2. \A c \in FormSent :
          /\ \E f \in Field \ {"account", "type"} : c.draft[f] # 0
          /\ form.name = "transaction" => c.draft["account"] # 0
          /\ c.draft = fields.draft => c.draft \in form_log.lost \/ fields.leaving
          /\ c.n \in 1 .. form_log.saves
    BY <1>2, <2>1 DEF FormInductive, SentOnce
  <2>3. form.name \in FormName
    BY <1>1, <1>2 DEF FormState
  <2>4. /\ \E f \in Field \ {"account", "type"} : b.draft[f] # 0
        /\ form.name = "transaction" => b.draft["account"] # 0
    BY <1>2, <1>6, <2>1, <2>3, FormNeeds
  <2>5. ASSUME NEW a \in FormSent', NEW c \in FormSent', a.draft = c.draft, a.n < c.n
        PROVE  c.retry
    <3>1. CASE c \in FormSent
      <4>1. a \in FormSent
        BY <1>3, <1>6, <1>9, <2>2, <2>5, <3>1
      <4> QED
        BY <2>1, <2>5, <3>1, <4>1 DEF FormInductive, SentOnce
    <3>2. CASE c = b
      <4>1. a \in FormSent
        BY <1>3, <1>6, <1>9, <2>5, <3>2
      <4>2. retry
        BY <1>6, <2>2, <2>5, <3>2, <4>1 DEF retry
      <4> QED
        BY <1>6, <3>2, <4>2
    <3> QED
      BY <1>9, <3>1, <3>2
  <2> QED
    BY <1>9, <2>2, <2>4, <2>5
<1>14. UntouchedKept'
  BY <1>2, <1>6, <1>7 DEF FormInductive, UntouchedKept
<1> QED
  BY <1>10, <1>11, <1>13, <1>14 DEF FormInductive

\* The server takes a request, and creates or changes what it says.
LEMMA ServeFormStep ==
  ASSUME FormInductive, ServeForm
  PROVE  FormInductive'
<1>1. /\ form \in FormState /\ fields \in FormSheet /\ form_log \in FormLog
      /\ Drawn(entry) /\ Drawn(entry_shown) /\ Drawn(fields.draft) /\ Drawn(fields.base)
      /\ FormKept
  BY FactsOfForm
<1>2. PICK m \in {form_request, form_orphan} :
        /\ AtServer(m)
        /\ \/ m = form_request /\ form_request' = Done(m) /\ UNCHANGED form_orphan
           \/ m = form_orphan /\ form_orphan' = Done(m) /\ UNCHANGED form_request
        /\ IF form.mode = "edit"
             THEN entry' = Edited(m.body.draft) /\ UNCHANGED form_log
             ELSE /\ form_log' = [form_log EXCEPT !.created = @ \cup {m.body}]
                  /\ UNCHANGED entry
        /\ UNCHANGED <<form, entry_shown, fields>>
  BY DEF ServeForm
<1>3. m \in FormPending /\ m.body \in FormBody /\ IsPending(m)
  BY <1>2, FormStages DEF FormInductive, FormTypes
<1>4. m.body \in FormSent
  BY <1>2, <1>3 DEF FormSent
<1>5. Drawn(m.body.draft)
  BY <1>4 DEF FormInductive, SentOnce
<1>6. /\ form_log' \in FormLog /\ form_log'.saves = form_log.saves
      /\ form_log'.inputs = form_log.inputs /\ form_log'.opens = form_log.opens
      /\ form_log'.lost = form_log.lost
      /\ form_log'.created \subseteq form_log.created \cup {m.body}
      /\ form.mode = "edit" => form_log'.created = form_log.created
  <2>1. CASE form.mode = "edit"
    BY <1>1, <1>2, <2>1
  <2>2. CASE form.mode # "edit"
    <3>1. form_log' = [form_log EXCEPT !.created = @ \cup {m.body}]
      BY <1>2, <2>2
    <3> QED
      BY <1>1, <1>3, <2>2, <3>1 DEF FormLog
  <2> QED
    BY <2>1, <2>2
<1>7. Done(m) \in FormPending /\ Done(m).body = m.body /\ IsPending(Done(m))
  BY <1>3 DEF Done, FormPending, IsPending
<1>8. /\ form_request' \in FormPending \cup {NoRequest}
      /\ form_orphan' \in FormPending \cup {NoRequest}
      /\ IsPending(form_request') <=> IsPending(form_request)
      /\ IsPending(form_orphan') <=> IsPending(form_orphan)
      /\ IsPending(form_request) => form_request'.body = form_request.body
      /\ IsPending(form_orphan) => form_orphan'.body = form_orphan.body
  BY <1>2, <1>3, <1>7 DEF FormInductive, FormTypes
<1>9. FormSent' \subseteq FormSent
  BY <1>4, <1>6, <1>8 DEF FormSent
<1>10. Drawn(entry)'
  <2>1. CASE form.mode = "edit"
    <3> DEFINE Written(f) == IF f \in FieldsOf[form.name]["edit"] \cup SentAlong[form.name]
                             THEN m.body.draft[f]
                             ELSE IF f \in Cleared[form.name] THEN 0 ELSE entry[f]
    <3>1. \A f \in Field : Written(f) \in Nat /\ Written(f) <= form_log.inputs
      BY <1>1, <1>5 DEF Drawn, Inputs, FormLog
    <3>2. entry' = [f \in Field |-> Written(f)]
      BY <1>2, <2>1 DEF Edited
    <3> HIDE DEF Written
    <3> QED
      BY <1>6, <3>1, <3>2 DEF Drawn, Inputs
  <2>2. CASE form.mode # "edit"
    BY <1>1, <1>2, <1>6, <2>2 DEF Drawn
  <2> QED
    BY <2>1, <2>2
<1>11. Drawn(entry_shown)' /\ Drawn(fields.draft)' /\ Drawn(fields.base)'
  BY <1>1, <1>2, <1>6 DEF Drawn
<1>12. FormTypes'
  BY <1>1, <1>2, <1>6, <1>8, <1>10, <1>11 DEF FormTypes
<1>13. FormKept'
  BY <1>1, <1>2, <1>6, <1>8, <1>9 DEF FormKept
<1>14. SentOnce'
  <2>1. \A b \in FormSent' : b.n \in 1 .. form_log'.saves /\ Drawn(b.draft)'
    BY <1>6, <1>9 DEF FormInductive, SentOnce, Drawn
  <2> QED
    BY <1>2, <1>6, <1>8, <1>9, <2>1 DEF FormInductive, SentOnce
<1>15. UntouchedKept'
  BY <1>2, <1>8 DEF FormInductive, UntouchedKept
<1> QED
  BY <1>12, <1>13, <1>14, <1>15 DEF FormInductive

\* The answer to a save keeps it.
LEMMA AnswerFormStep ==
  ASSUME FormInductive, AnswerForm
  PROVE  FormInductive'
<1>1. /\ form \in FormState /\ fields \in FormSheet /\ form_log \in FormLog
      /\ Drawn(entry) /\ Drawn(entry_shown) /\ Drawn(fields.draft) /\ Drawn(fields.base)
      /\ FormKept
  BY FactsOfForm
<1>2. /\ IsPending(form_request) /\ form_request' = NoRequest
      /\ UNCHANGED <<form, entry, entry_shown, form_orphan>>
  BY DEF AnswerForm
<1>3. form_request.body.draft \in Inputs
  BY <1>2, FormStages DEF FormInductive, FormTypes, FormBody
<1>4. /\ form_log' \in FormLog /\ form_log'.saves = form_log.saves
      /\ form_log'.inputs = form_log.inputs /\ form_log'.opens = form_log.opens
      /\ form_log'.created = form_log.created
      /\ form_log.lost \subseteq form_log'.lost
      /\ \/ fields' = fields /\ form_request.body.draft \in form_log'.lost
         \/ form_log' = form_log
  <2>1. CASE form_log' = form_log
    BY <1>1, <2>1
  <2>2. CASE /\ form_log' = [form_log EXCEPT !.lost = @ \cup {form_request.body.draft}]
             /\ fields' = fields
    BY <1>1, <1>3, <2>2 DEF FormLog
  <2> QED
    BY <2>1, <2>2 DEF AnswerForm
<1>5. /\ fields' \in FormSheet /\ fields'.base \in {fields.base, Empty}
      /\ \/ fields'.draft = fields.draft
         \/ fields'.draft \in Inputs /\ \A f \in Field : fields'.draft[f] \in {0, fields.draft[f]}
      /\ fields'.open => fields.open
      /\ form.mode = "edit" => fields' = fields \/ ~fields'.open
      /\ fields'.leaving => fields.leaving \/ (form.name = "loan" /\ form.mode = "create")
      /\ form.mode = "create" =>
           \/ fields'.leaving
           \/ fields' = fields /\ form_request.body.draft \in form_log'.lost
           \/ \A b \in FormSent : b.draft # fields'.draft
  <2>1. CASE form.mode = "edit" /\ fields' = Unmounted([fields EXCEPT !.open = FALSE])
    <3> DEFINE sheet == [fields EXCEPT !.open = FALSE]
    <3>1. /\ sheet \in FormSheet /\ ~sheet.open /\ sheet.draft = fields.draft
          /\ sheet.base = fields.base /\ sheet.leaving = fields.leaving
      BY <1>1 DEF FormSheet
    <3>2. fields' = Unmounted(sheet)
      BY <2>1
    <3> HIDE DEF sheet
    <3>3. /\ fields' \in FormSheet /\ fields'.open = sheet.open
          /\ Inside => fields'.draft = Empty /\ fields'.base = Empty /\ ~fields'.leaving
          /\ ~Inside => fields'.draft = fields.draft /\ fields'.base = fields.base
                        /\ fields'.leaving = fields.leaving
      BY <3>1, <3>2, UnmountedSheet
    <3> QED
      BY <2>1, <3>1, <3>3, EmptySheet
  <2>2. CASE form.mode # "edit" /\ fields' = Saved
    <3> DEFINE draft == [f \in Field |-> IF f \in Kept THEN fields.draft[f] ELSE 0]
    <3>1. /\ draft \in Inputs /\ \A f \in Field : draft[f] \in {0, fields.draft[f]}
          /\ \A f \in Field \ {"account", "type"} : draft[f] = 0
      BY <1>1 DEF Drawn, Inputs, Kept
    <3>2. fields' = [NoSheet EXCEPT !.draft = draft]
      BY <2>2 DEF Saved
    <3> HIDE DEF draft
    <3>3. /\ fields' \in FormSheet /\ fields'.open = FALSE /\ fields'.leaving = FALSE
          /\ fields'.draft = draft /\ fields'.base = Empty
      BY <3>1, <3>2, EmptySheet DEF FormSheet
    <3>4. form.mode = "create"
      BY <1>1, <2>2 DEF FormState, Modes
    <3>5. \A b \in FormSent : b.draft # draft
      BY <3>1, <3>4, EmptiedDraft
    <3> QED
      BY <2>2, <3>1, <3>3, <3>5
  <2>3. CASE /\ form.name = "loan" /\ form.mode = "create"
             /\ fields' = [fields EXCEPT !.leaving = TRUE]
    <3>1. /\ fields' \in FormSheet /\ fields'.leaving /\ fields'.draft = fields.draft
          /\ fields'.base = fields.base /\ fields'.open = fields.open
      BY <1>1, <2>3 DEF FormSheet
    <3> QED
      BY <2>3, <3>1
  <2>4. CASE fields' = fields /\ form_request.body.draft \in form_log'.lost
    BY <1>1, <2>4
  <2>5. \/ form.mode = "edit" /\ fields' = Unmounted([fields EXCEPT !.open = FALSE])
        \/ form.mode # "edit" /\ fields' = Saved
        \/ /\ form.name = "loan" /\ form.mode = "create"
           /\ fields' = [fields EXCEPT !.leaving = TRUE]
        \/ fields' = fields /\ form_log' = [form_log EXCEPT !.lost = @ \cup {form_request.body.draft}]
    BY DEF AnswerForm
  <2>6. ASSUME form_log' = [form_log EXCEPT !.lost = @ \cup {form_request.body.draft}]
        PROVE  form_request.body.draft \in form_log'.lost
    BY <1>1, <2>6 DEF FormLog
  <2> QED
    BY <2>1, <2>2, <2>3, <2>4, <2>5, <2>6
<1>6. Drawn(entry)' /\ Drawn(entry_shown)' /\ Drawn(fields.base)'
  <2>1. Drawn(Empty)
    BY EmptySheet
  <2> QED
    BY <1>1, <1>2, <1>4, <1>5, <2>1 DEF Drawn
<1>7. Drawn(fields.draft)'
  <2>1. \A f \in Field : fields'.draft[f] <= form_log.inputs
    BY <1>1, <1>5 DEF Drawn, Inputs, FormLog
  <2>2. fields'.draft \in Inputs
    BY <1>5 DEF FormSheet
  <2> QED
    BY <1>4, <2>1, <2>2 DEF Drawn
<1>8. \A b \in FormSent : form.mode = "create" /\ b.draft = fields'.draft =>
            \/ b.draft \in form_log'.lost \/ fields'.leaving
            \/ IsPending(form_request') /\ form_request'.body = b
  <2> SUFFICES ASSUME NEW b \in FormSent, form.mode = "create", b.draft = fields'.draft,
                      ~fields'.leaving
               PROVE  b.draft \in form_log'.lost
    OBVIOUS
  <2>1. fields' = fields /\ form_request.body.draft \in form_log'.lost
    BY <1>5
  <2>2. b.draft \in form_log.lost \/ fields.leaving \/ form_request.body = b
    BY <2>1 DEF FormInductive, SentOnce
  <2> QED
    BY <1>4, <2>1, <2>2
<1>9. form.mode = "edit" /\ fields'.open =>
            Untouched(fields'.draft, fields'.base, fields'.touched)
  BY <1>5 DEF FormInductive, UntouchedKept
<1>10. /\ form'.name = "none" \/ form'.first \/ fields'.leaving => form.mode = "create"
       /\ fields'.leaving => form'.name = "loan"
       /\ IsPending(form_orphan') => form'.name \in InsideSheet \cup {"none"}
       /\ form_log'.opens = 0 => ~fields'.open
  BY <1>1, <1>2, <1>4, <1>5 DEF FormKept
<1>11. form_log.inputs <= form_log'.inputs /\ form_log.opens <= form_log'.opens
  BY <1>1, <1>4 DEF FormLog
<1> QED
  BY <1>1, <1>2, <1>4, <1>5, <1>6, <1>7, <1>8, <1>9, <1>10, <1>11, FormStep

\* Every step of the forms keeps their invariant.
LEMMA FormInductiveNext == FormInductive /\ [FormNext]_form_vars => FormInductive'
<1> SUFFICES ASSUME FormInductive, [FormNext]_form_vars PROVE FormInductive'
  OBVIOUS
<1>1. CASE UNCHANGED form_vars
  <2>1. FormSent' = FormSent
    BY <1>1 DEF form_vars, FormSent
  <2>2. FormTypes'
    BY <1>1 DEF FormInductive, FormTypes, Drawn, form_vars
  <2>3. FormKept' /\ UntouchedKept'
    BY <1>1, <2>1 DEF FormInductive, FormKept, UntouchedKept, form_vars
  <2>4. SentOnce'
    BY <1>1, <2>1 DEF FormInductive, SentOnce, Drawn, form_vars
  <2> QED
    BY <2>2, <2>3, <2>4 DEF FormInductive
<1>2. ASSUME NEW n \in FormName, NEW m \in Modes, NEW first \in BOOLEAN, MountForm(n, m, first)
      PROVE  FormInductive'
  BY <1>2, MountFormStep
<1>3. CASE OpenForm
  BY <1>3, OpenFormStep
<1>4. CASE CloseForm \/ ListFills
  BY <1>4, UnmountSteps
<1>5. CASE FillIn \/ \E f \in Field : TypeInto(f)
  BY <1>5, TypingSteps
<1>6. CASE RefetchEntry \/ OrphanAnswered \/ \E f \in Field : ChangeEntry(f)
  BY <1>6, BehindSteps
<1>7. CASE SubmitForm
  BY <1>7, SubmitFormStep
<1>8. CASE ServeForm
  BY <1>8, ServeFormStep
<1>9. CASE AnswerForm
  BY <1>9, AnswerFormStep
<1>10. CASE LeaveForPage
  BY <1>10, LeaveForPageStep
<1> QED
  BY <1>1, <1>2, <1>3, <1>4, <1>5, <1>6, <1>7, <1>8, <1>9, <1>10 DEF FormNext

\* The invariant that is proved implies the one that the run checks.
LEMMA FormHolds == FormInductive => FormInvariant
<1> SUFFICES ASSUME FormInductive PROVE FormInvariant
  OBVIOUS
<1>1. /\ form \in FormState /\ fields \in FormSheet /\ form_log \in FormLog
      /\ Drawn(entry) /\ Drawn(entry_shown) /\ Drawn(fields.draft) /\ Drawn(fields.base)
      /\ FormKept
  BY FactsOfForm
<1>2. \A d \in {entry, entry_shown, fields.draft, fields.base} :
        d \in [Field -> 0 .. form_log.inputs]
  BY <1>1 DEF Drawn, Inputs, FormLog
<1>3. ASSUME NEW m \in {form_request, form_orphan}
      PROVE  m = NoRequest \/ (m.stage \in {"sent", "done"} /\ m.body.n \in 1 .. form_log.saves)
  <2>1. m = NoRequest \/ m \in FormPending
    BY DEF FormInductive, FormTypes
  <2>2. CASE m \in FormPending
    <3>1. m.body \in FormSent
      BY <2>2, FormStages DEF FormSent
    <3> QED
      BY <2>2, <3>1 DEF FormInductive, SentOnce, FormPending
  <2> QED
    BY <2>1, <2>2
<1>4. FormTypeOK
  BY <1>1, <1>2, <1>3 DEF FormTypeOK, FormKept, FormState, FormSheet
<1>5. CreatedOnce
  <2>1. \A b \in form_log.created : b \in FormSent /\ form.mode = "create"
    BY <1>1 DEF FormSent, FormKept, FormLog, FormState, Modes
  <2> QED
    BY <2>1 DEF CreatedOnce, FormInductive, SentOnce
<1> QED
  BY <1>4, <1>5 DEF FormInvariant

\* It holds in all reachable states.
LEMMA FormsAreInductive == FormSpec => []FormInductive
<1> QED
  BY FormInductiveInit, FormInductiveNext, PTL DEF FormSpec

\* For all seven forms, and however many answers are late or lost: what was entered once
\* is created once (disabled={isPending}, resetForm on success), unless the user saves
\* again after an error or in the sheet of a loan that is about to give way to its page.
THEOREM FormsKept == FormSpec => []FormInvariant
<1> QED
  BY FormsAreInductive, FormHolds, PTL

-----------------------------------------------------------------------------

\* One step of an edit changes no field that the user has left alone, but for what it
\* empties.
LEMMA EditStep ==
  ASSUME FormInductive, [FormNext]_form_vars, AtServer(form_request),
         form_request'.stage = "done", form.mode = "edit", NEW f \in Field
  PROVE  \/ entry'[f] = entry[f] \/ f \in form_request.body.touched
         \/ (entry'[f] = 0 /\ EmptiedBy(f, form_request.body.touched))
         \/ form_request.body.base[f] # entry[f]
<1>1. form_request \in FormPending /\ IsPending(form_request) /\ form_request.stage = "sent"
  BY FormStages DEF FormInductive, FormTypes
<1>2. form_request' # form_request /\ form_request' # NoRequest
  BY <1>1, FormStages
<1>3. CASE ServeForm
  <2>1. entry' = Edited(form_request.body.draft)
    BY <1>2, <1>3 DEF ServeForm
  <2>2. \/ entry'[f] = form_request.body.draft[f]
        \/ entry'[f] = 0 /\ f \in Cleared[form.name]
        \/ entry'[f] = entry[f]
    BY <2>1 DEF Edited
  <2>3. \/ f \in form_request.body.touched
        \/ form_request.body.draft[f] = form_request.body.base[f]
        \/ form_request.body.draft[f] = 0 /\ \E g \in form_request.body.touched : f \in Emptied(g)
    BY <1>1 DEF FormInductive, UntouchedKept, Untouched
  <2> QED
    BY <2>2, <2>3 DEF EmptiedBy
<1>4. CASE ~ServeForm
  <2>1. form_request' \in {form_request, NoRequest}
    BY <1>1, <1>4 DEF FormNext, form_vars, MountForm, OpenForm, CloseForm, FillIn, TypeInto,
         Typing, ChangeEntry, RefetchEntry, ListFills, Abandon, SubmitForm, Submittable,
         AnswerForm, OrphanAnswered, LeaveForPage
  <2> QED
    BY <1>2, <2>1
<1> QED
  BY <1>3, <1>4

\* One step keeps what has been typed.
LEMMA TypedStep ==
  ASSUME FormInductive, [FormNext]_form_vars, NEW f \in fields.touched,
         fields.open, fields'.open, fields'.draft[f] # fields.draft[f]
  PROVE  \/ form_log'.inputs # form_log.inputs
         \/ IsPending(form_request) /\ ~IsPending(form_request')
         \/ form' # form
<1>1. form \in FormState /\ fields \in FormSheet /\ form_log \in FormLog
  BY FactsOfForm
<1>2. fields' # fields
  OBVIOUS
<1>3. ~OpenForm /\ ~LeaveForPage
  BY EmptySheet DEF OpenForm, LeaveForPage
<1>4. ~CloseForm
  <2>1. SUFFICES ASSUME CloseForm PROVE FALSE
    OBVIOUS
  <2> DEFINE sheet == [fields EXCEPT !.open = FALSE]
  <2>2. sheet \in FormSheet /\ sheet.open = FALSE
    BY <1>1 DEF FormSheet
  <2>3. fields' = Unmounted(sheet)
    BY <2>1 DEF CloseForm
  <2> HIDE DEF sheet
  <2> QED
    BY <2>2, <2>3, UnmountedSheet
<1>5. CASE FillIn \/ \E g \in Field : TypeInto(g)
  <2>1. form_log' = [form_log EXCEPT !.inputs = @ + 1]
    BY <1>5 DEF FillIn, TypeInto, Typing
  <2>2. form_log'.inputs = form_log.inputs + 1 /\ form_log.inputs \in Nat
    BY <1>1, <2>1 DEF FormLog
  <2> QED
    BY <2>2
<1>6. CASE ListFills
  <2>1. form.first /\ form'.first = FALSE
    BY <1>1, <1>6 DEF ListFills, FormState
  <2> QED
    BY <2>1
<1>7. CASE AnswerForm
  BY <1>7, FormStages DEF AnswerForm
<1> QED
  BY <1>2, <1>3, <1>4, <1>5, <1>6, <1>7 DEF FormNext, form_vars, MountForm, RefetchEntry,
     Refetched, ChangeEntry, SubmitForm, ServeForm, OrphanAnswered

\* An edit, which sends every field of its form and the null of an installment's linked
\* account, changes only what the user touched or the screen showed late, and empties only
\* that linked account and the category of a transaction whose type was chosen; and no
\* refetch behind an open sheet changes what was typed into it.
THEOREM FormsKeepPromises == FormSpec => FormPromises
<1>1. FormInductive /\ [FormNext]_form_vars =>
        [(AtServer(form_request) /\ form_request'.stage = "done" /\ form.mode = "edit")
           => \A f \in Field : \/ entry'[f] = entry[f]
                                \/ f \in form_request.body.touched
                                \/ (entry'[f] = 0 /\ EmptiedBy(f, form_request.body.touched))
                                \/ form_request.body.base[f] # entry[f]]_form_vars
  BY EditStep
<1>2. FormInductive /\ [FormNext]_form_vars =>
        [\A f \in fields.touched :
           (fields.open /\ fields'.open /\ fields'.draft[f] # fields.draft[f])
             => \/ form_log'.inputs # form_log.inputs
                \/ IsPending(form_request) /\ ~IsPending(form_request')
                \/ form' # form]_form_vars
  BY TypedStep
<1>3. FormSpec => OnlyTouchedFieldsChange
  BY <1>1, FormsAreInductive, PTL DEF FormSpec, OnlyTouchedFieldsChange
<1>4. FormSpec => TypedIsKept
  BY <1>2, FormsAreInductive, PTL DEF FormSpec, TypedIsKept
<1> QED
  BY <1>3, <1>4 DEF FormPromises

-----------------------------------------------------------------------------
(* The import wizard (ImportWizard) *)

\* The steps there are: a preview flags what the account had when it was compared.
MappingStep ==
  {w \in [step : {"mapping"}, file : Statement, account : ImportTo] :
     Layout[w.file] = "unknown"}
PreviewStep ==
  {w \in [step : {"preview"}, file : Statement, account : ImportTo,
          flagged : SUBSET ImportRow, compared : ImportTo, seen : SUBSET ImportRow] :
     w.compared = w.account /\ w.flagged = (RowsOf[w.file] \ BadRows[w.file]) \cap w.seen}
WizardStep == {Upload, [step |-> "scanned"]} \cup MappingStep \cup PreviewStep

ParseRequest ==
  [stage : {"sent", "done", "declined"},
   body : [file : Statement, account : ImportTo, mapped : BOOLEAN, answer : WizardStep]]
CommitRequest ==
  [stage : {"sent", "done", "declined"},
   body : [account : ImportTo, rows : SUBSET ImportRow, from : WizardStep,
           byhand : SUBSET ImportRow]]

ImportTypes ==
  /\ chosen \in [file : Statement \cup {NoFile}, account : ImportTo \cup {NoAccount}]
  /\ wizard \in WizardStep /\ ticked \subseteq ImportRow
  /\ parse \in ParseRequest \cup {NoRequest} /\ commit \in CommitRequest \cup {NoRequest}
  /\ ledger_rows \in [ImportTo -> SUBSET ImportRow]
  /\ import_log \in [parses : Nat, commits : Nat, others : Nat, byhand : SUBSET ImportRow,
                     again : SUBSET ImportRow]

\* No statement is parsed while a preview is shown, so that none replaces it; what is
\* ticked in it and was in the account was ticked by hand.
PreviewKept ==
  /\ wizard.step = "preview" =>
       /\ ~IsPending(parse)
       /\ ticked \subseteq RowsOf[wizard.file] \ BadRows[wizard.file]
       /\ ticked \cap wizard.seen \subseteq import_log.byhand
  /\ wizard.step # "preview" => ticked = {}

CommitKept ==
  IsPending(commit) =>
    /\ commit.body.account = commit.body.from.compared
    /\ commit.body.rows \cap commit.body.from.seen \subseteq commit.body.byhand

ImportInductive == ImportTypes /\ PreviewKept /\ CommitKept /\ NotBookedTwiceUnasked

\* What the steps of the wizard know: the file, the account and what it was
\* compared with.
LEMMA StepFacts ==
  ASSUME NEW w \in WizardStep
  PROVE  /\ w.step \in {"upload", "mapping", "preview", "scanned"}
         /\ w.step = "mapping" =>
              w.file \in Statement /\ w.account \in ImportTo /\ Layout[w.file] = "unknown"
         /\ w.step = "preview" =>
              /\ w.file \in Statement /\ w.account \in ImportTo /\ w.compared = w.account
              /\ w.seen \subseteq ImportRow
              /\ w.flagged = (RowsOf[w.file] \ BadRows[w.file]) \cap w.seen
<1>1. CASE w \in {Upload, [step |-> "scanned"]}
  BY <1>1 DEF Upload
<1>2. CASE w \in MappingStep
  BY <1>2 DEF MappingStep
<1>3. CASE w \in PreviewStep
  BY <1>3 DEF PreviewStep
<1> QED
  BY <1>1, <1>2, <1>3 DEF WizardStep

\* The wizard starts with the upload.
LEMMA UploadIsStep == Upload \in WizardStep /\ Upload.step = "upload"
BY DEF WizardStep, Upload

\* A preview of a file's readable rows is a step of the wizard.
LEMMA PreviewIsStep ==
  ASSUME NEW f \in Statement, NEW a \in ImportTo, NEW seen \in SUBSET ImportRow
  PROVE  Preview(f, a, (RowsOf[f] \ BadRows[f]) \cap seen, seen) \in WizardStep
BY DEF WizardStep, PreviewStep, Preview

\* The rows of a file are rows.
LEMMA RowsOfFile ==
  ASSUME NEW f \in Statement
  PROVE  RowsOf[f] \subseteq ImportRow
BY DEF ImportRow

\* A parse or commit that was sent is pending, the absence of one is not.
LEMMA RequestStages ==
  /\ \A m \in ParseRequest : m.stage # "none" /\ IsPending(m)
  /\ \A m \in CommitRequest : m.stage # "none" /\ IsPending(m)
  /\ ~IsPending(NoRequest) /\ NoRequest.stage = "none"
BY DEF ParseRequest, CommitRequest, NoRequest, IsPending

\* Before an import begins the invariant of the wizard holds.
LEMMA ImportInductiveInit == ImportInit => ImportInductive
<1> SUFFICES ASSUME ImportInit PROVE ImportInductive
  OBVIOUS
<1>1. ImportTypes
  BY UploadIsStep DEF ImportInit, ImportTypes
<1> QED
  BY <1>1, UploadIsStep, RequestStages
     DEF ImportInit, ImportInductive, PreviewKept, CommitKept, NotBookedTwiceUnasked

\* Choosing and parsing.
LEMMA ChooseFileStep ==
  ASSUME ImportInductive, NEW f \in Statement, NEW a \in ImportTo, Choose(f, a)
  PROVE  ImportInductive'
<1>1. chosen' \in [file : Statement \cup {NoFile}, account : ImportTo \cup {NoAccount}]
  BY DEF ImportInductive, ImportTypes, Choose
<1> QED
  BY <1>1 DEF Choose, ImportInductive, ImportTypes, PreviewKept, CommitKept,
     NotBookedTwiceUnasked

\* Sending a file to be parsed, or its columns, keeps it.
LEMMA SendParseStep ==
  ASSUME ImportInductive, UploadNext \/ MapColumns
  PROVE  ImportInductive'
<1>1. PICK f \in Statement, a \in ImportTo, mapped \in BOOLEAN : SendParse(f, a, mapped)
  <2>1. CASE UploadNext
    <3>1. chosen.file \in Statement /\ chosen.account \in ImportTo
      BY <2>1 DEF ImportInductive, ImportTypes, UploadNext
    <3> QED
      BY <2>1, <3>1 DEF UploadNext
  <2>2. CASE MapColumns
    <3>1. wizard.file \in Statement /\ wizard.account \in ImportTo
      BY <2>2, StepFacts DEF ImportInductive, ImportTypes, MapColumns
    <3> QED
      BY <2>2, <3>1 DEF MapColumns
  <2> QED
    BY <2>1, <2>2
<1> DEFINE m == Request([file |-> f, account |-> a, mapped |-> mapped, answer |-> Upload])
<1>2. m \in ParseRequest
  BY UploadIsStep DEF ParseRequest, Request
<1>3. /\ parse' = m /\ import_log' = [import_log EXCEPT !.parses = @ + 1]
      /\ UNCHANGED <<chosen, wizard, ticked, commit, ledger_rows>>
  BY <1>1 DEF SendParse
<1> HIDE DEF m
<1>4. wizard.step # "preview"
  BY DEF UploadNext, MapColumns
<1>5. /\ import_log' \in [parses : Nat, commits : Nat, others : Nat, byhand : SUBSET ImportRow,
                          again : SUBSET ImportRow]
      /\ import_log'.again = import_log.again
  BY <1>3 DEF ImportInductive, ImportTypes
<1>6. ImportTypes'
  BY <1>2, <1>3, <1>5 DEF ImportInductive, ImportTypes
<1> QED
  BY <1>3, <1>4, <1>5, <1>6 DEF ImportInductive, PreviewKept, CommitKept, NotBookedTwiceUnasked

\* Going back to the upload keeps it.
LEMMA BackStep ==
  ASSUME ImportInductive, BackToUpload
  PROVE  ImportInductive'
<1>1. chosen' \in [file : Statement \cup {NoFile}, account : ImportTo \cup {NoAccount}]
  BY DEF ImportInductive, ImportTypes, BackToUpload
<1>2. /\ wizard' = Upload /\ ticked' = {}
      /\ UNCHANGED <<parse, commit, ledger_rows, import_log>>
  BY DEF BackToUpload
<1> QED
  BY <1>1, <1>2, UploadIsStep
     DEF ImportInductive, ImportTypes, PreviewKept, CommitKept, NotBookedTwiceUnasked

\* Whatever the server answers is one of the steps.
LEMMA ServeParseStep ==
  ASSUME ImportInductive, ServeParse
  PROVE  ImportInductive'
<1>1. parse \in ParseRequest /\ ImportTypes
  BY RequestStages DEF ImportInductive, ImportTypes, ServeParse, AtServer
<1> DEFINE f == parse.body.file
           a == parse.body.account
<1>2. f \in Statement /\ a \in ImportTo
  BY <1>1 DEF ParseRequest
<1>3. ASSUME NEW w \in WizardStep, parse' = Done([parse EXCEPT !.body.answer = w])
      PROVE  parse' \in ParseRequest
  BY <1>1, <1>3 DEF ParseRequest, Done
<1>4. Preview(f, a, Flagged(f, a), ledger_rows[a]) \in WizardStep
  <2>1. ledger_rows[a] \in SUBSET ImportRow
    BY <1>1, <1>2 DEF ImportTypes
  <2> DEFINE seen == ledger_rows[a]
  <2>2. /\ seen \in SUBSET ImportRow
        /\ Flagged(f, a) = (RowsOf[f] \ BadRows[f]) \cap seen
    BY <2>1 DEF Flagged
  <2> HIDE DEF f, a, seen
  <2>3. Preview(f, a, (RowsOf[f] \ BadRows[f]) \cap seen, seen) \in WizardStep
    BY <1>2, <2>2, PreviewIsStep
  <2> QED
    BY <2>2, <2>3 DEF seen
<1>5. Layout[f] = "unknown" => [step |-> "mapping", file |-> f, account |-> a] \in WizardStep
  BY <1>2 DEF WizardStep, MappingStep
<1>6. [step |-> "scanned"] \in WizardStep
  BY DEF WizardStep
<1>7. Declined(parse) \in ParseRequest
  BY <1>1 DEF ParseRequest, Declined
<1>8. \/ parse' = Done([parse EXCEPT !.body.answer = Preview(f, a, Flagged(f, a), ledger_rows[a])])
      \/ Layout[f] = "unknown" /\ parse' = Done([parse EXCEPT !.body.answer =
                                 [step |-> "mapping", file |-> f, account |-> a]])
      \/ parse' = Done([parse EXCEPT !.body.answer = [step |-> "scanned"]])
      \/ parse' = Declined(parse)
  BY DEF ServeParse, NeedsMapping
<1>9. parse' \in ParseRequest
  <2> HIDE DEF f, a
  <2> QED
    BY <1>3, <1>4, <1>5, <1>6, <1>7, <1>8
<1>10. UNCHANGED <<chosen, wizard, ticked, commit, ledger_rows, import_log>>
  BY DEF ServeParse
<1>11. wizard.step # "preview"
  BY <1>1, RequestStages DEF ImportInductive, PreviewKept
<1> QED
  BY <1>1, <1>9, <1>10, <1>11 DEF ImportInductive, ImportTypes, PreviewKept, CommitKept,
     NotBookedTwiceUnasked

\* The answer enters its step; no preview is there that it could replace.
LEMMA AnswerParseStep ==
  ASSUME ImportInductive, AnswerParse
  PROVE  ImportInductive'
<1>1. parse \in ParseRequest /\ ImportTypes
  BY RequestStages
     DEF ImportInductive, ImportTypes, AnswerParse, AnsweredWell, AnsweredBadly, IsPending
<1>2. wizard.step # "preview"
  BY <1>1, RequestStages DEF ImportInductive, PreviewKept
<1>3. parse' = NoRequest /\ UNCHANGED <<chosen, commit, ledger_rows>>
  BY DEF AnswerParse
<1>4. CASE UNCHANGED <<wizard, ticked, import_log>>
  BY <1>2, <1>3, <1>4 DEF ImportInductive, ImportTypes, PreviewKept, CommitKept,
     NotBookedTwiceUnasked
<1>5. CASE /\ wizard' = Entered(parse.body.answer)
           /\ ticked' = IF wizard'.step # "preview" THEN {}
                        ELSE IF wizard.step = "preview" THEN ticked ELSE TickedAtFirst(wizard')
           /\ import_log' = [import_log EXCEPT !.byhand = {}]
  <2>1. wizard' \in WizardStep
    BY <1>1, <1>5 DEF Entered, ParseRequest
  <2>2. /\ import_log' \in [parses : Nat, commits : Nat, others : Nat,
                            byhand : SUBSET ImportRow, again : SUBSET ImportRow]
        /\ import_log'.again = import_log.again
    BY <1>1, <1>5 DEF ImportTypes
  <2>3. CASE wizard'.step # "preview"
    <3>1. ticked' = {}
      BY <1>5, <2>3
    <3> QED
      BY <1>1, <1>3, <2>1, <2>2, <2>3, <3>1
         DEF ImportInductive, ImportTypes, PreviewKept, CommitKept, NotBookedTwiceUnasked
  <2>4. CASE wizard'.step = "preview"
    <3>1. ticked' = RowsOf[wizard'.file] \ (BadRows[wizard'.file] \cup wizard'.flagged)
      BY <1>2, <1>5, <2>4 DEF TickedAtFirst
    <3>2. /\ wizard'.file \in Statement
          /\ wizard'.flagged = (RowsOf[wizard'.file] \ BadRows[wizard'.file]) \cap wizard'.seen
      BY <2>1, <2>4, StepFacts
    <3>3. /\ ticked' \subseteq RowsOf[wizard'.file] \ BadRows[wizard'.file]
          /\ ticked' \cap wizard'.seen = {}
      BY <3>1, <3>2
    <3>4. ticked' \subseteq ImportRow
      BY <3>2, <3>3, RowsOfFile
    <3> QED
      BY <1>1, <1>3, <2>1, <2>2, <2>4, <3>3, <3>4, RequestStages
         DEF ImportInductive, ImportTypes, PreviewKept, CommitKept, NotBookedTwiceUnasked
  <2> QED
    BY <2>3, <2>4
<1> QED
  BY <1>4, <1>5 DEF AnswerParse

\* Ticking a row by hand keeps it.
LEMMA ToggleStep ==
  ASSUME ImportInductive, NEW r \in ImportRow, ToggleRow(r)
  PROVE  ImportInductive'
<1>1. /\ ticked' \subseteq ticked \cup {r} /\ wizard.step = "preview"
      /\ r \in RowsOf[wizard.file] \ BadRows[wizard.file]
      /\ import_log' = [import_log EXCEPT !.byhand = @ \cup {r}]
      /\ UNCHANGED <<chosen, wizard, parse, commit, ledger_rows>>
  BY DEF ToggleRow
<1>2. /\ import_log' \in [parses : Nat, commits : Nat, others : Nat,
                          byhand : SUBSET ImportRow, again : SUBSET ImportRow]
      /\ import_log'.again = import_log.again
      /\ import_log'.byhand = import_log.byhand \cup {r}
  BY <1>1 DEF ImportInductive, ImportTypes
<1>3. ImportTypes'
  BY <1>1, <1>2 DEF ImportInductive, ImportTypes
<1>4. PreviewKept'
  BY <1>1, <1>2 DEF ImportInductive, PreviewKept
<1> QED
  BY <1>1, <1>2, <1>3, <1>4 DEF ImportInductive, CommitKept, NotBookedTwiceUnasked

\* The commit is sent with rows of the preview, on its account.
LEMMA SendCommitStep ==
  ASSUME ImportInductive, SendCommit
  PROVE  ImportInductive'
<1>1. /\ wizard \in WizardStep /\ ticked \subseteq ImportRow /\ wizard.step = "preview"
      /\ import_log.byhand \subseteq ImportRow /\ ImportTypes /\ PreviewKept
  BY DEF ImportInductive, ImportTypes, SendCommit
<1>2. wizard.account \in ImportTo /\ wizard.compared = wizard.account
  BY <1>1, StepFacts
<1> DEFINE m == Request([account |-> wizard.account, rows |-> ticked, from |-> wizard,
                         byhand |-> import_log.byhand])
<1>3. m \in CommitRequest
  BY <1>1, <1>2 DEF CommitRequest, Request
<1>4. /\ m.body.account = wizard.account /\ m.body.rows = ticked /\ m.body.from = wizard
      /\ m.body.byhand = import_log.byhand
  BY DEF Request
<1>5. /\ commit' = m /\ import_log' = [import_log EXCEPT !.commits = @ + 1]
      /\ UNCHANGED <<chosen, wizard, ticked, parse, ledger_rows>>
  BY DEF SendCommit
<1> HIDE DEF m
<1>6. /\ import_log' \in [parses : Nat, commits : Nat, others : Nat,
                          byhand : SUBSET ImportRow, again : SUBSET ImportRow]
      /\ import_log'.again = import_log.again
      /\ import_log'.byhand = import_log.byhand
  BY <1>1, <1>5 DEF ImportTypes
<1>7. ImportTypes'
  BY <1>1, <1>3, <1>5, <1>6 DEF ImportTypes
<1>8. PreviewKept'
  BY <1>1, <1>5, <1>6 DEF PreviewKept
<1>9. CommitKept'
  BY <1>1, <1>2, <1>4, <1>5 DEF CommitKept, PreviewKept
<1> QED
  BY <1>6, <1>7, <1>8, <1>9 DEF ImportInductive, NotBookedTwiceUnasked

\* What the account had at the comparison is booked again by hand only.
LEMMA ServeCommitStep ==
  ASSUME ImportInductive, ServeCommit
  PROVE  ImportInductive'
<1>1. commit \in CommitRequest /\ ImportTypes /\ CommitKept /\ IsPending(commit)
  BY RequestStages DEF ImportInductive, ImportTypes, ServeCommit, AtServer
<1> DEFINE a == commit.body.account
           again == commit.body.rows \cap ledger_rows[a]
           twice == (again \cap commit.body.from.seen) \ commit.body.byhand
<1>2. /\ a \in ImportTo /\ commit.body.rows \subseteq ImportRow
  BY <1>1 DEF CommitRequest
<1>3. twice = {}
  BY <1>1 DEF CommitKept
<1>4. /\ ledger_rows' = [ledger_rows EXCEPT ![a] = @ \cup commit.body.rows]
      /\ import_log' = [import_log EXCEPT !.again = @ \cup twice]
      /\ commit' = Done(commit) /\ UNCHANGED <<chosen, wizard, ticked, parse>>
  BY DEF ServeCommit
<1>5. ledger_rows' \in [ImportTo -> SUBSET ImportRow]
  BY <1>1, <1>2, <1>4 DEF ImportTypes
<1> HIDE DEF again, twice
<1>6. /\ import_log' \in [parses : Nat, commits : Nat, others : Nat,
                          byhand : SUBSET ImportRow, again : SUBSET ImportRow]
      /\ import_log'.again = import_log.again
      /\ import_log'.byhand = import_log.byhand
  BY <1>1, <1>3, <1>4 DEF ImportTypes
<1>7. commit' \in CommitRequest /\ commit'.body = commit.body
  BY <1>1, <1>4 DEF CommitRequest, Done
<1>8. ImportTypes'
  BY <1>1, <1>4, <1>5, <1>6, <1>7 DEF ImportTypes
<1>9. PreviewKept' /\ CommitKept'
  BY <1>1, <1>4, <1>6, <1>7 DEF ImportInductive, PreviewKept, CommitKept
<1> QED
  BY <1>6, <1>8, <1>9 DEF ImportInductive, NotBookedTwiceUnasked

\* The answer to a commit keeps the invariant.
LEMMA AnswerCommitStep ==
  ASSUME ImportInductive, AnswerCommit
  PROVE  ImportInductive'
<1>1. commit' = NoRequest /\ UNCHANGED <<ledger_rows, import_log>>
  BY DEF AnswerCommit
<1>2. CASE UNCHANGED <<chosen, wizard, ticked, parse>>
  BY <1>1, <1>2, RequestStages DEF ImportInductive, ImportTypes, PreviewKept, CommitKept,
     NotBookedTwiceUnasked
<1>3. CASE /\ wizard' = Upload /\ ticked' = {} /\ parse' = NoRequest
           /\ chosen' = [file |-> NoFile, account |-> NoAccount]
  BY <1>1, <1>3, RequestStages, UploadIsStep
     DEF ImportInductive, ImportTypes, PreviewKept, CommitKept, NotBookedTwiceUnasked
<1> QED
  BY <1>2, <1>3 DEF AnswerCommit

\* A row booked elsewhere keeps it.
LEMMA BookElsewhereStep ==
  ASSUME ImportInductive, NEW a \in ImportTo, NEW r \in ImportRow, BookElsewhere(a, r)
  PROVE  ImportInductive'
<1>1. /\ ledger_rows' = [ledger_rows EXCEPT ![a] = @ \cup {r}]
      /\ import_log' = [import_log EXCEPT !.others = @ + 1]
      /\ UNCHANGED <<chosen, wizard, ticked, parse, commit>>
  BY DEF BookElsewhere
<1>2. ledger_rows' \in [ImportTo -> SUBSET ImportRow]
  BY <1>1 DEF ImportInductive, ImportTypes
<1>3. /\ import_log' \in [parses : Nat, commits : Nat, others : Nat,
                          byhand : SUBSET ImportRow, again : SUBSET ImportRow]
      /\ import_log'.again = import_log.again
      /\ import_log'.byhand = import_log.byhand
  BY <1>1 DEF ImportInductive, ImportTypes
<1> QED
  BY <1>1, <1>2, <1>3 DEF ImportInductive, ImportTypes, PreviewKept, CommitKept,
     NotBookedTwiceUnasked

\* Every step of an import keeps it.
LEMMA ImportInductiveStep == ImportInductive /\ [ImportNext]_import_vars => ImportInductive'
<1> SUFFICES ASSUME ImportInductive, [ImportNext]_import_vars PROVE ImportInductive'
  OBVIOUS
<1>1. CASE UNCHANGED import_vars
  BY <1>1 DEF import_vars, ImportInductive, ImportTypes, PreviewKept, CommitKept,
     NotBookedTwiceUnasked
<1>2. CASE ImportNext
  BY <1>2, ChooseFileStep, SendParseStep, BackStep, ServeParseStep, AnswerParseStep, ToggleStep,
     SendCommitStep, ServeCommitStep, AnswerCommitStep, BookElsewhereStep DEF ImportNext
<1> QED
  BY <1>1, <1>2

\* With a page that goes on while the server parses and commits: the rows that go to
\* commit_import are readable rows of the previewed file, for the account they were
\* compared with, and what that account had then is booked again by hand only.
THEOREM ImportsKept == ImportSpec => []ImportInvariant
<1>1. ImportInductive => ImportInvariant
  <2> SUFFICES ASSUME ImportInductive PROVE ImportInvariant
    OBVIOUS
  <2>1. ImportTypeOK
    <3>1. parse.stage \in {"none", "sent", "done", "declined"}
      BY RequestStages DEF ImportInductive, ImportTypes, ParseRequest
    <3>2. commit.stage \in {"none", "sent", "done", "declined"}
      BY RequestStages DEF ImportInductive, ImportTypes, CommitRequest
    <3> QED
      BY <3>1, <3>2, StepFacts DEF ImportInductive, ImportTypes, PreviewKept, ImportTypeOK
  <2>2. TickedAreReadable
    BY DEF ImportInductive, PreviewKept, TickedAreReadable
  <2>3. CommittedWhereCompared
    BY DEF ImportInductive, CommitKept, CommittedWhereCompared, AtServer, IsPending
  <2> QED
    BY <2>1, <2>2, <2>3 DEF ImportInductive, ImportInvariant
<1> QED
  BY <1>1, ImportInductiveInit, ImportInductiveStep, PTL DEF ImportSpec

-----------------------------------------------------------------------------
(* The picker of persons (PersonPicker) *)

Choosers == {"user", "inline", "preselected"}
DebtForm ==
  [open : BOOLEAN, nth : Nat, person : Person \cup {Nobody}, by : Choosers,
   from : Nat, inline : BOOLEAN, currency : Currency, account : Currency \cup {NoChoice},
   switched : BOOLEAN]
Birth ==
  [n : Nat, nth : Nat, stage : {"sent", "done", "declined", "over"},
   person : Person \cup {Nobody}, heard : BOOLEAN]
NewDebt ==
  [n : Nat, nth : Nat, stage : {"sent", "read", "declined", "over"}, heard : BOOLEAN,
   person : Person, by : Choosers, named : BOOLEAN, currency : Currency, account : Currency,
   switched : BOOLEAN]
Removal == [person : Person, stage : {"sent", "read"}]
PersonDebt ==
  [n : Nat, person : Person, by : Choosers, named : BOOLEAN, currency : Currency,
   account : Currency, switched : BOOLEAN,
   status : {"active", "paid", "deleted", "reviving"}, revived : BOOLEAN]
PersonLog == [births : Nat, debts : Nat, overlapped : SUBSET Person, pushed : SUBSET Person]

PersonTypes ==
  /\ people \in [Person -> {"unborn", "pending", "active", "deleted", "void"}]
  /\ listed_people \subseteq Person
  /\ debt_form \in DebtForm
  /\ births \subseteq Birth
  /\ new_debts \subseteq NewDebt /\ removals \subseteq Removal
  /\ debts_of \subseteq PersonDebt
  /\ person_log \in PersonLog

\* A person who has been created is pending until that commits, once.
BirthsSound ==
  /\ \A r \in births : r.stage \in {"done", "over"} => r.person \in Person
  /\ \A r \in births : r.stage = "done" => people[r.person] = "pending"
  /\ \A r, s \in births : r.stage = "done" /\ s.stage = "done" /\ r.person = s.person => r = s

\* A person in the list is deleted since, or on the first page still, or was pushed off it.
ListSound ==
  \A p \in listed_people :
    \/ people[p] = "deleted"
    \/ people[p] = "active" /\ (p \in FirstPage \/ p \in person_log.pushed)

\* A person chosen from the list is in it still, or was deleted or pushed off since.
FormSound ==
  /\ ChosenInThisForm
  /\ debt_form.person # Nobody /\ debt_form.by = "user" =>
       \/ debt_form.person \in listed_people
       \/ people[debt_form.person] = "deleted" \/ debt_form.person \in person_log.pushed
  /\ debt_form.account \in {NoChoice, debt_form.currency} \/ debt_form.switched

RequestSound(r) ==
  /\ r.account = r.currency \/ r.switched
  /\ \/ r.named \/ r.by \in {"inline", "preselected"} \/ r.person \in person_log.pushed
     \/ people[r.person] = "deleted" /\ r.stage # "read"
  /\ r.stage = "read" /\ people[r.person] = "deleted" => r.person \in person_log.overlapped

DebtSound(d) ==
  /\ d.account = d.currency \/ d.switched
  /\ d.named \/ d.by \in {"inline", "preselected"} \/ d.person \in person_log.pushed
  /\ d.status \in {"active", "reviving"} /\ people[d.person] = "deleted" =>
       d.person \in person_log.overlapped \/ d.revived

\* A deletion that has found no debt can meet one only of a creation or a reactivation
\* that it overlaps.
RemovalSound(s) ==
  /\ people[s.person] \in {"active", "deleted"}
  /\ s.stage = "read" /\ (BeingOwed(s.person) \/ HasActiveDebts(s.person)) =>
       s.person \in person_log.overlapped

PersonInductive ==
  /\ PersonTypes /\ BirthsSound /\ ListSound /\ FormSound
  /\ \A r \in new_debts : RequestSound(r)
  /\ \A d \in debts_of : DebtSound(d)
  /\ \A s \in removals : RemovalSound(s)

\* The first page depends on who is active only; a person stays on it while others go.
LEMMA FirstPageKept ==
  /\ UNCHANGED people => FirstPage' = FirstPage
  /\ Active' \subseteq Active => \A p \in FirstPage : p \in Active' => p \in FirstPage'
<1>1. UNCHANGED people => FirstPage' = FirstPage
  BY DEF FirstPage, Active
<1>2. ASSUME Active' \subseteq Active, NEW p \in FirstPage, p \in Active' PROVE p \in FirstPage'
  <2> DEFINE before == {q \in Active : q < p}
             after == {q \in Active' : q < p}
  <2>1. p \in Nat /\ Active \subseteq Nat /\ Active' \subseteq Active
    BY <1>2, PersonAssumption DEF FirstPage, Active
  <2>7. before \in SUBSET (0 .. p) /\ after \in SUBSET before
    <3>1. ASSUME NEW q \in before PROVE q \in 0 .. p
      <4>1. q \in Nat /\ q < p
        BY <2>1, <3>1
      <4> QED
        BY <2>1, <4>1
    <3>2. ASSUME NEW q \in after PROVE q \in before
      BY <2>1, <3>2
    <3> HIDE DEF before, after
    <3> QED
      BY <3>1, <3>2
  <2>2. Cardinality(before) < PageSize
    BY <1>2 DEF FirstPage
  <2> HIDE DEF before, after
  <2>3. IsFiniteSet(before)
    <3>1. 0 \in Int /\ p \in Int
      BY <2>1
    <3>2. IsFiniteSet(0 .. p)
      BY <3>1, FS_Interval
    <3> QED
      BY <2>7, <3>2, FS_Subset
  <2>4. Cardinality(after) <= Cardinality(before) /\ IsFiniteSet(after)
    BY <2>7, <2>3, FS_Subset
  <2>5. Cardinality(after) \in Nat /\ Cardinality(before) \in Nat
    BY <2>3, <2>4, FS_CardinalityType
  <2>6. Cardinality(after) < PageSize
    BY <2>2, <2>4, <2>5, PersonAssumption
  <2> QED
    BY <1>2, <2>6 DEF FirstPage, after
<1> QED
  BY <1>1, <1>2

\* Before a form is opened the invariant of the person picker holds.
LEMMA PersonInductiveInit == PersonInit => PersonInductive
<1> SUFFICES ASSUME PersonInit PROVE PersonInductive
  OBVIOUS
<1>1. /\ debt_form \in DebtForm /\ debt_form.person = Nobody /\ debt_form.account = NoChoice
      /\ person_log \in PersonLog
  BY PersonAssumption DEF PersonInit, EmptyForm, DebtForm, PersonLog, Choosers
<1>2. /\ people \in [Person -> {"unborn", "pending", "active", "deleted", "void"}]
      /\ \A p \in Person : people[p] # "deleted"
      /\ \A p \in Elsewhere : people[p] = "pending"
  BY PersonAssumption DEF PersonInit
<1>3. births \subseteq Birth /\ BirthsSound
  <2>1. births = [n : {0}, nth : {0}, stage : {"done"}, person : Elsewhere, heard : {TRUE}]
    BY DEF PersonInit
  <2>2. Elsewhere \subseteq Person
    BY PersonAssumption
  <2>6. ASSUME NEW r \in births
        PROVE  r = [n |-> 0, nth |-> 0, stage |-> "done", person |-> r.person, heard |-> TRUE]
               /\ r.person \in Elsewhere
    BY <2>1
  <2>3. births \subseteq Birth
    <3>1. ASSUME NEW r \in births PROVE r \in Birth
      <4>1. r.person \in Person \cup {Nobody}
        BY <2>2, <2>6
      <4>2. [n |-> 0, nth |-> 0, stage |-> "done", person |-> r.person, heard |-> TRUE] \in Birth
        BY <4>1 DEF Birth
      <4> QED
        BY <2>6, <4>2
    <3> QED
      BY <3>1
  <2>4. \A r \in births : r.person \in Elsewhere
    BY <2>6
  <2>5. \A r, s \in births : r.person = s.person => r = s
    BY <2>6
  <2> QED
    BY <1>2, <2>2, <2>3, <2>4, <2>5 DEF BirthsSound
<1>4. ASSUME NEW d \in debts_of PROVE d \in PersonDebt /\ DebtSound(d)
  <2>1. /\ d \in PersonDebt /\ d.account = d.currency /\ d.named /\ d.person \in Person
    BY <1>4, PersonAssumption DEF PersonInit, PersonDebt, Choosers
  <2> QED
    BY <1>2, <2>1 DEF DebtSound
<1>5. listed_people \subseteq Person /\ ListSound
  BY <1>2 DEF PersonInit, ListSound, FirstPage, Active
<1>6. PersonTypes
  BY <1>1, <1>2, <1>3, <1>4, <1>5 DEF PersonInit, PersonTypes
<1> QED
  BY <1>1, <1>3, <1>4, <1>5, <1>6 DEF PersonInit, PersonInductive, FormSound, ChosenInThisForm

\* What a step of the form alone leaves to be shown.
LEMMA FormAlone ==
  ASSUME PersonInductive, debt_form' \in DebtForm, FormSound',
         UNCHANGED <<people, listed_people, births, new_debts, removals, debts_of, person_log>>
  PROVE  PersonInductive'
BY FirstPageKept DEF PersonInductive, PersonTypes, BirthsSound, ListSound, RequestSound, DebtSound,
   RemovalSound, BeingOwed, HasActiveDebts

\* A form that is empty, or has the person of an earlier debt.
LEMMA OpeningSteps ==
  ASSUME PersonInductive,
         HideForm \/ \E p \in {Nobody} \cup {d.person : d \in debts_of} : ShowForm(p)
  PROVE  PersonInductive'
<1>1. debt_form \in DebtForm /\ PersonTypes /\ debts_of \subseteq PersonDebt
  BY DEF PersonInductive, PersonTypes
<1>2. UNCHANGED <<people, listed_people, births, new_debts, removals, debts_of, person_log>>
  BY DEF ShowForm, HideForm
<1>3. debt_form.nth \in Nat /\ debt_form.nth + 1 \in Nat
  BY <1>1 DEF DebtForm
<1>4. ASSUME NEW open \in BOOLEAN, NEW nth \in Nat
      PROVE  /\ EmptyForm(open, nth) \in DebtForm
             /\ EmptyForm(open, nth).person = Nobody /\ EmptyForm(open, nth).account = NoChoice
             /\ EmptyForm(open, nth).from = nth /\ EmptyForm(open, nth).nth = nth
  BY PersonAssumption DEF EmptyForm, DebtForm, Choosers
<1>5. CASE HideForm
  BY <1>2, <1>3, <1>4, <1>5, FormAlone DEF HideForm, FormSound, ChosenInThisForm
<1>6. ASSUME NEW p \in {Nobody} \cup {d.person : d \in debts_of}, ShowForm(p)
      PROVE  PersonInductive'
  <2> DEFINE empty == EmptyForm(TRUE, debt_form.nth + 1)
             by == IF p = Nobody THEN "user" ELSE "preselected"
  <2>1. p \in Person \cup {Nobody} /\ by \in Choosers /\ (p = Nobody \/ by = "preselected")
    BY <1>1, <1>6 DEF PersonDebt, Choosers
  <2>2. debt_form' = [empty EXCEPT !.person = p, !.by = by]
    BY <1>6 DEF ShowForm
  <2>3. /\ empty \in DebtForm /\ empty.account = NoChoice
        /\ empty.from = empty.nth
    BY <1>3, <1>4
  <2> HIDE DEF empty, by
  <2>4. /\ debt_form' \in DebtForm /\ debt_form'.account = NoChoice
        /\ debt_form'.from = debt_form'.nth /\ debt_form'.person = p /\ debt_form'.by = by
    BY <2>1, <2>2, <2>3 DEF DebtForm
  <2>5. FormSound'
    BY <2>1, <2>4 DEF FormSound, ChosenInThisForm
  <2> QED
    BY <1>2, <2>4, <2>5, FormAlone
<1> QED
  BY <1>5, <1>6

\* A choice in the form.
LEMMA ChoiceSteps ==
  ASSUME PersonInductive,
         \/ ExpandInline \/ CollapseInline \/ (\E p \in listed_people : SelectPerson(p))
         \/ (\E c \in Currency : SelectCurrency(c) \/ SelectAccount(c))
  PROVE  PersonInductive'
<1>1. debt_form \in DebtForm /\ FormSound /\ PersonTypes
  BY DEF PersonInductive, PersonTypes
<1>2. UNCHANGED <<people, listed_people, births, new_debts, removals, debts_of, person_log>>
  BY DEF ExpandInline, CollapseInline, SelectPerson, SelectCurrency, SelectAccount
<1>3. SUFFICES debt_form' \in DebtForm /\ FormSound'
  BY <1>2, FormAlone
<1>4. CASE ExpandInline \/ CollapseInline
  <2>1. PICK x \in BOOLEAN : debt_form' = [debt_form EXCEPT !.inline = x]
    BY <1>4 DEF ExpandInline, CollapseInline
  <2> QED
    BY <1>1, <1>2, <2>1 DEF DebtForm, FormSound, ChosenInThisForm
<1>5. ASSUME NEW p \in listed_people, SelectPerson(p)
      PROVE  debt_form' \in DebtForm /\ FormSound'
  <2>1. p \in Person
    BY <1>1 DEF PersonTypes
  <2>2. /\ debt_form' \in DebtForm
        /\ debt_form'.person = p /\ debt_form'.from = debt_form.nth
        /\ debt_form'.nth = debt_form.nth /\ debt_form'.account = debt_form.account
        /\ debt_form'.currency = debt_form.currency /\ debt_form'.switched = debt_form.switched
    BY <1>1, <1>5, <2>1 DEF DebtForm, SelectPerson, Choosers
  <2> QED
    BY <1>1, <1>2, <2>2 DEF FormSound, ChosenInThisForm
<1>6. ASSUME NEW c \in Currency, SelectCurrency(c)
      PROVE  debt_form' \in DebtForm /\ FormSound'
  <2>1. PICK x \in BOOLEAN :
          /\ debt_form' = [debt_form EXCEPT !.currency = c, !.switched = x]
          /\ debt_form.account # NoChoice => x
    BY <1>6 DEF SelectCurrency
  <2>2. /\ debt_form' \in DebtForm
        /\ debt_form'.person = debt_form.person /\ debt_form'.from = debt_form.from
        /\ debt_form'.nth = debt_form.nth /\ debt_form'.account = debt_form.account
        /\ debt_form'.by = debt_form.by /\ debt_form'.switched = x
    BY <1>1, <2>1 DEF DebtForm
  <2> QED
    BY <1>1, <1>2, <2>1, <2>2 DEF FormSound, ChosenInThisForm
<1>7. ASSUME NEW c \in Currency, SelectAccount(c)
      PROVE  debt_form' \in DebtForm /\ FormSound'
  <2>1. debt_form' = [debt_form EXCEPT !.account = c, !.switched = FALSE] /\ c = debt_form.currency
    BY <1>7 DEF SelectAccount, Offered
  <2>2. /\ debt_form' \in DebtForm
        /\ debt_form'.person = debt_form.person /\ debt_form'.from = debt_form.from
        /\ debt_form'.nth = debt_form.nth /\ debt_form'.account = c
        /\ debt_form'.by = debt_form.by /\ debt_form'.currency = debt_form.currency
    BY <1>1, <2>1 DEF DebtForm
  <2> QED
    BY <1>1, <1>2, <2>1, <2>2 DEF FormSound, ChosenInThisForm
<1> QED
  BY <1>4, <1>5, <1>6, <1>7

\* The list is read again.
LEMMA ListPeopleStep == ASSUME PersonInductive, ListPeople PROVE PersonInductive'
<1>1. /\ listed_people' = FirstPage
      /\ UNCHANGED <<people, debt_form, births, new_debts, removals, debts_of, person_log>>
  BY DEF ListPeople
<1>2. listed_people' \subseteq Person /\ ListSound'
  BY <1>1, FirstPageKept DEF ListSound, FirstPage, Active
<1>3. PersonTypes
  BY DEF PersonInductive
<1>4. FormSound'
  BY <1>1, <1>3 DEF PersonInductive, FormSound, ListSound, ChosenInThisForm
<1> QED
  BY <1>1, <1>2, <1>4 DEF PersonInductive, PersonTypes, BirthsSound, RequestSound, DebtSound,
     RemovalSound, BeingOwed, HasActiveDebts

\* A person is asked for.
LEMMA SavePersonStep == ASSUME PersonInductive, SavePerson PROVE PersonInductive'
<1>1. debt_form.nth \in Nat /\ person_log \in PersonLog /\ PersonTypes
  BY DEF PersonInductive, PersonTypes, DebtForm
<1> DEFINE b == [n |-> person_log.births, nth |-> debt_form.nth, stage |-> "sent",
                 person |-> Nobody, heard |-> FALSE]
<1>2. /\ births' = births \cup {b} /\ person_log' = [person_log EXCEPT !.births = @ + 1]
      /\ UNCHANGED <<people, listed_people, debt_form, new_debts, removals, debts_of>>
  BY DEF SavePerson
<1>3. b \in Birth /\ b.stage = "sent"
  BY <1>1 DEF Birth, PersonLog
<1> HIDE DEF b
<1>4. /\ person_log' \in PersonLog /\ person_log'.overlapped = person_log.overlapped
      /\ person_log'.pushed = person_log.pushed
  BY <1>1, <1>2 DEF PersonLog
<1>5. PersonTypes'
  BY <1>1, <1>2, <1>3, <1>4 DEF PersonTypes
<1>6. BirthsSound'
  BY <1>2, <1>3 DEF PersonInductive, BirthsSound
<1> QED
  BY <1>2, <1>4, <1>5, <1>6, FirstPageKept DEF PersonInductive, ListSound, FormSound,
     ChosenInThisForm, RequestSound, DebtSound, RemovalSound, BeingOwed, HasActiveDebts

\* What remains to be shown of a step of a birth: nobody is deleted or active by it but
\* one who has been pending, and whoever leaves the first page is noted.
LEMMA BirthAlone ==
  ASSUME PersonInductive, PersonTypes', BirthsSound', debt_form' = debt_form,
         UNCHANGED <<listed_people, new_debts, removals, debts_of>>,
         \A q \in Person : people[q] \in {"active", "deleted"} => people'[q] = people[q],
         \A q \in Person : people'[q] = "deleted" => people[q] = "deleted",
         FirstPage \subseteq FirstPage' \cup person_log'.pushed,
         person_log'.overlapped = person_log.overlapped,
         person_log.pushed \subseteq person_log'.pushed
  PROVE  PersonInductive'
<1>1. PersonTypes /\ listed_people \subseteq Person /\ debt_form \in DebtForm
  BY DEF PersonInductive, PersonTypes
<1>2. ListSound'
  BY <1>1 DEF PersonInductive, ListSound
<1>3. FormSound'
  BY <1>1 DEF PersonInductive, FormSound, ChosenInThisForm, DebtForm
<1>4. ASSUME NEW r \in new_debts PROVE RequestSound(r)'
  <2>1. r.person \in Person /\ RequestSound(r)
    BY <1>1 DEF PersonInductive, PersonTypes, NewDebt
  <2> QED
    BY <2>1 DEF RequestSound
<1>5. ASSUME NEW d \in debts_of PROVE DebtSound(d)'
  <2>1. d.person \in Person /\ DebtSound(d)
    BY <1>1 DEF PersonInductive, PersonTypes, PersonDebt
  <2> QED
    BY <2>1 DEF DebtSound
<1>6. ASSUME NEW s \in removals PROVE RemovalSound(s)'
  <2>1. RemovalSound(s) /\ s.person \in Person
    BY <1>1 DEF PersonInductive, PersonTypes, Removal
  <2> QED
    BY <2>1 DEF RemovalSound, BeingOwed, HasActiveDebts
<1> QED
  BY <1>2, <1>3, <1>4, <1>5, <1>6 DEF PersonInductive

\* A person is written under a number of its own, or refused.
LEMMA ServePersonStep ==
  ASSUME PersonInductive, NEW r \in births, ServePerson(r)
  PROVE  PersonInductive'
<1>1. /\ PersonTypes /\ BirthsSound /\ births \subseteq Birth /\ r \in Birth /\ r.stage = "sent"
      /\ people \in [Person -> {"unborn", "pending", "active", "deleted", "void"}]
  BY DEF PersonInductive, PersonTypes, ServePerson
<1>2. UNCHANGED <<listed_people, debt_form, new_debts, removals, debts_of, person_log>>
  BY DEF ServePerson
<1>3. CASE births' = (births \ {r}) \cup {[r EXCEPT !.stage = "declined"]} /\ UNCHANGED people
  <2> DEFINE b == [r EXCEPT !.stage = "declined"]
  <2>1. b \in Birth /\ b.stage = "declined"
    BY <1>1 DEF Birth
  <2>2. births' = (births \ {r}) \cup {b}
    BY <1>3
  <2> HIDE DEF b
  <2>3. PersonTypes' /\ BirthsSound'
    BY <1>1, <1>2, <1>3, <2>1, <2>2 DEF PersonTypes, BirthsSound
  <2> QED
    BY <1>2, <1>3, <2>3, FirstPageKept, BirthAlone
<1>4. ASSUME NEW p \in Person, people[p] = "unborn", people' = [people EXCEPT ![p] = "pending"],
             births' = (births \ {r}) \cup {[r EXCEPT !.stage = "done", !.person = p]}
      PROVE  PersonInductive'
  <2> DEFINE b == [r EXCEPT !.stage = "done", !.person = p]
  <2>1. b \in Birth /\ b.stage = "done" /\ b.person = p
    BY <1>1 DEF Birth
  <2>2. births' = (births \ {r}) \cup {b}
    BY <1>4
  <2> HIDE DEF b
  <2>3. /\ people' \in [Person -> {"unborn", "pending", "active", "deleted", "void"}]
        /\ people'[p] = "pending" /\ \A q \in Person : q # p => people'[q] = people[q]
    BY <1>1, <1>4
  <2>4. PersonTypes'
    BY <1>1, <1>2, <2>1, <2>2, <2>3 DEF PersonTypes
  <2>5. BirthsSound'
    BY <1>1, <1>4, <2>1, <2>2, <2>3 DEF BirthsSound
  <2>6. Active' = Active
    BY <1>4, <2>3 DEF Active
  <2>7. FirstPage' = FirstPage
    BY <2>6 DEF FirstPage
  <2> QED
    BY <1>2, <1>4, <2>3, <2>4, <2>5, <2>7, BirthAlone
<1> QED
  BY <1>3, <1>4 DEF ServePerson

\* The transaction of a person ends: the person is there, or never will be.
LEMMA CommitPersonStep ==
  ASSUME PersonInductive, NEW r \in births, NEW done \in BOOLEAN, CommitPerson(r, done)
  PROVE  PersonInductive'
<1>1. /\ PersonTypes /\ BirthsSound /\ births \subseteq Birth /\ r \in Birth /\ r.stage = "done"
      /\ people \in [Person -> {"unborn", "pending", "active", "deleted", "void"}]
      /\ r.person \in Person /\ people[r.person] = "pending" /\ person_log \in PersonLog
  BY DEF PersonInductive, PersonTypes, CommitPerson, BirthsSound
<1> DEFINE b == [r EXCEPT !.stage = "over"]
           becomes == IF done THEN "active" ELSE "void"
           off == FirstPage \ FirstPage'
<1>2. /\ people' = [people EXCEPT ![r.person] = becomes] /\ becomes \in {"active", "void"}
      /\ births' = (births \ {r}) \cup (IF r.heard THEN {} ELSE {b})
      /\ person_log' = [person_log EXCEPT !.pushed = @ \cup off]
      /\ UNCHANGED <<listed_people, debt_form, new_debts, removals, debts_of>>
  BY DEF CommitPerson
<1>3. b \in Birth /\ b.stage = "over" /\ b.person = r.person
  BY <1>1 DEF Birth
<1>4. off \subseteq Person /\ FirstPage \subseteq FirstPage' \cup off
  BY DEF FirstPage, Active
<1> HIDE DEF b, becomes, off
<1>5. /\ person_log' \in PersonLog /\ person_log'.overlapped = person_log.overlapped
      /\ person_log'.pushed = person_log.pushed \cup off
  BY <1>1, <1>2, <1>4 DEF PersonLog
<1>6. /\ people' \in [Person -> {"unborn", "pending", "active", "deleted", "void"}]
      /\ people'[r.person] # "deleted"
      /\ \A q \in Person : q # r.person => people'[q] = people[q]
  BY <1>1, <1>2
<1>7. PersonTypes'
  BY <1>1, <1>2, <1>3, <1>5, <1>6 DEF PersonTypes
<1>8. BirthsSound'
  <2>1. \A s \in births' : s.stage = "done" => s \in births /\ s # r
    BY <1>2, <1>3
  <2>2. \A s \in births' : s.stage \in {"done", "over"} => s.person \in Person
    BY <1>1, <1>2, <1>3 DEF BirthsSound
  <2>3. \A s \in births' : s.stage = "done" => s.person # r.person /\ s.person \in Person
    BY <1>1, <2>1 DEF BirthsSound
  <2> QED
    BY <1>1, <1>6, <2>1, <2>2, <2>3 DEF BirthsSound
<1>9. FirstPage \subseteq FirstPage' \cup person_log'.pushed
  BY <1>4, <1>5
<1> QED
  BY <1>1, <1>2, <1>5, <1>6, <1>7, <1>8, <1>9, BirthAlone

\* The form hears of a person, or that there is none; the request may go on unheard.
LEMMA AnswerPersonStep ==
  ASSUME PersonInductive, NEW r \in births, NEW well \in BOOLEAN, AnswerPerson(r, well)
  PROVE  PersonInductive'
<1>1. /\ PersonTypes /\ BirthsSound /\ births \subseteq Birth /\ r \in Birth
      /\ debt_form \in DebtForm /\ FormSound
  BY DEF PersonInductive, PersonTypes
<1> DEFINE b == [r EXCEPT !.heard = TRUE]
<1>2. /\ births' \subseteq (births \ {r}) \cup {b}
      /\ UNCHANGED <<people, listed_people, new_debts, removals, debts_of, person_log>>
  BY DEF AnswerPerson, Heard
<1>3. b \in Birth /\ b.stage = r.stage /\ b.person = r.person
  BY <1>1 DEF Birth
<1> HIDE DEF b
<1>4. births' \subseteq Birth /\ BirthsSound'
  <2>1. births' \subseteq Birth
    BY <1>1, <1>2, <1>3
  <2>2. \A s \in births' : s.stage \in {"done", "over"} => s.person \in Person
    BY <1>1, <1>2, <1>3 DEF BirthsSound
  <2>3. \A s \in births' : s.stage = "done" => people[s.person] = "pending"
    BY <1>1, <1>2, <1>3 DEF BirthsSound
  <2>4. ASSUME NEW s \in births', NEW q \in births', s.stage = "done", q.stage = "done",
               s.person = q.person
        PROVE  s = q
    <3>1. CASE s = b /\ q # b
      <4>1. q \in births /\ q # r
        BY <1>2, <3>1
      <4> QED
        BY <1>1, <1>3, <2>4, <3>1, <4>1 DEF BirthsSound
    <3>2. CASE s # b /\ q = b
      <4>1. s \in births /\ s # r
        BY <1>2, <3>2
      <4> QED
        BY <1>1, <1>3, <2>4, <3>2, <4>1 DEF BirthsSound
    <3>3. CASE s # b /\ q # b
      <4>1. s \in births /\ q \in births
        BY <1>2, <3>3
      <4> QED
        BY <1>1, <2>4, <4>1 DEF BirthsSound
    <3> QED
      BY <3>1, <3>2, <3>3
  <2> QED
    BY <1>2, <2>1, <2>2, <2>3, <2>4 DEF BirthsSound
<1>5. debt_form' \in DebtForm /\ FormSound'
  <2>1. CASE UNCHANGED debt_form
    BY <1>1, <1>2, <2>1 DEF FormSound, ChosenInThisForm
  <2>2. CASE /\ well /\ Hears(r)
             /\ debt_form' = [debt_form EXCEPT !.person = r.person, !.by = "inline",
                                               !.from = r.nth, !.inline = FALSE]
    <3>1. r.person \in Person \cup {Nobody} /\ r.nth \in Nat /\ r.nth = debt_form.nth
      BY <1>1, <2>2 DEF Birth, Hears
    <3>2. /\ debt_form' \in DebtForm
          /\ debt_form'.by = "inline" /\ debt_form'.from = r.nth
          /\ debt_form'.nth = debt_form.nth /\ debt_form'.account = debt_form.account
          /\ debt_form'.currency = debt_form.currency /\ debt_form'.switched = debt_form.switched
      BY <1>1, <2>2, <3>1 DEF DebtForm, Choosers
    <3> QED
      BY <1>1, <1>2, <3>1, <3>2 DEF FormSound, ChosenInThisForm
  <2> QED
    BY <2>1, <2>2 DEF AnswerPerson
<1> QED
  BY <1>2, <1>4, <1>5, FirstPageKept DEF PersonInductive, PersonTypes, ListSound, RequestSound,
     DebtSound, RemovalSound, BeingOwed, HasActiveDebts

\* The request has what the form has.
LEMMA SubmitDebtStep == ASSUME PersonInductive, SubmitDebt PROVE PersonInductive'
<1>1. /\ debt_form \in DebtForm /\ FormSound /\ PersonTypes
      /\ debt_form.person \in Person /\ debt_form.account \in Currency
  BY DEF PersonInductive, PersonTypes, DebtForm, SubmitDebt
<1> DEFINE d == [n |-> person_log.debts, nth |-> debt_form.nth, stage |-> "sent",
                 heard |-> FALSE, person |-> debt_form.person, by |-> debt_form.by,
                 named |-> debt_form.person \in listed_people,
                 currency |-> debt_form.currency, account |-> debt_form.account,
                 switched |-> debt_form.switched]
<1>2. /\ new_debts' = new_debts \cup {d}
      /\ person_log' = [person_log EXCEPT !.debts = @ + 1]
      /\ UNCHANGED <<people, listed_people, debt_form, births, removals, debts_of>>
      /\ debt_form.person # Nobody /\ debt_form.account # NoChoice
  BY DEF SubmitDebt
<1>3. /\ person_log \in PersonLog /\ debt_form.nth \in Nat
      /\ debt_form.by \in Choosers /\ debt_form.currency \in Currency
      /\ debt_form.switched \in BOOLEAN
  BY <1>1 DEF PersonTypes, DebtForm
<1>4. /\ d.stage = "sent" /\ d.person = debt_form.person /\ d.by = debt_form.by
      /\ d.named <=> debt_form.person \in listed_people
      /\ d.currency = debt_form.currency /\ d.account = debt_form.account
      /\ d.switched = debt_form.switched
  OBVIOUS
<1>5. d \in NewDebt
  BY <1>1, <1>3 DEF NewDebt, PersonLog
<1> HIDE DEF d
<1>6. /\ person_log' \in PersonLog /\ person_log'.overlapped = person_log.overlapped
      /\ person_log'.pushed = person_log.pushed
  BY <1>2, <1>3 DEF PersonLog
<1>7. PersonTypes'
  BY <1>1, <1>2, <1>5, <1>6 DEF PersonTypes
<1>8. ASSUME NEW e \in new_debts' PROVE RequestSound(e)'
  <2>1. CASE e \in new_debts
    BY <1>2, <1>6, <2>1 DEF PersonInductive, RequestSound
  <2>2. CASE e = d
    <3>1. d.account = d.currency \/ d.switched
      BY <1>1, <1>2, <1>4 DEF FormSound
    <3>2. \/ d.named \/ d.by \in {"inline", "preselected"} \/ d.person \in person_log.pushed
          \/ people[d.person] = "deleted"
      BY <1>1, <1>2, <1>3, <1>4 DEF FormSound, Choosers
    <3> QED
      BY <1>2, <1>4, <1>6, <2>2, <3>1, <3>2 DEF RequestSound
  <2> QED
    BY <1>2, <2>1, <2>2
<1>9. ASSUME NEW s \in removals PROVE RemovalSound(s)'
  BY <1>2, <1>4, <1>6 DEF PersonInductive, RemovalSound, BeingOwed, HasActiveDebts
<1> QED
  BY <1>2, <1>6, <1>7, <1>8, <1>9, FirstPageKept
     DEF PersonInductive, BirthsSound, ListSound, FormSound, ChosenInThisForm, DebtSound

\* The history notes a person whose deletion and debt have both been read.
LEMMA NotedGrows ==
  ASSUME person_log \in PersonLog, NEW p \in Person, NEW overlaps \in BOOLEAN,
         person_log' = Noted(p, overlaps)
  PROVE  /\ person_log' \in PersonLog /\ person_log'.pushed = person_log.pushed
         /\ person_log.overlapped \subseteq person_log'.overlapped
         /\ overlaps => p \in person_log'.overlapped
BY DEF PersonLog, Noted

\* What remains of a step of a request that changes no person: what it writes.
LEMMA RequestAlone ==
  ASSUME PersonInductive, PersonTypes', UNCHANGED <<people, listed_people, births>>,
         person_log'.pushed = person_log.pushed,
         person_log.overlapped \subseteq person_log'.overlapped,
         FormSound',
         \A e \in new_debts' : e \in new_debts \/ RequestSound(e)',
         \A d \in debts_of' : d \in debts_of \/ DebtSound(d)',
         \A s \in removals' : RemovalSound(s)'
  PROVE  PersonInductive'
<1>1. \A e \in new_debts : RequestSound(e)'
  BY DEF PersonInductive, RequestSound
<1>2. \A d \in debts_of : DebtSound(d)'
  BY DEF PersonInductive, DebtSound
<1> QED
  BY <1>1, <1>2, FirstPageKept DEF PersonInductive, BirthsSound, ListSound

\* The person of a debt is read: it is there, or the debt is refused.
LEMMA ReadPersonStep ==
  ASSUME PersonInductive, NEW r \in new_debts, ReadPerson(r)
  PROVE  PersonInductive'
<1>1. /\ r \in NewDebt /\ PersonTypes /\ FormSound /\ RequestSound(r) /\ r.person \in Person
      /\ person_log \in PersonLog
  BY DEF PersonInductive, PersonTypes, NewDebt
<1>2. PICK d :
        /\ d = [r EXCEPT !.stage = IF Found(r.person) THEN "read" ELSE "declined"]
        /\ new_debts' = (new_debts \ {r}) \cup {d}
        /\ person_log' = Noted(r.person, BeingDeleted(r.person))
        /\ UNCHANGED <<people, listed_people, debt_form, births, removals, debts_of>>
  BY DEF ReadPerson
<1>3. /\ d \in NewDebt /\ d.person = r.person /\ d.by = r.by /\ d.named = r.named
      /\ d.currency = r.currency /\ d.account = r.account /\ d.switched = r.switched
      /\ d.stage = "read" => people[r.person] = "active"
      /\ d.stage = "read" \/ d.stage = "declined"
  BY <1>1, <1>2 DEF NewDebt, Found
<1>4. /\ person_log' \in PersonLog /\ person_log'.pushed = person_log.pushed
      /\ person_log.overlapped \subseteq person_log'.overlapped
      /\ BeingDeleted(r.person) => r.person \in person_log'.overlapped
  <2>1. BeingDeleted(r.person) \in BOOLEAN
    BY DEF BeingDeleted
  <2> QED
    BY <1>1, <1>2, <2>1, NotedGrows
<1>5. PersonTypes'
  BY <1>1, <1>2, <1>3, <1>4 DEF PersonTypes
<1>6. FormSound'
  BY <1>1, <1>2, <1>4 DEF FormSound, ChosenInThisForm
<1>7. RequestSound(d)'
  BY <1>1, <1>2, <1>3, <1>4 DEF RequestSound
<1>8. ASSUME NEW s \in removals PROVE RemovalSound(s)'
  <2>1. RemovalSound(s)
    BY DEF PersonInductive
  <2>2. CASE s.person = r.person
    BY <1>2, <1>4, <2>1, <2>2 DEF RemovalSound, BeingDeleted
  <2>3. CASE s.person # r.person
    BY <1>2, <1>3, <1>4, <2>1, <2>3 DEF RemovalSound, BeingOwed, HasActiveDebts
  <2> QED
    BY <2>2, <2>3
<1> QED
  BY <1>2, <1>4, <1>5, <1>6, <1>7, <1>8, RequestAlone

\* The transaction of a debt ends; whoever deletes its person by then overlapped with it.
LEMMA CommitDebtStep ==
  ASSUME PersonInductive, NEW r \in new_debts, NEW done \in BOOLEAN, CommitDebt(r, done)
  PROVE  PersonInductive'
<1>1. /\ r \in NewDebt /\ PersonTypes /\ FormSound /\ RequestSound(r) /\ r.person \in Person
      /\ r.stage = "read" /\ new_debts \subseteq NewDebt /\ debts_of \subseteq PersonDebt
  BY DEF PersonInductive, PersonTypes, NewDebt, CommitDebt
<1> DEFINE d == [n |-> r.n, person |-> r.person, by |-> r.by, named |-> r.named,
                 currency |-> r.currency, account |-> r.account, switched |-> r.switched,
                 status |-> "active", revived |-> FALSE]
           e == [r EXCEPT !.stage = "over"]
<1>2. /\ debts_of' = IF done THEN debts_of \cup {d} ELSE debts_of
      /\ new_debts' = (new_debts \ {r}) \cup (IF r.heard THEN {} ELSE {e})
      /\ UNCHANGED <<people, listed_people, debt_form, births, removals, person_log>>
  BY DEF CommitDebt
<1>3. /\ d \in PersonDebt /\ d.person = r.person /\ d.by = r.by /\ d.named = r.named
      /\ d.currency = r.currency /\ d.account = r.account /\ d.switched = r.switched
  BY <1>1 DEF NewDebt, PersonDebt
<1>4. /\ e \in NewDebt /\ e.person = r.person /\ e.by = r.by /\ e.named = r.named
      /\ e.currency = r.currency /\ e.account = r.account /\ e.switched = r.switched
      /\ e.stage = "over"
  BY <1>1 DEF NewDebt
<1> HIDE DEF d, e
<1>5. /\ debts_of' \subseteq debts_of \cup {d} /\ new_debts' \subseteq (new_debts \ {r}) \cup {e}
  BY <1>2
<1>6. PersonTypes'
  BY <1>1, <1>2, <1>3, <1>4, <1>5 DEF PersonTypes
<1>7. FormSound'
  BY <1>1, <1>2 DEF FormSound, ChosenInThisForm
<1>8. RequestSound(e)'
  BY <1>1, <1>2, <1>4 DEF RequestSound
<1>9. DebtSound(d)'
  BY <1>1, <1>2, <1>3 DEF RequestSound, DebtSound
<1>10. ASSUME NEW s \in removals PROVE RemovalSound(s)'
  <2>1. RemovalSound(s)
    BY DEF PersonInductive
  <2>2. CASE s.person = r.person
    BY <1>1, <1>2, <2>1, <2>2 DEF RemovalSound, BeingOwed
  <2>3. CASE s.person # r.person
    BY <1>2, <1>3, <1>4, <1>5, <2>1, <2>3 DEF RemovalSound, BeingOwed, HasActiveDebts
  <2> QED
    BY <2>2, <2>3
<1> QED
  BY <1>2, <1>5, <1>6, <1>7, <1>8, <1>9, <1>10, RequestAlone

\* The form closes, or not; the request may go on unheard.
LEMMA AnswerDebtStep ==
  ASSUME PersonInductive, NEW r \in new_debts, NEW well \in BOOLEAN, AnswerDebt(r, well)
  PROVE  PersonInductive'
<1>1. /\ r \in NewDebt /\ PersonTypes /\ FormSound /\ RequestSound(r)
      /\ new_debts \subseteq NewDebt /\ debt_form \in DebtForm
  BY DEF PersonInductive, PersonTypes
<1> DEFINE e == [r EXCEPT !.heard = TRUE]
<1>2. /\ new_debts' \subseteq (new_debts \ {r}) \cup {e}
      /\ UNCHANGED <<people, listed_people, births, removals, debts_of, person_log>>
      /\ UNCHANGED debt_form \/ debt_form' = EmptyForm(FALSE, debt_form.nth)
  BY DEF AnswerDebt, Heard
<1>3. /\ e \in NewDebt /\ e.person = r.person /\ e.by = r.by /\ e.named = r.named
      /\ e.currency = r.currency /\ e.account = r.account /\ e.switched = r.switched
      /\ e.stage = r.stage
  BY <1>1 DEF NewDebt
<1> HIDE DEF e
<1>4. debt_form' \in DebtForm /\ FormSound'
  <2>1. CASE UNCHANGED debt_form
    BY <1>1, <1>2, <2>1 DEF FormSound, ChosenInThisForm
  <2>2. CASE debt_form' = EmptyForm(FALSE, debt_form.nth)
    <3>1. debt_form.nth \in Nat
      BY <1>1 DEF DebtForm
    <3>2. /\ debt_form' \in DebtForm
          /\ debt_form'.person = Nobody /\ debt_form'.account = NoChoice
      BY <2>2, <3>1, PersonAssumption DEF EmptyForm, DebtForm, Choosers
    <3> QED
      BY <3>2 DEF FormSound, ChosenInThisForm
  <2> QED
    BY <1>2, <2>1, <2>2
<1>5. PersonTypes'
  BY <1>1, <1>2, <1>3, <1>4 DEF PersonTypes
<1>6. RequestSound(e)'
  BY <1>1, <1>2, <1>3 DEF RequestSound
<1>7. ASSUME NEW s \in removals PROVE RemovalSound(s)'
  BY <1>2, <1>3 DEF PersonInductive, RemovalSound, BeingOwed, HasActiveDebts
<1> QED
  BY <1>2, <1>4, <1>5, <1>6, <1>7, RequestAlone

\* A debt is settled; made active again, by a request that overlaps with those that delete
\* its person; or that request ends.
LEMMA StatusSteps ==
  ASSUME PersonInductive, NEW d \in debts_of,
         SettleDebt(d) \/ ReactivateDebt(d) \/ \E done \in BOOLEAN : CommitRevival(d, done)
  PROVE  PersonInductive'
<1>1. /\ d \in PersonDebt /\ d.person \in Person /\ PersonTypes /\ FormSound /\ DebtSound(d)
      /\ debts_of \subseteq PersonDebt /\ person_log \in PersonLog
  BY DEF PersonInductive, PersonTypes, PersonDebt
<1>2. UNCHANGED <<people, listed_people, debt_form, births, new_debts, removals>>
  BY DEF SettleDebt, ReactivateDebt, CommitRevival
<1>3. SUFFICES ASSUME NEW e \in PersonDebt, debts_of' = (debts_of \ {d}) \cup {e},
                      e.person = d.person, person_log' \in PersonLog,
                      person_log'.pushed = person_log.pushed,
                      person_log.overlapped \subseteq person_log'.overlapped, DebtSound(e)',
                      \/ e.status \in {"paid", "deleted"} \/ d.status = "reviving"
                      \/ BeingDeleted(d.person) => d.person \in person_log'.overlapped
               PROVE  PersonInductive'
  <2>1. CASE SettleDebt(d)
    <3>1. PICK status \in {"paid", "deleted"} :
            debts_of' = (debts_of \ {d}) \cup {[d EXCEPT !.status = status]}
      BY <2>1 DEF SettleDebt
    <3> DEFINE e == [d EXCEPT !.status = status]
    <3>2. /\ e \in PersonDebt /\ e.person = d.person /\ e.status = status
          /\ e.account = d.account /\ e.currency = d.currency /\ e.switched = d.switched
          /\ e.named = d.named /\ e.by = d.by
      BY <1>1 DEF PersonDebt
    <3>3. debts_of' = (debts_of \ {d}) \cup {e} /\ UNCHANGED person_log
      BY <2>1, <3>1 DEF SettleDebt
    <3> HIDE DEF e
    <3>4. DebtSound(e)'
      BY <1>1, <1>2, <3>2, <3>3 DEF DebtSound
    <3> QED
      BY <1>1, <1>3, <3>2, <3>3, <3>4
  <2>2. CASE ReactivateDebt(d)
    <3>2. PICK e :
            /\ e = [d EXCEPT !.status = "reviving",
                             !.revived = @ \/ people[d.person] = "deleted"]
            /\ debts_of' = (debts_of \ {d}) \cup {e}
            /\ person_log' = Noted(d.person, BeingDeleted(d.person))
      BY <2>2 DEF ReactivateDebt
    <3>1. /\ e \in PersonDebt /\ e.person = d.person /\ e.status = "reviving"
          /\ e.account = d.account /\ e.currency = d.currency /\ e.switched = d.switched
          /\ e.named = d.named /\ e.by = d.by
          /\ people[d.person] = "deleted" => e.revived
      BY <1>1, <3>2 DEF PersonDebt
    <3>3. /\ person_log' \in PersonLog /\ person_log'.pushed = person_log.pushed
          /\ person_log.overlapped \subseteq person_log'.overlapped
          /\ BeingDeleted(d.person) => d.person \in person_log'.overlapped
      <4>1. BeingDeleted(d.person) \in BOOLEAN
        BY DEF BeingDeleted
      <4> QED
        BY <1>1, <3>2, <4>1, NotedGrows
    <3>4. DebtSound(e)'
      BY <1>1, <1>2, <3>1, <3>3 DEF DebtSound
    <3> QED
      BY <1>3, <3>1, <3>2, <3>3, <3>4
  <2>3. ASSUME NEW done \in BOOLEAN, CommitRevival(d, done) PROVE PersonInductive'
    <3> DEFINE e == [d EXCEPT !.status = IF done THEN "active" ELSE "paid"]
    <3>1. /\ e \in PersonDebt /\ e.person = d.person /\ e.revived = d.revived
          /\ e.account = d.account /\ e.currency = d.currency /\ e.switched = d.switched
          /\ e.named = d.named /\ e.by = d.by
      BY <1>1 DEF PersonDebt
    <3>2. /\ debts_of' = (debts_of \ {d}) \cup {e} /\ d.status = "reviving" /\ UNCHANGED person_log
      BY <2>3 DEF CommitRevival
    <3> HIDE DEF e
    <3>3. DebtSound(e)'
      BY <1>1, <1>2, <3>1, <3>2 DEF DebtSound
    <3> QED
      BY <1>1, <1>3, <3>1, <3>2, <3>3
  <2> QED
    BY <2>1, <2>2, <2>3
<1>4. PersonTypes'
  BY <1>1, <1>2, <1>3 DEF PersonTypes
<1>5. FormSound'
  BY <1>1, <1>2, <1>3 DEF FormSound, ChosenInThisForm
<1>6. ASSUME NEW s \in removals PROVE RemovalSound(s)'
  <2>1. RemovalSound(s)
    BY DEF PersonInductive
  <2>2. CASE s.person # d.person
    BY <1>2, <1>3, <2>1, <2>2 DEF RemovalSound, BeingOwed, HasActiveDebts
  <2>3. CASE s.person = d.person /\ e.status \in {"paid", "deleted"}
    BY <1>2, <1>3, <2>1, <2>3 DEF RemovalSound, BeingOwed, HasActiveDebts
  <2>4. CASE s.person = d.person /\ d.status = "reviving"
    BY <1>2, <1>3, <2>1, <2>4 DEF RemovalSound, BeingOwed
  <2>5. CASE s.person = d.person /\ (BeingDeleted(d.person) => d.person \in person_log'.overlapped)
    BY <1>2, <1>3, <2>1, <2>5 DEF RemovalSound, BeingDeleted
  <2> QED
    BY <1>3, <2>2, <2>3, <2>4, <2>5
<1> QED
  BY <1>2, <1>3, <1>4, <1>5, <1>6, RequestAlone

\* A deletion is asked for.
LEMMA RemovePersonStep ==
  ASSUME PersonInductive, NEW p \in Person, RemovePerson(p)
  PROVE  PersonInductive'
<1> DEFINE s == [person |-> p, stage |-> "sent"]
<1>1. /\ removals' = removals \cup {s} /\ s \in Removal /\ s.stage = "sent"
      /\ people[s.person] = "active"
      /\ UNCHANGED <<people, listed_people, debt_form, births, new_debts, debts_of, person_log>>
  BY DEF RemovePerson, Removal
<1> HIDE DEF s
<1>2. PersonTypes' /\ FormSound'
  BY <1>1 DEF PersonInductive, PersonTypes, FormSound, ChosenInThisForm
<1>3. \A q \in removals' : RemovalSound(q)'
  BY <1>1 DEF PersonInductive, RemovalSound, BeingOwed, HasActiveDebts
<1> QED
  BY <1>1, <1>2, <1>3, RequestAlone

\* A deletion goes on only where there is no debt.
LEMMA CheckDebtsStep ==
  ASSUME PersonInductive, NEW s \in removals, CheckDebts(s)
  PROVE  PersonInductive'
<1>1. /\ s \in Removal /\ s.person \in Person /\ PersonTypes /\ FormSound
      /\ person_log \in PersonLog /\ removals \subseteq Removal
  BY DEF PersonInductive, PersonTypes, Removal
<1> DEFINE q == [s EXCEPT !.stage = "read"]
<1>2. /\ removals' = (removals \ {s}) \cup (IF HasActiveDebts(s.person) THEN {} ELSE {q})
      /\ person_log' = Noted(s.person, BeingOwed(s.person))
      /\ UNCHANGED <<people, listed_people, debt_form, births, new_debts, debts_of>>
  BY DEF CheckDebts
<1>3. q \in Removal /\ q.person = s.person
  BY <1>1 DEF Removal
<1> HIDE DEF q
<1>4. /\ person_log' \in PersonLog /\ person_log'.pushed = person_log.pushed
      /\ person_log.overlapped \subseteq person_log'.overlapped
      /\ BeingOwed(s.person) => s.person \in person_log'.overlapped
  <2>1. BeingOwed(s.person) \in BOOLEAN
    BY DEF BeingOwed
  <2> QED
    BY <1>1, <1>2, <2>1, NotedGrows
<1>5. PersonTypes' /\ FormSound'
  BY <1>1, <1>2, <1>3, <1>4 DEF PersonTypes, FormSound, ChosenInThisForm
<1>6. ASSUME NEW e \in removals' PROVE RemovalSound(e)'
  <2>1. CASE e \in removals
    BY <1>2, <1>4, <2>1 DEF PersonInductive, RemovalSound, BeingOwed, HasActiveDebts
  <2>2. CASE e = q /\ ~HasActiveDebts(s.person)
    <3>1. people[s.person] \in {"active", "deleted"}
      BY DEF PersonInductive, RemovalSound
    <3> QED
      BY <1>2, <1>3, <1>4, <2>2, <3>1 DEF RemovalSound, HasActiveDebts, BeingOwed
  <2> QED
    BY <1>2, <2>1, <2>2
<1> QED
  BY <1>2, <1>4, <1>5, <1>6, RequestAlone

\* The transaction of a deletion ends.
LEMMA CommitRemovalStep ==
  ASSUME PersonInductive, NEW s \in removals, NEW done \in BOOLEAN, CommitRemoval(s, done)
  PROVE  PersonInductive'
<1>1. /\ s \in Removal /\ s.person \in Person /\ PersonTypes /\ FormSound /\ RemovalSound(s)
      /\ removals \subseteq Removal /\ s.stage = "read"
      /\ people \in [Person -> {"unborn", "pending", "active", "deleted", "void"}]
  BY DEF PersonInductive, PersonTypes, Removal, CommitRemoval
<1>2. /\ removals' = removals \ {s}
      /\ UNCHANGED <<listed_people, debt_form, births, new_debts, debts_of, person_log>>
      /\ people' = IF done THEN [people EXCEPT ![s.person] = "deleted"] ELSE people
  BY DEF CommitRemoval
<1>3. CASE UNCHANGED people
  <2>1. PersonTypes' /\ FormSound'
    BY <1>1, <1>2, <1>3 DEF PersonTypes, FormSound, ChosenInThisForm
  <2>2. \A e \in removals' : RemovalSound(e)'
    BY <1>2 DEF PersonInductive, RemovalSound, BeingOwed, HasActiveDebts
  <2> QED
    BY <1>2, <1>3, <2>1, <2>2, RequestAlone
<1>4. CASE people' = [people EXCEPT ![s.person] = "deleted"]
  <2>1. /\ people' \in [Person -> {"unborn", "pending", "active", "deleted", "void"}]
        /\ people'[s.person] = "deleted"
        /\ \A p \in Person : p # s.person => people'[p] = people[p]
    BY <1>1, <1>4
  <2>2. PersonTypes'
    BY <1>1, <1>2, <2>1 DEF PersonTypes
  <2>3. FormSound'
    BY <1>1, <1>2, <2>1 DEF FormSound, ChosenInThisForm, PersonTypes, DebtForm
  <2>4. Active' \subseteq Active /\ \A p \in Active : p # s.person => p \in Active'
    BY <2>1 DEF Active
  <2>5. ListSound'
    <3>1. ASSUME NEW p \in listed_people, p # s.person, people[p] # "deleted",
                 p \notin person_log.pushed
          PROVE  p \in FirstPage'
      <4>1. p \in Person /\ p \in FirstPage
        BY <1>1, <3>1 DEF PersonInductive, PersonTypes, ListSound
      <4>2. p \in Active
        BY <4>1 DEF FirstPage
      <4> QED
        BY <2>4, <3>1, <4>1, <4>2, FirstPageKept
    <3>2. listed_people \subseteq Person
      BY <1>1 DEF PersonTypes
    <3> QED
      BY <1>2, <2>1, <3>1, <3>2 DEF PersonInductive, ListSound
  <2>6. ASSUME NEW r \in new_debts PROVE RequestSound(r)'
    <3>1. RequestSound(r) /\ r.person \in Person
      BY <1>1 DEF PersonInductive, PersonTypes, NewDebt
    <3>2. r.stage = "read" /\ r.person = s.person => s.person \in person_log.overlapped
      BY <1>1 DEF RemovalSound, BeingOwed
    <3> QED
      BY <1>2, <2>1, <3>1, <3>2 DEF RequestSound
  <2>7. ASSUME NEW d \in debts_of PROVE DebtSound(d)'
    <3>1. DebtSound(d) /\ d.person \in Person
      BY <1>1 DEF PersonInductive, PersonTypes, PersonDebt
    <3>2. d.status \in {"active", "reviving"} /\ d.person = s.person
            => s.person \in person_log.overlapped
      BY <1>1 DEF RemovalSound, BeingOwed, HasActiveDebts
    <3> QED
      BY <1>2, <2>1, <3>1, <3>2 DEF DebtSound
  <2>8. ASSUME NEW e \in removals' PROVE RemovalSound(e)'
    <3>1. RemovalSound(e) /\ e.person \in Person
      BY <1>1, <1>2 DEF PersonInductive, PersonTypes, Removal
    <3> QED
      BY <1>2, <2>1, <3>1 DEF RemovalSound, BeingOwed, HasActiveDebts
  <2>9. BirthsSound'
    <3>1. people[s.person] # "pending"
      BY <1>1 DEF RemovalSound
    <3> QED
      BY <1>1, <1>2, <2>1, <3>1 DEF PersonInductive, BirthsSound
  <2> QED
    BY <1>2, <2>2, <2>3, <2>5, <2>6, <2>7, <2>8, <2>9 DEF PersonInductive
<1> QED
  BY <1>2, <1>3, <1>4

\* Every step of the person picker keeps it.
LEMMA PersonInductiveStep == PersonInductive /\ [PersonNext]_person_vars => PersonInductive'
<1> SUFFICES ASSUME PersonInductive, [PersonNext]_person_vars PROVE PersonInductive'
  OBVIOUS
<1>1. CASE UNCHANGED person_vars
  <2>1. /\ UNCHANGED <<people, listed_people, births, new_debts, removals, debts_of, person_log>>
        /\ UNCHANGED debt_form
    BY <1>1 DEF person_vars
  <2>2. debt_form' \in DebtForm /\ FormSound'
    BY <2>1 DEF PersonInductive, PersonTypes, FormSound, ChosenInThisForm
  <2> QED
    BY <2>1, <2>2, FormAlone
<1>2. CASE PersonNext
  BY <1>2, OpeningSteps, ChoiceSteps, ListPeopleStep, SavePersonStep, ServePersonStep,
     CommitPersonStep, AnswerPersonStep, SubmitDebtStep, ReadPersonStep, CommitDebtStep,
     AnswerDebtStep, StatusSteps, RemovePersonStep, CheckDebtsStep, CommitRemovalStep
     DEF PersonNext
<1> QED
  BY <1>1, <1>2

\* However many debts and deletions are under way, and whatever is lost: an active debt of
\* a deleted person comes from an overlap or from a reactivation only, one without a name
\* from a person who was created in the form, given to it or pushed off the list, the
\* form has no person of an earlier opening, and an account is of the debt's currency
\* unless that was changed after it (create_p2p_debt compares neither).
THEOREM PersonsKept == PersonSpec => []PersonInvariant
<1>1. PersonInductive => PersonInvariant
  BY DEF PersonInductive, FormSound, DebtSound, PersonInvariant, DeletedHaveNoDebts,
     NamelessAreExplained, AccountOfOwnCurrency
<1> QED
  BY <1>1, PersonInductiveInit, PersonInductiveStep, PTL DEF PersonSpec

-----------------------------------------------------------------------------
(* The picker of institutions (InstitutionPicker) *)

Dialog ==
  [open : BOOLEAN, kind : AccountKind, institution : Institution \cup {NoInstitution},
   by : {"page", "user", "late"}, nth : Nat]
Other ==
  [own : BOOLEAN, institution : Institution, nth : Nat, done : BOOLEAN]

InstitutionInductive ==
  /\ dialog \in Dialog /\ others \subseteq Other
  /\ dialog_log \in [opened : Nat, others : Nat, sent : Nat, saved : Nat]
  /\ InstitutionInvariant

\* An institution that the page gives is kept when the type changes, whoever has
\* chosen the one that is there: what follows is about pages that give none.
NonePreselected == Preselected = NoInstitution

\* Before a dialog is opened the invariant of the institution picker holds.
LEMMA InstitutionInductiveInit == InstitutionInit => InstitutionInductive
<1> SUFFICES ASSUME InstitutionInit PROVE InstitutionInductive
  OBVIOUS
<1>1. dialog \in Dialog /\ dialog.by = "page" /\ accounts = {}
  BY InstitutionAssumption DEF InstitutionInit, EmptyDialog, Dialog
<1>2. dialog_log \in [opened : Nat, others : Nat, sent : Nat, saved : Nat]
  BY DEF InstitutionInit
<1> QED
  BY <1>1, <1>2 DEF InstitutionInit, InstitutionInductive, InstitutionInvariant, MismatchIsLate,
     NotCarriedOver, AccountsMatchInstitutions

\* A selector that is unmounted leaves its requests behind.
LEMMA RemountKeeps ==
  ASSUME others \subseteq Other, Remount
  PROVE  others' \subseteq Other
<1>1. CASE Mounted'
  BY <1>1 DEF Remount
<1>2. CASE ~Mounted'
  <2>1. others' = {[r EXCEPT !.own = FALSE] : r \in others}
    BY <1>2 DEF Remount
  <2>2. \A r \in Other : [r EXCEPT !.own = FALSE] \in Other
    BY DEF Other
  <2> QED
    BY <2>1, <2>2
<1> QED
  BY <1>1, <1>2

\* What a step does to the form, apart from the requests.
LEMMA DialogStep ==
  ASSUME InstitutionInductive, UNCHANGED accounts, others' \subseteq Other,
         dialog_log' \in [opened : Nat, others : Nat, sent : Nat, saved : Nat],
         NEW x \in Dialog, dialog' = x,
         x.institution \in {NoInstitution, KindOf[x.kind]} \/ x.by # "user",
         x.by = "user" /\ x.institution # NoInstitution => x.nth = dialog_log'.saved
  PROVE  InstitutionInductive'
BY DEF InstitutionInductive, InstitutionInvariant, MismatchIsLate, NotCarriedOver,
   AccountsMatchInstitutions

\* Opening and closing the dialog of an account keep it.
LEMMA OpenSteps ==
  ASSUME InstitutionInductive, OpenDialogOfAccount \/ CloseDialogOfAccount
  PROVE  InstitutionInductive'
<1>1. /\ dialog \in Dialog /\ others \subseteq Other /\ MismatchIsLate /\ NotCarriedOver
      /\ dialog_log \in [opened : Nat, others : Nat, sent : Nat, saved : Nat]
  BY DEF InstitutionInductive, InstitutionInvariant
<1>2. PICK open \in BOOLEAN : dialog' = [dialog EXCEPT !.open = open]
  BY DEF OpenDialogOfAccount, CloseDialogOfAccount
<1> DEFINE x == [dialog EXCEPT !.open = open]
<1>3. /\ x \in Dialog /\ x.kind = dialog.kind /\ x.institution = dialog.institution
      /\ x.by = dialog.by /\ x.nth = dialog.nth
  BY <1>1 DEF Dialog
<1>4. UNCHANGED accounts /\ others' \subseteq Other
  BY <1>1, RemountKeeps DEF OpenDialogOfAccount, CloseDialogOfAccount
<1>5. /\ dialog_log' \in [opened : Nat, others : Nat, sent : Nat, saved : Nat]
      /\ dialog_log'.saved = dialog_log.saved
  BY <1>1 DEF OpenDialogOfAccount, CloseDialogOfAccount
<1>6. dialog' = x
  BY <1>2
<1> HIDE DEF x
<1>7. x.institution \in {NoInstitution, KindOf[x.kind]} \/ x.by # "user"
  BY <1>1, <1>3 DEF MismatchIsLate
<1>8. x.by = "user" /\ x.institution # NoInstitution => x.nth = dialog_log'.saved
  BY <1>1, <1>3, <1>5 DEF NotCarriedOver
<1> QED
  BY <1>3, <1>4, <1>5, <1>6, <1>7, <1>8, DialogStep

\* A change of the account's type drops an institution that no longer fits.
LEMMA TypeStep ==
  ASSUME InstitutionInductive, NonePreselected, NEW k \in AccountKind, ChangeType(k)
  PROVE  InstitutionInductive'
<1>1. /\ dialog \in Dialog /\ others \subseteq Other /\ MismatchIsLate /\ NotCarriedOver
      /\ dialog_log \in [opened : Nat, others : Nat, sent : Nat, saved : Nat]
  BY DEF InstitutionInductive, InstitutionInvariant
<1>2. UNCHANGED <<accounts, dialog_log>> /\ others' \subseteq Other
  BY <1>1, RemountKeeps DEF ChangeType
<1>3. CASE Keeps(dialog.kind, k)
  <2> DEFINE x == [dialog EXCEPT !.kind = k]
  <2>1. /\ x \in Dialog /\ x.kind = k /\ x.institution = dialog.institution
        /\ x.by = dialog.by /\ x.nth = dialog.nth
    BY <1>1 DEF Dialog
  <2>2. dialog' = x
    BY <1>3 DEF ChangeType
  <2> HIDE DEF x
  <2>3. KindOf[k] = KindOf[dialog.kind]
    BY <1>3 DEF Keeps, NonePreselected
  <2>4. x.institution \in {NoInstitution, KindOf[x.kind]} \/ x.by # "user"
    BY <1>1, <2>1, <2>3 DEF MismatchIsLate
  <2>5. x.by = "user" /\ x.institution # NoInstitution => x.nth = dialog_log'.saved
    BY <1>1, <1>2, <2>1 DEF NotCarriedOver
  <2> QED
    BY <1>1, <1>2, <2>1, <2>2, <2>4, <2>5, DialogStep
<1>4. CASE ~Keeps(dialog.kind, k)
  <2> DEFINE x == [dialog EXCEPT !.kind = k, !.institution = NoInstitution]
  <2>1. x \in Dialog /\ x.institution = NoInstitution
    BY <1>1 DEF Dialog
  <2>2. dialog' = x
    BY <1>4 DEF ChangeType
  <2> HIDE DEF x
  <2> QED
    BY <1>1, <1>2, <2>1, <2>2, DialogStep
<1> QED
  BY <1>3, <1>4

\* A choice among what fits keeps the invariant.
LEMMA ChooseStep ==
  ASSUME InstitutionInductive, NEW i \in Institution \cup {NoInstitution}, ChooseInstitution(i)
  PROVE  InstitutionInductive'
<1>1. /\ dialog \in Dialog /\ others \subseteq Other
      /\ dialog_log \in [opened : Nat, others : Nat, sent : Nat, saved : Nat]
  BY DEF InstitutionInductive
<1> DEFINE x == [dialog EXCEPT !.institution = i, !.by = "user", !.nth = dialog_log.saved]
<1>2. /\ x \in Dialog /\ x.kind = dialog.kind /\ x.institution = i
      /\ x.nth = dialog_log.saved
  BY <1>1 DEF Dialog
<1>3. dialog' = x /\ UNCHANGED <<others, accounts, dialog_log>>
  BY DEF ChooseInstitution
<1> HIDE DEF x
<1>4. i \in {NoInstitution, KindOf[dialog.kind]}
  BY DEF ChooseInstitution
<1> QED
  BY <1>1, <1>2, <1>3, <1>4, DialogStep

\* The answer is "late" unless the form is the one that has asked, with a type the
\* institution is of.
LEMMA AnswerOtherStep ==
  ASSUME InstitutionInductive, NEW r \in others, AnswerOther(r)
  PROVE  InstitutionInductive'
<1>1. /\ dialog \in Dialog /\ others \subseteq Other /\ r \in Other
      /\ dialog_log \in [opened : Nat, others : Nat, sent : Nat, saved : Nat]
      /\ MismatchIsLate /\ NotCarriedOver
  BY DEF InstitutionInductive, InstitutionInvariant
<1>2. others' \subseteq Other /\ UNCHANGED <<accounts, dialog_log>>
  BY <1>1 DEF AnswerOther
<1>3. CASE UNCHANGED dialog
  BY <1>1, <1>2, <1>3, DialogStep DEF MismatchIsLate, NotCarriedOver
<1>4. ASSUME NEW by \in {"user", "late"},
             by = "user" => KindOf[dialog.kind] = r.institution /\ dialog_log.saved = r.nth,
             dialog' = [dialog EXCEPT !.institution = r.institution, !.nth = r.nth, !.by = by]
      PROVE  InstitutionInductive'
  <2> DEFINE x == [dialog EXCEPT !.institution = r.institution, !.nth = r.nth, !.by = by]
  <2>1. r.institution \in Institution /\ r.nth \in Nat
    BY <1>1 DEF Other
  <2>2. /\ x \in Dialog /\ x.kind = dialog.kind /\ x.institution = r.institution
        /\ x.nth = r.nth /\ x.by = by
    BY <1>1, <2>1 DEF Dialog
  <2>3. dialog' = x
    BY <1>4
  <2> HIDE DEF x
  <2>4. x.institution \in {NoInstitution, KindOf[x.kind]} \/ x.by # "user"
    BY <1>4, <2>2
  <2>5. x.by = "user" /\ x.institution # NoInstitution => x.nth = dialog_log'.saved
    BY <1>2, <1>4, <2>2
  <2> QED
    BY <1>1, <1>2, <2>2, <2>3, <2>4, <2>5, DialogStep
<1> QED
  BY <1>3, <1>4 DEF AnswerOther

\* The answer to the creation of an account resets the dialog, or leaves it.
LEMMA AnswerAccountStep ==
  ASSUME InstitutionInductive, NonePreselected, AnswerAccount
  PROVE  InstitutionInductive'
<1>1. /\ dialog \in Dialog /\ others \subseteq Other
      /\ dialog_log \in [opened : Nat, others : Nat, sent : Nat, saved : Nat]
      /\ MismatchIsLate /\ NotCarriedOver /\ UNCHANGED accounts
  BY DEF InstitutionInductive, InstitutionInvariant, AnswerAccount
<1>2. CASE UNCHANGED <<dialog, selector, others, dialog_log>>
  BY <1>1, <1>2, DialogStep DEF MismatchIsLate, NotCarriedOver
<1>3. CASE /\ dialog' = ResetDialog /\ Remount
           /\ dialog_log' = [dialog_log EXCEPT !.saved = @ + 1]
  <2> DEFINE x == ResetDialog
  <2>1. x \in Dialog /\ x.institution = NoInstitution
    BY InstitutionAssumption DEF NonePreselected, ResetDialog, EmptyDialog, Dialog
  <2>2. dialog' = x
    BY <1>3
  <2> HIDE DEF x
  <2>3. dialog_log' \in [opened : Nat, others : Nat, sent : Nat, saved : Nat]
    BY <1>1, <1>3
  <2>4. others' \subseteq Other
    BY <1>1, <1>3, RemountKeeps
  <2> QED
    BY <1>1, <2>1, <2>2, <2>3, <2>4, DialogStep
<1> QED
  BY <1>2, <1>3 DEF AnswerAccount

\* Steps that leave the form alone.
LEMMA BesideSteps ==
  ASSUME InstitutionInductive,
         ShowOther \/ CreateOther \/ (\E r \in others : ServeOther(r)) \/ SaveAccount
         \/ ServeAccount
  PROVE  InstitutionInductive'
<1>1. /\ dialog \in Dialog /\ others \subseteq Other
      /\ dialog_log \in [opened : Nat, others : Nat, sent : Nat, saved : Nat]
      /\ MismatchIsLate /\ NotCarriedOver /\ AccountsMatchInstitutions
  BY DEF InstitutionInductive, InstitutionInvariant
<1>2. UNCHANGED dialog
  BY DEF ShowOther, CreateOther, ServeOther, SaveAccount, ServeAccount
<1>3. /\ dialog_log' \in [opened : Nat, others : Nat, sent : Nat, saved : Nat]
      /\ dialog_log'.saved = dialog_log.saved
  BY <1>1 DEF ShowOther, CreateOther, ServeOther, SaveAccount, ServeAccount
<1>4. others' \subseteq Other
  <2>1. CASE CreateOther
    <3> DEFINE r == [own |-> TRUE, institution |-> KindOf[dialog.kind],
                     nth |-> dialog_log.saved, done |-> FALSE]
    <3>1. KindOf[dialog.kind] \in Institution
      BY <1>1, <2>1 DEF CreateOther, Mounted, Institution, Dialog
    <3>2. r \in Other
      BY <1>1, <3>1 DEF Other
    <3> QED
      BY <1>1, <2>1, <3>2 DEF CreateOther
  <2>2. ASSUME NEW r \in others, ServeOther(r) PROVE others' \subseteq Other
    <3>1. [r EXCEPT !.done = TRUE] \in Other
      BY <1>1 DEF Other
    <3> QED
      BY <1>1, <2>2, <3>1 DEF ServeOther
  <2>3. CASE ShowOther \/ SaveAccount \/ ServeAccount
    BY <1>1, <2>3 DEF ShowOther, SaveAccount, ServeAccount
  <2> QED
    BY <2>1, <2>2, <2>3
<1>5. AccountsMatchInstitutions'
  <2>1. CASE UNCHANGED accounts
    BY <1>1, <2>1 DEF AccountsMatchInstitutions
  <2>2. CASE ServeAccount
    BY <1>1, <2>2 DEF ServeAccount, ValidInstitution, AccountsMatchInstitutions
  <2> QED
    BY <2>1, <2>2 DEF ShowOther, CreateOther, ServeOther, SaveAccount
<1> QED
  BY <1>1, <1>2, <1>3, <1>4, <1>5 DEF InstitutionInductive, InstitutionInvariant,
     MismatchIsLate, NotCarriedOver

\* Every step of the institution picker keeps the invariant.
LEMMA InstitutionInductiveStep ==
  ASSUME NonePreselected
  PROVE  InstitutionInductive /\ [InstitutionNext]_institution_vars => InstitutionInductive'
<1> SUFFICES ASSUME InstitutionInductive, [InstitutionNext]_institution_vars
             PROVE  InstitutionInductive'
  OBVIOUS
<1>1. CASE UNCHANGED institution_vars
  BY <1>1 DEF institution_vars, InstitutionInductive, InstitutionInvariant, MismatchIsLate,
     NotCarriedOver, AccountsMatchInstitutions
<1>2. CASE InstitutionNext
  BY <1>2, OpenSteps, TypeStep, ChooseStep, BesideSteps, AnswerOtherStep, AnswerAccountStep
     DEF InstitutionNext
<1> QED
  BY <1>1, <1>2

\* While no page passes a preselectedInstitution, and none does: an institution in the
\* form is of the account's type, and of this account, unless its creation was answered
\* late; and none but one of its type ever gets into an account (validate_institution).
THEOREM InstitutionsKept ==
  ASSUME NonePreselected
  PROVE  InstitutionSpec => []InstitutionInvariant
<1>1. InstitutionInductive => InstitutionInvariant
  BY DEF InstitutionInductive
<1> QED
  BY <1>1, InstitutionInductiveInit, InstitutionInductiveStep, PTL DEF InstitutionSpec
=============================================================================
