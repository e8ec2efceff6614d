--------------------------- MODULE LedgerSessions ---------------------------
(***************************************************************************)
(* Requests on transfers and accounts that run at the same time.  Every    *)
(* request has a database session of its own (get_db_session): the         *)
(* transaction is READ COMMITTED, a read sees what is committed when it    *)
(* runs, an UPDATE locks its row until the transaction ends, and the ORM   *)
(* writes back the value that it computed from the row it has loaded.      *)
(* PostgreSQL and the unit of work of SQLAlchemy are external: they are    *)
(* modelled from what the code asks of them.                               *)
(***************************************************************************)
EXTENDS Integers, Sequences, FiniteSets

CONSTANTS
  Session,   \* requests that may be open, one database session each
  Account,   \* account ids; a flush updates rows in the order of their ids
  Transfer,  \* transfer ids (uuid4: each is created at most once)
  From, To,  \* transfer -> account
  Kind       \* the requests clients send: "create", "delete", "close"

Nobody == "nobody"

ASSUME SessionsAssumption ==
  /\ Nobody \notin Session
  /\ Account \subseteq Nat /\ IsFiniteSet(Account)
  /\ Transfer \subseteq Nat /\ IsFiniteSet(Transfer)
  /\ From \in [Transfer -> Account] /\ To \in [Transfer -> Account]
  /\ \A x \in Transfer : From[x] # To[x]
  /\ Kind \subseteq {"create", "delete", "close"}

\* The two legs of transfer x have consecutive ids, the debit leg the lower.
Debit(x) == 2 * x
Credit(x) == 2 * x + 1
Leg == {Debit(x) : x \in Transfer} \cup {Credit(x) : x \in Transfer}
TransferOf == [l \in Leg |-> l \div 2]
AccountOf ==
  [l \in Leg |-> IF l % 2 = 0 THEN From[l \div 2] ELSE To[l \div 2]]

Row == ({"accounts"} \X Account) \cup ({"transactions"} \X Leg)
AccountRow(a) == <<"accounts", a>>
LegRow(l) == <<"transactions", l>>

VARIABLES
  balance,    \* committed balance_minor of every account
  live,       \* accounts whose committed row is active
  active,     \* legs whose committed row is active
  used,       \* transfer ids given out
  job,        \* the state of every session
  lock,       \* row -> the session that holds its row lock
  contended   \* accounts that two open requests were about at one time

vars == <<balance, live, active, used, job, lock, contended>>

Idle == [kind |-> "none", status |-> "idle", about |-> {}, todo |-> <<>>,
         want |-> {}, loaded |-> [a \in {} |-> 0], legs |-> {}]

Open(s) == job[s].status = "open"

\* What the amount (one unit) of a leg does to the balance of its account.
Effect(l) == IF l % 2 = 0 THEN -1 ELSE 1

Init ==
  /\ used \in SUBSET Transfer
  /\ active = {l \in Leg : TransferOf[l] \in used}
  /\ balance = [a \in Account |->
                  Cardinality({x \in used : To[x] = a})
                    - Cardinality({x \in used : From[x] = a})]
  /\ live = Account
  /\ job = [s \in Session |-> Idle]
  /\ lock = [r \in Row |-> Nobody]
  /\ contended = {}

-----------------------------------------------------------------------------
(* Sessions *)

Start(s, kind, about, todo, legs) ==
  /\ job[s].status = "idle" /\ kind \in Kind
  /\ job' = [job EXCEPT ![s] =
               [Idle EXCEPT !.kind = kind, !.status = "open", !.about = about,
                            !.todo = todo, !.legs = legs]]
  /\ contended' = contended \cup
       {a \in about : \E t \in Session : Open(t) /\ a \in job[t].about}

\* The row locks of the session, once its transaction has ended.
ReleaseFaulty(s) ==
  [r \in Row |-> IF lock[r] = s /\ job[s].todo = <<>> /\ job[s].want = {}
                 THEN Nobody ELSE lock[r]]
Release(s) == [r \in Row |-> IF lock[r] = s THEN Nobody ELSE lock[r]]

End(s, status) ==
  /\ job' = [job EXCEPT ![s] = [Idle EXCEPT !.status = status]]
  /\ lock' = Release(s)
  /\ UNCHANGED contended

\* The rows the session may ask a lock for next.  A flush updates accounts
\* before transactions (the unit of work sorts classes by name), each in the
\* order of the ids; closing an account updates its legs by one statement,
\* in an order that is the database's, and the account after them.
CandidatesFaulty(s) == job[s].want
Candidates(s) ==
  LET want == job[s].want
      legs == want \cap ({"transactions"} \X Leg)
      accts == want \ legs
      Least(rows) == {r \in rows : \A q \in rows : r[2] <= q[2]}
  IN  IF job[s].kind = "close"
        THEN IF legs # {} THEN legs ELSE accts
        ELSE IF accts # {} THEN Least(accts) ELSE Least(legs)

WaitsFor(s, t) ==
  /\ Open(s) /\ t # s
  /\ \E r \in Candidates(s) : lock[r] = t

\* The sessions that s waits for, directly or through others.
Blockers(s) ==
  {t \in Session :
     \A S \in SUBSET Session :
       /\ \A u \in Session : WaitsFor(s, u) => u \in S
       /\ \A u \in S, v \in Session : WaitsFor(u, v) => v \in S
       => t \in S}

Deadlocked(s) == s \in Blockers(s)

\* One row updated: its lock is taken, the new version is not visible yet.
WriteRow(s) ==
  /\ Open(s)
  /\ \E r \in Candidates(s) :
       /\ lock[r] = Nobody
       /\ lock' = [lock EXCEPT ![r] = s]
       /\ job' = [job EXCEPT ![s].want = @ \ {r}]
  /\ UNCHANGED <<balance, live, active, used, contended>>

\* Nothing left to load and nothing left to flush.
Finished(s) == Open(s) /\ job[s].todo = <<>> /\ job[s].want = {}

\* balance_minor of every account the request has loaded and changed is
\* overwritten with what it computed when it loaded it.
OverwrittenFaulty(s) ==
  [a \in Account |-> IF a \in DOMAIN job[s].loaded /\ job[s].kind = "create"
                       THEN job[s].loaded[a] ELSE balance[a]]
Overwritten(s) ==
  [a \in Account |-> IF a \in DOMAIN job[s].loaded THEN job[s].loaded[a]
                     ELSE balance[a]]

-----------------------------------------------------------------------------
(* create_transfer *)

BeginCreate(s, x) ==
  /\ x \notin used
  /\ used' = used \cup {x}
  /\ Start(s, "create", {From[x], To[x]}, <<From[x], To[x]>>,
           {Debit(x), Credit(x)})
  /\ UNCHANGED <<balance, live, active, lock>>

LegOn(s, a) == CHOOSE l \in job[s].legs : AccountOf[l] = a

\* Load an account; a deleted one ends the request, and the second one is
\* followed by the flush of both balances.
LoadForCreate(s) ==
  /\ Open(s) /\ job[s].kind = "create" /\ job[s].todo # <<>>
  /\ LET a == Head(job[s].todo)
     IN  IF a \in live
           THEN /\ job' = [job EXCEPT
                     ![s].todo = Tail(@),
                     ![s].loaded = [b \in DOMAIN @ \cup {a} |->
                        IF b = a THEN balance[a] + Effect(LegOn(s, a)) ELSE @[b]],
                     ![s].want = IF Tail(job[s].todo) = <<>>
                                   THEN {AccountRow(b) : b \in job[s].about}
                                   ELSE {}]
                /\ UNCHANGED <<lock, contended>>
           ELSE End(s, "failed")
  /\ UNCHANGED <<balance, live, active, used>>

CommitCreate(s) ==
  /\ Finished(s) /\ job[s].kind = "create"
  /\ balance' = Overwritten(s)
  /\ active' = active \cup job[s].legs
  /\ End(s, "done")
  /\ UNCHANGED <<live, used>>

(* delete_transfer *)

\* The legs that are active now, in any order (the SELECT has no ORDER BY).
BeginDelete(s, x) ==
  /\ x \in used
  /\ LET legs == {Debit(x), Credit(x)} \cap active
     IN  /\ legs # {}
         /\ \E order \in {<<Debit(x), Credit(x)>>, <<Credit(x), Debit(x)>>,
                          <<Debit(x)>>, <<Credit(x)>>} :
              /\ {order[i] : i \in DOMAIN order} = legs
              /\ Start(s, "delete", {From[x], To[x]}, order, legs)
  /\ UNCHANGED <<balance, live, active, used, lock>>

\* The account of the next leg.  What is dirty is flushed before the query
\* (autoflush), so nothing may be waiting to be written.
LoadForDelete(s) ==
  /\ Open(s) /\ job[s].kind = "delete" /\ job[s].todo # <<>>
  /\ job[s].want = {}
  /\ LET l == Head(job[s].todo)
         a == AccountOf[l]
     IN  job' = [job EXCEPT
           ![s].todo = Tail(@),
           ![s].loaded = [b \in DOMAIN @ \cup {a} |->
              IF b = a THEN balance[a] - Effect(l) ELSE @[b]],
           ![s].want = {AccountRow(a), LegRow(l)}]
  /\ UNCHANGED <<balance, live, active, used, lock, contended>>

CommitDelete(s) ==
  /\ Finished(s) /\ job[s].kind = "delete"
  /\ balance' = Overwritten(s)
  /\ active' = active \ job[s].legs
  /\ End(s, "done")
  /\ UNCHANGED <<live, used>>

(* soft_delete_account *)

\* The account is loaded, active.
BeginClose(s, a) ==
  /\ a \in live
  /\ Start(s, "close", {a}, <<a>>, {})
  /\ UNCHANGED <<balance, live, active, used, lock>>

\* The ids of its active legs are read; they and the account get written.
SelectForClose(s) ==
  /\ Open(s) /\ job[s].kind = "close" /\ job[s].todo # <<>>
  /\ LET a == Head(job[s].todo)
         legs == {l \in active : AccountOf[l] = a}
     IN  job' = [job EXCEPT
           ![s].todo = <<>>,
           ![s].legs = legs,
           ![s].want = {LegRow(l) : l \in legs} \cup {AccountRow(a)}]
  /\ UNCHANGED <<balance, live, active, used, lock, contended>>

CommitClose(s) ==
  /\ Finished(s) /\ job[s].kind = "close"
  /\ active' = active \ job[s].legs
  /\ live' = live \ job[s].about
  /\ End(s, "done")
  /\ UNCHANGED <<balance, used>>

(* Failures *)

\* The database picks a victim among the sessions of a deadlock.
AbortDeadlocked(s) ==
  /\ Open(s) /\ Deadlocked(s)
  /\ End(s, "failed")
  /\ UNCHANGED <<balance, live, active, used>>

\* The process or the connection is lost before the commit: all of it is
\* rolled back.
CrashFaulty(s) ==
  /\ Open(s)
  /\ active' = active \ {l \in job[s].legs : lock[LegRow(l)] = s}
  /\ End(s, "failed")
  /\ UNCHANGED <<balance, live, used>>
Crash(s) ==
  /\ Open(s)
  /\ End(s, "failed")
  /\ UNCHANGED <<balance, live, active, used>>

-----------------------------------------------------------------------------
Begin(s) ==
  \/ \E x \in Transfer : BeginCreate(s, x) \/ BeginDelete(s, x)
  \/ \E a \in Account : BeginClose(s, a)

Step(s) ==
  \/ LoadForCreate(s) \/ LoadForDelete(s) \/ SelectForClose(s)
  \/ WriteRow(s)
  \/ CommitCreate(s) \/ CommitDelete(s) \/ CommitClose(s)
  \/ AbortDeadlocked(s)

Next == \E s \in Session : Begin(s) \/ Step(s) \/ Crash(s)

Spec == Init /\ [][Next]_vars

\* The event loop resumes every coroutine whose query has been answered, the
\* database grants a free row lock and resolves deadlocks.
Fairness == \A s \in Session : WF_vars(Step(s))

FairSpec == Spec /\ Fairness

-----------------------------------------------------------------------------
(* Properties *)

\* Types; a row lock belongs to an open session that has written the row.
TypeOK ==
  /\ balance \in [Account -> Int]
  /\ live \subseteq Account /\ active \subseteq Leg /\ used \subseteq Transfer
  /\ contended \subseteq Account
  /\ lock \in [Row -> Session \cup {Nobody}]
  /\ \A r \in Row :
       lock[r] # Nobody => Open(lock[r]) /\ r \notin job[lock[r]].want
  /\ \A s \in Session :
       /\ job[s].kind \in Kind \cup {"none"}
       /\ job[s].status \in {"idle", "open", "done", "failed"}
       /\ job[s].want \subseteq Row /\ job[s].legs \subseteq Leg
       /\ DOMAIN job[s].loaded \subseteq Account

LegSum(a) ==
  Cardinality({l \in active : AccountOf[l] = a /\ Effect(l) = 1})
    - Cardinality({l \in active : AccountOf[l] = a /\ Effect(l) = -1})

\* A live account that no two open requests were about at one time has, in
\* every committed state, the balance its active legs add up to: overlapping
\* requests on other accounts, failed requests, deadlock victims and crashes
\* in the middle of a flush do not disturb it.
UncontendedBalance ==
  \A a \in live \ contended : balance[a] = LegSum(a)

\* Requests that create transfers never deadlock among themselves, however
\* their accounts cross: the flush takes the two row locks in the order of
\* the ids.  Every deadlock has a deletion in it.
CreatesNeverDeadlock ==
  \A s \in Session :
    Deadlocked(s) => \E t \in Blockers(s) : job[t].kind # "create"

\* Every request gets its answer: no lock is kept by a session that has
\* ended and no wait lasts for ever.
EveryRequestEnds == \A s \in Session : Open(s) ~> ~Open(s)

\* The legs in the committed table change by whole transfers, whatever
\* interleaves, fails or crashes.
Legs == INSTANCE TransferBook
LegsAreBooked == Legs!Spec
=============================================================================
