---------------------------- MODULE ClientCache -----------------------------
(***************************************************************************)
(* One query of the client's cache, and the mutations that run beside it.  *)
(* Queries do not influence each other, so one stands for all: which one   *)
(* is a choice of the initial state.  The rules of fetching, invalidating  *)
(* and collecting are those of TanStack Query 5 with the defaults of       *)
(* query-client.ts: an entry is stale after a minute or when invalidated,  *)
(* an invalidation refetches what is mounted and restarts a fetch that is  *)
(* under way -- unless the entry has no data yet, when the fetch goes on.  *)
(* A request's transaction is committed by the code that follows the yield *)
(* of get_db_session, which runs when the answer has been sent: the client *)
(* may be told, refetch and be answered before the commit, or without it.  *)
(* A mutation is over when its transaction is; one at a time is observed,  *)
(* and writes by others stand for the rest.                                *)
(***************************************************************************)
EXTENDS Integers, FiniteSets

CONSTANTS
  Query, Mutation,
  Affects,      \* mutation -> the queries whose answer it changes
  Invalidates,  \* mutation -> the queries its hook invalidates
  Screen,       \* mutation -> the queries of the screens that issue it
  Forgets,      \* mutation -> those its hook is known to leave unmarked
  MaxWrites,    \* bound: writes of the server in one behaviour
  MaxFlights    \* bound: requests of the query under way, abandoned ones included

ASSUME CacheAssumption ==
  /\ Affects \in [Mutation -> SUBSET Query]
  /\ Invalidates \in [Mutation -> SUBSET Query]
  /\ Screen \in [Mutation -> SUBSET Query]
  /\ Forgets \in [Mutation -> SUBSET Query]
  /\ MaxWrites \in Nat
  /\ MaxFlights \in Nat \ {0}

VARIABLES
  query,    \* the query under observation
  truth,    \* version of the answer the server would give now
  entry,    \* the cache entry
  flight,   \* the requests of the query on their way, current or abandoned
  mutation, \* one mutation: its effect and how far it has come
  acked,    \* history: the last write that has succeeded for its own screen
  exposed   \* history: the mark of that success may have been used up by an
            \* answer from before the write

vars == <<query, truth, entry, flight, mutation, acked, exposed>>

NoData == -1
Fetch == 0 .. MaxFlights - 1
NoFetch == MaxFlights

\* What a mutation means to the query: its hook writes what the query reads,
\* invalidates it, is issued from a screen that shows it and relies on the hook.
Effect(h) == [writes |-> query \in Affects[h], invalidates |-> query \in Invalidates[h],
              shown |-> query \in (Screen[h] \cap Affects[h]) \ Forgets[h]]
NoEffect == [writes |-> FALSE, invalidates |-> FALSE, shown |-> FALSE]
NoMutation == [effect |-> NoEffect, stage |-> "idle", told |-> FALSE, version |-> 0]

Init ==
  /\ query \in Query
  /\ truth = 0
  /\ entry = [data |-> NoData, invalid |-> FALSE, error |-> FALSE,
              mounted |-> FALSE, fetch |-> NoFetch]
  /\ flight = {}
  /\ mutation = NoMutation
  /\ acked = NoData /\ exposed = FALSE

Fetching(e) == e.fetch # NoFetch

\* Numbers are used again, the lowest first.
Free(f) == /\ \A r \in flight : r.fetch # f
           /\ \A g \in 0 .. f - 1 : \E r \in flight : r.fetch = g

\* A request has been sent; what it reads is decided when the server does.
Sent(f) == [fetch |-> f, read |-> NoData]

\* The hooks of a query mount: without data, after an invalidation or after
\* a minute (which may pass at any time) a fetch starts; one under way is joined.
Mount ==
  /\ ~entry.mounted
  /\ \/ /\ ~Fetching(entry)
        /\ \E f \in Fetch :
             /\ Free(f)
             /\ entry' = [entry EXCEPT !.mounted = TRUE, !.fetch = f]
             /\ flight' = flight \cup {Sent(f)}
     \/ /\ Fetching(entry) \/ (entry.data # NoData /\ ~entry.invalid)
        /\ entry' = [entry EXCEPT !.mounted = TRUE]
        /\ UNCHANGED flight
  /\ UNCHANGED <<query, truth, mutation, acked, exposed>>

\* The last component that uses the query leaves; its fetch goes on.
Unmount ==
  /\ entry.mounted
  /\ entry' = [entry EXCEPT !.mounted = FALSE]
  /\ UNCHANGED <<query, truth, flight, mutation, acked, exposed>>

\* The browser is online again: what is mounted and stale is fetched.
Reconnect ==
  /\ entry.mounted /\ ~Fetching(entry)
  /\ \E f \in Fetch :
       /\ Free(f)
       /\ entry' = [entry EXCEPT !.fetch = f]
       /\ flight' = flight \cup {Sent(f)}
  /\ UNCHANGED <<query, truth, mutation, acked, exposed>>

\* The server evaluates the request.
Read(r) ==
  /\ r.read = NoData
  /\ flight' = (flight \ {r}) \cup {[r EXCEPT !.read = truth]}
  /\ UNCHANGED <<query, truth, entry, mutation, acked, exposed>>

\* The answer of an abandoned request is dropped.
CurrentFaulty(r) == r.read # NoData
Current(r) == r.fetch = entry.fetch

Arrive(r) ==
  /\ r.read # NoData
  /\ flight' = flight \ {r}
  /\ IF Current(r)
       THEN /\ entry' = [entry EXCEPT !.data = r.read, !.invalid = FALSE,
                                      !.error = FALSE, !.fetch = NoFetch]
            /\ exposed' = (exposed /\ r.read < acked)
       ELSE UNCHANGED <<entry, exposed>>
  /\ UNCHANGED <<query, truth, mutation, acked>>

\* The retries are used up: the data stays, marked as failed.
Fail(r) ==
  /\ flight' = flight \ {r}
  /\ IF Current(r)
       THEN /\ entry' = [entry EXCEPT !.error = TRUE, !.fetch = NoFetch]
            /\ exposed' = (exposed /\ ~entry.invalid)
       ELSE UNCHANGED <<entry, exposed>>
  /\ UNCHANGED <<query, truth, mutation, acked>>

\* Five minutes without an observer.
CollectableFaulty == ~Fetching(entry) /\ entry.data # NoData
Collectable == ~entry.mounted /\ ~Fetching(entry) /\ entry.data # NoData

Collect ==
  /\ Collectable
  /\ entry' = [entry EXCEPT !.data = NoData, !.invalid = FALSE, !.error = FALSE]
  /\ exposed' = FALSE
  /\ UNCHANGED <<query, truth, flight, mutation, acked>>

-----------------------------------------------------------------------------
(* Mutations *)

Mutate(h) ==
  /\ mutation.stage = "idle"
  /\ mutation' = [NoMutation EXCEPT !.effect = Effect(h), !.stage = "sent"]
  /\ UNCHANGED <<query, truth, entry, flight, acked, exposed>>

\* The answer to a refetch was made up before the write, and is shown as fresh or
\* on its way.
Overtaken ==
  \/ entry.data # NoData /\ ~entry.invalid
  \/ \E r \in flight : Current(r) /\ r.read # NoData

\* The handler has run and its transaction is committed, before the client is told
\* or after.
Commit ==
  /\ mutation.stage = "sent"
  /\ IF mutation.effect.writes
       THEN truth < MaxWrites /\ truth' = truth + 1
       ELSE UNCHANGED truth
  /\ IF mutation.told
       THEN mutation' = NoMutation
       ELSE mutation' = [mutation EXCEPT !.stage = "committed", !.version = truth']
  /\ IF mutation.told /\ mutation.effect.shown
       THEN acked' = truth' /\ exposed' = (exposed \/ Overtaken)
       ELSE UNCHANGED <<acked, exposed>>
  /\ UNCHANGED <<query, entry, flight>>

\* The commit fails: the client has been told of a success that is none.  (One
\* that fails before the client is told looks the same to it.)
RollBack ==
  /\ mutation.stage = "sent" /\ mutation.told
  /\ mutation' = NoMutation
  /\ UNCHANGED <<query, truth, entry, flight, acked, exposed>>

\* Another tab, another member of the household.
Elsewhere ==
  /\ truth < MaxWrites
  /\ truth' = truth + 1
  /\ UNCHANGED <<query, entry, flight, mutation, acked, exposed>>

\* invalidateQueries: with data, a running fetch is abandoned for a new one.
RefetchesFaulty == entry.mounted /\ ~Fetching(entry)
Refetches == entry.mounted /\ (Fetching(entry) => entry.data # NoData)

Invalidate ==
  IF Refetches
    THEN \E f \in Fetch :
           /\ Free(f)
           /\ entry' = [entry EXCEPT !.invalid = TRUE, !.fetch = f]
           /\ flight' = flight \cup {Sent(f)}
    ELSE /\ entry' = [entry EXCEPT !.invalid = (entry.data # NoData \/ Fetching(entry))]
         /\ UNCHANGED flight

\* onSuccess: the queries of the hook are invalidated, whether the transaction is
\* committed yet or not.
Succeed ==
  /\ mutation.stage # "idle" /\ ~mutation.told
  /\ IF mutation.stage = "committed"
       THEN mutation' = NoMutation
       ELSE mutation' = [mutation EXCEPT !.told = TRUE]
  /\ IF mutation.effect.invalidates
       THEN /\ Invalidate
            /\ exposed' = (Fetching(entry) /\ ~(entry.mounted /\ entry.data # NoData))
       ELSE UNCHANGED <<entry, flight, exposed>>
  /\ acked' = IF mutation.stage = "committed" /\ mutation.effect.shown
                THEN mutation.version ELSE acked
  /\ UNCHANGED <<query, truth>>

\* Refused, or the answer is lost: onSuccess does not run, nothing is invalidated.
\* What the server still commits is a write of another.
Reject ==
  /\ mutation.stage # "idle" /\ ~mutation.told
  /\ mutation' = NoMutation
  /\ UNCHANGED <<query, truth, entry, flight, acked, exposed>>

Next ==
  \/ Mount \/ Unmount \/ Reconnect \/ Collect
  \/ \E r \in flight : Read(r) \/ Arrive(r) \/ Fail(r)
  \/ \E h \in Mutation : Mutate(h)
  \/ Commit \/ RollBack \/ Succeed \/ Reject \/ Elsewhere

Spec == Init /\ [][Next]_vars

\* Requests are answered; that they fail is never fair.
AnswersArrive ==
  \A f \in Fetch :
    WF_vars(\E r \in flight : r.fetch = f /\ (Read(r) \/ Arrive(r)))

FairSpec == Spec /\ AnswersArrive

-----------------------------------------------------------------------------
(* Properties *)

CacheTypeOK ==
  /\ query \in Query
  /\ truth \in 0 .. MaxWrites
  /\ entry \in [data : NoData .. MaxWrites, invalid : BOOLEAN, error : BOOLEAN,
                mounted : BOOLEAN, fetch : Fetch \cup {NoFetch}]
  /\ entry.mounted => entry.data # NoData \/ Fetching(entry) \/ entry.error
  /\ flight \subseteq [fetch : Fetch, read : NoData .. MaxWrites]
  /\ mutation \in [effect : [writes : BOOLEAN, invalidates : BOOLEAN, shown : BOOLEAN],
                   stage : {"idle", "sent", "committed"}, told : BOOLEAN,
                   version : 0 .. MaxWrites]
  /\ acked \in NoData .. MaxWrites
  /\ exposed \in BOOLEAN

\* A screen whose write has succeeded and that still shows the answer from before
\* knows that it is stale (use-*.ts, the onSuccess of every mutation) -- unless an
\* answer from before the write came after the mark: the one of a fetch that was
\* under way at the success and was not restarted, or that of a refetch that the
\* server evaluated before it committed (dependencies.py).
OwnWriteIsNoticed ==
  (entry.data # NoData /\ entry.data < acked) => (entry.invalid \/ exposed)

\* The entry beside the mutations: consistent with its fetches and observers, and
\* never behind the user's own write without knowing it.
CacheInvariant == CacheTypeOK /\ OwnWriteIsNoticed

\* The cache keeps the promise the screens rely on: its data never goes back.
View == INSTANCE CachedView WITH truth <- truth, view <- entry.data

ViewSpec == View!Spec

\* Once the writes stop, a screen that stays open comes to show its own last
\* write, unless the refetch failed (the last data stays) or used up the mark with
\* an answer from before the write.
OwnWriteIsShown ==
  <>[](mutation.stage = "idle") =>
    \A v \in 1 .. MaxWrites :
      (acked >= v /\ entry.mounted)
        ~> (entry.data >= v \/ entry.error \/ ~entry.mounted \/ exposed)
=============================================================================
